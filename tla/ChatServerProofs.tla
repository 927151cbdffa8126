--------------------------- MODULE ChatServerProofs ---------------------------
(***************************************************************************)
(* Proofs about ChatServer, for any set of process numbers, any limit on   *)
(* the users and any number of texts, signals and clients.                 *)
(***************************************************************************)
EXTENDS ChatServer, TLAPS

(* TableMatches is inductive together with the types: a process that ends   *)
(* is found at the place that sub_process gives for it, and the last entry  *)
(* is another process unless it is this one.                                *)
IInv == TypeOK /\ TableMatches

(* TypeOK in parts that few actions change together.                        *)
TableType == /\ users \in [Entries -> Pids \cup {NULL}] /\ user_count \in Entries
             /\ sub_process \in [Pids -> Slots \cup {-1}]
Process == [pc : PC, idx : Slots, stop_child : BOOLEAN]
ProcType == proc \in [Pids -> Process]
SignalType == signals \in Seq(SignalBytes) /\ sig_pipe \in Seq(SignalBytes)
TextType == /\ share_mem \in [Slots -> Pids \cup {NULL}]
            /\ to_parent \in [Pids -> Seq(Slots)] /\ to_child \in [Pids -> Seq(Slots)]
EdgeType == parentEdge \in [Pids -> BOOLEAN] /\ childEdge \in [Pids -> BOOLEAN]
Client == [unread : Nat, eof : BOOLEAN, edge : BOOLEAN]
ConnType == conn \in [Pids -> Client]
FlagType == /\ terminate \in BOOLEAN /\ parent \in {"run", "stopping", "gone"}
            /\ moved \in BOOLEAN /\ excused \in BOOLEAN
CountType == texts \in Nat /\ terms \in Nat /\ forks \in Nat

LEMMA TypeParts ==
  TypeOK <=> /\ TableType /\ ProcType /\ SignalType /\ TextType
             /\ EdgeType /\ ConnType /\ FlagType /\ CountType
BY DEF TypeOK, TableType, Process, ProcType, SignalType, TextType, EdgeType, Client, ConnType,
       FlagType, CountType

LEMMA NextTypeParts ==
  TableType' /\ ProcType' /\ SignalType' /\ TextType' /\ EdgeType' /\ ConnType' /\ FlagType'
    /\ CountType' => TypeOK'
BY DEF TypeOK, TableType, Process, ProcType, SignalType, TextType, EdgeType, Client, ConnType,
       FlagType, CountType

(* The parts that a step leaves alone.                                      *)
LEMMA PartsKept ==
  /\ TableType /\ UNCHANGED <<users, user_count, sub_process>> => TableType'
  /\ ProcType /\ UNCHANGED proc => ProcType'
  /\ SignalType /\ UNCHANGED <<signals, sig_pipe>> => SignalType'
  /\ TextType /\ UNCHANGED <<share_mem, to_parent, to_child>> => TextType'
  /\ EdgeType /\ UNCHANGED <<parentEdge, childEdge>> => EdgeType'
  /\ ConnType /\ UNCHANGED conn => ConnType'
  /\ FlagType /\ UNCHANGED <<terminate, parent, moved, excused>> => FlagType'
  /\ CountType /\ UNCHANGED boundVars => CountType'
BY DEF TableType, ProcType, SignalType, TextType, EdgeType, ConnType, FlagType, CountType, boundVars

(* Adding a byte to the pipe of the signals keeps its type.                 *)
LEMMA PipeType ==
  ASSUME NEW s \in Seq(SignalBytes)
  PROVE  WithTerm(s) \in Seq(SignalBytes) /\ WithChld(s) \subseteq Seq(SignalBytes)
<1>1. {"term", "chld"} \subseteq SignalBytes
  BY DEF SignalBytes
<1> QED
  BY <1>1 DEF WithTerm, WithChld
-----------------------------------------------------------------------------
LEMMA InitIInv == Init => IInv
<1> SUFFICES ASSUME Init PROVE IInv
  OBVIOUS
<1> USE ChatAssumption DEF Entries, Slots
<1>1. TableType /\ SignalType /\ TextType
  BY DEF Init, TableType, SignalType, TextType
<1>2. ProcType
  <2>1. NoProcess \in Process
    BY DEF NoProcess, Process, PC
  <2> QED
    BY <2>1 DEF Init, ProcType
<1>3. ConnType
  <2>1. NoClient \in Client
    BY DEF NoClient, Client
  <2> QED
    BY <2>1 DEF Init, ConnType
<1>4. EdgeType /\ FlagType /\ CountType
  BY DEF Init, EdgeType, FlagType, CountType
<1>5. TableMatches
  BY DEF Init, TableMatches, NoProcess
<1> QED
  BY <1>1, <1>2, <1>3, <1>4, <1>5, TypeParts DEF IInv
-----------------------------------------------------------------------------
(* TypeOK: the clients' steps, those of the parent, those of a child.       *)
LEMMA EnvironmentType ==
  ASSUME TypeOK, NEW p \in Pids, ClientText(p) \/ ClientClose(p)
  PROVE  TypeOK'
<1> USE TypeParts, NextTypeParts, PartsKept
<1> USE DEF parentVars, pipeVars, boundVars, historyVars
<1>1. CASE ClientText(p)
  <2>1. ConnType'
    <3>0. conn[p] \in Client /\ conn[p].unread + 1 \in Nat
      BY DEF ConnType, Client
    <3>1. [conn[p] EXCEPT !.unread = @ + 1, !.edge = TRUE] \in Client
      BY <3>0 DEF Client
    <3>2. conn' = [conn EXCEPT ![p] = [conn[p] EXCEPT !.unread = @ + 1, !.edge = TRUE]]
      BY <1>1 DEF ClientText, ConnType, Client
    <3> QED
      BY <3>1, <3>2 DEF ConnType
  <2>2. CountType'
    BY <1>1 DEF ClientText, CountType
  <2> QED
    BY <1>1, <2>1, <2>2 DEF ClientText
<1>2. CASE ClientClose(p)
  <2>1. ConnType'
    <3>1. [conn[p] EXCEPT !.eof = TRUE, !.edge = TRUE] \in Client
      BY DEF ConnType, Client
    <3>2. conn' = [conn EXCEPT ![p] = [conn[p] EXCEPT !.eof = TRUE, !.edge = TRUE]]
      BY <1>2 DEF ClientClose, ConnType, Client
    <3> QED
      BY <3>1, <3>2 DEF ConnType
  <2> QED
    BY <1>2, <2>1 DEF ClientClose
<1> QED
  BY <1>1, <1>2

LEMMA AcceptType ==
  ASSUME TypeOK, NEW p \in Pids, Accept(p)
  PROVE  TypeOK'
<1> USE ChatAssumption, TypeParts, NextTypeParts, PartsKept
<1> USE DEF Slots, Entries
<1>1. user_count \in Slots /\ user_count + 1 \in Entries
  BY DEF Accept, TableType
<1>2. TableType'
  BY <1>1 DEF Accept, TableType
<1>3. ProcType'
  <2>1. [proc[p] EXCEPT !.pc = "forked", !.idx = user_count] \in Process
    BY <1>1 DEF ProcType, Process, PC
  <2>2. proc' = [proc EXCEPT ![p] = [proc[p] EXCEPT !.pc = "forked", !.idx = user_count]]
    BY DEF Accept, ProcType, Process
  <2> QED
    BY <2>1, <2>2 DEF ProcType
<1>4. FlagType'
  BY DEF Accept, FlagType
<1>5. CountType'
  BY DEF Accept, CountType
<1> QED
  BY <1>2, <1>3, <1>4, <1>5 DEF Accept, pipeVars

LEMMA ForwardType ==
  ASSUME TypeOK, NEW p \in Pids, Forward(p)
  PROVE  TypeOK'
<1> USE TypeParts, NextTypeParts, PartsKept
<1> USE DEF parentVars, boundVars, historyVars
<1>1. EdgeType'
  BY DEF Forward, EdgeType
<1>2. TextType'
  <2>1. CASE to_parent[p] = <<>>
    BY <2>1 DEF Forward, TextType
  <2>2. CASE to_parent[p] # <<>>
    <3>1. Tail(to_parent[p]) \in Seq(Slots) /\ Head(to_parent[p]) \in Slots
      BY <2>2 DEF TextType
    <3>2. to_parent' = [to_parent EXCEPT ![p] = Tail(@)]
      BY <2>2 DEF Forward
    <3>3. \A q \in Pids : Append(to_child[q], Head(to_parent[p])) \in Seq(Slots)
      BY <3>1 DEF TextType
    <3>4. to_child' \in [Pids -> Seq(Slots)]
      BY <2>2, <3>3, ZenonT(60) DEF Forward, TextType
    <3>5. to_parent' \in [Pids -> Seq(Slots)]
      BY <3>1, <3>2 DEF TextType
    <3> QED
      BY <3>4, <3>5 DEF Forward, TextType
  <2> QED
    BY <2>1, <2>2
<1> QED
  BY <1>1, <1>2 DEF Forward

(* The bytes of the signals: they are read, and handled one by one.         *)
LEMMA SignalsType ==
  ASSUME TypeOK, RecvSignals \/ WaitpidNone \/ Exit
  PROVE  TypeOK'
<1> USE TypeParts, NextTypeParts, PartsKept
<1> USE DEF pipeVars, historyVars
<1>1. SignalType'
  <2>1. <<>> \in Seq(SignalBytes)
    OBVIOUS
  <2>2. signals # <<>> => Tail(signals) \in Seq(SignalBytes)
    BY DEF SignalType
  <2> QED
    BY <2>1, <2>2 DEF RecvSignals, WaitpidNone, Exit, SignalType
<1>2. FlagType'
  BY DEF RecvSignals, WaitpidNone, Exit, FlagType
<1> QED
  BY <1>1, <1>2 DEF RecvSignals, WaitpidNone, Exit

LEMMA SigTermType ==
  ASSUME TypeOK, SigTerm
  PROVE  TypeOK'
<1> USE TypeParts, NextTypeParts, PartsKept
<1> USE DEF pipeVars
<1>1. SignalType'
  <2>1. Tail(signals) \in Seq(SignalBytes)
    BY DEF SigTerm, SignalType
  <2>2. sig_pipe' \in Seq(SignalBytes)
    BY PipeType DEF SigTerm, SignalType
  <2> QED
    BY <2>1, <2>2 DEF SigTerm, SignalType
<1>2. ProcType'
  <2>1. ASSUME NEW c \in Process PROVE Killed(c) \in Process
    BY DEF Killed, Process, PC
  <2> QED
    BY <2>1 DEF SigTerm, ProcType
<1>3. FlagType'
  BY DEF SigTerm, FlagType
<1> QED
  BY <1>1, <1>2, <1>3 DEF SigTerm

(* The entry that is moved exists, because p has one.                       *)
LEMMA WaitpidType ==
  ASSUME IInv, NEW p \in Pids, Waitpid(p)
  PROVE  TypeOK'
<1> USE ChatAssumption, TypeParts, NextTypeParts, PartsKept DEF IInv
<1> USE DEF boundVars
<1>1. TableType'
  <2>1. /\ sub_process[p] \in 0 .. user_count - 1
        /\ user_count \in 0 .. USER_LIMIT /\ USER_LIMIT \in Nat
    BY DEF Waitpid, TableMatches, TableType, Entries
  <2>2. users[user_count - 1] \in Pids
    BY <2>1 DEF TableMatches
  <2>3. /\ users' = [users EXCEPT ![sub_process[p]] = users[user_count - 1],
                                  ![user_count - 1] = NULL]
        /\ sub_process' = Reindex(p, sub_process[p], users[user_count - 1])
        /\ user_count' = user_count - 1
    BY <2>1 DEF Waitpid
  <2>4. sub_process' \in [Pids -> Slots \cup {-1}]
    BY <2>1, <2>2, <2>3 DEF Reindex, TableType, Slots
  <2>5. users' \in [Entries -> Pids \cup {NULL}]
    BY <2>1, <2>2, <2>3 DEF TableType, Entries
  <2> QED
    BY <2>1, <2>3, <2>4, <2>5 DEF TableType, Entries
<1>2. ProcType'
  <2>1. NoProcess \in Process
    BY DEF NoProcess, Process, PC, Slots
  <2> QED
    BY <2>1 DEF Waitpid, ProcType
<1>3. TextType'
  <2>1. <<>> \in Seq(Slots)
    OBVIOUS
  <2>2. share_mem' \in [Slots -> Pids \cup {NULL}]
    BY DEF Waitpid, TextType
  <2> QED
    BY <2>1, <2>2 DEF Waitpid, TextType
<1>4. EdgeType'
  BY DEF Waitpid, EdgeType
<1>5. FlagType'
  <2>1. moved' \in BOOLEAN
    BY DEF Waitpid, FlagType
  <2> QED
    BY <2>1 DEF Waitpid, FlagType
<1>6. SignalType' /\ ConnType' /\ CountType'
  BY DEF Waitpid
<1> QED
  BY <1>1, <1>2, <1>3, <1>4, <1>5, <1>6

LEMMA ChildType ==
  ASSUME TypeOK, NEW p \in Pids, Child(p)
  PROVE  TypeOK'
<1> USE TypeParts, NextTypeParts, PartsKept
<1> USE DEF parentVars, pipeVars, boundVars, historyVars
<1>0. proc[p] \in Process /\ conn[p] \in Client
  BY DEF ProcType, ConnType
<1>1. ASSUME NEW from, NEW to \in PC, Goto(p, from, to) PROVE TypeOK'
  <2>1. [proc[p] EXCEPT !.pc = to] \in Process
    BY <1>0, <1>1 DEF Process
  <2>2. proc' = [proc EXCEPT ![p] = [proc[p] EXCEPT !.pc = to]]
    BY <1>1 DEF Goto, ProcType, Process
  <2>3. ProcType'
    BY <2>1, <2>2 DEF ProcType
  <2> QED
    BY <1>1, <2>3 DEF Goto
<1>2. CASE CloseInherited(p) \/ InstallHandler(p) \/ GoOn(p) \/ EnterWait(p)
  <2>1. {"deaf", "test", "enter", "blocked"} \subseteq PC
    BY DEF PC
  <2> QED
    BY <1>1, <1>2, <2>1 DEF CloseInherited, InstallHandler, GoOn, EnterWait
<1>3. CASE Leave(p)
  <2>1. ProcType'
    <3>1. [proc[p] EXCEPT !.pc = "zombie", !.stop_child = FALSE] \in Process
      BY <1>0 DEF Process, PC
    <3>2. proc' = [proc EXCEPT ![p] = [proc[p] EXCEPT !.pc = "zombie", !.stop_child = FALSE]]
      BY <1>3 DEF Leave, ProcType, Process
    <3> QED
      BY <3>1, <3>2 DEF ProcType
  <2>2. SignalType'
    BY <1>3, PipeType DEF Leave, SignalType
  <2>3. TextType'
    <3>1. <<>> \in Seq(Slots)
      OBVIOUS
    <3> QED
      BY <1>3, <3>1 DEF Leave, TextType
  <2>4. EdgeType'
    BY <1>3 DEF Leave, EdgeType
  <2>5. ConnType'
    <3>1. NoClient \in Client
      BY DEF NoClient, Client
    <3> QED
      BY <1>3, <3>1 DEF Leave, ConnType
  <2> QED
    BY <1>3, <2>1, <2>2, <2>3, <2>4, <2>5 DEF Leave
<1>4. CASE Receive(p)
  <2>0. proc[p].idx \in Slots
    BY <1>0 DEF Process
  <2>1. ASSUME NEW k \in 1 .. conn[p].unread, NEW again \in BOOLEAN,
               conn' = [conn EXCEPT ![p].unread = @ - k, ![p].edge = again],
               share_mem' = [share_mem EXCEPT ![proc[p].idx] = p],
               to_parent' = [to_parent EXCEPT ![p] = Append(@, proc[p].idx)],
               parentEdge' = [parentEdge EXCEPT ![p] = TRUE],
               proc' = [proc EXCEPT ![p].pc = "test"],
               UNCHANGED <<parentVars, sig_pipe, to_child, childEdge, boundVars, historyVars>>
        PROVE  TypeOK'
    <3>1. ConnType'
      <4>0. conn[p].unread - k \in Nat
        BY <1>0 DEF Client
      <4>1. [conn[p] EXCEPT !.unread = @ - k, !.edge = again] \in Client
        BY <1>0, <4>0 DEF Client
      <4>2. conn' = [conn EXCEPT ![p] = [conn[p] EXCEPT !.unread = @ - k, !.edge = again]]
        BY <2>1 DEF ConnType, Client
      <4> QED
        BY <4>1, <4>2 DEF ConnType
    <3>2. TextType'
      BY <2>0, <2>1 DEF TextType
    <3>3. EdgeType'
      BY <2>1 DEF EdgeType
    <3>4. ProcType'
      <4>1. [proc[p] EXCEPT !.pc = "test"] \in Process
        BY <1>0 DEF Process, PC
      <4>2. proc' = [proc EXCEPT ![p] = [proc[p] EXCEPT !.pc = "test"]]
        BY <2>1 DEF ProcType, Process
      <4> QED
        BY <4>1, <4>2 DEF ProcType
    <3> QED
      BY <2>1, <3>1, <3>2, <3>3, <3>4
  <2>2. ASSUME conn' = [conn EXCEPT ![p].edge = FALSE],
               share_mem' = [share_mem EXCEPT ![proc[p].idx] = NULL],
               proc' = [proc EXCEPT ![p].pc = "test", ![p].stop_child = @ \/ conn[p].eof],
               UNCHANGED <<to_parent, parentEdge>>,
               UNCHANGED <<parentVars, sig_pipe, to_child, childEdge, boundVars, historyVars>>
        PROVE  TypeOK'
    <3>1. ConnType'
      <4>1. [conn[p] EXCEPT !.edge = FALSE] \in Client
        BY <1>0 DEF Client
      <4>2. conn' = [conn EXCEPT ![p] = [conn[p] EXCEPT !.edge = FALSE]]
        BY <2>2 DEF ConnType, Client
      <4> QED
        BY <4>1, <4>2 DEF ConnType
    <3>2. TextType'
      BY <2>0, <2>2 DEF TextType
    <3>3. ProcType'
      <4>1. (proc[p].stop_child \/ conn[p].eof) \in BOOLEAN
        OBVIOUS
      <4>2. \A b \in BOOLEAN : [proc[p] EXCEPT !.pc = "test", !.stop_child = b] \in Process
        BY <1>0 DEF Process, PC
      <4>3. proc' = [proc EXCEPT ![p] =
                       [proc[p] EXCEPT !.pc = "test", !.stop_child = @ \/ conn[p].eof]]
        BY <2>2 DEF ProcType, Process
      <4> QED
        BY <4>1, <4>2, <4>3 DEF ProcType
    <3> QED
      BY <2>2, <3>1, <3>2, <3>3
  <2>3. \A k : {FALSE, k > 1} \subseteq BOOLEAN
    OBVIOUS
  <2> QED
    BY <1>4, <2>1, <2>2, <2>3 DEF Receive
<1>5. CASE Relay(p)
  <2>1. ProcType'
    <3>1. [proc[p] EXCEPT !.pc = "test"] \in Process
      BY <1>0 DEF Process, PC
    <3>2. proc' = [proc EXCEPT ![p] = [proc[p] EXCEPT !.pc = "test"]]
      BY <1>5 DEF Relay, ProcType, Process
    <3> QED
      BY <3>1, <3>2 DEF ProcType
  <2>2. TextType'
    <3>1. (IF to_child[p] = <<>> THEN to_child[p] ELSE Tail(to_child[p])) \in Seq(Slots)
      BY DEF TextType
    <3> QED
      BY <1>5, <3>1 DEF Relay, TextType
  <2>3. EdgeType'
    BY <1>5 DEF Relay, EdgeType
  <2> QED
    BY <1>5, <2>1, <2>2, <2>3 DEF Relay
<1> QED
  BY <1>2, <1>3, <1>4, <1>5 DEF Child

LEMMA TypeStep == IInv /\ [Next]_vars => TypeOK'
<1> SUFFICES ASSUME IInv, [Next]_vars PROVE TypeOK'
  OBVIOUS
<1>1. CASE Next
  <2>1. ASSUME NEW p \in Pids, Accept(p) \/ Child(p) \/ ClientText(p) \/ ClientClose(p)
        PROVE  TypeOK'
    BY <2>1, AcceptType, ChildType, EnvironmentType DEF IInv
  <2>2. CASE Terminate
    <3>1. SignalType /\ CountType
      BY TypeParts DEF IInv
    <3>2. SignalType'
      BY <2>2, <3>1, PipeType DEF Terminate, SignalType, parentVars
    <3>3. CountType'
      BY <2>2, <3>1 DEF Terminate, CountType
    <3> QED
      BY <2>2, <3>2, <3>3, TypeParts, NextTypeParts, PartsKept
      DEF IInv, Terminate, parentVars, pipeVars, historyVars
  <2>3. CASE Parent
    BY <2>3, ForwardType, SignalsType, SigTermType, WaitpidType DEF IInv, Parent
  <2> QED
    BY <1>1, <2>1, <2>2, <2>3 DEF Next
<1>2. CASE UNCHANGED vars
  BY <1>2, TypeParts, NextTypeParts, PartsKept
  DEF IInv, vars, parentVars, pipeVars, boundVars, historyVars
<1> QED
  BY <1>1, <1>2
-----------------------------------------------------------------------------
(* Every process keeps its slot, and none comes or is reaped.               *)
KeepsProcesses ==
  \A p \in Pids : /\ proc'[p].pc # "free" <=> proc[p].pc # "free"
                  /\ proc'[p].idx = proc[p].idx

LEMMA TableKept ==
  ASSUME TableMatches, KeepsProcesses, UNCHANGED <<users, user_count, sub_process, moved>>
  PROVE  TableMatches'
<1>1. ASSUME NEW j \in 0 .. user_count' - 1
      PROVE  users'[j] \in Pids /\ proc'[users'[j]].pc # "free" /\ sub_process'[users'[j]] = j
  <2>1. users[j] \in Pids /\ proc[users[j]].pc # "free" /\ sub_process[users[j]] = j
    BY DEF TableMatches
  <2> QED
    BY <2>1 DEF KeepsProcesses
<1>2. ASSUME NEW p \in Pids, proc'[p].pc # "free"
      PROVE  /\ sub_process'[p] \in 0 .. user_count' - 1 /\ users'[sub_process'[p]] = p
             /\ ~moved' => proc'[p].idx = sub_process'[p]
  <2>1. proc[p].pc # "free" /\ proc'[p].idx = proc[p].idx
    BY <1>2 DEF KeepsProcesses
  <2> QED
    BY <2>1 DEF TableMatches
<1> QED
  BY <1>1, <1>2 DEF TableMatches

LEMMA ChildTable ==
  ASSUME IInv, NEW p \in Pids, Child(p)
  PROVE  TableMatches'
<1>1. proc \in [Pids -> Process]
  BY TypeParts DEF IInv, ProcType
<1>2. UNCHANGED <<users, user_count, sub_process, moved>>
  BY DEF Child, CloseInherited, InstallHandler, GoOn, EnterWait, Goto, Leave, Receive, Relay,
         parentVars, historyVars
<1>3. proc[p].pc # "free" /\ proc'[p].pc # "free" /\ proc'[p].idx = proc[p].idx
  <2>1. ASSUME NEW from, NEW to, from # "free", to # "free", Goto(p, from, to)
        PROVE  proc[p].pc # "free" /\ proc'[p].pc # "free" /\ proc'[p].idx = proc[p].idx
    BY <1>1, <2>1 DEF Goto, Process
  <2>2. CASE CloseInherited(p) \/ InstallHandler(p) \/ GoOn(p) \/ EnterWait(p)
    BY <2>1, <2>2 DEF CloseInherited, InstallHandler, GoOn, EnterWait
  <2>3. CASE Leave(p)
    BY <1>1, <2>3 DEF Leave, Process
  <2>4. CASE Receive(p)
    <3>1. /\ proc[p].pc = "blocked"
          /\ \/ proc' = [proc EXCEPT ![p].pc = "test"]
             \/ proc' = [proc EXCEPT ![p].pc = "test", ![p].stop_child = @ \/ conn[p].eof]
      BY <2>4 DEF Receive
    <3>2. proc[p] \in [pc : PC, idx : Slots, stop_child : BOOLEAN]
      BY <1>1 DEF Process
    <3>3. proc'[p].pc = "test" /\ proc'[p].idx = proc[p].idx
      BY <1>1, <3>1, <3>2 DEF Process
    <3> QED
      BY <3>1, <3>3
  <2>5. CASE Relay(p)
    BY <1>1, <2>5 DEF Relay, Process
  <2> QED
    BY <2>2, <2>3, <2>4, <2>5 DEF Child
<1>4. \A q \in Pids : q # p => proc'[q] = proc[q]
  BY <1>1 DEF Child, CloseInherited, InstallHandler, GoOn, EnterWait, Goto, Leave, Receive,
              Relay, Process
<1> QED
  BY <1>2, <1>3, <1>4, TableKept DEF KeepsProcesses, IInv

(* The new process is entered at the end, with that index.                  *)
LEMMA AcceptTable ==
  ASSUME IInv, NEW p \in Pids, Accept(p)
  PROVE  TableMatches'
<1>1. /\ proc \in [Pids -> Process] /\ users \in [Entries -> Pids \cup {NULL}]
      /\ sub_process \in [Pids -> Slots \cup {-1}] /\ user_count \in Entries
      /\ USER_LIMIT \in Nat
  BY TypeParts, ChatAssumption DEF IInv, ProcType, TableType
<1>2. /\ proc'[p].pc = "forked" /\ proc'[p].idx = user_count
      /\ \A q \in Pids : q # p => proc'[q] = proc[q]
  BY <1>1 DEF Accept, Process
<1>3. /\ users'[user_count] = p /\ sub_process'[p] = user_count
      /\ \A j \in Entries : j # user_count => users'[j] = users[j]
      /\ \A q \in Pids : q # p => sub_process'[q] = sub_process[q]
      /\ user_count' = user_count + 1 /\ moved' = moved
  BY <1>1 DEF Accept
<1>4. \A j \in 0 .. user_count - 1 : users[j] \in Pids \ {p} /\ j \in Entries /\ j # user_count
  BY <1>1 DEF IInv, TableMatches, Accept, Entries
<1>5. ASSUME NEW j \in 0 .. user_count' - 1
      PROVE  users'[j] \in Pids /\ proc'[users'[j]].pc # "free" /\ sub_process'[users'[j]] = j
  <2>1. CASE j = user_count
    BY <2>1, <1>2, <1>3
  <2>2. CASE j # user_count
    <3>1. j \in 0 .. user_count - 1
      BY <1>1, <1>3, <2>2 DEF Entries
    <3> QED
      BY <3>1, <1>2, <1>3, <1>4 DEF IInv, TableMatches
  <2> QED
    BY <2>1, <2>2
<1>6. ASSUME NEW q \in Pids, proc'[q].pc # "free"
      PROVE  /\ sub_process'[q] \in 0 .. user_count' - 1 /\ users'[sub_process'[q]] = q
             /\ ~moved' => proc'[q].idx = sub_process'[q]
  <2>1. CASE q = p
    BY <2>1, <1>1, <1>2, <1>3 DEF Entries
  <2>2. CASE q # p
    <3>1. proc[q].pc # "free"
      BY <1>2, <1>6, <2>2
    <3>2. /\ sub_process[q] \in 0 .. user_count - 1 /\ users[sub_process[q]] = q
          /\ ~moved => proc[q].idx = sub_process[q]
      BY <3>1 DEF IInv, TableMatches
    <3>3. sub_process[q] \in Entries /\ sub_process[q] # user_count
      BY <3>2, <1>4
    <3> QED
      BY <3>2, <3>3, <2>2, <1>1, <1>2, <1>3 DEF Entries
  <2> QED
    BY <2>1, <2>2
<1> QED
  BY <1>5, <1>6 DEF TableMatches

(* The reaped process leaves the entry del; if it is not the last, the last *)
(* one takes its place and learns so.  No other entry is touched.           *)
LEMMA WaitpidTable ==
  ASSUME IInv, NEW p \in Pids, Waitpid(p)
  PROVE  TableMatches'
<1> DEFINE del == sub_process[p]
           last == users[user_count - 1]
<1>1. /\ proc \in [Pids -> Process] /\ users \in [Entries -> Pids \cup {NULL}]
      /\ sub_process \in [Pids -> Slots \cup {-1}] /\ user_count \in 0 .. USER_LIMIT
      /\ USER_LIMIT \in Nat
  BY TypeParts, ChatAssumption DEF IInv, ProcType, TableType, Entries
<1>2. /\ del \in 0 .. user_count - 1 /\ users[del] = p
      /\ last \in Pids /\ sub_process[last] = user_count - 1
  BY <1>1 DEF IInv, TableMatches, Waitpid
<1>3. /\ users' = [users EXCEPT ![del] = last, ![user_count - 1] = NULL]
      /\ sub_process' = [sub_process EXCEPT ![p] = -1, ![last] = del]
      /\ user_count' = user_count - 1 /\ moved' = (moved \/ last # p)
      /\ proc' = [proc EXCEPT ![p] = NoProcess]
  BY <1>1, <1>2 DEF Waitpid, Reindex
<1>4. /\ proc'[p].pc = "free"
      /\ \A q \in Pids : q # p => proc'[q] = proc[q]
  BY <1>1, <1>3 DEF NoProcess
<1>5. /\ \A q \in Pids \ {p, last} : sub_process'[q] = sub_process[q]
      /\ sub_process'[last] = del
  BY <1>1, <1>2, <1>3
<1>6. \A j \in 0 .. user_count - 2 :
         users'[j] = IF j = del THEN last ELSE users[j]
  BY <1>1, <1>2, <1>3 DEF Entries
<1>7. ASSUME NEW j \in 0 .. user_count' - 1
      PROVE  users'[j] \in Pids /\ proc'[users'[j]].pc # "free" /\ sub_process'[users'[j]] = j
  <2>1. j \in 0 .. user_count - 2 /\ j \in 0 .. user_count - 1 /\ j # user_count - 1
    BY <1>1, <1>3
  <2>2. CASE j = del
    <3>1. last # p
      BY <1>2, <2>1, <2>2
    <3>2. proc[last].pc # "free"
      BY <1>1, <1>2 DEF IInv, TableMatches
    <3> QED
      BY <3>1, <3>2, <2>1, <2>2, <1>2, <1>4, <1>5, <1>6
  <2>3. CASE j # del
    <3>1. users[j] \in Pids /\ proc[users[j]].pc # "free" /\ sub_process[users[j]] = j
      BY <2>1 DEF IInv, TableMatches
    <3>2. users[j] # p /\ users[j] # last
      BY <3>1, <2>1, <2>3, <1>2
    <3> QED
      BY <3>1, <3>2, <2>1, <2>3, <1>4, <1>5, <1>6
  <2> QED
    BY <2>2, <2>3
<1>8. ASSUME NEW q \in Pids, proc'[q].pc # "free"
      PROVE  /\ sub_process'[q] \in 0 .. user_count' - 1 /\ users'[sub_process'[q]] = q
             /\ ~moved' => proc'[q].idx = sub_process'[q]
  <2>0. q # p /\ proc[q].pc # "free" /\ proc'[q] = proc[q]
    BY <1>4, <1>8
  <2>1. /\ sub_process[q] \in 0 .. user_count - 1 /\ users[sub_process[q]] = q
        /\ ~moved => proc[q].idx = sub_process[q]
    BY <2>0 DEF IInv, TableMatches
  <2>2. CASE q = last
    <3>1. del # user_count - 1
      BY <1>2, <2>0, <2>2
    <3>2. del \in 0 .. user_count - 2
      BY <3>1, <1>1, <1>2
    <3>3. moved'
      BY <1>3, <2>0, <2>2
    <3>4. sub_process'[q] = del /\ users'[del] = q
      BY <3>2, <2>2, <1>5, <1>6
    <3>5. del \in 0 .. user_count' - 1
      BY <3>2, <1>1, <1>3
    <3> QED
      BY <3>3, <3>4, <3>5
  <2>3. CASE q # last
    <3>1. sub_process[q] # user_count - 1 /\ sub_process[q] # del
      BY <1>2, <2>0, <2>1, <2>3
    <3>2. sub_process[q] \in 0 .. user_count - 2
      BY <3>1, <2>1, <1>1
    <3>3. ~moved' => ~moved
      BY <1>3
    <3>4. sub_process'[q] = sub_process[q] /\ users'[sub_process[q]] = q
      BY <3>1, <3>2, <2>0, <2>1, <2>3, <1>5, <1>6
    <3>5. sub_process[q] \in 0 .. user_count' - 1
      BY <3>2, <1>1, <1>3
    <3> QED
      BY <3>3, <3>4, <3>5, <2>0, <2>1
  <2> QED
    BY <2>2, <2>3
<1> QED
  BY <1>7, <1>8 DEF TableMatches

LEMMA TableStep == IInv /\ [Next]_vars => TableMatches'
<1> SUFFICES ASSUME IInv, [Next]_vars PROVE TableMatches'
  OBVIOUS
<1> USE DEF parentVars, historyVars
<1>1. ASSUME UNCHANGED <<users, user_count, sub_process, moved, proc>>
      PROVE  TableMatches'
  BY <1>1, TableKept DEF KeepsProcesses, IInv
<1>2. ASSUME NEW p \in Pids, ClientText(p) \/ ClientClose(p) \/ Forward(p)
      PROVE  TableMatches'
  BY <1>1, <1>2 DEF ClientText, ClientClose, Forward
<1>3. CASE Terminate \/ RecvSignals \/ WaitpidNone \/ Exit
  BY <1>1, <1>3 DEF Terminate, RecvSignals, WaitpidNone, Exit
<1>4. CASE SigTerm
  <2>1. ASSUME NEW q \in Pids
        PROVE  /\ proc'[q].pc # "free" <=> proc[q].pc # "free"
               /\ proc'[q].idx = proc[q].idx
    <3>1. proc[q] \in Process
      BY TypeParts DEF IInv, ProcType
    <3>2. proc'[q] \in {proc[q], Killed(proc[q])}
      BY <1>4 DEF SigTerm
    <3> QED
      BY <3>1, <3>2 DEF Killed, Process
  <2> QED
    BY <1>4, <2>1, TableKept DEF KeepsProcesses, IInv, SigTerm
<1>5. CASE UNCHANGED vars
  BY <1>1, <1>5 DEF vars
<1> QED
  BY <1>2, <1>3, <1>4, <1>5, ChildTable, AcceptTable, WaitpidTable DEF Next, Parent
-----------------------------------------------------------------------------
(* Every variable has its type, and user_count stays within USER_LIMIT, so  *)
(* that the shared memory has a slot for every child (214).                 *)
THEOREM TypeCorrect == Spec => []TypeOK
<1>1. IInv /\ [Next]_vars => IInv'
  BY TypeStep, TableStep DEF IInv
<1>2. IInv => TypeOK
  BY DEF IInv
<1> QED
  BY InitIInv, <1>1, <1>2, PTL DEF Spec

(* users and sub_process describe the same processes, those not yet reaped, *)
(* whatever the order in which children end and are reaped (264-286): a     *)
(* child that is reaped frees its own entry, and the moved one is found.    *)
THEOREM Tables == Spec => []TableMatches
<1>1. IInv /\ [Next]_vars => IInv'
  BY TypeStep, TableStep DEF IInv
<1>2. IInv => TableMatches
  BY DEF IInv
<1> QED
  BY InitIInv, <1>1, <1>2, PTL DEF Spec

-----------------------------------------------------------------------------
(* When the server ends, and whose text a client is sent.  Both rest on the *)
(* tables.                                                                  *)

LEMMA Inductive == IInv /\ [Next]_vars => IInv'
BY TypeStep, TableStep DEF IInv

(* A server that has decided to end has no child, for only Accept makes one.*)
NoneWhenStopped == parent \in {"stopping", "gone"} /\ ~excused => user_count = 0

(* The table has an entry for every process.                                *)
LEMMA NobodyLeft ==
  ASSUME IInv, user_count = 0
  PROVE  \A p \in Pids : proc[p].pc = "free"
BY DEF IInv, TableMatches

LEMMA StoppedStep ==
  ASSUME IInv, NoneWhenStopped, [Next]_vars
  PROVE  NoneWhenStopped'
<1> USE DEF NoneWhenStopped
<1>1. ASSUME UNCHANGED <<parent, user_count, excused>>
      PROVE  NoneWhenStopped'
  BY <1>1
<1> USE DEF parentVars, historyVars
<1>2. CASE UNCHANGED vars
  BY <1>1, <1>2 DEF vars
<1>3. ASSUME NEW p \in Pids, Child(p) \/ ClientText(p) \/ ClientClose(p) \/ Forward(p)
      PROVE  NoneWhenStopped'
  BY <1>1, <1>3
  DEF Child, CloseInherited, InstallHandler, GoOn, EnterWait, Goto, Leave, Receive, Relay,
      ClientText, ClientClose, Forward
<1>4. CASE Terminate \/ RecvSignals
  BY <1>1, <1>4 DEF Terminate, RecvSignals
<1>5. ASSUME NEW p \in Pids, Accept(p)
      PROVE  NoneWhenStopped'
  <2>1. parent' \in {"stopping", "gone"} => excused'
    BY <1>5 DEF Accept, InLoop
  <2> QED
    BY <2>1
<1>6. ASSUME NEW p \in Pids, Waitpid(p)
      PROVE  NoneWhenStopped'
  <2>1. user_count # 0
    BY <1>6, NobodyLeft DEF Waitpid
  <2> QED
    BY <2>1, <1>6 DEF Waitpid
<1>7. CASE WaitpidNone
  BY <1>7 DEF WaitpidNone, LastHasLeft
<1>8. CASE SigTerm
  BY <1>8 DEF SigTerm
<1>9. CASE Exit
  BY <1>9 DEF Exit
<1> QED
  BY <1>2, <1>3, <1>4, <1>5, <1>6, <1>7, <1>8, <1>9 DEF Next, Parent

(* The server ends only when every child has been reaped (287-295), unless  *)
(* a client came in after the signal; for any number of clients and of      *)
(* SIGTERMs.                                                                *)
THEOREM Orphans == Spec => []NoOrphan
<1>1. Init => NoneWhenStopped
  BY DEF Init, NoneWhenStopped
<1>2. IInv /\ NoneWhenStopped /\ [Next]_vars => NoneWhenStopped'
  BY StoppedStep
<1>3. IInv /\ NoneWhenStopped => NoOrphan
  BY NobodyLeft DEF NoneWhenStopped, NoOrphan
<1> QED
  BY InitIInv, Inductive, <1>1, <1>2, <1>3, PTL DEF Spec
-----------------------------------------------------------------------------
(* Why nobody is sent his own text, while no user has been moved: a process *)
(* sends its own index only, the parent sends it to the others only, whose  *)
(* slots are others, and a text lies in the slot of its writer.             *)
SendsOwnIndex ==
    ~moved => \A p \in Pids : \A k \in 1 .. Len(to_parent[p]) :
                 proc[p].pc # "free" /\ to_parent[p][k] = proc[p].idx
HearsOthers ==
    ~moved => \A p \in Pids : \A k \in 1 .. Len(to_child[p]) :
                 Live(p) /\ to_child[p][k] # proc[p].idx
OwnSlot ==
    ~moved => \A i \in Slots : \A p \in Pids :
                 share_mem[i] = p => proc[p].pc # "free" /\ proc[p].idx = i

EInv == IInv /\ SendsOwnIndex /\ HearsOthers /\ OwnSlot

(* Two processes have two slots.                                            *)
LEMMA Apart ==
  ASSUME IInv, ~moved, NEW p \in Pids, NEW q \in Pids, p # q,
         proc[p].pc # "free", proc[q].pc # "free"
  PROVE  proc[p].idx # proc[q].idx
BY DEF IInv, TableMatches

(* moved is never taken back.                                               *)
LEMMA MovedStays == [Next]_vars => (moved => moved')
<1> SUFFICES ASSUME [Next]_vars PROVE moved => moved'
  OBVIOUS
<1>1. ASSUME UNCHANGED moved PROVE moved => moved'
  BY <1>1
<1>2. ASSUME NEW p \in Pids, Waitpid(p) PROVE moved => moved'
  BY <1>2 DEF Waitpid
<1> QED
  BY <1>1, <1>2
  DEF Next, Parent, Child, CloseInherited, InstallHandler, GoOn, EnterWait, Goto, Leave, Receive,
      Relay, ClientText, ClientClose, Forward, Accept, Terminate, RecvSignals, WaitpidNone,
      SigTerm, Exit, historyVars, vars

(* Steps that touch no text and no index, and start or reap no process.     *)
LEMMA EchoKept ==
  ASSUME EInv, KeepsProcesses, UNCHANGED <<moved, to_parent, to_child, share_mem>>,
         \A p \in Pids : Live(p) => Live(p)'
  PROVE  SendsOwnIndex' /\ HearsOthers' /\ OwnSlot'
<1>1. CASE moved
  BY <1>1 DEF SendsOwnIndex, HearsOthers, OwnSlot
<1>2. CASE ~moved
  <2>1. SendsOwnIndex'
    BY <1>2 DEF EInv, SendsOwnIndex, KeepsProcesses
  <2>2. HearsOthers'
    BY <1>2 DEF EInv, HearsOthers, KeepsProcesses
  <2>3. OwnSlot'
    BY <1>2 DEF EInv, OwnSlot, KeepsProcesses
  <2> QED
    BY <2>1, <2>2, <2>3
<1> QED
  BY <1>1, <1>2

LEMMA EchoAccept ==
  ASSUME EInv, ~moved, NEW p \in Pids, Accept(p)
  PROVE  SendsOwnIndex' /\ HearsOthers' /\ OwnSlot'
<1>1. /\ proc[p].pc = "free" /\ \A q \in Pids : q # p => proc'[q] = proc[q]
      /\ UNCHANGED <<to_parent, to_child, share_mem>>
  BY DEF Accept, EInv, IInv, TypeOK, pipeVars
<1>2. \A q \in Pids : q # p => (Live(q) <=> Live(q)')
  BY <1>1 DEF Live
<1>3. ~Live(p)
  BY <1>1 DEF Live, Ended
<1>4. SendsOwnIndex'
  BY <1>1 DEF EInv, SendsOwnIndex
<1>5. HearsOthers'
  BY <1>1, <1>2, <1>3 DEF EInv, HearsOthers
<1>6. OwnSlot'
  BY <1>1 DEF EInv, OwnSlot
<1> QED
  BY <1>4, <1>5, <1>6

LEMMA EchoForward ==
  ASSUME EInv, ~moved, NEW p \in Pids, Forward(p)
  PROVE  SendsOwnIndex' /\ HearsOthers' /\ OwnSlot'
<1>1. UNCHANGED <<proc, share_mem, moved>> /\ \A q \in Pids : Live(q)' = Live(q)
  BY DEF Forward, historyVars, Live
<1>2. OwnSlot'
  BY <1>1 DEF EInv, OwnSlot
<1>3. CASE to_parent[p] = <<>>
  BY <1>1, <1>2, <1>3 DEF Forward, EInv, SendsOwnIndex, HearsOthers
<1>4. CASE to_parent[p] # <<>>
  <2>1. /\ to_parent \in [Pids -> Seq(Slots)] /\ to_child \in [Pids -> Seq(Slots)]
        /\ to_parent' = [to_parent EXCEPT ![p] = Tail(@)]
    BY <1>4 DEF Forward, EInv, IInv, TypeOK
  <2>2. /\ Len(to_parent[p]) \in Nat \ {0} /\ Head(to_parent[p]) = to_parent[p][1]
        /\ to_parent'[p] = Tail(to_parent[p])
        /\ \A q \in Pids : q # p => to_parent'[q] = to_parent[q]
    BY <1>4, <2>1
  <2>3. proc[p].pc # "free" /\ Head(to_parent[p]) = proc[p].idx
    BY <2>2 DEF EInv, SendsOwnIndex
  <2>4. \A k \in 1 .. Len(Tail(to_parent[p])) :
           k + 1 \in 1 .. Len(to_parent[p]) /\ Tail(to_parent[p])[k] = to_parent[p][k + 1]
    BY <2>1, <2>2
  <2>5. SendsOwnIndex'
    <3>1. ASSUME NEW q \in Pids, NEW k \in 1 .. Len(to_parent'[q])
          PROVE  proc[q].pc # "free" /\ to_parent'[q][k] = proc[q].idx
      <4>1. CASE q = p
        <5>1. k + 1 \in 1 .. Len(to_parent[p]) /\ to_parent'[q][k] = to_parent[p][k + 1]
          BY <2>2, <2>4, <4>1
        <5> QED
          BY <4>1, <5>1 DEF EInv, SendsOwnIndex
      <4>2. CASE q # p
        BY <2>2, <4>2 DEF EInv, SendsOwnIndex
      <4> QED
        BY <4>1, <4>2
    <3> QED
      BY <1>1, <3>1 DEF SendsOwnIndex
  <2>6. ASSUME NEW q \in Pids, NEW k \in 1 .. Len(to_child'[q])
        PROVE  Live(q) /\ to_child'[q][k] # proc[q].idx
    <3>1. CASE q \in Others(p) /\ Live(q)
      <4>1. to_child'[q] = Append(to_child[q], Head(to_parent[p]))
        BY <1>4, <3>1 DEF Forward
      <4>2. CASE k \in 1 .. Len(to_child[q])
        BY <2>1, <3>1, <4>1, <4>2 DEF EInv, HearsOthers
      <4>3. CASE k \notin 1 .. Len(to_child[q])
        <5>1. to_child'[q][k] = Head(to_parent[p])
          BY <2>1, <4>1, <4>3
        <5>2. q # p /\ proc[q].pc # "free"
          BY <3>1 DEF Others, Live, Ended
        <5>3. proc[q].idx # proc[p].idx
          BY <2>3, <5>2, Apart DEF EInv
        <5> QED
          BY <2>3, <3>1, <5>1, <5>3
      <4> QED
        BY <4>2, <4>3
    <3>2. CASE ~(q \in Others(p) /\ Live(q))
      <4>1. to_child'[q] = to_child[q]
        BY <1>4, <3>2 DEF Forward
      <4> QED
        BY <4>1 DEF EInv, HearsOthers
    <3> QED
      BY <3>1, <3>2
  <2>7. HearsOthers'
    BY <1>1, <2>6 DEF HearsOthers
  <2> QED
    BY <1>2, <2>5, <2>7
<1> QED
  BY <1>3, <1>4

LEMMA EchoWaitpid ==
  ASSUME EInv, ~moved, NEW p \in Pids, Waitpid(p)
  PROVE  SendsOwnIndex' /\ HearsOthers' /\ OwnSlot'
<1>1. /\ proc \in [Pids -> Process] /\ to_parent \in [Pids -> Seq(Slots)]
      /\ share_mem \in [Slots -> Pids \cup {NULL}]
  BY DEF EInv, IInv, TypeOK, Process
<1>2. /\ proc[p].pc = "zombie" /\ ~Live(p)
      /\ \A q \in Pids : q # p => proc'[q] = proc[q] /\ Live(q)' = Live(q)
      /\ to_child' = to_child
      /\ to_parent' = [to_parent EXCEPT ![p] = <<>>]
      /\ share_mem' = [i \in Slots |-> IF share_mem[i] = p THEN NULL ELSE share_mem[i]]
  BY <1>1 DEF Waitpid, Live, Ended
<1>3. SendsOwnIndex'
  <2>1. to_parent'[p] = <<>> /\ \A q \in Pids : q # p => to_parent'[q] = to_parent[q]
    BY <1>1, <1>2
  <2>2. 1 .. Len(to_parent'[p]) = {}
    BY <2>1
  <2> QED
    BY <1>2, <2>1, <2>2 DEF EInv, SendsOwnIndex
<1>4. HearsOthers'
  BY <1>2 DEF EInv, HearsOthers
<1>5. OwnSlot'
  <2>1. \A i \in Slots : \A q \in Pids : share_mem'[i] = q => q # p /\ share_mem[i] = q
    BY <1>2, ChatAssumption
  <2> QED
    BY <1>2, <2>1 DEF EInv, OwnSlot
<1> QED
  BY <1>3, <1>4, <1>5

LEMMA EchoChild ==
  ASSUME EInv, ~moved, NEW p \in Pids, Child(p)
  PROVE  SendsOwnIndex' /\ HearsOthers' /\ OwnSlot'
<1>0. /\ proc \in [Pids -> Process] /\ proc[p] \in Process
      /\ to_parent \in [Pids -> Seq(Slots)] /\ to_child \in [Pids -> Seq(Slots)]
      /\ share_mem \in [Slots -> Pids \cup {NULL}]
  BY DEF EInv, IInv, TypeOK, Process
<1>1. ASSUME NEW from, NEW to \in PC \ Ended, from \notin Ended, Goto(p, from, to)
      PROVE  SendsOwnIndex' /\ HearsOthers' /\ OwnSlot'
  <2>1. /\ proc'[p].pc \notin Ended /\ proc[p].pc \notin Ended
        /\ proc'[p].idx = proc[p].idx /\ \A q \in Pids : q # p => proc'[q] = proc[q]
    BY <1>0, <1>1 DEF Goto, Process, Ended
  <2>2. KeepsProcesses /\ \A q \in Pids : Live(q) => Live(q)'
    BY <2>1 DEF KeepsProcesses, Live, Ended
  <2> QED
    BY <1>1, <2>2, EchoKept DEF Goto, pipeVars, historyVars
<1>2. CASE CloseInherited(p) \/ InstallHandler(p) \/ GoOn(p) \/ EnterWait(p)
  BY <1>1, <1>2 DEF CloseInherited, InstallHandler, GoOn, EnterWait, PC, Ended
<1>3. CASE Leave(p)
  <2>1. /\ proc[p].pc # "free" /\ proc'[p].pc # "free" /\ proc'[p].idx = proc[p].idx
        /\ \A q \in Pids : q # p => proc'[q] = proc[q] /\ Live(q)' = Live(q)
        /\ UNCHANGED <<moved, to_parent, share_mem>>
        /\ to_child' = [to_child EXCEPT ![p] = <<>>]
    BY <1>0, <1>3 DEF Leave, Process, Live, historyVars
  <2>2. SendsOwnIndex'
    BY <2>1 DEF EInv, SendsOwnIndex
  <2>3. HearsOthers'
    <3>1. to_child'[p] = <<>> /\ \A q \in Pids : q # p => to_child'[q] = to_child[q]
      BY <1>0, <2>1
    <3>2. 1 .. Len(to_child'[p]) = {}
      BY <3>1
    <3> QED
      BY <2>1, <3>1, <3>2 DEF EInv, HearsOthers
  <2>4. OwnSlot'
    BY <2>1 DEF EInv, OwnSlot
  <2> QED
    BY <2>2, <2>3, <2>4
<1>4. ASSUME Receive(p) \/ Relay(p)
      PROVE  /\ proc[p].pc = "blocked" /\ Live(p) /\ Live(p)'
             /\ proc'[p].pc # "free" /\ proc'[p].idx = proc[p].idx
             /\ \A q \in Pids : q # p => proc'[q] = proc[q] /\ Live(q)' = Live(q)
             /\ UNCHANGED moved
  <2>1. /\ proc[p].pc = "blocked" /\ UNCHANGED moved
        /\ \/ proc' = [proc EXCEPT ![p].pc = "test"]
           \/ proc' = [proc EXCEPT ![p].pc = "test", ![p].stop_child = @ \/ conn[p].eof]
    BY <1>4 DEF Receive, Relay, historyVars
  <2>2. /\ proc'[p].pc = "test" /\ proc'[p].idx = proc[p].idx
        /\ \A q \in Pids : q # p => proc'[q] = proc[q]
    BY <1>0, <2>1 DEF Process
  <2> QED
    BY <2>1, <2>2 DEF Live, Ended
<1>5. CASE Receive(p)
  <2>1. UNCHANGED to_child
    BY <1>5 DEF Receive
  <2>2. HearsOthers'
    BY <1>4, <1>5, <2>1 DEF EInv, HearsOthers
  <2>3. \/ /\ share_mem' = [share_mem EXCEPT ![proc[p].idx] = p]
           /\ to_parent' = [to_parent EXCEPT ![p] = Append(@, proc[p].idx)]
        \/ /\ share_mem' = [share_mem EXCEPT ![proc[p].idx] = NULL]
           /\ to_parent' = to_parent
    BY <1>5 DEF Receive
  <2>4. OwnSlot'
    <3>1. \A i \in Slots : \A q \in Pids :
             share_mem'[i] = q => share_mem[i] = q \/ (q = p /\ i = proc[p].idx)
      BY <1>0, <2>3, ChatAssumption
    <3> QED
      BY <1>4, <1>5, <3>1 DEF EInv, OwnSlot
  <2>5. SendsOwnIndex'
    <3>1. \A q \in Pids : q # p => to_parent'[q] = to_parent[q]
      BY <1>0, <2>3
    <3>2. ASSUME NEW k \in 1 .. Len(to_parent'[p])
          PROVE  to_parent'[p][k] = proc[p].idx
      <4>1. CASE k \in 1 .. Len(to_parent[p])
        <5>1. to_parent'[p][k] = to_parent[p][k]
          <6>1. \/ to_parent'[p] = to_parent[p]
                \/ to_parent'[p] = Append(to_parent[p], proc[p].idx)
            BY <1>0, <2>3
          <6>2. to_parent[p] \in Seq(Slots) /\ proc[p].idx \in Slots
            BY <1>0 DEF Process
          <6> QED
            BY <4>1, <6>1, <6>2
        <5> QED
          BY <4>1, <5>1 DEF EInv, SendsOwnIndex
      <4>2. CASE k \notin 1 .. Len(to_parent[p])
        <5>1. to_parent'[p] = Append(to_parent[p], proc[p].idx)
          BY <1>0, <2>3, <3>2, <4>2
        <5> QED
          BY <1>0, <4>2, <5>1 DEF Process
      <4> QED
        BY <4>1, <4>2
    <3> QED
      BY <1>4, <1>5, <3>1, <3>2 DEF EInv, SendsOwnIndex
  <2> QED
    BY <2>2, <2>4, <2>5
<1>6. CASE Relay(p)
  <2>1. /\ UNCHANGED <<share_mem, to_parent>>
        /\ to_child' = [to_child EXCEPT ![p] = IF @ = <<>> THEN @ ELSE Tail(@)]
    BY <1>6 DEF Relay
  <2>2. SendsOwnIndex' /\ OwnSlot'
    BY <1>4, <1>6, <2>1 DEF EInv, SendsOwnIndex, OwnSlot
  <2>3. ASSUME NEW k \in 1 .. Len(to_child'[p])
        PROVE  to_child'[p][k] # proc[p].idx
    <3>1. CASE to_child[p] = <<>>
      BY <1>0, <2>1, <3>1 DEF EInv, HearsOthers
    <3>2. CASE to_child[p] # <<>>
      <4>1. k + 1 \in 1 .. Len(to_child[p]) /\ to_child'[p][k] = to_child[p][k + 1]
        BY <1>0, <2>1, <3>2
      <4> QED
        BY <4>1 DEF EInv, HearsOthers
    <3> QED
      BY <3>1, <3>2
  <2>4. \A q \in Pids : q # p => to_child'[q] = to_child[q]
    BY <1>0, <2>1
  <2>5. HearsOthers'
    BY <1>4, <1>6, <2>3, <2>4 DEF EInv, HearsOthers
  <2> QED
    BY <2>2, <2>5
<1> QED
  BY <1>2, <1>3, <1>5, <1>6 DEF Child

LEMMA EchoStep ==
  ASSUME EInv, [Next]_vars
  PROVE  SendsOwnIndex' /\ HearsOthers' /\ OwnSlot'
<1>0. CASE moved
  BY <1>0, MovedStays DEF SendsOwnIndex, HearsOthers, OwnSlot
<1> SUFFICES ASSUME ~moved PROVE SendsOwnIndex' /\ HearsOthers' /\ OwnSlot'
  BY <1>0
<1> USE DEF parentVars, historyVars, pipeVars
<1>1. ASSUME UNCHANGED <<moved, to_parent, to_child, share_mem, proc>>
      PROVE  SendsOwnIndex' /\ HearsOthers' /\ OwnSlot'
  BY <1>1, EchoKept DEF KeepsProcesses, Live
<1>2. ASSUME NEW p \in Pids, ClientText(p) \/ ClientClose(p)
      PROVE  SendsOwnIndex' /\ HearsOthers' /\ OwnSlot'
  BY <1>1, <1>2 DEF ClientText, ClientClose
<1>3. CASE Terminate \/ RecvSignals \/ WaitpidNone \/ Exit
  BY <1>1, <1>3 DEF Terminate, RecvSignals, WaitpidNone, Exit
<1>4. CASE SigTerm
  <2>1. ASSUME NEW q \in Pids
        PROVE  /\ proc'[q].pc # "free" <=> proc[q].pc # "free"
               /\ proc'[q].idx = proc[q].idx
               /\ Live(q) => Live(q)'
    <3>1. proc[q] \in Process
      BY TypeParts DEF EInv, IInv, ProcType
    <3>2. proc'[q] \in {proc[q], Killed(proc[q])}
      BY <1>4 DEF SigTerm
    <3> QED
      BY <3>1, <3>2 DEF Killed, Process, Live, Ended
  <2> QED
    BY <1>4, <2>1, EchoKept DEF KeepsProcesses, SigTerm
<1>5. CASE UNCHANGED vars
  BY <1>1, <1>5 DEF vars
<1> QED
  BY <1>2, <1>3, <1>4, <1>5, EchoAccept, EchoForward, EchoWaitpid, EchoChild DEF Next, Parent

LEMMA InitEInv == Init => EInv
<1> SUFFICES ASSUME Init PROVE SendsOwnIndex /\ HearsOthers /\ OwnSlot
  BY InitIInv DEF EInv
<1>1. \A p \in Pids : Len(to_parent[p]) = 0 /\ Len(to_child[p]) = 0
  BY DEF Init
<1>2. \A i \in Slots : share_mem[i] \notin Pids
  BY ChatAssumption DEF Init
<1> QED
  BY <1>1, <1>2 DEF SendsOwnIndex, HearsOthers, OwnSlot

(* A child that relays an index sends what is in another one's slot; it     *)
(* cannot be a text of its own client.                                      *)
LEMMA RelaysOthers ==
  ASSUME EInv, NEW p \in Pids, [Next]_vars,
         ~moved, Live(p), Len(to_child'[p]) < Len(to_child[p])
  PROVE  share_mem[Head(to_child[p])] # p
<1>1. to_child[p] \in Seq(Slots)
  BY DEF EInv, IInv, TypeOK
<1>2. 1 \in 1 .. Len(to_child[p]) /\ Head(to_child[p]) = to_child[p][1]
  <2>1. Len(to_child[p]) # 0
    <3>1. to_child'[p] \in Seq(Slots)
      BY Inductive DEF EInv, IInv, TypeOK
    <3> QED
      BY <1>1, <3>1
  <2> QED
    BY <1>1, <2>1
<1>3. Head(to_child[p]) \in Slots /\ Head(to_child[p]) # proc[p].idx
  BY <1>1, <1>2 DEF EInv, HearsOthers
<1> QED
  BY <1>3 DEF EInv, OwnSlot

(* Nobody is sent the text of his own client (323-329), for any number of   *)
(* clients and texts, while no user has been moved to another entry.        *)
THEOREM Echo == Spec => NoEcho
<1>1. EInv /\ [Next]_vars => EInv'
  BY Inductive, EchoStep DEF EInv
<1>2. EInv /\ [Next]_vars =>
        [\A p \in Pids :
           (~moved /\ Live(p) /\ Len(to_child'[p]) < Len(to_child[p])
              /\ proc'[p].pc = "test")
           => share_mem[Head(to_child[p])] # p]_vars
  BY RelaysOthers
<1> QED
  BY InitEInv, <1>1, <1>2, PTL DEF Spec, NoEcho
=============================================================================
