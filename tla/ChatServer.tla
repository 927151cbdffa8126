------------------------------ MODULE ChatServer ------------------------------
(***************************************************************************)
(* chapter_13/02_chat_server.c: a parent process that accepts, and a child *)
(* for every client.  Child idx reads its client into slot idx of a shared *)
(* memory and sends idx to the parent over a socket pair; the parent sends *)
(* idx to the other children, which send that slot to their clients.       *)
(* SIGCHLD and SIGTERM reach the parent as bytes in a pipe.                *)
(*                                                                         *)
(* One event is handled in one step: what arrives between epoll_wait and   *)
(* the recv is as if it came before (Receive leaves the edge) or after.  A *)
(* slot holds the name of the process whose client wrote it.  Clients that *)
(* are refused (215-219, 228-231) change nothing here, and every other     *)
(* system call succeeds.                                                   *)
(***************************************************************************)
EXTENDS Integers, Sequences, FiniteSets, SignalPipe

CONSTANTS Pids,        \* process numbers the kernel can hand out, reused
          USER_LIMIT,
          MaxTexts,    \* bound of the model: texts the clients send
          MaxTerms,    \* bound of the model: SIGTERMs sent to the parent
          MaxForks,    \* bound of the model: clients that are accepted
          NULL

ASSUME ChatAssumption ==
    /\ IsFiniteSet(Pids) /\ NULL \notin Pids
    /\ USER_LIMIT \in Nat \ {0} /\ {MaxTexts, MaxTerms, MaxForks} \subseteq Nat

VARIABLES
  (* the parent                                                            *)
    users,         \* users[j].pid, which also stands for the pipe to it
    user_count,
    sub_process,   \* index in users of a process, or -1
    terminate,
    parent,        \* "run", "stopping" (stop_server is set), "gone"
    signals,       \* the bytes of its last recv that are still to be handled
  (* the children: pc, idx and stop_child of each process                  *)
    proc,
  (* what they share                                                       *)
    share_mem,     \* per slot the process whose client's text is in it
    sig_pipe,      \* the bytes in the pipe
    to_parent,     \* per process the indices in its pipe, and
    to_child,      \*   those on the way to it
    parentEdge, childEdge,  \* the pipe's end is on the reader's ready list
    conn,          \* per process its client: unread pieces, eof, edge
    texts, terms, forks,    \* the bounds' counters
  (* history                                                               *)
    moved,         \* a user has been moved to another entry of users
    excused        \* a child was sent a SIGTERM that does not end it, or a client
                   \*   was accepted after the server was told to stop

parentVars == <<users, user_count, sub_process, terminate, parent, signals>>
pipeVars == <<to_parent, to_child, parentEdge, childEdge>>
boundVars == <<texts, terms, forks>>
historyVars == <<moved, excused>>
vars == <<parentVars, proc, share_mem, sig_pipe, pipeVars, conn, boundVars,
          historyVars>>

Slots == 0 .. USER_LIMIT - 1
Entries == 0 .. USER_LIMIT         \* users has one entry more than is used
Ended == {"free", "zombie"}
NoProcess == [pc |-> "free", idx |-> 0, stop_child |-> FALSE]
NoClient == [unread |-> 0, eof |-> FALSE, edge |-> FALSE]

Init ==
    /\ users = [j \in Entries |-> NULL] /\ user_count = 0
    /\ sub_process = [p \in Pids |-> -1]
    /\ terminate = FALSE /\ parent = "run" /\ signals = <<>>
    /\ proc = [p \in Pids |-> NoProcess]
    /\ share_mem = [i \in Slots |-> NULL] /\ sig_pipe = <<>>
    /\ to_parent = [p \in Pids |-> <<>>] /\ to_child = [p \in Pids |-> <<>>]
    /\ parentEdge = [p \in Pids |-> FALSE] /\ childEdge = [p \in Pids |-> FALSE]
    /\ conn = [p \in Pids |-> NoClient] /\ texts = 0 /\ terms = 0 /\ forks = 0
    /\ moved = FALSE /\ excused = FALSE
-----------------------------------------------------------------------------
(* The clients and the operator (external)                                  *)

Live(p) == proc[p].pc \notin Ended

ClientText(p) ==
    /\ Live(p) /\ ~conn[p].eof /\ texts < MaxTexts
    /\ conn' = [conn EXCEPT ![p].unread = @ + 1, ![p].edge = TRUE]
    /\ texts' = texts + 1
    /\ UNCHANGED <<parentVars, proc, share_mem, sig_pipe, pipeVars, terms, forks,
                   historyVars>>

ClientClose(p) ==
    /\ Live(p) /\ ~conn[p].eof
    /\ conn' = [conn EXCEPT ![p].eof = TRUE, ![p].edge = TRUE]
    /\ UNCHANGED <<parentVars, proc, share_mem, sig_pipe, pipeVars, boundVars,
                   historyVars>>

Terminate ==
    /\ parent # "gone" /\ terms < MaxTerms
    /\ sig_pipe' = WithTerm(sig_pipe) /\ terms' = terms + 1
    /\ UNCHANGED <<parentVars, proc, share_mem, pipeVars, conn, texts, forks, historyVars>>
-----------------------------------------------------------------------------
(* The parent                                                               *)

InLoop == signals = <<>> /\ parent # "gone"

(* A listening event that is in the same batch as the signal that stops the *)
(* server is still handled: the loop over the batch does not look at        *)
(* stop_server.                                                             *)
Accept(p) ==
    /\ InLoop /\ proc[p].pc = "free"
    /\ user_count < USER_LIMIT /\ forks < MaxForks
    /\ proc' = [proc EXCEPT ![p].pc = "forked", ![p].idx = user_count]
    /\ users' = [users EXCEPT ![user_count] = p]
    /\ sub_process' = [sub_process EXCEPT ![p] = user_count]
    /\ user_count' = user_count + 1 /\ forks' = forks + 1
    /\ excused' = (excused \/ terminate \/ parent = "stopping")
    /\ UNCHANGED <<terminate, parent, signals, share_mem, sig_pipe, pipeVars, conn, texts,
                   terms, moved>>

(* The children an index is sent to; the mutant sends it back as well.      *)
OthersAndItself(p) == {users[j] : j \in 0 .. user_count - 1}
Others(p) == {users[j] : j \in 0 .. user_count - 1} \ {p}

(* The parent reads one index of a child's pipe per edge.                   *)
Forward(p) ==
    /\ InLoop /\ parent = "run" /\ parentEdge[p] /\ sub_process[p] >= 0
    /\ IF to_parent[p] = <<>>
       THEN /\ parentEdge' = [parentEdge EXCEPT ![p] = FALSE]
            /\ UNCHANGED <<to_parent, to_child, childEdge>>
       ELSE LET open == {q \in Others(p) : Live(q)}
            IN  /\ parentEdge' = [parentEdge EXCEPT ![p] = FALSE]
                /\ to_parent' = [to_parent EXCEPT ![p] = Tail(@)]
                /\ to_child' = [q \in Pids |-> IF q \in open
                                  THEN Append(to_child[q], Head(to_parent[p]))
                                  ELSE to_child[q]]
                /\ childEdge' = [q \in Pids |-> q \in open \/ childEdge[q]]
    /\ UNCHANGED <<parentVars, proc, share_mem, sig_pipe, conn, boundVars, historyVars>>

RecvSignals ==
    /\ InLoop /\ parent = "run" /\ sig_pipe # <<>>
    /\ signals' = sig_pipe /\ sig_pipe' = <<>>
    /\ UNCHANGED <<users, user_count, sub_process, terminate, parent, proc, share_mem,
                   pipeVars, conn, boundVars, historyVars>>

(* sub_process after p was reaped and the last entry moved to del_user.     *)
(* Mutant: the moved user's index is not brought up to date.                *)
ReindexNot(p, del_user, last) == [sub_process EXCEPT ![p] = -1]
Reindex(p, del_user, last) == [sub_process EXCEPT ![p] = -1, ![last] = del_user]

(* One turn of the waitpid loop.  The last entry takes the freed place; for *)
(* the last one itself that puts its own index back into sub_process.       *)
(* Entries behind user_count are never read, and texts of a process that is *)
(* gone count as nobody's: both are NULL here.                              *)
Waitpid(p) ==
    /\ signals # <<>> /\ Head(signals) = "chld" /\ proc[p].pc = "zombie"
    /\ proc' = [proc EXCEPT ![p] = NoProcess]
    /\ to_parent' = [to_parent EXCEPT ![p] = <<>>]
    /\ parentEdge' = [parentEdge EXCEPT ![p] = FALSE]
    /\ LET del_user == sub_process[p]
           last == users[user_count - 1]
       IN  IF del_user < 0 \/ del_user > USER_LIMIT
           THEN /\ sub_process' = [sub_process EXCEPT ![p] = -1]
                /\ UNCHANGED <<users, user_count, moved>>
           ELSE /\ user_count' = user_count - 1
                /\ users' = [users EXCEPT ![del_user] = last, ![user_count - 1] = NULL]
                /\ sub_process' = Reindex(p, del_user, last)
                /\ moved' = (moved \/ last # p)
    /\ share_mem' = [i \in Slots |-> IF share_mem[i] = p THEN NULL ELSE share_mem[i]]
    /\ UNCHANGED <<terminate, parent, signals, sig_pipe, to_child, childEdge, conn,
                   boundVars, excused>>

(* waitpid finds no child that has ended: the byte is done.  Mutants: the   *)
(* byte is done after any number of children; the server stops as soon as   *)
(* it was told to.                                                          *)
NoneLeftSometimes == TRUE
NoneLeft == \A p \in Pids : proc[p].pc # "zombie"
LastHasLeftEarly == terminate
LastHasLeft == terminate /\ user_count = 0

WaitpidNone ==
    /\ signals # <<>> /\ Head(signals) = "chld"
    /\ NoneLeft
    /\ signals' = Tail(signals)
    /\ parent' = IF LastHasLeft THEN "stopping" ELSE parent
    /\ UNCHANGED <<users, user_count, sub_process, terminate, proc, share_mem, sig_pipe,
                   pipeVars, conn, boundVars, historyVars>>

(* What SIGTERM does to a child.  Until it calls addsig it has the parent's *)
(* handler, which writes into the pipe that the two share until the child   *)
(* closes it.                                                               *)
Killed(c) ==
    CASE c.pc = "blocked" -> [c EXCEPT !.stop_child = TRUE, !.pc = "test"]
      [] c.pc \in {"test", "enter"} -> [c EXCEPT !.stop_child = TRUE]
      [] OTHER -> c

SigTerm ==
    /\ signals # <<>> /\ Head(signals) = "term"
    /\ signals' = Tail(signals)
    /\ IF user_count = 0
       THEN /\ parent' = "stopping"
            /\ UNCHANGED <<terminate, proc, sig_pipe, excused>>
       ELSE LET all == {users[j] : j \in 0 .. user_count - 1}
            IN  /\ terminate' = TRUE
                /\ proc' = [p \in Pids |-> IF p \in all THEN Killed(proc[p]) ELSE proc[p]]
                /\ sig_pipe' = IF \E p \in all : proc[p].pc = "forked"
                               THEN WithTerm(sig_pipe) ELSE sig_pipe
                /\ excused' = (excused \/ \E p \in all : proc[p].pc \in {"deaf", "enter"})
                /\ UNCHANGED parent
    /\ UNCHANGED <<users, user_count, sub_process, share_mem, pipeVars, conn, boundVars,
                   moved>>

Exit ==
    /\ InLoop /\ parent = "stopping"
    /\ parent' = "gone"
    /\ UNCHANGED <<users, user_count, sub_process, terminate, signals, proc, share_mem,
                   sig_pipe, pipeVars, conn, boundVars, historyVars>>
-----------------------------------------------------------------------------
(* A child                                                                  *)

Goto(p, from, to) ==
    /\ proc[p].pc = from
    /\ proc' = [proc EXCEPT ![p].pc = to]
    /\ UNCHANGED <<parentVars, share_mem, sig_pipe, pipeVars, conn, boundVars, historyVars>>

CloseInherited(p) == Goto(p, "forked", "deaf")   \* main, before run_child
InstallHandler(p) == Goto(p, "deaf", "test")     \* run_child, before its loop
GoOn(p) == ~proc[p].stop_child /\ Goto(p, "test", "enter")
EnterWait(p) == Goto(p, "enter", "blocked")      \* a signal no longer gets lost

(* The loop ends: the child closes its descriptors and exits, the kernel    *)
(* sends SIGCHLD, and the parent's end of the pipe becomes readable.        *)
Leave(p) ==
    /\ proc[p].pc = "test" /\ proc[p].stop_child
    /\ proc' = [proc EXCEPT ![p].pc = "zombie", ![p].stop_child = FALSE]
    /\ sig_pipe' \in WithChld(sig_pipe)
    /\ parentEdge' = [parentEdge EXCEPT ![p] = TRUE]
    /\ to_child' = [to_child EXCEPT ![p] = <<>>]
    /\ childEdge' = [childEdge EXCEPT ![p] = FALSE]
    /\ conn' = [conn EXCEPT ![p] = NoClient]
    /\ UNCHANGED <<parentVars, share_mem, to_parent, boundVars, historyVars>>

(* The client's event: one recv into the slot, which is cleared even when   *)
(* there is nothing to receive.                                             *)
Receive(p) ==
    /\ proc[p].pc = "blocked" /\ conn[p].edge
    /\ \/ \E k \in 1 .. conn[p].unread : \E again \in {FALSE, k > 1} :
            /\ conn' = [conn EXCEPT ![p].unread = @ - k, ![p].edge = again]
            /\ share_mem' = [share_mem EXCEPT ![proc[p].idx] = p]
            /\ to_parent' = [to_parent EXCEPT ![p] = Append(@, proc[p].idx)]
            /\ parentEdge' = [parentEdge EXCEPT ![p] = TRUE]
            /\ proc' = [proc EXCEPT ![p].pc = "test"]
       \/ /\ conn[p].unread = 0
          /\ conn' = [conn EXCEPT ![p].edge = FALSE]
          /\ share_mem' = [share_mem EXCEPT ![proc[p].idx] = NULL]
          /\ proc' = [proc EXCEPT ![p].pc = "test", ![p].stop_child = @ \/ conn[p].eof]
          /\ UNCHANGED <<to_parent, parentEdge>>
    /\ UNCHANGED <<parentVars, sig_pipe, to_child, childEdge, boundVars, historyVars>>

(* The pipe's event: one index, and what its slot holds by now.             *)
Relay(p) ==
    /\ proc[p].pc = "blocked" /\ childEdge[p]
    /\ to_child' = [to_child EXCEPT ![p] = IF @ = <<>> THEN @ ELSE Tail(@)]
    /\ childEdge' = [childEdge EXCEPT ![p] = FALSE]
    /\ proc' = [proc EXCEPT ![p].pc = "test"]
    /\ UNCHANGED <<parentVars, share_mem, sig_pipe, to_parent, parentEdge, conn, boundVars,
                   historyVars>>
-----------------------------------------------------------------------------
Parent ==
    \/ RecvSignals \/ WaitpidNone \/ SigTerm \/ Exit
    \/ \E p \in Pids : Forward(p) \/ Waitpid(p)

Child(p) ==
    \/ CloseInherited(p) \/ InstallHandler(p) \/ GoOn(p) \/ EnterWait(p) \/ Leave(p)
    \/ Receive(p) \/ Relay(p)

Next ==
    \/ Parent
    \/ Terminate
    \/ \E p \in Pids : Accept(p) \/ Child(p) \/ ClientText(p) \/ ClientClose(p)

(* The kernel lets every process run; clients and the operator owe nothing. *)
Fairness == WF_vars(Parent) /\ \A p \in Pids : WF_vars(Child(p))

Spec == Init /\ [][Next]_vars /\ Fairness
-----------------------------------------------------------------------------
PC == {"free", "forked", "deaf", "test", "enter", "blocked", "zombie"}

(* Every variable has its type; user_count never exceeds USER_LIMIT (214).  *)
TypeOK ==
    /\ users \in [Entries -> Pids \cup {NULL}] /\ user_count \in Entries
    /\ sub_process \in [Pids -> Slots \cup {-1}]
    /\ terminate \in BOOLEAN /\ parent \in {"run", "stopping", "gone"}
    /\ signals \in Seq(SignalBytes) /\ sig_pipe \in Seq(SignalBytes)
    /\ proc \in [Pids -> [pc : PC, idx : Slots, stop_child : BOOLEAN]]
    /\ share_mem \in [Slots -> Pids \cup {NULL}]
    /\ to_parent \in [Pids -> Seq(Slots)] /\ to_child \in [Pids -> Seq(Slots)]
    /\ parentEdge \in [Pids -> BOOLEAN] /\ childEdge \in [Pids -> BOOLEAN]
    /\ conn \in [Pids -> [unread : Nat, eof : BOOLEAN, edge : BOOLEAN]]
    /\ texts \in Nat /\ terms \in Nat /\ forks \in Nat
    /\ moved \in BOOLEAN /\ excused \in BOOLEAN

(* users and sub_process describe the children whatever the order in which  *)
(* they end and are reaped, and process numbers are reused (281-283): the   *)
(* entries in use are the processes not yet reaped, each at its own index.  *)
(* Until a user is moved, every child works in the slot of its entry.       *)
TableMatches ==
    /\ \A j \in 0 .. user_count - 1 :
          /\ users[j] \in Pids
          /\ proc[users[j]].pc # "free" /\ sub_process[users[j]] = j
    /\ \A p \in Pids : proc[p].pc # "free" =>
          /\ sub_process[p] \in 0 .. user_count - 1 /\ users[sub_process[p]] = p
          /\ ~moved => proc[p].idx = sub_process[p]

(* The server ends only when no child is left that could write to its       *)
(* shared memory (287-295), unless a client came in after the signal, or a  *)
(* child did not hear the signal: excused notes both.                       *)
NoOrphan == parent = "gone" /\ ~excused => \A p \in Pids : proc[p].pc = "free"

(* Nobody is sent the text of his own client (323-329), although the slot   *)
(* is read long after the index was sent; until a user has been moved, for  *)
(* then two children may write into one slot.                               *)
NoEcho ==
    [][\A p \in Pids :
         (~moved /\ Live(p) /\ Len(to_child'[p]) < Len(to_child[p])
            /\ proc'[p].pc = "test")
         => share_mem[Head(to_child[p])] # p]_vars

(* SIGTERM ends the server (284-308) although children that end together    *)
(* raise one SIGCHLD; unless a child was caught between fork and addsig or  *)
(* between the test of stop_child and epoll_wait (95-97), or a client was   *)
(* accepted afterwards.                                                     *)
StopsAfterTerm ==
    (\E i \in 1 .. Len(sig_pipe) : sig_pipe[i] = "term")
       ~> (parent = "gone" \/ excused)
=============================================================================
