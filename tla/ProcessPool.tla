----------------------------- MODULE ProcessPool -----------------------------
(***************************************************************************)
(* chapter_15/01_process_pool.h: a parent that waits on the listening      *)
(* socket and announces connections to its children round robin, one int   *)
(* per event through a socket pair; the children, which share the socket,  *)
(* accept.  Every process reads its signals from a pipe of its own.        *)
(*                                                                         *)
(* The constructor has forked all children.  Everything is edge triggered: *)
(* two arrivals before the reader looks are one event, and then one int is *)
(* read.  What is done for a connection after accept is the template       *)
(* parameter's business; it may crash its process (Crash).                 *)
(***************************************************************************)
EXTENDS Integers, Sequences, FiniteSets, SignalPipe

CONSTANTS m_process_number,
          MaxConns,   \* bound of the model: connections that arrive
          MaxTerms    \* bound of the model: SIGTERMs sent to the parent

ASSUME PoolAssumption ==
    m_process_number \in Nat \ {0} /\ MaxConns \in Nat /\ MaxTerms \in Nat

Children == 0 .. m_process_number - 1

VARIABLES
    parent,      \* "setup" (default signal actions), "run", "stopping" (m_stop),
                 \*   "gone" (run_parent returned), "killed"
    m_pid,       \* whether m_sub_process[i].m_pid is known, i.e. not -1
    sub_process_counter,
    sig_pipe, signals,  \* bytes for the parent: in the pipe, and received
    child,       \* per child pc, stop (stop_child), and term: sent SIGTERM
    pipe, pipeEdge,     \* ints on their way to a child
    backlog, listenEdge,
    conns, terms,       \* the bounds' counters
  (* history                                                               *)
    stranded,    \* an announcement merged with another or was lost
    excused      \* a SIGTERM cannot stop the server: see Die

parentVars == <<parent, m_pid, sub_process_counter, signals>>
netVars == <<backlog, listenEdge, conns, terms>>
pipeVars == <<pipe, pipeEdge>>
poolVars == <<parentVars, sig_pipe, child, pipeVars, netVars, stranded, excused>>

PoolInit ==
    /\ parent = "setup" /\ m_pid = [i \in Children |-> TRUE] /\ sub_process_counter = 0
    /\ sig_pipe = <<>> /\ signals = <<>>
    /\ child = [i \in Children |-> [pc |-> "setup", stop |-> FALSE, term |-> FALSE]]
    /\ pipe = [i \in Children |-> 0] /\ pipeEdge = [i \in Children |-> FALSE]
    /\ backlog = 0 /\ listenEdge = FALSE /\ conns = 0 /\ terms = 0
    /\ stranded = FALSE /\ excused = FALSE

Ended(i) == child[i].pc \in {"zombie", "reaped"}
-----------------------------------------------------------------------------
(* Clients, the operator and accidents (external)                           *)

Connect ==
    /\ conns < MaxConns
    /\ conns' = conns + 1 /\ backlog' = backlog + 1 /\ listenEdge' = TRUE
    /\ stranded' = (stranded \/ listenEdge)
    /\ UNCHANGED <<parentVars, sig_pipe, child, pipeVars, terms, excused>>

Terminate ==
    /\ parent \in {"run", "stopping"} /\ terms < MaxTerms
    /\ terms' = terms + 1 /\ sig_pipe' = WithTerm(sig_pipe)
    /\ UNCHANGED <<parentVars, child, pipeVars, backlog, listenEdge, conns, stranded, excused>>

(* A signal that the parent does not handle, or not yet.                    *)
KillParent ==
    /\ parent \in {"setup", "run"} /\ parent' = "killed"
    /\ UNCHANGED <<m_pid, sub_process_counter, signals, sig_pipe, child, pipeVars, netVars,
                   stranded, excused>>

(* A child ends.  Before the parent has its handler SIGCHLD is ignored: the *)
(* last child to go then takes with it the last SIGCHLD there will be.      *)
Dies(i) ==
    /\ child' = [child EXCEPT ![i] = [pc |-> "zombie", stop |-> FALSE, term |-> FALSE]]
    /\ sig_pipe' \in IF parent \in {"run", "stopping"} THEN WithChld(sig_pipe) ELSE {sig_pipe}
    /\ pipe' = [pipe EXCEPT ![i] = 0]
    /\ excused' = (excused \/ (parent = "setup" /\ \A j \in Children \ {i} : Ended(j)))
    /\ UNCHANGED <<parentVars, netVars>>

Die(i) ==
    /\ Dies(i) /\ stranded' = (stranded \/ pipe[i] > 0)
    /\ pipeEdge' = [pipeEdge EXCEPT ![i] = FALSE]

Crash(i) == ~Ended(i) /\ Die(i)
-----------------------------------------------------------------------------
(* The parent: run_parent                                                   *)

Setup ==
    /\ parent = "setup" /\ parent' = "run"
    /\ UNCHANGED <<m_pid, sub_process_counter, signals, sig_pipe, child, pipeVars, netVars,
                   stranded, excused>>

InLoop == parent = "run" /\ signals = <<>>

(* One int to child i.  It is missed when the child has ended unnoticed, or *)
(* becomes one event with an int that the child has not looked at yet.      *)
SendTo(i) ==
    /\ pipe' = IF Ended(i) THEN pipe ELSE [pipe EXCEPT ![i] = @ + 1]
    /\ pipeEdge' = IF Ended(i) THEN pipeEdge ELSE [pipeEdge EXCEPT ![i] = TRUE]
    /\ sub_process_counter' = (i + 1) % m_process_number
IsMissed(i) == child[i].pc = "zombie" \/ pipeEdge[i]

(* The next child in turn that has not been reaped.  Mutant: the next one.  *)
Turn(i) == (i - sub_process_counter) % m_process_number
IsNextBlindly(i) == Turn(i) = 0
IsNext(i) == m_pid[i] /\ \A j \in Children : m_pid[j] => Turn(i) <= Turn(j)

Announce ==
    /\ InLoop /\ listenEdge /\ listenEdge' = FALSE
    /\ \/ /\ \A i \in Children : ~m_pid[i]
          /\ parent' = "stopping"
          /\ UNCHANGED <<pipeVars, stranded, sub_process_counter>>
       \/ /\ \E i \in Children :
                IsNext(i) /\ SendTo(i) /\ stranded' = (stranded \/ IsMissed(i))
          /\ UNCHANGED parent
    /\ UNCHANGED <<m_pid, signals, sig_pipe, child, backlog, conns, terms, excused>>

RecvSignals ==
    /\ InLoop /\ sig_pipe # <<>>
    /\ signals' = sig_pipe /\ sig_pipe' = <<>>
    /\ UNCHANGED <<parent, m_pid, sub_process_counter, child, pipeVars, netVars, stranded,
                   excused>>

NextSignal(s) == parent \in {"run", "stopping"} /\ signals # <<>> /\ Head(signals) = s

Waitpid(i) ==
    /\ NextSignal("chld") /\ child[i].pc = "zombie"
    /\ child' = [child EXCEPT ![i].pc = "reaped"] /\ m_pid' = [m_pid EXCEPT ![i] = FALSE]
    /\ UNCHANGED <<parent, sub_process_counter, signals, sig_pipe, pipeVars, netVars,
                   stranded, excused>>

(* waitpid finds nobody: m_stop says whether all children are gone.         *)
(* Mutants: one child is enough; the byte is done after any number of them. *)
AllJoinedSome == \E i \in Children : ~m_pid[i]
AllJoined == \A i \in Children : ~m_pid[i]
NoZombieMaybe == TRUE
NoZombie == \A i \in Children : child[i].pc # "zombie"

WaitpidNone ==
    /\ NextSignal("chld") /\ NoZombie
    /\ signals' = Tail(signals)
    /\ parent' = IF AllJoined THEN "stopping" ELSE "run"
    /\ UNCHANGED <<m_pid, sub_process_counter, sig_pipe, child, pipeVars, netVars, stranded,
                   excused>>

SigTerm ==
    /\ NextSignal("term")
    /\ signals' = Tail(signals)
    /\ child' = [i \in Children |-> IF m_pid[i] /\ ~Ended(i)
                                    THEN [child[i] EXCEPT !.term = TRUE] ELSE child[i]]
    /\ UNCHANGED <<parent, m_pid, sub_process_counter, sig_pipe, pipeVars, netVars, stranded,
                   excused>>

Exit ==
    /\ parent = "stopping" /\ signals = <<>> /\ parent' = "gone"
    /\ UNCHANGED <<m_pid, sub_process_counter, signals, sig_pipe, child, pipeVars, netVars,
                   stranded, excused>>

Parent ==
    \/ Setup \/ Announce \/ RecvSignals \/ WaitpidNone \/ SigTerm \/ Exit
    \/ \E i \in Children : Waitpid(i)
-----------------------------------------------------------------------------
(* A child: run_child                                                       *)

ChildSetup(i) ==
    /\ child[i].pc = "setup" /\ ~child[i].term
    /\ child' = [child EXCEPT ![i].pc = "wait"]
    /\ UNCHANGED <<parentVars, sig_pipe, pipeVars, netVars, stranded, excused>>

(* One int is read and one connection accepted, if there still is one.      *)
TakeInt(i) ==
    /\ pipeEdge[i] /\ pipeEdge' = [pipeEdge EXCEPT ![i] = FALSE]
    /\ pipe' = [pipe EXCEPT ![i] = @ - 1]
    /\ backlog' = IF backlog > 0 THEN backlog - 1 ELSE 0
    /\ UNCHANGED <<listenEdge, conns, terms, stranded, excused>>

ChildAccept(i) ==
    /\ child[i].pc = "wait" /\ TakeInt(i)
    /\ UNCHANGED <<parentVars, sig_pipe, child>>

(* SIGTERM kills the child before setup_sig_pipe; later it is a byte in the *)
(* child's own pipe, which sets m_stop.                                     *)
Stop(i) == ~Ended(i) /\ child[i].term /\ Die(i)

Child(i) == ChildSetup(i) \/ ChildAccept(i) \/ Stop(i)

PoolNext ==
    \/ Connect \/ Terminate \/ KillParent \/ Parent
    \/ \E i \in Children : Crash(i) \/ Child(i)
-----------------------------------------------------------------------------
(* The parent ends by itself only when it has reaped every child (311-316), *)
(* and m_pid is -1 exactly for those (305-307).                             *)
EndsAfterChildren ==
    /\ \A i \in Children : m_pid[i] = (child[i].pc # "reaped")
    /\ parent \in {"stopping", "gone"} => \A i \in Children : child[i].pc = "reaped"

(* A connection that waits is accepted (184-201, 268-287), unless two       *)
(* arrivals became one event, its int went to a child that had ended        *)
(* unnoticed, or there is nobody left to accept.                            *)
EveryoneServed ==
    backlog > 0 ~> (backlog = 0 \/ stranded \/ parent \in {"stopping", "gone", "killed"})

(* SIGTERM ends the server after all of its children (319-329, 298-317),    *)
(* unless every child was gone before the parent had its SIGCHLD handler.   *)
StopsAfterTerm ==
    (\E k \in 1 .. Len(sig_pipe) : sig_pipe[k] = "term")
       ~> (excused \/ parent \in {"gone", "killed"})
=============================================================================
