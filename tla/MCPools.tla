------------------------------- MODULE MCPools -------------------------------
(* The process pool and the CGI server for TLC, one of them in a behaviour. *)
EXTENDS PoolCgi

VARIABLE which

vars == <<which, poolVars, cgiVars>>

Init == which \in {"pool", "cgi"} /\ PoolInit /\ CgiInit

OfPool(A) == which = "pool" /\ A /\ UNCHANGED <<which, cgiVars>>
OfCgi(A) == which = "cgi" /\ A /\ UNCHANGED which

Next == OfPool(PoolNext) \/ OfCgi(CgiNext)

(* The kernel runs the parent and every child; clients and scripts owe      *)
(* nothing.  epoll_wait returns every event there is, so requests cannot    *)
(* keep a child from the event of its pipe.                                 *)
Fairness ==
    /\ WF_vars(OfPool(Parent) \/ OfCgi(CgiParent))
    /\ \A i \in Children : WF_vars(OfPool(Child(i)) \/ OfCgi(CgiChild(i)))
    /\ \A i \in Children : SF_vars(OfCgi(CgiAccept(i) \/ PipeEnd(i)))

Spec == Init /\ [][Next]_vars /\ Fairness

(* PoolCgi: when the parent is killed, its children end one after the       *)
(* other, the last one first (117-118), as each lets go of the pipes to     *)
(* those before; unless an int and the end of a pipe were one event, or a   *)
(* script runs on.                                                          *)
CgiOrphansEnd ==
    (which = "cgi" /\ parent = "killed") ~>
       \/ stranded \/ \A i \in Children : Ended(i)
       \/ \E i \in Children : scripts[i] > 0
=============================================================================
