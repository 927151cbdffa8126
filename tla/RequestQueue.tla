---------------------------- MODULE RequestQueue ----------------------------
(***************************************************************************)
(* What the thread pool of chapter_15/03_threadpool.h promises its user: a *)
(* bounded first-in first-out queue of requests, each handed to exactly    *)
(* one worker.  Locks, semaphore and program counters are not visible.     *)
(*                                                                         *)
(* The pool is proved to implement this module (ThreadPoolProofs), and the *)
(* web server model uses it in place of the pool.                          *)
(***************************************************************************)
EXTENDS Naturals, Sequences

CONSTANTS Workers,     \* the threads that run threadpool::run
          Requests,    \* the objects whose process() is called (T* of the template)
          NoRequest,   \* a worker that serves nothing
          MaxRequests  \* m_max_requests

ASSUME QueueAssumption ==
    /\ MaxRequests \in Nat \ {0}      \* the constructor throws otherwise
    /\ NoRequest \notin Requests

VARIABLES pending,   \* requests accepted and not yet given to a worker
          serving,   \* what each worker is processing
          closed     \* the pool has been told to stop

queueVars == <<pending, serving, closed>>

QueueInit ==
    /\ pending = <<>>
    /\ serving = [w \in Workers |-> NoRequest]
    /\ closed = FALSE

(***************************************************************************)
(* A request is refused only when the queue already holds more than        *)
(* MaxRequests entries, so MaxRequests + 1 of them can wait.               *)
(***************************************************************************)
Full == Len(pending) > MaxRequests

Submit(r) ==
    /\ ~Full
    /\ pending' = Append(pending, r)
    /\ UNCHANGED <<serving, closed>>

Start(w) ==
    /\ serving[w] = NoRequest
    /\ pending # <<>>
    /\ serving' = [serving EXCEPT ![w] = Head(pending)]
    /\ pending' = Tail(pending)
    /\ UNCHANGED closed

Finish(w) ==
    /\ serving[w] # NoRequest
    /\ serving' = [serving EXCEPT ![w] = NoRequest]
    /\ UNCHANGED <<pending, closed>>

Close ==
    /\ ~closed
    /\ closed' = TRUE
    /\ UNCHANGED <<pending, serving>>

QueueNext ==
    \/ \E r \in Requests : Submit(r)
    \/ \E w \in Workers : Start(w) \/ Finish(w)
    \/ Close

(* Until it is closed, the pool keeps starting and finishing requests.      *)
QueueFairness ==
    /\ WF_queueVars(~closed /\ \E w \in Workers : Start(w))
    /\ \A w \in Workers : WF_queueVars(~closed /\ Finish(w))

QueueSafety == QueueInit /\ [][QueueNext]_queueVars
QueueSpec == QueueSafety /\ QueueFairness
=============================================================================
