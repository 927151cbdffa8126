----------------------------- MODULE ThreadPool -----------------------------
(***************************************************************************)
(* The thread pool of chapter_15/03_threadpool.h with the locker and sem   *)
(* wrappers of chapter_14/02_locker.h.                                     *)
(*                                                                         *)
(* Producers call append(), workers execute run().  Every step is one      *)
(* access to shared state: acquiring m_queuelocker, touching m_workqueue,  *)
(* releasing the lock, posting or waiting on m_queuestat, reading m_stop.  *)
(* The initial state is the one the constructor leaves when it returns.    *)
(***************************************************************************)
EXTENDS Naturals, Sequences, FiniteSets

CONSTANTS Producers,   \* threads that call append()
          Workers,     \* the m_thread_number threads that execute run()
          Requests,    \* the T objects that are appended
          NoRequest,   \* no request in a thread's local variable
          NoThread,    \* m_queuelocker is free
          MaxRequests  \* m_max_requests

Threads == Producers \cup Workers

ASSUME PoolAssumption ==
    /\ MaxRequests \in Nat \ {0}
    /\ NoRequest \notin Requests
    /\ NoThread \notin Threads
    /\ Producers \cap Workers = {}
    /\ IsFiniteSet(Producers) /\ IsFiniteSet(Workers)

VARIABLES m_workqueue,    \* std::list<T*>
          m_queuelocker,  \* the thread that holds the mutex, or NoThread
          m_queuestat,    \* value of the semaphore
          m_stop,
          freed,          \* ~threadpool has returned: no member may be used again
          pc,
          request         \* append's argument, run's local variable

vars == <<m_workqueue, m_queuelocker, m_queuestat, m_stop, freed, pc, request>>

Init ==
    /\ m_workqueue = <<>>
    /\ m_queuelocker = NoThread
    /\ m_queuestat = 0
    /\ m_stop = FALSE
    /\ freed = FALSE
    /\ pc = [t \in Threads |-> IF t \in Producers THEN "idle" ELSE "test"]
    /\ request = [t \in Threads |-> NoRequest]

At(t, from) == ~freed /\ pc[t] = from

Goto(t, to) == pc' = [pc EXCEPT ![t] = to]

Acquire(t) == m_queuelocker = NoThread /\ m_queuelocker' = t

Release == m_queuelocker' = NoThread
-----------------------------------------------------------------------------
(* bool append(T* request)                                                 *)

(* A call is made while the pool exists, and takes the lock.               *)
AppendLock(p, r) ==
    /\ At(p, "idle")
    /\ ~m_stop
    /\ Acquire(p)
    /\ request' = [request EXCEPT ![p] = r]
    /\ Goto(p, "append")
    /\ UNCHANGED <<m_workqueue, m_queuestat, m_stop, freed>>

(* mutant: the bound is off by one more                                     *)
TooManyRequestsLoose == Len(m_workqueue) > MaxRequests + 1

TooManyRequests == Len(m_workqueue) > MaxRequests

(* mutant: the early return falls through to post()                         *)
AppendFullPosts(p) ==
    /\ At(p, "append")
    /\ TooManyRequests
    /\ Release
    /\ request' = [request EXCEPT ![p] = NoRequest]
    /\ Goto(p, "post")
    /\ UNCHANGED <<m_workqueue, m_queuestat, m_stop, freed>>

AppendFull(p) ==
    /\ At(p, "append")
    /\ TooManyRequests
    /\ Release
    /\ request' = [request EXCEPT ![p] = NoRequest]
    /\ Goto(p, "idle")
    /\ UNCHANGED <<m_workqueue, m_queuestat, m_stop, freed>>

AppendPush(p) ==
    /\ At(p, "append")
    /\ ~TooManyRequests
    /\ m_workqueue' = Append(m_workqueue, request[p])
    /\ request' = [request EXCEPT ![p] = NoRequest]
    /\ Goto(p, "pushed")
    /\ UNCHANGED <<m_queuelocker, m_queuestat, m_stop, freed>>

(* mutant: post() is forgotten                                              *)
AppendUnlockOnly(p) ==
    /\ At(p, "pushed")
    /\ Release
    /\ Goto(p, "idle")
    /\ UNCHANGED <<m_workqueue, m_queuestat, m_stop, freed, request>>

AppendUnlock(p) ==
    /\ At(p, "pushed")
    /\ Release
    /\ Goto(p, "post")
    /\ UNCHANGED <<m_workqueue, m_queuestat, m_stop, freed, request>>

(* mutant: an event flag instead of a counting semaphore                    *)
AppendPostFlag(p) ==
    /\ At(p, "post")
    /\ m_queuestat' = 1
    /\ Goto(p, "idle")
    /\ UNCHANGED <<m_workqueue, m_queuelocker, m_stop, freed, request>>

AppendPost(p) ==
    /\ At(p, "post")
    /\ m_queuestat' = m_queuestat + 1
    /\ Goto(p, "idle")
    /\ UNCHANGED <<m_workqueue, m_queuelocker, m_stop, freed, request>>
-----------------------------------------------------------------------------
(* void run()                                                              *)

RunTest(w) ==
    /\ At(w, "test")
    /\ Goto(w, IF m_stop THEN "exit" ELSE "wait")
    /\ UNCHANGED <<m_workqueue, m_queuelocker, m_queuestat, m_stop, freed, request>>

(* mutant: wait() returns at once, as when sem_wait fails                   *)
RunWaitFails(w) ==
    /\ At(w, "wait")
    /\ m_queuestat' = m_queuestat - 1
    /\ Goto(w, "lock")
    /\ UNCHANGED <<m_workqueue, m_queuelocker, m_stop, freed, request>>

RunWait(w) ==
    /\ At(w, "wait")
    /\ m_queuestat > 0
    /\ m_queuestat' = m_queuestat - 1
    /\ Goto(w, "lock")
    /\ UNCHANGED <<m_workqueue, m_queuelocker, m_stop, freed, request>>

RunLock(w) ==
    /\ At(w, "lock")
    /\ Acquire(w)
    /\ Goto(w, "pop")
    /\ UNCHANGED <<m_workqueue, m_queuestat, m_stop, freed, request>>

(* mutant: run pops the newest request                                      *)
RunPopNewest(w) ==
    /\ At(w, "pop")
    /\ m_workqueue # <<>>
    /\ request' = [request EXCEPT ![w] = m_workqueue[Len(m_workqueue)]]
    /\ m_workqueue' = SubSeq(m_workqueue, 1, Len(m_workqueue) - 1)
    /\ Goto(w, "popped")
    /\ UNCHANGED <<m_queuelocker, m_queuestat, m_stop, freed>>

(* The THEN branch is the code's "if (m_workqueue.empty())".                *)
RunPop(w) ==
    /\ At(w, "pop")
    /\ IF m_workqueue = <<>>
         THEN /\ Release
              /\ Goto(w, "test")
              /\ UNCHANGED <<m_workqueue, request>>
         ELSE /\ request' = [request EXCEPT ![w] = Head(m_workqueue)]
              /\ m_workqueue' = Tail(m_workqueue)
              /\ Goto(w, "popped")
              /\ UNCHANGED m_queuelocker
    /\ UNCHANGED <<m_queuestat, m_stop, freed>>

RunUnlock(w) ==
    /\ At(w, "popped")
    /\ Release
    /\ Goto(w, IF request[w] = NoRequest THEN "test" ELSE "process")
    /\ UNCHANGED <<m_workqueue, m_queuestat, m_stop, freed, request>>

RunProcess(w) ==
    /\ At(w, "process")
    /\ request' = [request EXCEPT ![w] = NoRequest]
    /\ Goto(w, "test")
    /\ UNCHANGED <<m_workqueue, m_queuelocker, m_queuestat, m_stop, freed>>
-----------------------------------------------------------------------------
(***************************************************************************)
(* ~threadpool(): its body sets m_stop; then the members are destroyed and *)
(* the memory is released.  The pool's only owner (main) calls it when it  *)
(* is not inside append().  Nothing joins or wakes the workers.            *)
(***************************************************************************)
Destroy ==
    /\ ~m_stop
    /\ \A p \in Producers : pc[p] = "idle"
    /\ m_stop' = TRUE
    /\ UNCHANGED <<m_workqueue, m_queuelocker, m_queuestat, freed, pc, request>>

Free ==
    /\ m_stop /\ ~freed
    /\ freed' = TRUE
    /\ UNCHANGED <<m_workqueue, m_queuelocker, m_queuestat, m_stop, pc, request>>
-----------------------------------------------------------------------------
AppendStep(p) ==
    \/ AppendFull(p) \/ AppendPush(p) \/ AppendUnlock(p) \/ AppendPost(p)

WorkerStep(w) ==
    \/ RunTest(w) \/ RunWait(w) \/ RunPop(w) \/ RunUnlock(w) \/ RunProcess(w)

Next ==
    \/ \E p \in Producers : AppendStep(p) \/ \E r \in Requests : AppendLock(p, r)
    \/ \E w \in Workers : WorkerStep(w) \/ RunLock(w)
    \/ Destroy
    \/ Free

(***************************************************************************)
(* A thread that can run does run.  Taking the lock is the one step that   *)
(* other threads can disable again and again: the futex behind the mutex   *)
(* does not starve a waiter, hence strong fairness.  Nobody is obliged to  *)
(* call append or to destroy the pool.                                     *)
(***************************************************************************)
Fairness ==
    /\ \A p \in Producers : WF_vars(AppendStep(p))
    /\ \A w \in Workers : WF_vars(WorkerStep(w)) /\ SF_vars(RunLock(w))

Spec == Init /\ [][Next]_vars /\ Fairness
-----------------------------------------------------------------------------
PCs == {"idle", "append", "pushed", "post",
        "test", "wait", "lock", "pop", "popped", "process", "exit"}

TypeOK ==
    /\ m_workqueue \in Seq(Requests)
    /\ m_queuelocker \in Threads \cup {NoThread}
    /\ m_queuestat \in Nat
    /\ m_stop \in BOOLEAN
    /\ freed \in BOOLEAN
    /\ pc \in [Threads -> PCs]
    /\ request \in [Threads -> Requests \cup {NoRequest}]

(* Mutual exclusion: the thread that owns m_queuelocker, and no other, is   *)
(* between lock() and unlock(), in append (69-75) or in run (91-98).        *)
MutualExclusion ==
    \A t \in Threads :
        (m_queuelocker = t) <=> (pc[t] \in {"append", "pushed", "pop", "popped"})

(***************************************************************************)
(* Tokens: a thread carries a token of the semaphore when it has pushed    *)
(* and not posted yet, or has been let through wait() and not popped yet.  *)
(* The semaphore and the tokens in flight together count the queue: no     *)
(* wake-up is ever lost and none is spurious, although append posts after  *)
(* it has released the lock (75-76) and run waits before it takes it (90). *)
(***************************************************************************)
InFlight == {t \in Threads : pc[t] \in {"pushed", "post", "lock", "pop"}}

TokenCount == Len(m_workqueue) = m_queuestat + Cardinality(InFlight)

(* Who holds a request: a producer between lines 69 and 74, a worker from    *)
(* line 96 to the end of process(); a popped request is never null, so the  *)
(* branch of lines 99-101 is dead code too.                                 *)
Steps(t) == IF t \in Producers THEN {"idle", "append", "pushed", "post"}
                               ELSE PCs \ {"idle", "append", "pushed", "post"}

RequestHeld ==
    \A t \in Threads :
        /\ pc[t] \in Steps(t)
        /\ request[t] # NoRequest <=> pc[t] \in {"append", "popped", "process"}

(* A worker that was let through never finds the queue empty: the branch    *)
(* of lines 92-95 is dead code.                                             *)
NeverPopsEmpty == \A w \in Workers : pc[w] = "pop" => m_workqueue # <<>>

(* append compares with > (line 70): the queue holds one request more than  *)
(* m_max_requests, and never two more.                                      *)
QueueBound == Len(m_workqueue) <= MaxRequests + 1

(* The pool is the abstract queue: every accepted request reaches exactly   *)
(* one worker, in the order of acceptance, as long as the pool exists.      *)
RQ == INSTANCE RequestQueue
        WITH pending <- m_workqueue,
             serving <- [w \in Workers |-> request[w]],
             closed <- m_stop

ImplementsQueue == RQ!QueueSpec

(* Everything that was queued, even by a producer that went on to other     *)
(* things before a worker woke up, is processed unless the pool is destroyed.*)
QueuedIsProcessed ==
    \A r \in Requests :
        (\E i \in DOMAIN m_workqueue : m_workqueue[i] = r)
            ~> (m_stop \/ \E w \in Workers : pc[w] = "process" /\ request[w] = r)
=============================================================================
