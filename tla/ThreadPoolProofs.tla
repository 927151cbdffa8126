-------------------------- MODULE ThreadPoolProofs --------------------------
(***************************************************************************)
(* Proofs about ThreadPool, for any number of producers, workers and       *)
(* requests and any bound on the queue.                                    *)
(***************************************************************************)
EXTENDS ThreadPool, FiniteSetTheorems, TLAPS

(* The inductive invariant.  The count of tokens is the reason why a worker *)
(* never pops an empty queue; it needs mutual exclusion (one pop per token  *)
(* and per element), and RequestHeld keeps producers and workers apart.     *)
IInv == TypeOK /\ RequestHeld /\ MutualExclusion /\ TokenCount

(* Threads that carry a token form a finite set, whose size is the sum of   *)
(* TokenCount; it grows and shrinks by one thread at a time.                *)
LEMMA InFlightFinite == IsFiniteSet(InFlight) /\ Cardinality(InFlight) \in Nat
<1>1. IsFiniteSet(Threads)
  BY PoolAssumption, FS_Union DEF Threads
<1>2. InFlight \subseteq Threads
  BY DEF InFlight
<1> QED
  BY <1>1, <1>2, FS_Subset, FS_CardinalityType

(* A thread that takes a token raises the count by one.                     *)
LEMMA TokenTaken ==
  ASSUME NEW t \in Threads, t \notin InFlight, InFlight' = InFlight \cup {t}
  PROVE  Cardinality(InFlight)' = Cardinality(InFlight) + 1
<1>1. Cardinality(InFlight') = Cardinality(InFlight) + 1
  BY InFlightFinite, FS_AddElement
<1> QED  BY <1>1

(* A thread that gives its token back lowers it by one.                     *)
LEMMA TokenReturned ==
  ASSUME NEW t \in Threads, t \in InFlight, InFlight' = InFlight \ {t}
  PROVE  Cardinality(InFlight)' = Cardinality(InFlight) - 1
<1>1. Cardinality(InFlight') = Cardinality(InFlight) - 1
  BY InFlightFinite, FS_RemoveElement
<1> QED  BY <1>1


(* A thread that carries a token: the queue is not empty.                   *)
LEMMA TokenHeld ==
  ASSUME IInv, NEW t \in InFlight
  PROVE  m_workqueue # <<>>
<1>1. Cardinality(InFlight) # 0
  BY InFlightFinite, FS_EmptySet
<1> QED
  BY <1>1, InFlightFinite DEF IInv, TypeOK, TokenCount
-----------------------------------------------------------------------------
(* The constructor establishes the invariant.                               *)
LEMMA InitIInv == Init => IInv
<1> SUFFICES ASSUME Init PROVE IInv
  OBVIOUS
<1> USE PoolAssumption
<1>1. TypeOK /\ RequestHeld /\ MutualExclusion
  <2>1. TypeOK
    <3>1. m_workqueue \in Seq(Requests)
      BY DEF Init
    <3>2. pc \in [Threads -> PCs]
      BY DEF Init, PCs
    <3> QED
      BY <3>1, <3>2 DEF Init, TypeOK
  <2>2. RequestHeld
    BY DEF Init, RequestHeld, Steps, PCs, Threads
  <2>3. MutualExclusion
    BY DEF Init, MutualExclusion, Threads
  <2> QED
    BY <2>1, <2>2, <2>3
<1>2. TokenCount
  <2>1. InFlight = {}
    BY DEF Init, InFlight
  <2> QED
    BY <2>1, FS_EmptySet DEF Init, TokenCount
<1> QED
  BY <1>1, <1>2 DEF IInv

(* The part of the invariant that is about one thread at a time.            *)
LEMMA TypeStep == IInv /\ [Next]_vars => TypeOK' /\ RequestHeld' /\ MutualExclusion'
<1> SUFFICES ASSUME IInv, [Next]_vars
             PROVE  TypeOK' /\ RequestHeld' /\ MutualExclusion'
  OBVIOUS
<1> USE PoolAssumption DEF IInv, TypeOK, RequestHeld, MutualExclusion, Steps, PCs,
                           Threads, At, Goto, Acquire, Release
<1>1. ASSUME NEW p \in Producers, NEW r \in Requests, AppendLock(p, r)
      PROVE  TypeOK' /\ RequestHeld' /\ MutualExclusion'
  BY <1>1 DEF AppendLock
<1>2. ASSUME NEW p \in Producers, AppendFull(p)
      PROVE  TypeOK' /\ RequestHeld' /\ MutualExclusion'
  BY <1>2 DEF AppendFull
<1>3. ASSUME NEW p \in Producers, AppendPush(p)
      PROVE  TypeOK' /\ RequestHeld' /\ MutualExclusion'
  BY <1>3 DEF AppendPush
<1>4. ASSUME NEW p \in Producers, AppendUnlock(p)
      PROVE  TypeOK' /\ RequestHeld' /\ MutualExclusion'
  BY <1>4 DEF AppendUnlock
<1>5. ASSUME NEW p \in Producers, AppendPost(p)
      PROVE  TypeOK' /\ RequestHeld' /\ MutualExclusion'
  BY <1>5 DEF AppendPost
<1>6. ASSUME NEW w \in Workers, RunTest(w)
      PROVE  TypeOK' /\ RequestHeld' /\ MutualExclusion'
  BY <1>6 DEF RunTest
<1>7. ASSUME NEW w \in Workers, RunWait(w)
      PROVE  TypeOK' /\ RequestHeld' /\ MutualExclusion'
  BY <1>7 DEF RunWait
<1>8. ASSUME NEW w \in Workers, RunLock(w)
      PROVE  TypeOK' /\ RequestHeld' /\ MutualExclusion'
  BY <1>8 DEF RunLock
<1>9. ASSUME NEW w \in Workers, RunPop(w)
      PROVE  TypeOK' /\ RequestHeld' /\ MutualExclusion'
  <2>1. CASE m_workqueue = <<>>
    BY <1>9, <2>1 DEF RunPop
  <2>2. CASE m_workqueue # <<>>
    <3>1. Head(m_workqueue) \in Requests /\ Tail(m_workqueue) \in Seq(Requests)
      BY <2>2
    <3> QED
      BY <1>9, <2>2, <3>1 DEF RunPop
  <2> QED
    BY <2>1, <2>2
<1>10. ASSUME NEW w \in Workers, RunUnlock(w)
       PROVE  TypeOK' /\ RequestHeld' /\ MutualExclusion'
  BY <1>10 DEF RunUnlock
<1>11. ASSUME NEW w \in Workers, RunProcess(w)
       PROVE  TypeOK' /\ RequestHeld' /\ MutualExclusion'
  BY <1>11 DEF RunProcess
<1>12. CASE Destroy
  BY <1>12 DEF Destroy
<1>13. CASE Free
  BY <1>13 DEF Free
<1>14. CASE UNCHANGED vars
  BY <1>14 DEF vars
<1> QED
  BY <1>1, <1>2, <1>3, <1>4, <1>5, <1>6, <1>7, <1>8, <1>9, <1>10, <1>11, <1>12,
     <1>13, <1>14 DEF Next, AppendStep, WorkerStep

(* A thread takes a token as it pushes or is let through, and gives it back *)
(* as it posts or pops: both sides of the count move together.              *)
LEMMA TokenStep == IInv /\ [Next]_vars => TokenCount'
<1> SUFFICES ASSUME IInv, [Next]_vars PROVE TokenCount'
  OBVIOUS
<1> USE PoolAssumption DEF IInv, TypeOK, RequestHeld, MutualExclusion, TokenCount,
                           Steps, PCs, Threads, At, Goto, Acquire, Release
<1>0. Cardinality(InFlight) \in Nat
  BY InFlightFinite
(* Steps that neither move a token nor touch the queue.                     *)
<1>1. ASSUME InFlight' = InFlight, UNCHANGED <<m_workqueue, m_queuestat>>
      PROVE  TokenCount'
  BY <1>1
<1>2. ASSUME NEW p \in Producers, NEW r \in Requests, AppendLock(p, r)
      PROVE  TokenCount'
  BY <1>1, <1>2 DEF AppendLock, InFlight
<1>3. ASSUME NEW p \in Producers, AppendFull(p)
      PROVE  TokenCount'
  BY <1>1, <1>3 DEF AppendFull, InFlight
<1>4. ASSUME NEW p \in Producers, AppendPush(p)
      PROVE  TokenCount'
  <2>1. p \notin InFlight /\ InFlight' = InFlight \cup {p}
    BY <1>4 DEF AppendPush, InFlight
  <2>2. Len(m_workqueue') = Len(m_workqueue) + 1 /\ m_queuestat' = m_queuestat
    BY <1>4 DEF AppendPush
  <2>3. Cardinality(InFlight') = Cardinality(InFlight) + 1
    BY <2>1, TokenTaken
  <2> QED
    BY <1>0, <2>2, <2>3
<1>5. ASSUME NEW p \in Producers, AppendUnlock(p)
      PROVE  TokenCount'
  BY <1>1, <1>5 DEF AppendUnlock, InFlight
<1>6. ASSUME NEW p \in Producers, AppendPost(p)
      PROVE  TokenCount'
  <2>1. p \in InFlight /\ InFlight' = InFlight \ {p}
    BY <1>6 DEF AppendPost, InFlight
  <2>2. m_queuestat' = m_queuestat + 1 /\ m_workqueue' = m_workqueue
    BY <1>6 DEF AppendPost
  <2>3. Cardinality(InFlight') = Cardinality(InFlight) - 1
    BY <2>1, TokenReturned
  <2> QED
    BY <1>0, <2>2, <2>3
<1>7. ASSUME NEW w \in Workers, RunTest(w)
      PROVE  TokenCount'
  BY <1>1, <1>7 DEF RunTest, InFlight
<1>8. ASSUME NEW w \in Workers, RunWait(w)
      PROVE  TokenCount'
  <2>1. w \notin InFlight /\ InFlight' = InFlight \cup {w}
    BY <1>8 DEF RunWait, InFlight
  <2>2. m_queuestat' = m_queuestat - 1 /\ m_workqueue' = m_workqueue
    BY <1>8 DEF RunWait
  <2>3. Cardinality(InFlight') = Cardinality(InFlight) + 1
    BY <2>1, TokenTaken
  <2> QED
    BY <1>0, <2>2, <2>3
<1>9. ASSUME NEW w \in Workers, RunLock(w)
      PROVE  TokenCount'
  BY <1>1, <1>9 DEF RunLock, InFlight
<1>10. ASSUME NEW w \in Workers, RunPop(w)
       PROVE  TokenCount'
  <2>1. w \in InFlight /\ InFlight' = InFlight \ {w}
    BY <1>10 DEF RunPop, InFlight
  <2>2. m_queuestat' = m_queuestat /\ Cardinality(InFlight') = Cardinality(InFlight) - 1
    BY <1>10, <2>1, TokenReturned DEF RunPop
  (* The token in hand is why the queue is not empty.                       *)
  <2>3. m_workqueue # <<>>
    BY <2>1, TokenHeld
  <2>4. Len(m_workqueue') = Len(m_workqueue) - 1
    BY <1>10, <2>3 DEF RunPop
  <2> QED
    BY <1>0, <2>2, <2>4
<1>11. ASSUME NEW w \in Workers, RunUnlock(w)
       PROVE  TokenCount'
  BY <1>1, <1>11 DEF RunUnlock, InFlight
<1>12. ASSUME NEW w \in Workers, RunProcess(w)
       PROVE  TokenCount'
  BY <1>1, <1>12 DEF RunProcess, InFlight
<1>13. CASE Destroy
  BY <1>1, <1>13 DEF Destroy, InFlight
<1>14. CASE Free
  BY <1>1, <1>14 DEF Free, InFlight
<1>15. CASE UNCHANGED vars
  BY <1>1, <1>15 DEF vars, InFlight
<1> QED
  BY <1>2, <1>3, <1>4, <1>5, <1>6, <1>7, <1>8, <1>9, <1>10, <1>11, <1>12,
     <1>13, <1>14, <1>15 DEF Next, AppendStep, WorkerStep

(* Type correctness, with who holds a request and who holds the lock, is     *)
(* kept by every interleaving of append and run, also across destruction.   *)
THEOREM Invariance == Spec => []IInv
<1>1. IInv /\ [Next]_vars => IInv'
  BY TypeStep, TokenStep DEF IInv
<1> QED
  BY InitIInv, <1>1, PTL DEF Spec
-----------------------------------------------------------------------------
(* Every member of the pool keeps its type (24-30), locals included.        *)
THEOREM TypeCorrect == Spec => []TypeOK
<1>1. IInv => TypeOK
  BY DEF IInv
<1> QED
  BY Invariance, <1>1, PTL

(* m_workqueue is touched by one thread at a time, the one that locked.     *)
THEOREM Exclusion == Spec => []MutualExclusion
<1>1. IInv => MutualExclusion
  BY DEF IInv
<1> QED
  BY Invariance, <1>1, PTL

(* The semaphore and the threads between their two steps count the queue.   *)
THEOREM Tokens == Spec => []TokenCount
<1>1. IInv => TokenCount
  BY DEF IInv
<1> QED
  BY Invariance, <1>1, PTL

(* run never finds the queue empty: the branch of lines 92-95 is dead.      *)
THEOREM NoEmptyPop == Spec => []NeverPopsEmpty
<1>1. IInv => NeverPopsEmpty
  <2> SUFFICES ASSUME IInv, NEW w \in Workers, pc[w] = "pop"
               PROVE  m_workqueue # <<>>
    BY DEF NeverPopsEmpty
  <2>1. w \in InFlight
    BY DEF InFlight, Threads
  <2> QED
    BY <2>1, TokenHeld DEF Threads
<1> QED
  BY Invariance, <1>1, PTL

(* append lets at most m_max_requests + 1 requests wait (line 70).          *)
THEOREM Bounded == Spec => []QueueBound
<1>1. Init => QueueBound
  BY PoolAssumption DEF Init, QueueBound
<1>2. IInv /\ QueueBound /\ [Next]_vars => QueueBound'
  <2> SUFFICES ASSUME IInv, QueueBound, [Next]_vars PROVE QueueBound'
    OBVIOUS
  <2> USE PoolAssumption DEF QueueBound, IInv, TypeOK
  <2>1. ASSUME NEW p \in Producers, AppendPush(p)
        PROVE  QueueBound'
    BY <2>1 DEF AppendPush, TooManyRequests
  <2>2. ASSUME NEW w \in Workers, RunPop(w)
        PROVE  QueueBound'
    BY <2>2 DEF RunPop
  <2>3. ASSUME UNCHANGED m_workqueue
        PROVE  QueueBound'
    BY <2>3
  <2> QED
    BY <2>1, <2>2, <2>3 DEF Next, AppendStep, WorkerStep, vars, AppendLock,
       AppendFull, AppendUnlock, AppendPost, RunTest, RunWait, RunLock,
       RunUnlock, RunProcess, Destroy, Free
<1> QED
  BY Invariance, <1>1, <1>2, PTL DEF Spec
-----------------------------------------------------------------------------
(***************************************************************************)
(* The pool implements the abstract queue: linearised at the push of       *)
(* append and at the pop of run, it accepts, starts and finishes requests  *)
(* in the order and number the abstract queue allows.                      *)
(***************************************************************************)
(* The pool starts as an open, empty queue.                                  *)
LEMMA InitMaps == Init => RQ!QueueInit
  BY PoolAssumption DEF Init, RQ!QueueInit, Threads

(* Every step of the pool is one of the abstract queue, or none.            *)
LEMMA StepMaps == IInv /\ [Next]_vars => [RQ!QueueNext]_(RQ!queueVars)
<1> SUFFICES ASSUME IInv, [Next]_vars
             PROVE  RQ!QueueNext \/ UNCHANGED RQ!queueVars
  OBVIOUS
<1> USE PoolAssumption DEF IInv, TypeOK, Threads, At, Goto, Acquire, Release
(* A step of a producer leaves what the workers serve alone.                 *)
<1>1. ASSUME NEW p \in Producers, NEW v, request' = [request EXCEPT ![p] = v]
      PROVE  [w \in Workers |-> request[w]]' = [w \in Workers |-> request[w]]
  BY <1>1
(* The steps that the abstract queue does not see.                           *)
<1>2. ASSUME UNCHANGED <<m_workqueue, m_stop, [w \in Workers |-> request[w]]>>
      PROVE  UNCHANGED RQ!queueVars
  BY <1>2 DEF RQ!queueVars
<1>3. ASSUME NEW p \in Producers, NEW r \in Requests, AppendLock(p, r)
      PROVE  UNCHANGED RQ!queueVars
  BY <1>1, <1>2, <1>3 DEF AppendLock
<1>4. ASSUME NEW p \in Producers, AppendFull(p)
      PROVE  UNCHANGED RQ!queueVars
  BY <1>1, <1>2, <1>4 DEF AppendFull
<1>5. ASSUME NEW p \in Producers, AppendPush(p)
      PROVE  RQ!QueueNext
  <2>1. request[p] \in Requests
    BY <1>5 DEF AppendPush, RequestHeld
  <2>2. [w \in Workers |-> request[w]]' = [w \in Workers |-> request[w]]
    BY <1>1, <1>5 DEF AppendPush
  <2>3. RQ!Submit(request[p])
    BY <1>5, <2>1, <2>2 DEF AppendPush, TooManyRequests, RQ!Submit, RQ!Full
  <2> QED
    BY <2>1, <2>3 DEF RQ!QueueNext
<1>6. ASSUME NEW w \in Workers, RunPop(w)
      PROVE  RQ!QueueNext
  <2>1. m_workqueue # <<>>
    BY <1>6, TokenHeld DEF RunPop, InFlight
  <2>2. request[w] = NoRequest
    BY <1>6 DEF RunPop, RequestHeld
  <2>3. [v \in Workers |-> request[v]]'
          = [[v \in Workers |-> request[v]] EXCEPT ![w] = Head(m_workqueue)]
    BY <1>6, <2>1 DEF RunPop
  <2>4. RQ!Start(w)
    BY <1>6, <2>1, <2>2, <2>3 DEF RunPop, RQ!Start
  <2> QED
    BY <2>4 DEF RQ!QueueNext
<1>7. ASSUME NEW w \in Workers, RunProcess(w)
      PROVE  RQ!QueueNext
  <2>1. request[w] # NoRequest
    BY <1>7 DEF RunProcess, RequestHeld
  <2>2. [v \in Workers |-> request[v]]'
          = [[v \in Workers |-> request[v]] EXCEPT ![w] = NoRequest]
    BY <1>7 DEF RunProcess
  <2>3. RQ!Finish(w)
    BY <1>7, <2>1, <2>2 DEF RunProcess, RQ!Finish
  <2> QED
    BY <2>3 DEF RQ!QueueNext
<1>8. CASE Destroy
  <2>1. RQ!Close
    BY <1>8 DEF Destroy, RQ!Close
  <2> QED
    BY <2>1 DEF RQ!QueueNext
<1>9. ASSUME UNCHANGED <<m_workqueue, m_stop, request>>
      PROVE  UNCHANGED RQ!queueVars
  BY <1>2, <1>9
<1> QED
  BY <1>3, <1>4, <1>5, <1>6, <1>7, <1>8, <1>9
     DEF Next, AppendStep, WorkerStep, vars, AppendUnlock, AppendPost, RunTest,
         RunWait, RunLock, RunUnlock, Free

(* Hence every behaviour of the pool is one of the abstract queue.          *)
THEOREM Implementation == Spec => RQ!QueueSafety
  BY InitMaps, StepMaps, Invariance, PTL DEF Spec, RQ!QueueSafety
=============================================================================
