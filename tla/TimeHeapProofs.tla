---------------------------- MODULE TimeHeapProofs ----------------------------
(***************************************************************************)
(* Proofs about the heap of MCTimers, for any timers and any deadlines: no *)
(* timer expires before its parent, so the top is the first to expire, and *)
(* the heap is the abstract set of timers.                                 *)
(***************************************************************************)
EXTENDS MCTimers, FiniteSetTheorems, WellFoundedInduction, TLAPS

LEMMA HeapGiven ==
  /\ Delays \subseteq Nat /\ MaxTime \in Nat
  /\ Capacity \in Nat \ {0} /\ Given \in Nat \ {0}
BY ContainersAssumption DEF Heap!HeapAssumption

(* Induction: a set of numbers has a least element.                         *)
LEMMA Least ==
  ASSUME NEW S, IsFiniteSet(S), S \subseteq Nat, S # {}
  PROVE  \E x \in S : \A y \in S : x <= y
<1> DEFINE Below(x) == {y \in S : y < x}
           B == {Below(x) : x \in S}
<1>1. IsWellFoundedOn(StrictSubsetOrdering(S), FiniteSubsetsOf(S))
  BY FS_StrictSubsetOrderingWellFounded
<1>2. B \subseteq FiniteSubsetsOf(S) /\ B # {}
  <2>1. FiniteSubsetsOf(S) = SUBSET S
    BY FS_FiniteSubsetsOfFinite
  <2>2. PICK x \in S : TRUE
    OBVIOUS
  <2>3. Below(x) \in B
    OBVIOUS
  <2>4. \A U \in B : U \in SUBSET S
    OBVIOUS
  <2> HIDE DEF B
  <2> QED
    BY <2>1, <2>3, <2>4
<1>3. PICK T \in B : \A U \in B : <<U, T>> \notin StrictSubsetOrdering(S)
  BY <1>1, <1>2, WFMin
<1>4. PICK x \in S : T = Below(x)
  OBVIOUS
<1>5. ASSUME NEW y \in S, y < x PROVE FALSE
  <2>1. Below(y) \subseteq T /\ y \in T /\ y \notin Below(y)
    <3>1. y \in Nat /\ x \in Nat /\ ~(y < y)
      OBVIOUS
    <3>2. \A z \in S : z < y => z < x
      BY <1>5, <3>1
    <3> QED
      BY <1>4, <1>5, <3>1, <3>2
  <2>2. Below(y) \in B /\ Below(y) # T /\ Below(y) \in SUBSET S /\ T \in SUBSET S
    BY <2>1, <1>4
  <2> HIDE DEF Below, B
  <2>3. <<Below(y), T>> \in StrictSubsetOrdering(S)
    BY <2>1, <2>2 DEF StrictSubsetOrdering
  <2> QED
    BY <1>3, <2>2, <2>3
<1>6. \A y \in S : x <= y
  BY <1>5
<1> QED
  BY <1>6

(* A set of numbers that holds 0, and with a number the next one, holds all *)
(* up to n.                                                                 *)
LEMMA UpTo ==
  ASSUME NEW n \in Nat, NEW S, 0 \in S, \A k \in 0 .. n : k < n /\ k \in S => k + 1 \in S
  PROVE  0 .. n \subseteq S
<1> DEFINE Out == {k \in 0 .. n : k \notin S}
<1> SUFFICES ASSUME Out # {} PROVE FALSE
  OBVIOUS
<1>1. IsFiniteSet(Out) /\ Out \subseteq Nat
  <2>1. IsFiniteSet(0 .. n) /\ Out \in SUBSET (0 .. n)
    BY FS_Interval
  <2> QED
    BY <2>1, FS_Subset
<1>2. PICK m \in Out : \A y \in Out : m <= y
  <2> HIDE DEF Out
  <2> QED  BY <1>1, Least
<1>3. m \in Nat /\ m <= n /\ m # 0
  OBVIOUS
<1>4. m - 1 \in 0 .. n /\ m - 1 < n /\ m - 1 \notin Out
  BY <1>2, <1>3
<1> QED
  BY <1>3, <1>4

(* Loops: step is one turn, X the states that its invariant allows, rank    *)
(* what a turn lowers unless the loop has ended.                            *)
Falls(X, step, rank) == \A x \in X : step[x] = x \/ rank[step[x]] < rank[x]
Follows(f, X, step, s, n) == f[0] = s /\ \A k \in 1 .. n : f[k - 1] \in X => f[k] = step[f[k - 1]]
Turns(f, step, s, n) == f = [k \in 0 .. n |-> IF k = 0 THEN s ELSE step[f[k - 1]]]

IsLoop(f, X, step, s, rank, n) ==
  /\ step \in [X -> X] /\ s \in X /\ rank \in [X -> Nat] /\ n \in Nat
  /\ Falls(X, step, rank) /\ rank[s] <= n /\ Follows(f, X, step, s, n)

LEMMA Loop ==
  ASSUME NEW f, NEW X, NEW step, NEW s, NEW rank, NEW n, IsLoop(f, X, step, s, rank, n)
  PROVE  f[n] \in X /\ step[f[n]] = f[n]
<1> USE DEF IsLoop, Falls, Follows
<1> DEFINE Fine(k) == f[k] \in X /\ (step[f[k]] = f[k] \/ rank[f[k]] <= n - k)
           S == {k \in 0 .. n : Fine(k)}
<1>1. 0 \in S
  OBVIOUS
<1>2. ASSUME NEW k \in 0 .. n, k < n, k \in S PROVE k + 1 \in S
  <2>1. k + 1 \in 1 .. n /\ k + 1 \in 0 .. n /\ (k + 1) - 1 = k /\ f[k] \in X
    BY <1>2
  <2>2. f[k + 1] = step[f[k]] /\ f[k + 1] \in X
    BY <2>1
  <2>3. rank[f[k]] \in Nat /\ rank[f[k + 1]] \in Nat
    BY <2>1, <2>2
  <2>4. CASE step[f[k]] = f[k]
    BY <2>1, <2>2, <2>4
  <2>5. CASE step[f[k]] # f[k]
    <3>1. rank[f[k]] <= n - k /\ rank[f[k + 1]] < rank[f[k]]
      BY <1>2, <2>1, <2>2, <2>5
    <3>2. rank[f[k + 1]] <= n - (k + 1)
      BY <2>3, <3>1
    <3> QED
      BY <2>1, <2>2, <3>2
  <2> QED
    BY <2>4, <2>5
<1>3. 0 .. n \subseteq S
  <2> HIDE DEF S
  <2> QED  BY <1>1, <1>2, UpTo
<1>4. n \in S
  BY <1>3
<1>5. f[n] \in X /\ (step[f[n]] = f[n] \/ rank[f[n]] <= 0)
  BY <1>4
<1>6. step[f[n]] \in X /\ rank[f[n]] \in Nat /\ rank[step[f[n]]] \in Nat
  BY <1>5
<1>7. step[f[n]] = f[n] \/ rank[step[f[n]]] < rank[f[n]]
  BY <1>5
<1> QED
  BY <1>5, <1>6, <1>7

LEMMA LoopExists ==
  ASSUME NEW X, NEW step \in [X -> X], NEW s \in X, NEW n \in Nat
  PROVE  \E f \in [0 .. n -> X] : Turns(f, step, s, n)
<1> DEFINE Runs(f, m) == f = [k \in 0 .. m |-> IF k = 0 THEN s ELSE step[f[k - 1]]]
           S == {m \in 0 .. n : \E f \in [0 .. m -> X] : Runs(f, m)}
<1>1. 0 \in S
  <2> DEFINE f == [k \in 0 .. 0 |-> s]
  <2>1. f \in [0 .. 0 -> X] /\ \A k \in 0 .. 0 : k = 0
    OBVIOUS
  <2>2. Runs(f, 0)
    BY <2>1
  <2>3. 0 \in 0 .. n
    OBVIOUS
  <2> HIDE DEF f, Runs
  <2> QED
    BY <2>1, <2>2, <2>3
<1>2. ASSUME NEW m \in 0 .. n, m < n, m \in S PROVE m + 1 \in S
  <2>1. PICK f \in [0 .. m -> X] : Runs(f, m)
    BY <1>2
  <2> DEFINE g == [k \in 0 .. m + 1 |-> IF k = m + 1 THEN step[f[m]] ELSE f[k]]
  <2>2. \A k \in 0 .. m + 1 : k = m + 1 \/ k \in 0 .. m
    OBVIOUS
  <2>3. g \in [0 .. m + 1 -> X]
    BY <2>1, <2>2
  <2>4. \A k \in 0 .. m : g[k] = f[k]
    OBVIOUS
  <2>5. ASSUME NEW k \in 0 .. m + 1 PROVE g[k] = IF k = 0 THEN s ELSE step[g[k - 1]]
    <3>1. CASE k = m + 1
      <4>1. k # 0 /\ k - 1 = m /\ m \in 0 .. m
        BY <3>1
      <4> QED
        BY <2>4, <3>1, <4>1
    <3>2. CASE k \in 0 .. m
      <4>1. k # 0 => k - 1 \in 0 .. m
        BY <3>2
      <4>2. f[k] = IF k = 0 THEN s ELSE step[f[k - 1]]
        BY <2>1, <3>2
      <4> HIDE DEF g
      <4> QED
        BY <2>4, <3>2, <4>1, <4>2
    <3> QED
      BY <2>2, <3>1, <3>2
  <2>6. Runs(g, m + 1)
    BY <2>3, <2>5
  <2>7. m + 1 \in 0 .. n
    BY <1>2
  <2> QED
    BY <2>3, <2>6, <2>7
<1>3. 0 .. n \subseteq S
  <2> HIDE DEF S
  <2> QED  BY <1>1, <1>2, UpTo
<1>4. n \in S
  BY <1>3
<1> QED
  BY <1>4 DEF Turns
-----------------------------------------------------------------------------
(* Arrays.  Filled: size timers, each once.  The swap of two entries keeps  *)
(* that and the timers that are in it.                                      *)
Filled(a, size) == /\ a \in [0 .. size - 1 -> Timers]
                   /\ \A i, j \in 0 .. size - 1 : a[i] = a[j] => i = j
In(a, size) == {a[i] : i \in 0 .. size - 1}

IsSwap(a, b, size, h, c) ==
  /\ Filled(b, size) /\ In(b, size) = In(a, size)
  /\ b[h] = a[c] /\ b[c] = a[h]
  /\ \A i \in 0 .. size - 1 : i # h /\ i # c => b[i] = a[i]

LEMMA Swapped ==
  ASSUME NEW size \in Nat, NEW a, Filled(a, size), NEW h \in 0 .. size - 1, NEW c \in 0 .. size - 1,
         NEW b, b = Heap!Swap(a, h, c), h # c
  PROVE  IsSwap(a, b, size, h, c)
<1>1. a \in [0 .. size - 1 -> Timers]
  BY DEF Filled
<1>2. /\ b \in [0 .. size - 1 -> Timers] /\ b[h] = a[c] /\ b[c] = a[h]
      /\ \A i \in 0 .. size - 1 : i # h /\ i # c => b[i] = a[i]
  BY <1>1 DEF Heap!Swap
<1>3. ASSUME NEW i \in 0 .. size - 1, NEW j \in 0 .. size - 1, b[i] = b[j] PROVE i = j
  BY <1>2, <1>3 DEF Filled
<1>4. \A i \in 0 .. size - 1 : \E j \in 0 .. size - 1 : b[i] = a[j]
  BY <1>2
<1>5. \A i \in 0 .. size - 1 : \E j \in 0 .. size - 1 : a[i] = b[j]
  BY <1>2
<1>6. In(b, size) = In(a, size)
  BY <1>4, <1>5 DEF In
<1>7. Filled(b, size)
  BY <1>2, <1>3 DEF Filled
<1> QED
  BY <1>2, <1>6, <1>7 DEF IsSwap

(* Positions in the tree.                                                   *)
Parent(i) == (i - 1) \div 2

LEMMA ParentIs ==
  ASSUME NEW i \in Nat, i > 0
  PROVE  /\ Parent(i) \in Nat /\ Parent(i) < i
         /\ i = 2 * Parent(i) + 1 \/ i = 2 * Parent(i) + 2
BY DEF Parent

LEMMA ChildOf ==
  ASSUME NEW h \in Nat
  PROVE  Parent(2 * h + 1) = h /\ Parent(2 * h + 2) = h
BY DEF Parent

(* The children of the nodes from start on do not expire before them; when  *)
(* start is 0, the whole array is a heap.                                   *)
Ordered(a, size, start, ex) ==
  \A i \in 1 .. size - 1 : Parent(i) >= start => ex[a[Parent(i)]] <= ex[a[i]]
-----------------------------------------------------------------------------
(* percolate_down.  While temp is in the hole, all nodes but its children   *)
(* are in order, and these do not expire before the parent of the hole.     *)
Sinking(a, size, start, ex, h) ==
  /\ \A i \in 1 .. size - 1 :
       Parent(i) >= start /\ Parent(i) # h => ex[a[Parent(i)]] <= ex[a[i]]
  /\ \A i \in 1 .. size - 1 :
       Parent(i) = h /\ h > 0 /\ Parent(h) >= start => ex[a[Parent(h)]] <= ex[a[i]]

Child(a, size, h, ex) ==
  IF 2 * h + 2 < size /\ ex[a[2 * h + 2]] < ex[a[2 * h + 1]] THEN 2 * h + 2 ELSE 2 * h + 1

LEMMA DownIs ==
  ASSUME NEW size \in Nat, NEW s, s.hole \in Nat, NEW ex,
         NEW c, c = Child(s.array, size, s.hole, ex)
  PROVE  Heap!Down(s, size, ex) = IF 2 * s.hole + 1 < size /\ ex[s.array[c]] < ex[s.array[s.hole]]
                               THEN [array |-> Heap!Swap(s.array, s.hole, c), hole |-> c] ELSE s
<1>1. (2 * s.hole + 1) + 1 = 2 * s.hole + 2
  OBVIOUS
<1> QED
  BY <1>1 DEF Heap!Down, Child

Sunk(a, b, size, start, ex, h, c) ==
  /\ c \in Nat /\ c > h /\ c < size
  /\ Filled(b, size) /\ In(b, size) = In(a, size)
  /\ Sinking(b, size, start, ex, c)
  /\ \A i \in 0 .. start - 1 : b[i] = a[i]

LEMMA SinkTurn ==
  ASSUME NEW size \in Nat, NEW start \in Nat, NEW ex \in [Timers -> Nat],
         NEW a, Filled(a, size), NEW h \in Nat, h >= start, 2 * h + 1 < size,
         Sinking(a, size, start, ex, h),
         NEW c, c = Child(a, size, h, ex), ex[a[c]] < ex[a[h]],
         NEW b, b = Heap!Swap(a, h, c)
  PROVE  Sunk(a, b, size, start, ex, h, c)
<1>1. /\ c \in Nat /\ c > h /\ c < size /\ Parent(c) = h
      /\ h \in 0 .. size - 1 /\ c \in 0 .. size - 1 /\ c \in 1 .. size - 1 /\ h # c
  BY ChildOf DEF Child
<1>2. /\ Filled(b, size) /\ In(b, size) = In(a, size) /\ b[h] = a[c] /\ b[c] = a[h]
      /\ \A i \in 0 .. size - 1 : i # h /\ i # c => b[i] = a[i]
  <2>1. h \in 0 .. size - 1 /\ c \in 0 .. size - 1 /\ h # c
    BY <1>1
  <2>2. IsSwap(a, b, size, h, c)
    BY <2>1, Swapped
  <2> QED
    BY <2>2 DEF IsSwap
<1>3. \A i \in 0 .. size - 1 : ex[a[i]] \in Nat /\ ex[b[i]] \in Nat
  BY <1>2 DEF Filled
<1>4. \A i \in 1 .. size - 1 : Parent(i) = h => ex[a[c]] <= ex[a[i]]
  <2>1. \A i \in 1 .. size - 1 : Parent(i) = h => i = 2 * h + 1 \/ i = 2 * h + 2
    BY ParentIs
  <2>2. 2 * h + 1 \in 0 .. size - 1 /\ (2 * h + 2 < size => 2 * h + 2 \in 0 .. size - 1)
    OBVIOUS
  <2> QED
    BY <1>3, <2>1, <2>2 DEF Child
<1>5. ASSUME NEW i \in 1 .. size - 1, Parent(i) >= start, Parent(i) # c
      PROVE  ex[b[Parent(i)]] <= ex[b[i]]
  <2>1. Parent(i) \in 0 .. size - 1 /\ i \in 0 .. size - 1 /\ Parent(i) < i
    BY ParentIs
  <2>2. CASE i = h
    <3>1. b[Parent(h)] = a[Parent(h)]
      BY <1>1, <1>2, <2>1, <2>2, <1>5
    <3>2. ex[a[Parent(h)]] <= ex[a[c]]
      BY <1>1, <1>5, <2>2 DEF Sinking
    <3> QED
      BY <1>2, <2>2, <3>1, <3>2
  <2>3. CASE i = c
    BY <1>1, <1>2, <1>3, <2>3
  <2>4. CASE i # h /\ i # c /\ Parent(i) = h
    BY <1>1, <1>2, <1>4, <2>1, <2>4
  <2>5. CASE i # h /\ i # c /\ Parent(i) # h
    <3>1. b[i] = a[i] /\ b[Parent(i)] = a[Parent(i)]
      BY <1>2, <1>5, <2>1, <2>5
    <3> QED
      BY <1>5, <2>5, <3>1 DEF Sinking
  <2> QED
    BY <2>2, <2>3, <2>4, <2>5
<1>6. ASSUME NEW i \in 1 .. size - 1, Parent(i) = c PROVE ex[b[Parent(c)]] <= ex[b[i]]
  <2>1. Parent(i) < i /\ i \in 0 .. size - 1
    BY ParentIs
  <2>2. i # c /\ i # h /\ Parent(i) # h /\ Parent(i) >= start
    BY <1>1, <1>6, <2>1
  <2>3. ex[a[c]] <= ex[a[i]]
    BY <1>6, <2>2 DEF Sinking
  <2> QED
    BY <1>1, <1>2, <2>1, <2>2, <2>3
<1>7. \A i \in 0 .. start - 1 : b[i] = a[i]
  BY <1>1, <1>2
<1> QED
  BY <1>1, <1>2, <1>5, <1>6, <1>7 DEF Sinking, Sunk

(* The states of the loop of percolate_down(start) on an array a.           *)
DownStates(a, size, start, ex) ==
  {s \in [array : [0 .. size - 1 -> Timers], hole : Nat] :
     /\ s.hole >= start /\ (size > 0 => s.hole < size)
     /\ Filled(s.array, size) /\ In(s.array, size) = In(a, size)
     /\ Sinking(s.array, size, start, ex, s.hole)
     /\ \A i \in 0 .. start - 1 : s.array[i] = a[i]}

LEMMA DownKeeps ==
  ASSUME NEW size \in Nat, NEW start \in Nat, NEW ex \in [Timers -> Nat], NEW a,
         NEW s \in DownStates(a, size, start, ex), NEW u, u = Heap!Down(s, size, ex)
  PROVE  /\ u \in DownStates(a, size, start, ex)
         /\ u = s \/ (u.hole > s.hole /\ u.hole < size)
         /\ u = s => Ordered(s.array, size, start, ex)
<1> DEFINE b == s.array
           h == s.hole
           c == Child(b, size, h, ex)
           Sinks == 2 * h + 1 < size /\ ex[b[c]] < ex[b[h]]
<1>1. /\ s = [array |-> b, hole |-> h] /\ b \in [0 .. size - 1 -> Timers] /\ h \in Nat /\ h >= start
      /\ size > 0 => h < size
      /\ Filled(b, size) /\ In(b, size) = In(a, size) /\ Sinking(b, size, start, ex, h)
      /\ \A i \in 0 .. start - 1 : b[i] = a[i]
  BY DEF DownStates
<1>2. u = IF Sinks THEN [array |-> Heap!Swap(b, h, c), hole |-> c] ELSE s
  BY <1>1, DownIs
<1> HIDE DEF b, h
<1>3. CASE Sinks
  <2> DEFINE e == Heap!Swap(b, h, c)
  <2>1. /\ c \in Nat /\ c > h /\ c < size
        /\ Filled(e, size) /\ In(e, size) = In(b, size)
        /\ Sinking(e, size, start, ex, c)
        /\ \A i \in 0 .. start - 1 : e[i] = b[i]
    <3>1. Sunk(b, e, size, start, ex, h, c)
      BY <1>1, <1>3, SinkTurn
    <3> QED
      BY <3>1 DEF Sunk
  <2> HIDE DEF c, e
  <2>2. u = [array |-> e, hole |-> c]
    BY <1>2, <1>3 DEF e
  <2>3. e \in [0 .. size - 1 -> Timers]
    BY <2>1 DEF Filled
  <2>4. u.hole = c /\ u.array = e /\ u # s /\ s.hole = h
    BY <1>1, <2>1, <2>2
  <2>5. u \in [array : [0 .. size - 1 -> Timers], hole : Nat]
    BY <2>1, <2>2, <2>3
  <2>6. u \in DownStates(a, size, start, ex)
    BY <1>1, <2>1, <2>4, <2>5, SMTT(60) DEF DownStates
  <2> QED
    BY <2>1, <2>4, <2>6
<1>4. CASE ~Sinks
  <2>1. u = s
    BY <1>2, <1>4
  <2>2. ASSUME NEW i \in 1 .. size - 1, Parent(i) = h PROVE ex[b[h]] <= ex[b[i]]
    <3>1. i = 2 * h + 1 \/ i = 2 * h + 2
      BY <2>2, ParentIs
    <3>2. 2 * h + 1 < size /\ ~(ex[b[c]] < ex[b[h]])
      BY <1>1, <1>4, <3>1
    <3>3. /\ h \in 0 .. size - 1 /\ 2 * h + 1 \in 0 .. size - 1 /\ i \in 0 .. size - 1
          /\ 2 * h + 2 < size => 2 * h + 2 \in 0 .. size - 1
      BY <1>1, <3>2
    <3>4. ex[b[h]] \in Nat /\ ex[b[i]] \in Nat /\ ex[b[2 * h + 1]] \in Nat
          /\ (2 * h + 2 < size => ex[b[2 * h + 2]] \in Nat)
      BY <1>1, <3>3
    <3> QED
      BY <1>1, <3>1, <3>2, <3>3, <3>4 DEF Child
  <2>3. Ordered(b, size, start, ex)
    BY <1>1, <2>2 DEF Ordered, Sinking
  <2> QED
    BY <1>1, <2>1, <2>3 DEF b
<1> QED
  BY <1>3, <1>4

LEMMA Begin ==
  ASSUME NEW size \in Nat, NEW start \in Nat, NEW a, Filled(a, size), NEW ex \in [Timers -> Nat],
         Ordered(a, size, start + 1, ex), size > 0 => start < size
  PROVE  [array |-> a, hole |-> start] \in DownStates(a, size, start, ex)
<1>1. Sinking(a, size, start, ex, start)
  <2>1. ASSUME NEW i \in 1 .. size - 1, Parent(i) >= start, Parent(i) # start
        PROVE  ex[a[Parent(i)]] <= ex[a[i]]
    <3>1. Parent(i) \in Nat
      BY ParentIs
    <3>2. Parent(i) >= start + 1
      BY <2>1, <3>1
    <3> QED
      BY <3>2 DEF Ordered
  <2>2. start > 0 => Parent(start) \in Nat /\ ~(Parent(start) >= start)
    BY ParentIs
  <2> QED
    BY <2>1, <2>2 DEF Sinking
<1>2. a \in [0 .. size - 1 -> Timers]
  BY DEF Filled
<1> QED
  BY <1>1, <1>2 DEF DownStates

(* percolate_down(start) brings start into order with the nodes after it.   *)
LEMMA Percolated ==
  ASSUME NEW size \in Nat, NEW start \in Nat, NEW a, Filled(a, size), NEW ex \in [Timers -> Nat],
         Ordered(a, size, start + 1, ex), size > 0 => start < size,
         NEW b, b = Heap!percolate_down(a, size, start, ex)
  PROVE  /\ Filled(b, size) /\ In(b, size) = In(a, size)
         /\ Ordered(b, size, start, ex)
<1> DEFINE X == DownStates(a, size, start, ex)
           step == [s \in X |-> Heap!Down(s, size, ex)]
           rank == [s \in X |-> IF size > 0 THEN size - 1 - s.hole ELSE 0]
           init == [array |-> a, hole |-> start]
           Eq(f) == f = [k \in 0 .. size |-> IF k = 0 THEN init ELSE Heap!Down(f[k - 1], size, ex)]
           f == CHOOSE f : Eq(f)
<1>1. init \in X
  BY Begin
<1>2. step \in [X -> X] /\ \A s \in X : step[s] = Heap!Down(s, size, ex)
  BY DownKeeps
<1>3. rank \in [X -> Nat] /\ rank[init] <= size
  BY <1>1, SMTT(60) DEF DownStates
<1>4. Falls(X, step, rank)
  <2> SUFFICES ASSUME NEW s \in X, step[s] # s PROVE rank[step[s]] < rank[s]
    BY DEF Falls
  <2>1. step[s] \in X /\ step[s].hole > s.hole /\ step[s].hole < size
    BY <1>2, DownKeeps
  <2>2. s.hole \in Nat /\ step[s].hole \in Nat
    BY <2>1 DEF DownStates
  <2>3. size > 0 /\ rank[s] = size - 1 - s.hole /\ rank[step[s]] = size - 1 - step[s].hole
    BY <2>1, <2>2
  <2> QED
    BY <2>1, <2>2, <2>3
<1>5. PICK g \in [0 .. size -> X] : Turns(g, step, init, size)
  <2> HIDE DEF X, step, init
  <2> QED  BY <1>1, <1>2, LoopExists
<1>6. Eq(g)
  <2>1. \A k \in 1 .. size : k - 1 \in 0 .. size
    OBVIOUS
  <2>2. \A k \in 1 .. size : step[g[k - 1]] = Heap!Down(g[k - 1], size, ex)
    BY <1>2, <1>5, <2>1
  <2>3. \A k \in 0 .. size : k = 0 \/ k \in 1 .. size
    OBVIOUS
  <2> HIDE DEF X, step, init
  <2> QED
    BY <1>5, <2>2, <2>3 DEF Turns
<1>7. Eq(f)
  <2> HIDE DEF Eq
  <2> QED  BY <1>6
<1>8. b = f[size].array
  BY DEF Heap!percolate_down
<1> HIDE DEF f, X, step, rank
<1>9. Follows(f, X, step, init, size)
  <2>1. 0 \in 0 .. size /\ \A k \in 1 .. size : k \in 0 .. size /\ k # 0
    OBVIOUS
  <2>2. f[0] = init /\ \A k \in 1 .. size : f[k] = Heap!Down(f[k - 1], size, ex)
    <3> HIDE DEF init
    <3> QED  BY <1>7, <2>1
  <2> QED
    BY <1>2, <2>2 DEF Follows
<1>10. f[size] \in X /\ step[f[size]] = f[size]
  <2> HIDE DEF init, Eq
  <2>1. IsLoop(f, X, step, init, rank, size)
    BY <1>1, <1>2, <1>3, <1>4, <1>9 DEF IsLoop
  <2> QED
    BY <2>1, Loop
<1>11. Ordered(f[size].array, size, start, ex)
  BY <1>2, <1>10, DownKeeps DEF X
<1> QED
  BY <1>8, <1>10, <1>11 DEF X, DownStates
-----------------------------------------------------------------------------
(* The constructor's loop makes a heap of any array.                        *)
HeapifyStates(a, size, ex) ==
  {s \in [array : [0 .. size - 1 -> Timers], todo : Nat] :
     /\ s.todo <= size
     /\ Filled(s.array, size) /\ In(s.array, size) = In(a, size)
     /\ Ordered(s.array, size, s.todo, ex)}

LEMMA HeapifyKeeps ==
  ASSUME NEW size \in Nat \ {0}, NEW ex \in [Timers -> Nat], NEW a,
         NEW s \in HeapifyStates(a, size, ex), NEW u, u = Heap!HeapifyNode(s, size, ex)
  PROVE  u \in HeapifyStates(a, size, ex) /\ ((u = s /\ s.todo = 0) \/ u.todo < s.todo)
<1>1. /\ s.array \in [0 .. size - 1 -> Timers] /\ s.todo \in Nat /\ s.todo <= size
      /\ Filled(s.array, size) /\ In(s.array, size) = In(a, size)
      /\ Ordered(s.array, size, s.todo, ex)
  BY DEF HeapifyStates
<1>2. CASE s.todo = 0
  BY <1>2 DEF Heap!HeapifyNode
<1>3. CASE s.todo # 0
  <2> DEFINE start == s.todo - 1
             b == Heap!percolate_down(s.array, size, start, ex)
  <2>1. start \in Nat /\ start + 1 = s.todo /\ start < size /\ start <= size /\ size \in Nat
    BY <1>1, <1>3
  <2>2. Ordered(s.array, size, start + 1, ex)
    BY <1>1, <2>1
  <2> HIDE DEF start
  <2>3. /\ Filled(b, size) /\ In(b, size) = In(s.array, size)
        /\ Ordered(b, size, start, ex)
    BY <1>1, <2>1, <2>2, Percolated
  <2>4. u = [array |-> b, todo |-> start]
    BY <1>3 DEF Heap!HeapifyNode, start
  <2> HIDE DEF b
  <2>5. b \in [0 .. size - 1 -> Timers]
    BY <2>3 DEF Filled
  <2>6. u.array = b /\ u.todo = start /\ u \in [array : [0 .. size - 1 -> Timers], todo : Nat]
    BY <2>1, <2>4, <2>5
  <2>7. u \in HeapifyStates(a, size, ex)
    BY <1>1, <2>1, <2>3, <2>6 DEF HeapifyStates
  <2> QED
    BY <1>1, <2>1, <2>6, <2>7
<1> QED
  BY <1>2, <1>3

LEMMA Heapified ==
  ASSUME NEW size \in Nat \ {0}, NEW ex \in [Timers -> Nat], NEW a, Filled(a, size),
         NEW b, b = Heap!heapify(a, size, ex)
  PROVE  Filled(b, size) /\ In(b, size) = In(a, size) /\ Ordered(b, size, 0, ex)
<1> DEFINE X == HeapifyStates(a, size, ex)
           inner == (size - 1) \div 2 + 1
           step == [s \in X |-> Heap!HeapifyNode(s, size, ex)]
           rank == [s \in X |-> s.todo]
           init == [array |-> a, todo |-> inner]
           Eq(f) == f = [k \in 0 .. inner |-> IF k = 0 THEN init ELSE Heap!HeapifyNode(f[k - 1], size, ex)]
           f == CHOOSE f : Eq(f)
<1>0. inner \in Nat /\ inner <= size /\ \A i \in 1 .. size - 1 : ~(Parent(i) >= inner)
  BY DEF Parent
<1>1. init \in X
  <2> HIDE DEF inner
  <2>1. a \in [0 .. size - 1 -> Timers]
    BY DEF Filled
  <2>2. init \in [array : [0 .. size - 1 -> Timers], todo : Nat] /\ init.array = a /\ init.todo = inner
    BY <1>0, <2>1
  <2>3. Ordered(a, size, inner, ex)
    BY <1>0 DEF Ordered
  <2> HIDE DEF init
  <2> QED
    BY <1>0, <2>2, <2>3 DEF HeapifyStates
<1>2. step \in [X -> X] /\ \A s \in X : step[s] = Heap!HeapifyNode(s, size, ex)
  BY HeapifyKeeps
<1>3. rank \in [X -> Nat] /\ rank[init] = inner
  BY <1>1 DEF HeapifyStates
<1>4. Falls(X, step, rank)
  <2> SUFFICES ASSUME NEW s \in X, step[s] # s PROVE rank[step[s]] < rank[s]
    BY DEF Falls
  <2>1. step[s] \in X /\ step[s].todo < s.todo
    BY <1>2, HeapifyKeeps
  <2> QED
    BY <2>1
<1>5. PICK g \in [0 .. inner -> X] : Turns(g, step, init, inner)
  <2> HIDE DEF X, step, init, inner
  <2> QED  BY <1>0, <1>1, <1>2, LoopExists
<1>6. Eq(g)
  <2> HIDE DEF inner
  <2>1. \A k \in 1 .. inner : k - 1 \in 0 .. inner
    BY <1>0
  <2>2. \A k \in 1 .. inner : step[g[k - 1]] = Heap!HeapifyNode(g[k - 1], size, ex)
    BY <1>2, <1>5, <2>1
  <2>3. \A k \in 0 .. inner : k = 0 \/ k \in 1 .. inner
    BY <1>0
  <2> HIDE DEF X, step, init
  <2> QED
    BY <1>5, <2>2, <2>3 DEF Turns
<1>7. Eq(f)
  <2> HIDE DEF Eq
  <2> QED  BY <1>6
<1>8. b = f[inner].array
  BY DEF Heap!heapify
<1> HIDE DEF f, X, step, rank, inner
<1>9. Follows(f, X, step, init, inner)
  <2>1. 0 \in 0 .. inner /\ \A k \in 1 .. inner : k \in 0 .. inner /\ k # 0
    BY <1>0
  <2>2. f[0] = init /\ \A k \in 1 .. inner : f[k] = Heap!HeapifyNode(f[k - 1], size, ex)
    <3> HIDE DEF init
    <3> QED  BY <1>7, <2>1
  <2> QED
    BY <1>2, <2>2 DEF Follows
<1>10. f[inner] \in X /\ step[f[inner]] = f[inner]
  <2> HIDE DEF init, Eq
  <2>1. IsLoop(f, X, step, init, rank, inner)
    BY <1>0, <1>1, <1>2, <1>3, <1>4, <1>9 DEF IsLoop
  <2> QED
    BY <2>1, Loop
<1>11. f[inner].todo = 0
  <2>1. f[inner].todo \in Nat
    BY <1>10 DEF X, HeapifyStates
  <2> QED
    BY <1>2, <1>10, <2>1, HeapifyKeeps DEF X
<1> QED
  BY <1>8, <1>10, <1>11 DEF X, HeapifyStates
-----------------------------------------------------------------------------
(* percolate_up.  While the new timer is in the hole, it alone may expire   *)
(* before its parent.                                                       *)
Rising(a, size, ex, h) ==
  /\ \A i \in 1 .. size - 1 : i # h => ex[a[Parent(i)]] <= ex[a[i]]
  /\ \A i \in 1 .. size - 1 : Parent(i) = h /\ h > 0 => ex[a[Parent(h)]] <= ex[a[i]]

UpStates(a, size, ex) ==
  {s \in [array : [0 .. size - 1 -> Timers], hole : Nat] :
     /\ s.hole < size
     /\ Filled(s.array, size) /\ In(s.array, size) = In(a, size)
     /\ Rising(s.array, size, ex, s.hole)}

LEMMA RiseTurn ==
  ASSUME NEW size \in Nat, NEW ex \in [Timers -> Nat],
         NEW a, Filled(a, size), NEW h \in Nat, h > 0, h < size, Rising(a, size, ex, h),
         NEW p, p = Parent(h), ~(ex[a[p]] <= ex[a[h]]), NEW b, b = Heap!Swap(a, h, p)
  PROVE  Filled(b, size) /\ In(b, size) = In(a, size) /\ Rising(b, size, ex, p)
<1>1. /\ p \in Nat /\ p < h /\ h \in 0 .. size - 1 /\ p \in 0 .. size - 1
      /\ h \in 1 .. size - 1 /\ h # p
  BY ParentIs
<1>2. /\ Filled(b, size) /\ In(b, size) = In(a, size) /\ b[h] = a[p] /\ b[p] = a[h]
      /\ \A i \in 0 .. size - 1 : i # h /\ i # p => b[i] = a[i]
  <2>1. IsSwap(a, b, size, h, p)
    BY <1>1, Swapped
  <2> QED
    BY <2>1 DEF IsSwap
<1>3. \A i \in 0 .. size - 1 : ex[a[i]] \in Nat /\ ex[b[i]] \in Nat
  BY <1>2 DEF Filled
<1>4. ex[a[h]] < ex[a[p]]
  BY <1>1, <1>3
<1>5. ASSUME NEW i \in 1 .. size - 1, i # p PROVE ex[b[Parent(i)]] <= ex[b[i]]
  <2>1. Parent(i) \in 0 .. size - 1 /\ i \in 0 .. size - 1 /\ Parent(i) < i
    BY ParentIs
  <2>2. CASE i = h
    BY <1>1, <1>2, <1>3, <1>4, <2>2
  <2>3. CASE i # h /\ Parent(i) = p
    <3>1. ex[a[p]] <= ex[a[i]] /\ b[i] = a[i]
      BY <1>2, <1>5, <2>1, <2>3 DEF Rising
    <3> QED
      BY <1>1, <1>2, <1>3, <1>4, <2>1, <2>3, <3>1
  <2>4. CASE i # h /\ Parent(i) = h
    <3>1. ex[a[p]] <= ex[a[i]] /\ b[i] = a[i]
      BY <1>2, <1>5, <2>1, <2>4 DEF Rising
    <3> QED
      BY <1>2, <2>4, <3>1
  <2>5. CASE i # h /\ Parent(i) # p /\ Parent(i) # h
    <3>1. b[i] = a[i] /\ b[Parent(i)] = a[Parent(i)]
      BY <1>2, <1>5, <2>1, <2>5
    <3> QED
      BY <2>5, <3>1 DEF Rising
  <2> QED
    BY <2>2, <2>3, <2>4, <2>5
<1>6. ASSUME NEW i \in 1 .. size - 1, Parent(i) = p, p > 0 PROVE ex[b[Parent(p)]] <= ex[b[i]]
  <2>1. Parent(p) \in 0 .. size - 1 /\ Parent(p) < p /\ p \in 1 .. size - 1 /\ i \in 0 .. size - 1 /\ i # p
    BY <1>1, <1>6, ParentIs
  <2>2. ex[a[Parent(p)]] <= ex[a[p]] /\ b[Parent(p)] = a[Parent(p)]
    BY <1>1, <1>2, <2>1 DEF Rising
  <2>3. CASE i = h
    BY <1>2, <2>2, <2>3
  <2>4. CASE i # h
    <3>1. ex[a[p]] <= ex[a[i]] /\ b[i] = a[i]
      BY <1>2, <1>6, <2>1, <2>4 DEF Rising
    <3> QED
      BY <1>1, <1>3, <2>1, <2>2, <3>1
  <2> QED
    BY <2>3, <2>4
<1> QED
  BY <1>2, <1>5, <1>6 DEF Rising

LEMMA UpKeeps ==
  ASSUME NEW size \in Nat, NEW ex \in [Timers -> Nat], NEW a,
         NEW s \in UpStates(a, size, ex), NEW u, u = Heap!Up(s, ex)
  PROVE  /\ u \in UpStates(a, size, ex)
         /\ u = s \/ u.hole < s.hole
         /\ u = s => Ordered(s.array, size, 0, ex)
<1> DEFINE b == s.array
           h == s.hole
           p == Parent(h)
           Rises == h > 0 /\ ~(ex[b[p]] <= ex[b[h]])
<1>1. /\ s = [array |-> b, hole |-> h] /\ b \in [0 .. size - 1 -> Timers] /\ h \in Nat /\ h < size
      /\ Filled(b, size) /\ In(b, size) = In(a, size) /\ Rising(b, size, ex, h)
  BY DEF UpStates
<1>2. u = IF Rises THEN [array |-> Heap!Swap(b, h, p), hole |-> p] ELSE s
  BY DEF Heap!Up, Parent
<1> HIDE DEF b, h
<1>3. CASE Rises
  <2> DEFINE e == Heap!Swap(b, h, p)
  <2>1. Filled(e, size) /\ In(e, size) = In(b, size) /\ Rising(e, size, ex, p)
    BY <1>1, <1>3, RiseTurn
  <2>2. p \in Nat /\ p < h
    BY <1>1, <1>3, ParentIs
  <2> HIDE DEF p, e
  <2>3. u = [array |-> e, hole |-> p]
    BY <1>2, <1>3 DEF e
  <2>4. e \in [0 .. size - 1 -> Timers]
    BY <2>1 DEF Filled
  <2>5. u.hole = p /\ u.array = e /\ u # s /\ s.hole = h
    BY <1>1, <2>2, <2>3
  <2>6. u \in [array : [0 .. size - 1 -> Timers], hole : Nat]
    BY <2>2, <2>3, <2>4
  <2>7. u \in UpStates(a, size, ex)
    BY <1>1, <2>1, <2>2, <2>5, <2>6 DEF UpStates
  <2> QED
    BY <2>2, <2>5, <2>7
<1>4. CASE ~Rises
  <2>1. u = s
    BY <1>2, <1>4
  <2>2. \A i \in 1 .. size - 1 : ex[b[Parent(i)]] <= ex[b[i]]
    BY <1>1, <1>4 DEF Rising
  <2>3. Ordered(b, size, 0, ex)
    BY <2>2 DEF Ordered
  <2> QED
    BY <2>1, <2>3 DEF b
<1> QED
  BY <1>3, <1>4

(* A timer that was put into a hole at the end rises to its place.          *)
LEMMA Risen ==
  ASSUME NEW size \in Nat, NEW ex \in [Timers -> Nat], NEW a, Filled(a, size),
         NEW hole \in Nat, hole < size, Rising(a, size, ex, hole),
         NEW b, b = Heap!percolate_up(a, hole, ex)
  PROVE  Filled(b, size) /\ In(b, size) = In(a, size) /\ Ordered(b, size, 0, ex)
<1> DEFINE X == UpStates(a, size, ex)
           step == [s \in X |-> Heap!Up(s, ex)]
           rank == [s \in X |-> s.hole]
           init == [array |-> a, hole |-> hole]
           Eq(f) == f = [k \in 0 .. hole |-> IF k = 0 THEN init ELSE Heap!Up(f[k - 1], ex)]
           f == CHOOSE f : Eq(f)
<1>1. init \in X
  <2>1. a \in [0 .. size - 1 -> Timers]
    BY DEF Filled
  <2> QED
    BY <2>1 DEF UpStates
<1>2. step \in [X -> X] /\ \A s \in X : step[s] = Heap!Up(s, ex)
  BY UpKeeps
<1>3. rank \in [X -> Nat] /\ rank[init] = hole
  BY <1>1 DEF UpStates
<1>4. Falls(X, step, rank)
  <2> SUFFICES ASSUME NEW s \in X, step[s] # s PROVE rank[step[s]] < rank[s]
    BY DEF Falls
  <2>1. step[s] \in X /\ step[s].hole < s.hole
    BY <1>2, UpKeeps
  <2> QED
    BY <2>1
<1>5. PICK g \in [0 .. hole -> X] : Turns(g, step, init, hole)
  <2> HIDE DEF X, step, init
  <2> QED  BY <1>1, <1>2, LoopExists
<1>6. Eq(g)
  <2>1. \A k \in 1 .. hole : k - 1 \in 0 .. hole
    OBVIOUS
  <2>2. \A k \in 1 .. hole : step[g[k - 1]] = Heap!Up(g[k - 1], ex)
    BY <1>2, <1>5, <2>1
  <2>3. \A k \in 0 .. hole : k = 0 \/ k \in 1 .. hole
    OBVIOUS
  <2> HIDE DEF X, step, init
  <2> QED
    BY <1>5, <2>2, <2>3 DEF Turns
<1>7. Eq(f)
  <2> HIDE DEF Eq
  <2> QED  BY <1>6
<1>8. b = f[hole].array
  BY DEF Heap!percolate_up
<1> HIDE DEF f, X, step, rank
<1>9. Follows(f, X, step, init, hole)
  <2>1. 0 \in 0 .. hole /\ \A k \in 1 .. hole : k \in 0 .. hole /\ k # 0
    OBVIOUS
  <2>2. f[0] = init /\ \A k \in 1 .. hole : f[k] = Heap!Up(f[k - 1], ex)
    <3> HIDE DEF init
    <3> QED  BY <1>7, <2>1
  <2> QED
    BY <1>2, <2>2 DEF Follows
<1>10. f[hole] \in X /\ step[f[hole]] = f[hole]
  <2> HIDE DEF init, Eq
  <2>1. IsLoop(f, X, step, init, rank, hole)
    BY <1>1, <1>2, <1>3, <1>4, <1>9 DEF IsLoop
  <2> QED
    BY <2>1, Loop
<1>11. Ordered(f[hole].array, size, 0, ex)
  BY <1>2, <1>10, UpKeeps DEF X
<1> QED
  BY <1>8, <1>10, <1>11 DEF X, UpStates
-----------------------------------------------------------------------------
(* pop_timer: what remains is a heap without the top.                       *)
LEMMA TopOff ==
  ASSUME NEW size \in Nat \ {0}, NEW ex \in [Timers -> Nat], NEW a,
         Filled(a, size), Ordered(a, size, 0, ex), NEW b, b = Heap!WithoutTop(a, size, ex)
  PROVE  /\ Filled(b, size - 1) /\ In(b, size - 1) = In(a, size) \ {a[0]}
         /\ Ordered(b, size - 1, 0, ex)
<1> DEFINE n == size - 1
           c == [i \in 0 .. size - 2 |-> IF i = 0 THEN a[size - 1] ELSE a[i]]
<1>1. /\ n \in Nat /\ 0 .. size - 2 = 0 .. n - 1 /\ n \in 0 .. size - 1 /\ 0 \in 0 .. size - 1
      /\ \A i \in 0 .. n - 1 : i \in 0 .. size - 1 /\ i # n
      /\ \A i \in 0 .. size - 1 : i = n \/ i \in 0 .. n - 1
      /\ n > 0 => 0 \in 0 .. n - 1
      /\ n = 0 => 0 .. n - 1 = {}
  OBVIOUS
<1>2. c = [i \in 0 .. n - 1 |-> IF i = 0 THEN a[n] ELSE a[i]]
  BY <1>1
<1>3. b = Heap!percolate_down(c, n, 0, ex)
  BY DEF Heap!WithoutTop
<1> HIDE DEF n, c
<1>4. \A i \in 0 .. n - 1 : c[i] = IF i = 0 THEN a[n] ELSE a[i]
  BY <1>2
<1>5. Filled(c, n)
  <2>1. c \in [0 .. n - 1 -> Timers]
    BY <1>1, <1>2 DEF Filled
  <2>2. ASSUME NEW i \in 0 .. n - 1, NEW j \in 0 .. n - 1, c[i] = c[j] PROVE i = j
    BY <1>1, <1>4, <2>2 DEF Filled
  <2> QED
    BY <2>1, <2>2 DEF Filled
<1>6. In(c, n) = In(a, size) \ {a[0]}
  <2>1. ASSUME NEW i \in 0 .. n - 1 PROVE c[i] \in In(a, size) /\ c[i] # a[0]
    BY <1>1, <1>4 DEF Filled, In
  <2>2. ASSUME NEW i \in 0 .. size - 1, a[i] # a[0] PROVE \E j \in 0 .. n - 1 : a[i] = c[j]
    <3>1. i # 0
      BY <2>2
    <3>2. CASE i = n
      <4>1. 0 \in 0 .. n - 1
        BY <1>1, <3>1, <3>2
      <4> QED
        BY <1>4, <3>2, <4>1
    <3>3. CASE i \in 0 .. n - 1
      BY <1>4, <3>1, <3>3
    <3> QED
      BY <1>1, <3>2, <3>3
  <2> QED
    BY <2>1, <2>2 DEF In
<1>7. Ordered(c, n, 0 + 1, ex)
  <2>1. 0 + 1 = 1
    OBVIOUS
  <2>2. ASSUME NEW i \in 1 .. n - 1, Parent(i) >= 1 PROVE ex[c[Parent(i)]] <= ex[c[i]]
    <3>1. /\ i \in 0 .. n - 1 /\ i # 0 /\ Parent(i) \in 0 .. n - 1 /\ Parent(i) # 0
          /\ i \in 1 .. size - 1 /\ Parent(i) >= 0
      BY <1>1, <2>2, ParentIs DEF n
    <3> QED
      BY <1>4, <3>1 DEF Ordered
  <2> QED
    BY <2>1, <2>2 DEF Ordered
<1>8. n > 0 => 0 < n
  BY <1>1
<1>9. Filled(b, n) /\ In(b, n) = In(c, n) /\ Ordered(b, n, 0, ex)
  BY <1>1, <1>3, <1>5, <1>7, <1>8, Percolated
<1> QED
  BY <1>6, <1>9 DEF n

(* The top is the first to expire.                                          *)
LEMMA TopFirst ==
  ASSUME NEW size \in Nat, NEW ex \in [Timers -> Nat], NEW a,
         Filled(a, size), Ordered(a, size, 0, ex), NEW i \in 0 .. size - 1
  PROVE  ex[a[0]] <= ex[a[i]]
<1> DEFINE Wrong == {j \in 0 .. size - 1 : ~(ex[a[0]] <= ex[a[j]])}
<1> SUFFICES ASSUME Wrong # {} PROVE FALSE
  OBVIOUS
<1>1. \A j \in 0 .. size - 1 : ex[a[j]] \in Nat
  BY DEF Filled
<1>2. IsFiniteSet(Wrong) /\ Wrong \subseteq Nat
  <2>1. IsFiniteSet(0 .. size - 1) /\ Wrong \in SUBSET (0 .. size - 1)
    BY FS_Interval
  <2> QED
    BY <2>1, FS_Subset
<1>3. PICK m \in Wrong : \A j \in Wrong : m <= j
  <2> HIDE DEF Wrong
  <2> QED  BY <1>2, Least
<1>4. m \in 0 .. size - 1 /\ ~(ex[a[0]] <= ex[a[m]]) /\ 0 \in 0 .. size - 1
  OBVIOUS
<1>5. m \in Nat /\ m > 0 /\ m \in 1 .. size - 1
  BY <1>1, <1>4
<1>6. Parent(m) \in 0 .. size - 1 /\ Parent(m) < m /\ Parent(m) >= 0
  BY <1>5, ParentIs
<1>7. ex[a[0]] <= ex[a[Parent(m)]]
  BY <1>3, <1>5, <1>6
<1>8. ex[a[Parent(m)]] <= ex[a[m]]
  BY <1>5, <1>6 DEF Ordered
<1> HIDE DEF Wrong
<1> QED
  BY <1>1, <1>4, <1>6, <1>7, <1>8
-----------------------------------------------------------------------------
(* The inductive invariant.  After a tick nothing that is in the heap and   *)
(* not deleted is due, until time passes or a timer is added.               *)
HeapInv ==
    /\ clock \in 0 .. MaxTime
    /\ cur_size \in Nat /\ capacity \in Nat \ {0} /\ cur_size <= capacity
    /\ Filled(array, cur_size) /\ Ordered(array, cur_size, 0, deadline)
    /\ deadline \in [Timers -> Nat]
    /\ cb_func \subseteq In(array, cur_size) /\ called \subseteq Timers
    /\ called # {} => \A t \in cb_func : deadline[t] > clock

LEMMA InHeapIs == ASSUME HeapInv PROVE Heap!InHeap = In(array, cur_size) /\ Heap!InHeap \subseteq Timers
<1>1. DOMAIN array = 0 .. cur_size - 1 /\ array \in [0 .. cur_size - 1 -> Timers]
  BY DEF HeapInv, Filled
<1> QED
  BY <1>1 DEF Heap!InHeap, In

LEMMA InvImplies == HeapInv => Heap!TypeOK /\ Heap!HeapOrdered
<1> SUFFICES ASSUME HeapInv PROVE Heap!TypeOK /\ Heap!HeapOrdered
  OBVIOUS
<1>1. Heap!InHeap = In(array, cur_size) /\ array \in [0 .. cur_size - 1 -> Timers] /\ cur_size \in Nat
      /\ DOMAIN array = 0 .. cur_size - 1
  BY InHeapIs DEF HeapInv, Filled
<1>2. \A i, j \in 0 .. cur_size - 1 : i # j => array[i] # array[j]
  BY DEF HeapInv, Filled
<1>3. Heap!TypeOK
  BY <1>1, <1>2 DEF HeapInv, Heap!TypeOK
<1>4. Heap!HeapOrdered
  <2>1. \A i \in 1 .. cur_size - 1 : Parent(i) >= 0
    BY ParentIs
  <2> QED
    BY <2>1 DEF HeapInv, Ordered, Heap!HeapOrdered, Parent
<1> QED
  BY <1>3, <1>4
-----------------------------------------------------------------------------
(* tick() takes out what is due and nothing else.                           *)
Arrays == UNION {[0 .. n - 1 -> Timers] : n \in Nat}
PopStates ==
  {s \in [array : Arrays, cur_size : Nat] :
     /\ s.cur_size <= cur_size
     /\ Filled(s.array, s.cur_size) /\ Ordered(s.array, s.cur_size, 0, deadline)
     /\ In(s.array, s.cur_size) \subseteq In(array, cur_size)
     /\ \A t \in In(array, cur_size) \ In(s.array, s.cur_size) : deadline[t] <= clock}

LEMMA PopKeeps ==
  ASSUME HeapInv, NEW s \in PopStates, NEW u, u = Heap!Pop(s)
  PROVE  /\ u \in PopStates
         /\ u = s \/ u.cur_size < s.cur_size
         /\ u = s => s.cur_size = 0 \/ deadline[s.array[0]] > clock
<1>1. /\ s.cur_size \in Nat /\ s.cur_size <= cur_size /\ cur_size \in Nat /\ clock \in Nat
      /\ Filled(s.array, s.cur_size) /\ Ordered(s.array, s.cur_size, 0, deadline)
      /\ In(s.array, s.cur_size) \subseteq In(array, cur_size)
      /\ \A t \in In(array, cur_size) \ In(s.array, s.cur_size) : deadline[t] <= clock
      /\ deadline \in [Timers -> Nat]
  BY DEF PopStates, HeapInv
<1>2. CASE s.cur_size = 0 \/ deadline[s.array[0]] > clock
  BY <1>2 DEF Heap!Pop
<1>3. CASE s.cur_size # 0 /\ ~(deadline[s.array[0]] > clock)
  <2> DEFINE n == s.cur_size - 1
             b == Heap!WithoutTop(s.array, s.cur_size, deadline)
  <2>1. n \in Nat /\ n < s.cur_size /\ n <= cur_size /\ s.cur_size \in Nat \ {0} /\ n # s.cur_size
        /\ 0 \in 0 .. s.cur_size - 1
    BY <1>1, <1>3
  <2>2. /\ Filled(b, n) /\ In(b, n) = In(s.array, s.cur_size) \ {s.array[0]}
        /\ Ordered(b, n, 0, deadline)
    BY <1>1, <2>1, TopOff
  <2>3. u = [array |-> b, cur_size |-> n]
    BY <1>3 DEF Heap!Pop
  <2>4. deadline[s.array[0]] <= clock
    <3>1. s.array[0] \in Timers
      BY <1>1, <2>1 DEF Filled
    <3>2. deadline[s.array[0]] \in Nat
      BY <1>1, <3>1
    <3> QED
      BY <1>1, <1>3, <3>2
  <2> HIDE DEF n, b
  <2>5. b \in Arrays
    BY <2>1, <2>2 DEF Filled, Arrays
  <2>6. u.array = b /\ u.cur_size = n /\ u \in [array : Arrays, cur_size : Nat]
    BY <2>1, <2>3, <2>5
  <2>7. u \in PopStates
    BY <1>1, <2>1, <2>2, <2>4, <2>6 DEF PopStates
  <2>8. u # s
    BY <2>1, <2>6
  <2> QED
    BY <2>1, <2>6, <2>7, <2>8
<1> QED
  BY <1>2, <1>3

LEMMA Popped ==
  ASSUME HeapInv, NEW r, r = Heap!PopDue
  PROVE  /\ r.cur_size \in Nat /\ r.cur_size <= cur_size
         /\ Filled(r.array, r.cur_size) /\ Ordered(r.array, r.cur_size, 0, deadline)
         /\ In(r.array, r.cur_size) = {t \in In(array, cur_size) : deadline[t] > clock}
<1> DEFINE X == PopStates
           step == [s \in X |-> Heap!Pop(s)]
           rank == [s \in X |-> s.cur_size]
           init == [array |-> array, cur_size |-> cur_size]
           Eq(f) == f = [k \in 0 .. cur_size |-> IF k = 0 THEN init ELSE Heap!Pop(f[k - 1])]
           f == CHOOSE f : Eq(f)
<1>0. cur_size \in Nat /\ clock \in Nat /\ deadline \in [Timers -> Nat]
  BY DEF HeapInv
<1>1. init \in X
  <2>1. array \in Arrays
    BY <1>0 DEF HeapInv, Filled, Arrays
  <2> QED
    BY <2>1 DEF PopStates, HeapInv
<1>2. step \in [X -> X] /\ \A s \in X : step[s] = Heap!Pop(s)
  BY PopKeeps
<1>3. rank \in [X -> Nat] /\ rank[init] = cur_size
  BY <1>1 DEF PopStates
<1>4. Falls(X, step, rank)
  <2> SUFFICES ASSUME NEW s \in X, step[s] # s PROVE rank[step[s]] < rank[s]
    BY DEF Falls
  <2>1. step[s] \in X /\ step[s].cur_size < s.cur_size
    BY <1>2, PopKeeps
  <2> QED
    BY <2>1
<1>5. PICK g \in [0 .. cur_size -> X] : Turns(g, step, init, cur_size)
  <2> HIDE DEF X, step, init
  <2> QED  BY <1>0, <1>1, <1>2, LoopExists
<1>6. Eq(g)
  <2>1. \A k \in 1 .. cur_size : k - 1 \in 0 .. cur_size
    BY <1>0
  <2>2. \A k \in 1 .. cur_size : step[g[k - 1]] = Heap!Pop(g[k - 1])
    BY <1>2, <1>5, <2>1
  <2>3. \A k \in 0 .. cur_size : k = 0 \/ k \in 1 .. cur_size
    BY <1>0
  <2> HIDE DEF X, step, init
  <2> QED
    BY <1>5, <2>2, <2>3 DEF Turns
<1>7. Eq(f)
  <2> HIDE DEF Eq
  <2> QED  BY <1>6
<1>8. r = f[cur_size]
  BY DEF Heap!PopDue
<1> HIDE DEF f, X, step, rank
<1>9. Follows(f, X, step, init, cur_size)
  <2>1. 0 \in 0 .. cur_size /\ \A k \in 1 .. cur_size : k \in 0 .. cur_size /\ k # 0
    BY <1>0
  <2>2. f[0] = init /\ \A k \in 1 .. cur_size : f[k] = Heap!Pop(f[k - 1])
    <3> HIDE DEF init
    <3> QED  BY <1>7, <2>1
  <2> QED
    BY <1>2, <2>2 DEF Follows
<1>10. r \in PopStates /\ Heap!Pop(r) = r
  <2> HIDE DEF init, Eq
  <2>1. IsLoop(f, X, step, init, rank, cur_size)
    BY <1>0, <1>1, <1>2, <1>3, <1>4, <1>9 DEF IsLoop
  <2>2. f[cur_size] \in X /\ step[f[cur_size]] = f[cur_size]
    BY <2>1, Loop
  <2> QED
    BY <1>2, <1>8, <2>2 DEF X
<1>11. /\ r.cur_size \in Nat /\ r.cur_size <= cur_size
       /\ Filled(r.array, r.cur_size) /\ Ordered(r.array, r.cur_size, 0, deadline)
       /\ In(r.array, r.cur_size) \subseteq In(array, cur_size)
       /\ \A t \in In(array, cur_size) \ In(r.array, r.cur_size) : deadline[t] <= clock
  BY <1>10 DEF PopStates
<1>12. r.cur_size = 0 \/ deadline[r.array[0]] > clock
  BY <1>10, PopKeeps
<1>13. ASSUME NEW t \in In(r.array, r.cur_size) PROVE deadline[t] > clock
  <2>1. PICK i \in 0 .. r.cur_size - 1 : t = r.array[i]
    BY DEF In
  <2>2. deadline[r.array[0]] > clock /\ 0 \in 0 .. r.cur_size - 1
    BY <1>11, <1>12
  <2>3. deadline[r.array[0]] <= deadline[t]
    BY <1>0, <1>11, <2>1, TopFirst
  <2>4. deadline[r.array[0]] \in Nat /\ deadline[t] \in Nat
    BY <1>0, <1>11, <2>1, <2>2 DEF Filled
  <2> QED
    BY <1>0, <2>2, <2>3, <2>4
<1>14. ASSUME NEW t \in In(array, cur_size), deadline[t] <= clock PROVE ~(deadline[t] > clock)
  <2>1. t \in Timers
    BY InHeapIs
  <2>2. deadline[t] \in Nat
    BY <1>0, <2>1
  <2> QED
    BY <1>0, <1>14, <2>2
<1>15. In(r.array, r.cur_size) = {t \in In(array, cur_size) : deadline[t] > clock}
  BY <1>11, <1>13, <1>14
<1> QED
  BY <1>11, <1>15
-----------------------------------------------------------------------------
(* The initial states and the steps.                                        *)
LEMMA SameOrder ==
  ASSUME NEW size \in Nat, NEW a, Filled(a, size), NEW ex, NEW ey, Ordered(a, size, 0, ex),
         \A t \in In(a, size) : ey[t] = ex[t]
  PROVE  Ordered(a, size, 0, ey)
<1> SUFFICES ASSUME NEW i \in 1 .. size - 1, Parent(i) >= 0 PROVE ey[a[Parent(i)]] <= ey[a[i]]
  BY DEF Ordered
<1>1. Parent(i) \in 0 .. size - 1 /\ i \in 0 .. size - 1
  BY ParentIs
<1>2. a[Parent(i)] \in In(a, size) /\ a[i] \in In(a, size)
  BY <1>1 DEF In
<1> QED
  BY <1>2 DEF Ordered

LEMMA HeapInitInv == Heap!Init => HeapInv
<1> SUFFICES ASSUME Heap!Init PROVE HeapInv
  OBVIOUS
<1>1. clock = 0 /\ clock \in 0 .. MaxTime /\ called = {}
  BY HeapGiven DEF Heap!Init
<1>2. CASE array = <<>> /\ capacity = Capacity /\ cur_size = 0
           /\ deadline = [t \in Timers |-> 0] /\ cb_func = {}
  <2>1. 0 .. cur_size - 1 = {} /\ 1 .. cur_size - 1 = {}
    BY <1>2
  <2>2. array \in [{} -> Timers]
    BY <1>2
  <2>3. Filled(array, cur_size)
    BY <2>1, <2>2 DEF Filled
  <2>4. Ordered(array, cur_size, 0, deadline)
    BY <2>1 DEF Ordered
  <2>5. deadline \in [Timers -> Nat]
    BY <1>2
  <2> QED
    BY <1>1, <1>2, <2>3, <2>4, <2>5, HeapGiven DEF HeapInv
<1>3. CASE \E init_array \in [0 .. Given - 1 -> Timers] :
             /\ capacity = Given
             /\ \A i, j \in 0 .. Given - 1 : i # j => init_array[i] # init_array[j]
             /\ cb_func = {init_array[i] : i \in 0 .. Given - 1}
             /\ deadline \in [Timers -> Delays \cup {0}]
             /\ \A t \in Timers : deadline[t] = 0 <=> t \notin cb_func
             /\ array = Heap!heapify(init_array, Given, deadline)
             /\ cur_size = Given
  <2>1. PICK a \in [0 .. Given - 1 -> Timers] :
             /\ capacity = Given
             /\ \A i, j \in 0 .. Given - 1 : i # j => a[i] # a[j]
             /\ cb_func = {a[i] : i \in 0 .. Given - 1}
             /\ deadline \in [Timers -> Delays \cup {0}]
             /\ array = Heap!heapify(a, Given, deadline)
             /\ cur_size = Given
    BY <1>3
  <2>2. Given \in Nat \ {0} /\ Given \in Nat /\ Given <= Given
    BY HeapGiven
  <2>3. deadline \in [Timers -> Nat]
    <3>1. Delays \cup {0} \subseteq Nat
      BY HeapGiven
    <3>2. deadline \in [Timers -> Delays \cup {0}]
      BY <2>1
    <3> QED
      BY <3>1, <3>2
  <2>4. Filled(a, Given)
    BY <2>1 DEF Filled
  <2>5. Filled(array, Given) /\ In(array, Given) = In(a, Given) /\ Ordered(array, Given, 0, deadline)
    BY <2>1, <2>2, <2>3, <2>4, Heapified
  <2>6. cb_func \subseteq In(array, Given)
    BY <2>1, <2>5 DEF In
  <2> QED
    BY <1>1, <2>1, <2>2, <2>3, <2>5, <2>6 DEF HeapInv
<1> QED
  BY <1>2, <1>3 DEF Heap!Init, Heap!Empty, Heap!FromArray

LEMMA AddHeap ==
  ASSUME HeapInv, NEW t \in Timers, NEW d \in Delays, Heap!AddTimer(t, d)
  PROVE  /\ Filled(array', cur_size') /\ In(array', cur_size') = In(array, cur_size) \cup {t}
         /\ Ordered(array', cur_size', 0, deadline')
         /\ deadline' \in [Timers -> Nat] /\ deadline' = [deadline EXCEPT ![t] = clock + d]
<1> DEFINE n == cur_size
           a == [i \in 0 .. n |-> IF i < n THEN array[i] ELSE t]
           ex == [deadline EXCEPT ![t] = clock + d]
<1>1. /\ n \in Nat /\ n + 1 \in Nat /\ n < n + 1 /\ 0 .. (n + 1) - 1 = 0 .. n
      /\ n \in 0 .. n /\ \A i \in 0 .. n : i = n \/ i \in 0 .. n - 1
      /\ \A i \in 0 .. n - 1 : i \in 0 .. n /\ i < n /\ i # n
      /\ ~(n < n)
  BY DEF HeapInv
<1>2. /\ array' = Heap!percolate_up(a, n, ex) /\ cur_size' = n + 1 /\ deadline' = ex /\ t \notin In(array, n)
  BY InHeapIs DEF Heap!AddTimer
<1>3. Filled(array, n) /\ Ordered(array, n, 0, deadline) /\ array \in [0 .. n - 1 -> Timers]
  BY DEF HeapInv, Filled
<1>4. ex \in [Timers -> Nat]
  BY HeapGiven DEF HeapInv
<1>5. \A i \in 0 .. n : a[i] = IF i < n THEN array[i] ELSE t
  OBVIOUS
<1>6. a[n] = t /\ \A i \in 0 .. n - 1 : a[i] = array[i] /\ a[i] # t /\ ex[a[i]] = deadline[array[i]]
  <2>1. a[n] = t /\ \A i \in 0 .. n - 1 : a[i] = array[i]
    BY <1>1, <1>5
  <2>2. \A i \in 0 .. n - 1 : array[i] \in In(array, n) /\ array[i] \in Timers
    BY <1>3 DEF In
  <2>3. deadline \in [Timers -> Nat]
    BY DEF HeapInv
  <2> HIDE DEF a
  <2> QED
    BY <1>2, <2>1, <2>2, <2>3
<1>7. Filled(a, n + 1)
  <2>1. a \in [0 .. n -> Timers]
    BY <1>1, <1>3
  <2> HIDE DEF a
  <2>2. \A i, j \in 0 .. n : a[i] = a[j] => i = j
    BY <1>1, <1>3, <1>6 DEF Filled
  <2> QED
    BY <1>1, <2>1, <2>2 DEF Filled
<1> HIDE DEF a, ex
<1>8. In(a, n + 1) = In(array, n) \cup {t}
  BY <1>1, <1>6 DEF In
<1>9. Rising(a, n + 1, ex, n)
  <2>1. ASSUME NEW i \in 1 .. (n + 1) - 1, i # n PROVE ex[a[Parent(i)]] <= ex[a[i]]
    <3>1. /\ i \in 0 .. n - 1 /\ i \in 1 .. n - 1 /\ Parent(i) \in 0 .. n - 1 /\ Parent(i) >= 0
      BY <1>1, <2>1, ParentIs
    <3> QED
      BY <1>3, <1>6, <3>1 DEF Ordered
  <2>2. ASSUME NEW i \in 1 .. (n + 1) - 1, Parent(i) = n PROVE FALSE
    BY <1>1, <2>2, ParentIs
  <2> QED
    BY <2>1, <2>2 DEF Rising
<1>10. /\ Filled(array', n + 1) /\ In(array', n + 1) = In(a, n + 1)
       /\ Ordered(array', n + 1, 0, ex)
  BY <1>1, <1>2, <1>4, <1>7, <1>9, Risen
<1> QED
  BY <1>2, <1>4, <1>8, <1>10 DEF ex

LEMMA PopHeap ==
  ASSUME HeapInv, Heap!PopTimer
  PROVE  /\ array[0] \in In(array, cur_size) /\ array[0] \in Timers
         /\ cur_size' \in Nat /\ cur_size' < cur_size
         /\ Filled(array', cur_size') /\ In(array', cur_size') = In(array, cur_size) \ {array[0]}
         /\ Ordered(array', cur_size', 0, deadline')
         /\ deadline' \in [Timers -> Nat]
         /\ \A t \in Timers : t # array[0] => deadline'[t] = deadline[t]
<1>1. /\ cur_size \in Nat \ {0} /\ array' = Heap!WithoutTop(array, cur_size, deadline)
      /\ cur_size' = cur_size - 1 /\ deadline' = Heap!Swept(deadline, {array[0]})
      /\ deadline \in [Timers -> Nat] /\ Filled(array, cur_size) /\ Ordered(array, cur_size, 0, deadline)
  BY DEF HeapInv, Heap!PopTimer
<1>2. 0 \in 0 .. cur_size - 1 /\ cur_size' \in Nat /\ cur_size' < cur_size
  BY <1>1
<1>3. array[0] \in In(array, cur_size) /\ array[0] \in Timers
  BY <1>1, <1>2 DEF In, Filled
<1>4. deadline' \in [Timers -> Nat] /\ \A t \in Timers : t # array[0] => deadline'[t] = deadline[t]
  BY <1>1 DEF Heap!Swept
<1>5. /\ Filled(array', cur_size') /\ In(array', cur_size') = In(array, cur_size) \ {array[0]}
      /\ Ordered(array', cur_size', 0, deadline)
  BY <1>1, TopOff
<1>6. \A t \in In(array', cur_size') : deadline'[t] = deadline[t]
  <2>1. In(array, cur_size) \subseteq Timers
    BY InHeapIs
  <2> QED
    BY <1>4, <1>5, <2>1
<1>7. Ordered(array', cur_size', 0, deadline')
  BY <1>2, <1>5, <1>6, SameOrder
<1> QED
  BY <1>2, <1>3, <1>4, <1>5, <1>7

LEMMA TickHeap ==
  ASSUME HeapInv, Heap!Tick
  PROVE  /\ cur_size' \in Nat /\ cur_size' <= cur_size
         /\ Filled(array', cur_size') /\ Ordered(array', cur_size', 0, deadline')
         /\ In(array', cur_size') = {t \in In(array, cur_size) : deadline[t] > clock}
         /\ called' = {t \in cb_func : ~(deadline[t] > clock)}
         /\ cb_func' = {t \in cb_func : deadline[t] > clock}
         /\ deadline' \in [Timers -> Nat]
         /\ \A t \in In(array', cur_size') : deadline'[t] = deadline[t]
<1> DEFINE r == Heap!PopDue
           Rest == {r.array[i] : i \in DOMAIN r.array}
           gone == Heap!InHeap \ Rest
<1>1. /\ array' = r.array /\ cur_size' = r.cur_size /\ called' = gone \cap cb_func
      /\ cb_func' = cb_func \ gone /\ deadline' = Heap!Swept(deadline, gone)
  BY DEF Heap!Tick
<1> HIDE DEF r
<1>2. /\ r.cur_size \in Nat /\ r.cur_size <= cur_size
      /\ Filled(r.array, r.cur_size) /\ Ordered(r.array, r.cur_size, 0, deadline)
      /\ In(r.array, r.cur_size) = {t \in In(array, cur_size) : deadline[t] > clock}
  BY Popped DEF r
<1>3. Rest = In(r.array, r.cur_size)
  <2>1. DOMAIN r.array = 0 .. r.cur_size - 1
    BY <1>2 DEF Filled
  <2> QED
    BY <2>1 DEF In
<1>4. gone = {t \in In(array, cur_size) : ~(deadline[t] > clock)}
  BY <1>2, <1>3, InHeapIs
<1> HIDE DEF gone, Rest
<1>5. cb_func \subseteq In(array, cur_size) /\ In(array, cur_size) \subseteq Timers /\ deadline \in [Timers -> Nat]
  BY InHeapIs DEF HeapInv
<1>6. called' = {t \in cb_func : ~(deadline[t] > clock)} /\ cb_func' = {t \in cb_func : deadline[t] > clock}
  BY <1>1, <1>4, <1>5
<1>7. deadline' \in [Timers -> Nat] /\ \A t \in Timers : t \notin gone => deadline'[t] = deadline[t]
  BY <1>1, <1>5 DEF Heap!Swept
<1>8. \A t \in In(array', cur_size') : deadline'[t] = deadline[t]
  BY <1>1, <1>2, <1>4, <1>5, <1>7
<1>9. Ordered(array', cur_size', 0, deadline')
  BY <1>1, <1>2, <1>8, SameOrder
<1> QED
  BY <1>1, <1>2, <1>6, <1>7, <1>8, <1>9

LEMMA HeapNextInv == HeapInv /\ [Heap!Next]_heapVars => HeapInv'
<1> SUFFICES ASSUME HeapInv, [Heap!Next]_heapVars PROVE HeapInv'
  OBVIOUS
<1>0. /\ clock \in 0 .. MaxTime /\ MaxTime \in Nat /\ cur_size \in Nat /\ capacity \in Nat \ {0} /\ cur_size <= capacity
      /\ Filled(array, cur_size) /\ Ordered(array, cur_size, 0, deadline)
      /\ deadline \in [Timers -> Nat]
      /\ cb_func \subseteq In(array, cur_size) /\ In(array, cur_size) \subseteq Timers /\ called \subseteq Timers
  BY InHeapIs, HeapGiven DEF HeapInv
<1>1. ASSUME NEW t \in Timers, NEW d \in Delays, Heap!AddTimer(t, d) PROVE HeapInv'
  <2>1. /\ cur_size' = cur_size + 1 /\ capacity' = (IF cur_size >= capacity THEN 2 * capacity ELSE capacity)
        /\ cb_func' = cb_func \cup {t} /\ called' = {} /\ clock' = clock
    BY <1>1 DEF Heap!AddTimer, Heap!resize
  <2>2. capacity' \in Nat \ {0} /\ cur_size' \in Nat /\ cur_size' <= capacity'
    BY <1>0, <2>1
  <2> QED
    BY <1>0, <1>1, <2>1, <2>2, AddHeap DEF HeapInv
<1>2. ASSUME NEW t \in Timers, Heap!DelTimer(t) PROVE HeapInv'
  <2>1. /\ cb_func' = cb_func \ {t} /\ called' = {}
        /\ UNCHANGED <<clock, array, capacity, cur_size, deadline>>
    BY <1>2 DEF Heap!DelTimer
  <2> QED
    BY <1>0, <2>1 DEF HeapInv, Filled, Ordered, In
<1>3. CASE Heap!PopTimer
  <2>1. cb_func' = cb_func \ {array[0]} /\ called' = {} /\ clock' = clock /\ capacity' = capacity
    BY <1>3 DEF Heap!PopTimer
  <2>2. cur_size' <= capacity'
    BY <1>0, <1>3, <2>1, PopHeap
  <2> QED
    BY <1>0, <1>3, <2>1, <2>2, PopHeap DEF HeapInv
<1>4. CASE Heap!Tick
  <2>1. clock' = clock /\ capacity' = capacity
    BY <1>4 DEF Heap!Tick
  <2>2. /\ cur_size' \in Nat /\ cur_size' <= cur_size
        /\ Filled(array', cur_size') /\ Ordered(array', cur_size', 0, deadline')
        /\ In(array', cur_size') = {t \in In(array, cur_size) : deadline[t] > clock}
        /\ called' = {t \in cb_func : ~(deadline[t] > clock)}
        /\ cb_func' = {t \in cb_func : deadline[t] > clock}
        /\ deadline' \in [Timers -> Nat]
        /\ \A t \in In(array', cur_size') : deadline'[t] = deadline[t]
    BY <1>4, TickHeap
  <2>3. cur_size' <= capacity'
    BY <1>0, <2>1, <2>2
  <2>4. cb_func' \subseteq In(array', cur_size') /\ called' \subseteq Timers
    BY <1>0, <2>2
  <2>5. \A t \in cb_func' : deadline'[t] > clock'
    BY <2>1, <2>2, <2>4
  <2> QED
    BY <1>0, <2>1, <2>2, <2>3, <2>4, <2>5 DEF HeapInv
<1>5. CASE Heap!Second
  <2>1. clock' = clock + 1 /\ clock < MaxTime /\ called' = {}
        /\ UNCHANGED <<array, capacity, cur_size, deadline, cb_func>>
    BY <1>5 DEF Heap!Second
  <2>2. clock' \in 0 .. MaxTime
    BY <1>0, <2>1
  <2> QED
    BY <1>0, <2>1, <2>2 DEF HeapInv, Filled, Ordered, In
<1>6. CASE UNCHANGED heapVars
  BY <1>6 DEF heapVars, HeapInv, Filled, Ordered, In
<1> QED
  BY <1>1, <1>2, <1>3, <1>4, <1>5, <1>6 DEF Heap!Next

(* A step of another container leaves the heap alone.                       *)
LEMMA HeapStep == [Next]_vars => [Heap!Next]_heapVars
BY DEF Next, vars, heapVars

(* No timer expires before its parent, whatever is added, deleted, popped or *)
(* handed to the second constructor: percolate_down (139-155) and the loop   *)
(* of add_timer (80-89) repair the order everywhere, not only where they     *)
(* look, so the top that tick() looks at is the first to expire.             *)
THEOREM StaysHeap == Spec => []HeapOrdered
<1>1. Init => HeapInv
  BY HeapInitInv DEF Init
<1>2. HeapInv /\ [Next]_vars => HeapInv'
  BY HeapStep, HeapNextInv
<1>3. HeapInv => HeapOrdered
  BY InvImplies DEF HeapOrdered
<1> QED
  BY <1>1, <1>2, <1>3, PTL DEF Spec
-----------------------------------------------------------------------------
(* Refinement of the abstract set of timers.                                *)
LEMMA HeapLeftIs ==
  ASSUME HeapInv
  PROVE  /\ DOMAIN Heap!Left = cb_func /\ deadline \in [Timers -> Nat] /\ clock \in Nat
         /\ \A x \in cb_func : /\ x \in Timers /\ deadline[x] \in Nat
                               /\ Heap!Left[x] = IF deadline[x] <= clock THEN 0 ELSE deadline[x] - clock
                               /\ Heap!Left[x] = 0 <=> deadline[x] <= clock
<1>1. DOMAIN Heap!Left = cb_func /\ deadline \in [Timers -> Nat] /\ clock \in Nat /\ cb_func \subseteq Timers
  BY InHeapIs, HeapGiven DEF HeapInv, Heap!Left
<1>2. ASSUME NEW x \in cb_func
      PROVE  /\ x \in Timers /\ deadline[x] \in Nat
             /\ Heap!Left[x] = IF deadline[x] <= clock THEN 0 ELSE deadline[x] - clock
             /\ Heap!Left[x] = 0 <=> deadline[x] <= clock
  <2>1. x \in Timers /\ deadline[x] \in Nat
    BY <1>1
  <2>2. Heap!Left[x] = IF deadline[x] <= clock THEN 0 ELSE deadline[x] - clock
    BY DEF Heap!Left
  <2> QED
    BY <1>1, <2>1, <2>2
<1> QED
  BY <1>1, <1>2

(* Timers that stay, with their deadlines, have as much time left.          *)
LEMMA SameLeft ==
  ASSUME HeapInv, clock' = clock, cb_func' \subseteq cb_func, \A x \in cb_func' : deadline'[x] = deadline[x]
  PROVE  Heap!Left' = [x \in cb_func' |-> Heap!Left[x]]
<1>1. Heap!Left' = [x \in cb_func' |-> IF deadline'[x] <= clock' THEN 0 ELSE deadline'[x] - clock']
  BY DEF Heap!Left
<1>2. \A x \in cb_func' : (IF deadline'[x] <= clock' THEN 0 ELSE deadline'[x] - clock') = Heap!Left[x]
  BY HeapLeftIs
<1> QED
  BY <1>1, <1>2

LEMMA AddMaps ==
  ASSUME HeapInv, NEW t \in Timers, NEW d \in Delays, Heap!AddTimer(t, d)
  PROVE  Heap!TS!Arm(t, d)
<1>1. /\ t \notin Heap!InHeap /\ clock' = clock /\ called' = {} /\ cb_func' = cb_func \cup {t}
      /\ deadline' = [deadline EXCEPT ![t] = clock + d]
  BY DEF Heap!AddTimer
<1>2. t \notin cb_func /\ d \in Nat
  BY <1>1, InHeapIs, HeapGiven DEF HeapInv
<1>3. Heap!Left' = [x \in cb_func' |-> IF deadline'[x] <= clock' THEN 0 ELSE deadline'[x] - clock']
  BY DEF Heap!Left
<1>4. ASSUME NEW x \in cb_func'
      PROVE  (IF deadline'[x] <= clock' THEN 0 ELSE deadline'[x] - clock') = IF x = t THEN d ELSE Heap!Left[x]
  <2>1. CASE x = t
    <3>1. deadline'[x] = clock + d /\ clock \in Nat
      BY <1>1, <2>1, HeapLeftIs
    <3>2. (clock + d <= clock <=> d = 0) /\ (clock + d) - clock = d
      BY <1>2, <3>1
    <3> QED
      BY <1>1, <2>1, <3>1, <3>2
  <2>2. CASE x # t
    <3>1. x \in cb_func /\ deadline'[x] = deadline[x]
      BY <1>1, <2>2, HeapLeftIs
    <3> QED
      BY <1>1, <2>2, <3>1, HeapLeftIs
  <2> QED
    BY <2>1, <2>2
<1>5. Heap!TS!With(Heap!Left, t, d) = [x \in cb_func' |-> IF x = t THEN d ELSE Heap!Left[x]]
  BY <1>1, HeapLeftIs DEF Heap!TS!With
<1>6. Heap!Left' = Heap!TS!With(Heap!Left, t, d)
  BY <1>3, <1>4, <1>5
<1> QED
  BY <1>1, <1>2, <1>6, HeapLeftIs DEF Heap!TS!Arm

LEMMA HeapDelMaps ==
  ASSUME HeapInv, NEW t \in Timers, Heap!DelTimer(t)
  PROVE  Heap!TS!Cancel(t)
<1>1. t \in cb_func /\ cb_func' = cb_func \ {t} /\ called' = {} /\ clock' = clock /\ deadline' = deadline
  BY DEF Heap!DelTimer
<1>2. Heap!Left' = [x \in cb_func \ {t} |-> Heap!Left[x]]
  BY <1>1, SameLeft
<1> QED
  BY <1>1, <1>2, HeapLeftIs DEF Heap!TS!Cancel, Heap!TS!Without

(* pop_timer() deletes the top, or throws away what was deleted before.     *)
LEMMA PopMaps ==
  ASSUME HeapInv, Heap!PopTimer
  PROVE  Heap!TS!ClockedNext \/ UNCHANGED <<Heap!Left, called>>
<1>1. cb_func' = cb_func \ {array[0]} /\ called' = {} /\ clock' = clock
  BY DEF Heap!PopTimer
<1>2. array[0] \in Timers /\ \A x \in cb_func' : deadline'[x] = deadline[x]
  <2>1. cb_func \subseteq Timers
    BY HeapLeftIs
  <2> QED
    BY <1>1, <2>1, PopHeap
<1>3. Heap!Left' = [x \in cb_func \ {array[0]} |-> Heap!Left[x]]
  BY <1>1, <1>2, SameLeft
<1>4. CASE array[0] \in cb_func
  <2>1. Heap!TS!Cancel(array[0])
    BY <1>1, <1>3, <1>4, HeapLeftIs DEF Heap!TS!Cancel, Heap!TS!Without
  <2> QED
    BY <1>2, <2>1 DEF Heap!TS!ClockedNext, Heap!TS!Change
<1>5. CASE array[0] \notin cb_func
  <2>1. Heap!Left' = [x \in cb_func |-> Heap!Left[x]]
    BY <1>3, <1>5
  <2>2. Heap!Left' = Heap!Left
    BY <2>1 DEF Heap!Left
  <2>3. CASE called = {}
    BY <1>1, <2>2, <2>3
  <2>4. CASE called # {}
    <3>1. \A x \in cb_func : ~(deadline[x] <= clock)
      <4>1. \A x \in cb_func : deadline[x] > clock
        BY <2>4 DEF HeapInv
      <4> QED
        BY <4>1, HeapLeftIs
    <3>2. Heap!TS!Due(Heap!Left) = {}
      BY <3>1, HeapLeftIs DEF Heap!TS!Due
    <3>3. Heap!TS!Undue(Heap!Left) = [x \in cb_func |-> Heap!Left[x]]
      BY <3>2, HeapLeftIs DEF Heap!TS!Undue
    <3> QED
      BY <1>1, <2>1, <3>2, <3>3 DEF Heap!TS!ClockedNext, Heap!TS!Expire
  <2> QED
    BY <2>3, <2>4
<1> QED
  BY <1>4, <1>5

LEMMA HeapTickMaps == ASSUME HeapInv, Heap!Tick PROVE Heap!TS!Expire
<1>1. /\ called' = {t \in cb_func : ~(deadline[t] > clock)}
      /\ cb_func' = {t \in cb_func : deadline[t] > clock}
      /\ \A t \in In(array', cur_size') : deadline'[t] = deadline[t]
      /\ In(array', cur_size') = {t \in In(array, cur_size) : deadline[t] > clock}
  BY TickHeap
<1>2. cb_func \subseteq In(array, cur_size) /\ clock' = clock
  BY DEF HeapInv, Heap!Tick
<1>3. \A x \in cb_func' : deadline'[x] = deadline[x]
  BY <1>1, <1>2
<1>4. \A t \in cb_func : deadline[t] <= clock <=> ~(deadline[t] > clock)
  BY HeapLeftIs
<1>5. Heap!Left' = [x \in cb_func' |-> Heap!Left[x]]
  BY <1>1, <1>2, <1>3, SameLeft
<1>6. Heap!TS!Due(Heap!Left) = called'
  BY <1>1, <1>4, HeapLeftIs DEF Heap!TS!Due
<1>7. DOMAIN Heap!Left \ Heap!TS!Due(Heap!Left) = cb_func'
  BY <1>1, <1>6, HeapLeftIs
<1>8. Heap!TS!Undue(Heap!Left) = [x \in cb_func' |-> Heap!Left[x]]
  BY <1>7 DEF Heap!TS!Undue
<1> QED
  BY <1>5, <1>6, <1>8 DEF Heap!TS!Expire

LEMMA HeapSecondMaps == ASSUME HeapInv, Heap!Second PROVE Heap!TS!Pass
<1>1. clock' = clock + 1 /\ called' = {} /\ deadline' = deadline /\ cb_func' = cb_func
  BY DEF Heap!Second
<1>2. Heap!Left' = [x \in cb_func |-> IF deadline[x] <= clock + 1 THEN 0 ELSE deadline[x] - (clock + 1)]
  BY <1>1 DEF Heap!Left
<1>3. ASSUME NEW x \in cb_func
      PROVE  (IF deadline[x] <= clock + 1 THEN 0 ELSE deadline[x] - (clock + 1))
             = IF Heap!Left[x] = 0 THEN 0 ELSE Heap!Left[x] - 1
  <2>1. /\ deadline[x] \in Nat /\ clock \in Nat
        /\ Heap!Left[x] = IF deadline[x] <= clock THEN 0 ELSE deadline[x] - clock
    BY HeapLeftIs
  <2>2. CASE deadline[x] <= clock
    BY <2>1, <2>2
  <2>3. CASE deadline[x] = clock + 1
    BY <2>1, <2>3
  <2>4. CASE deadline[x] > clock + 1
    BY <2>1, <2>4
  <2> QED
    BY <2>1, <2>2, <2>3, <2>4
<1>4. Heap!TS!Later(Heap!Left) = [x \in cb_func |-> IF Heap!Left[x] = 0 THEN 0 ELSE Heap!Left[x] - 1]
  BY HeapLeftIs DEF Heap!TS!Later
<1>5. Heap!Left' = Heap!TS!Later(Heap!Left)
  BY <1>2, <1>3, <1>4
<1> QED
  BY <1>1, <1>5 DEF Heap!TS!Pass

LEMMA HeapStepMaps ==
  ASSUME HeapInv, [Heap!Next]_heapVars
  PROVE  [Heap!TS!ClockedNext]_<<Heap!Left, called>>
<1>1. ASSUME NEW t \in Timers, NEW d \in Delays, Heap!AddTimer(t, d) PROVE Heap!TS!ClockedNext
  BY <1>1, AddMaps DEF Heap!TS!ClockedNext, Heap!TS!Change
<1>2. ASSUME NEW t \in Timers, Heap!DelTimer(t) PROVE Heap!TS!ClockedNext
  BY <1>2, HeapDelMaps DEF Heap!TS!ClockedNext, Heap!TS!Change
<1>3. CASE Heap!PopTimer
  BY <1>3, PopMaps
<1>4. CASE Heap!Tick
  BY <1>4, HeapTickMaps DEF Heap!TS!ClockedNext
<1>5. CASE Heap!Second
  BY <1>5, HeapSecondMaps DEF Heap!TS!ClockedNext
<1>6. CASE UNCHANGED heapVars
  BY <1>6 DEF heapVars, Heap!Left
<1> QED
  BY <1>1, <1>2, <1>3, <1>4, <1>5, <1>6 DEF Heap!Next

LEMMA HeapInitMaps == Heap!Init => Heap!TS!TimersGiven
<1> SUFFICES ASSUME Heap!Init PROVE Heap!TS!TimersGiven
  OBVIOUS
<1>1. /\ clock = 0 /\ called = {} /\ cb_func \subseteq Timers
      /\ \A t \in cb_func : deadline[t] \in Delays
  <2>1. HeapInv /\ clock = 0 /\ called = {}
    BY HeapInitInv DEF Heap!Init
  <2>2. cb_func \subseteq Timers
    BY <2>1, HeapLeftIs
  <2>3. cb_func = {} \/ /\ deadline \in [Timers -> Delays \cup {0}]
                        /\ \A t \in Timers : deadline[t] = 0 <=> t \notin cb_func
    BY DEF Heap!Init, Heap!Empty, Heap!FromArray
  <2> QED
    BY <2>1, <2>2, <2>3
<1>2. ASSUME NEW t \in cb_func
      PROVE  (IF deadline[t] <= clock THEN 0 ELSE deadline[t] - clock) \in Delays
  <2>1. deadline[t] \in Delays /\ deadline[t] \in Nat
    BY <1>1, HeapGiven
  <2>2. deadline[t] <= 0 => deadline[t] = 0
    BY <2>1
  <2>3. deadline[t] - 0 = deadline[t]
    BY <2>1
  <2> QED
    BY <1>1, <2>1, <2>2, <2>3
<1>3. Heap!Left \in [cb_func -> Delays]
  BY <1>2 DEF Heap!Left
<1> QED
  BY <1>1, <1>3 DEF Heap!TS!TimersGiven

(* time_heap is the abstract set of timers, also when it is made from an     *)
(* array: a tick fires the timers that are due, all of them and no other,    *)
(* although it looks at the top only (118-134), and a deleted timer, which   *)
(* stays in the array and still orders it (92-98), never fires and keeps no  *)
(* other from firing.                                                       *)
THEOREM HeapImplementation == Spec => HeapImplements
<1>1. Init => HeapInv
  BY HeapInitInv DEF Init
<1>2. HeapInv /\ [Next]_vars => HeapInv'
  BY HeapStep, HeapNextInv
<1>3. Init => Heap!TS!TimersGiven
  BY HeapInitMaps DEF Init
<1>4. HeapInv /\ [Next]_vars => [Heap!TS!ClockedNext]_<<Heap!Left, called>>
  BY HeapStep, HeapStepMaps
<1> QED
  BY <1>1, <1>2, <1>3, <1>4, PTL
     DEF Spec, HeapImplements, Heap!ImplementsTimerSet, Heap!TS!ClockedSetGiven, Heap!TS!timerVars
=============================================================================
