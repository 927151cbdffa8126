----------------------------- MODULE TimersProofs -----------------------------
(***************************************************************************)
(* Proofs about the sorted list and the timing wheel of MCTimers, for any  *)
(* timers and deadlines, any number of slots and any slot interval: the    *)
(* nodes of the list stay one sorted, doubly linked list, the wheel keeps  *)
(* every timer where del_timer looks for it, and both are the abstract set *)
(* of timers.  Those about the heap, which TypeCorrect needs, come from    *)
(* TimeHeapProofs.                                                         *)
(***************************************************************************)
EXTENDS TimeHeapProofs, SequenceTheorems
-----------------------------------------------------------------------------
(* SortTimerList                                                            *)

(* Linked, of any chain c, back pointers p and deadlines e.                 *)
Distinct(c) == \A i, j \in 1 .. Len(c) : c[i] = c[j] => i = j
Chained(c, p) == \A i \in 1 .. Len(c) : p[c[i]] = IF i = 1 THEN NULL ELSE c[i - 1]
Sorted(c, e) == \A i, j \in 1 .. Len(c) : i < j => e[c[i]] <= e[c[j]]
Pointers == [Timers -> Timers \cup {NULL}]

Good(c, p, e) == /\ c \in Seq(Timers) /\ p \in Pointers
                 /\ Distinct(c) /\ Chained(c, p) /\ Sorted(c, e)

(* What add_timer relies on when it puts a timer before head (25-33) or     *)
(* into an empty list: a timer that is not linked has no back pointer.      *)
Unlinked(c, p) == \A t \in Timers : t \notin ToSet(c) => p[t] = NULL

(* The inductive invariant.                                                 *)
LinkInv == ListTypeOK /\ Linked /\ Unlinked(chain, prev)

LEMMA LinkedIs ==
  LinkInv <=> /\ ListTypeOK
              /\ Good(chain, prev, expire)
              /\ chain # <<>> => tail = chain[Len(chain)]
              /\ Unlinked(chain, prev)
<1>1. ASSUME ListTypeOK PROVE DOMAIN chain = 1 .. Len(chain) /\ chain \in Seq(Timers) /\ prev \in Pointers
  BY <1>1 DEF ListTypeOK, Pointers
<1>2. ASSUME ListTypeOK PROVE Linked <=> /\ Distinct(chain) /\ Chained(chain, prev) /\ Sorted(chain, expire)
                                         /\ chain # <<>> => tail = chain[Len(chain)]
  BY <1>1, <1>2 DEF Linked, IsInjective, Distinct, Chained, Sorted, Last
<1> QED
  BY <1>1, <1>2 DEF LinkInv, Good
-----------------------------------------------------------------------------
(* Sequences: what SubSeq, InsertAt and RemoveAt return, and the least      *)
(* element of a finite set of numbers, on which SelectInSeq relies.         *)
LEMMA SubSeqIs ==
  ASSUME NEW S, NEW c \in Seq(S), NEW m \in 1 .. Len(c) + 1, NEW n \in 0 .. Len(c)
  PROVE  /\ SubSeq(c, m, n) \in Seq(S)
         /\ Len(SubSeq(c, m, n)) = IF m <= n THEN n - m + 1 ELSE 0
         /\ \A i \in 1 .. Len(SubSeq(c, m, n)) : SubSeq(c, m, n)[i] = c[m + i - 1]
BY SubSeqProperties

LEMMA ConcatIs ==
  ASSUME NEW S, NEW a \in Seq(S), NEW b \in Seq(S)
  PROVE  /\ a \o b \in Seq(S)
         /\ Len(a \o b) = Len(a) + Len(b)
         /\ \A i \in 1 .. Len(a) + Len(b) : (a \o b)[i] = IF i <= Len(a) THEN a[i] ELSE b[i - Len(a)]
BY ConcatProperties

(* d is c with t put in at place k: where the nodes of c are then, and that *)
(* there are no others.                                                     *)
Inserted(d, c, k, t) ==
  /\ d \in Seq(Timers) /\ Len(d) = Len(c) + 1 /\ d[k] = t
  /\ \A i \in 1 .. Len(c) : (i < k => d[i] = c[i]) /\ (~(i < k) => d[i + 1] = c[i])
  /\ \A j \in 1 .. Len(d) : j = k \/ \E i \in 1 .. Len(c) : j = (IF i < k THEN i ELSE i + 1)

LEMMA InsertPlaces ==
  ASSUME NEW c \in Seq(Timers), NEW k \in 1 .. Len(c) + 1, NEW t \in Timers
  PROVE  Inserted(InsertAt(c, k, t), c, k, t)
<1> DEFINE a == SubSeq(c, 1, k - 1)
           b == SubSeq(c, k, Len(c))
           h == a \o <<t>>
           d == h \o b
<1>1. /\ a \in Seq(Timers) /\ Len(a) = k - 1 /\ \A i \in 1 .. k - 1 : a[i] = c[i]
      /\ b \in Seq(Timers) /\ Len(b) = Len(c) - k + 1 /\ \A i \in 1 .. Len(b) : b[i] = c[k + i - 1]
      /\ Len(c) \in Nat
  BY SubSeqIs
<1>2. InsertAt(c, k, t) = d
  BY DEF InsertAt
<1> HIDE DEF a, b
<1>3. /\ h \in Seq(Timers) /\ Len(h) = k /\ h[k] = t
      /\ \A i \in 1 .. k : i < k => h[i] = c[i]
  <2>1. <<t>> \in Seq(Timers) /\ Len(<<t>>) = 1 /\ <<t>>[1] = t
    OBVIOUS
  <2>2. /\ h \in Seq(Timers) /\ Len(h) = Len(a) + Len(<<t>>)
        /\ \A i \in 1 .. Len(a) + Len(<<t>>) : h[i] = IF i <= Len(a) THEN a[i] ELSE <<t>>[i - Len(a)]
    BY <1>1, <2>1, ConcatIs
  <2> HIDE DEF h
  <2>3. Len(h) = k /\ k \in 1 .. k /\ ~(k <= Len(a)) /\ k - Len(a) = 1
    BY <1>1, <2>1, <2>2
  <2>4. h[k] = t
    BY <2>1, <2>2, <2>3
  <2>5. ASSUME NEW i \in 1 .. k, i < k PROVE h[i] = c[i]
    <3>1. i \in 1 .. k - 1 /\ i <= Len(a)
      BY <1>1, <2>5
    <3>2. h[i] = a[i]
      BY <2>2, <2>3, <3>1
    <3> QED
      BY <1>1, <3>1, <3>2
  <2> QED
    BY <2>2, <2>3, <2>4, <2>5
<1> HIDE DEF h
<1>4. /\ d \in Seq(Timers) /\ Len(d) = Len(c) + 1
      /\ \A i \in 1 .. Len(c) + 1 : d[i] = IF i <= k THEN h[i] ELSE b[i - k]
  <2>1. Len(h) + Len(b) = Len(c) + 1
    BY <1>1, <1>3
  <2>2. /\ d \in Seq(Timers) /\ Len(d) = Len(h) + Len(b)
        /\ \A i \in 1 .. Len(h) + Len(b) : d[i] = IF i <= Len(h) THEN h[i] ELSE b[i - Len(h)]
    BY <1>1, <1>3, ConcatIs
  <2> HIDE DEF d
  <2> QED
    BY <1>3, <2>1, <2>2
<1> HIDE DEF d
<1>5. d[k] = t
  BY <1>1, <1>3, <1>4
<1>6. ASSUME NEW i \in 1 .. Len(c), i < k PROVE d[i] = c[i]
  BY <1>1, <1>3, <1>4, <1>6
<1>7. ASSUME NEW i \in 1 .. Len(c), ~(i < k) PROVE d[i + 1] = c[i]
  <2>1. /\ i + 1 \in 1 .. Len(c) + 1 /\ ~(i + 1 <= k) /\ (i + 1) - k \in 1 .. Len(b)
        /\ k + ((i + 1) - k) - 1 = i
    BY <1>1, <1>7
  <2>2. d[i + 1] = b[(i + 1) - k]
    BY <1>4, <2>1
  <2> QED
    BY <1>1, <2>1, <2>2
<1>8. ASSUME NEW j \in 1 .. Len(d), j # k
      PROVE  \E i \in 1 .. Len(c) : j = (IF i < k THEN i ELSE i + 1)
  <2>1. CASE j < k
    <3>1. j \in 1 .. Len(c)
      BY <1>1, <1>4, <2>1
    <3> QED
      BY <2>1, <3>1
  <2>2. CASE j > k
    <3>1. j - 1 \in 1 .. Len(c) /\ ~(j - 1 < k) /\ (j - 1) + 1 = j
      BY <1>1, <1>4, <2>2
    <3> QED
      BY <3>1
  <2> QED
    BY <1>4, <1>8, <2>1, <2>2
<1>9. /\ \A i \in 1 .. Len(c) : i < k => d[i] = c[i]
      /\ \A i \in 1 .. Len(c) : ~(i < k) => d[i + 1] = c[i]
  BY <1>6, <1>7
<1>10. Inserted(d, c, k, t)
  BY <1>4, <1>5, <1>8, <1>9 DEF Inserted
<1> QED
  BY <1>2, <1>10

LEMMA RemoveIs ==
  ASSUME NEW S, NEW c \in Seq(S), NEW k \in 1 .. Len(c)
  PROVE  /\ RemoveAt(c, k) \in Seq(S)
         /\ Len(RemoveAt(c, k)) = Len(c) - 1
         /\ \A i \in 1 .. Len(c) - 1 : RemoveAt(c, k)[i] = IF i < k THEN c[i] ELSE c[i + 1]
<1> DEFINE a == SubSeq(c, 1, k - 1)
           b == SubSeq(c, k + 1, Len(c))
<1>1. /\ a \in Seq(S) /\ Len(a) = k - 1 /\ \A i \in 1 .. k - 1 : a[i] = c[i]
      /\ b \in Seq(S) /\ Len(b) = Len(c) - k /\ \A i \in 1 .. Len(b) : b[i] = c[k + i]
  BY SubSeqIs
<1>2. RemoveAt(c, k) = a \o b
  BY DEF RemoveAt
<1> HIDE DEF a, b
<1>3. /\ a \o b \in Seq(S) /\ Len(a \o b) = Len(c) - 1
      /\ \A i \in 1 .. Len(c) - 1 : (a \o b)[i] = IF i <= k - 1 THEN a[i] ELSE b[i - (k - 1)]
  <2>1. Len(a) + Len(b) = Len(c) - 1
    BY <1>1
  <2>2. /\ a \o b \in Seq(S) /\ Len(a \o b) = Len(a) + Len(b)
        /\ \A i \in 1 .. Len(a) + Len(b) : (a \o b)[i] = IF i <= Len(a) THEN a[i] ELSE b[i - Len(a)]
    BY <1>1, ConcatIs
  <2> QED
    BY <1>1, <2>1, <2>2
<1> DEFINE d == a \o b
<1> HIDE DEF d
<1>4. ASSUME NEW i \in 1 .. Len(c) - 1 PROVE d[i] = IF i < k THEN c[i] ELSE c[i + 1]
  <2>1. CASE i < k
    <3>1. i \in 1 .. k - 1 /\ i <= k - 1
      BY <2>1
    <3> QED
      BY <1>1, <1>3, <2>1, <3>1 DEF d
  <2>2. CASE ~(i < k)
    <3>1. ~(i <= k - 1) /\ i - (k - 1) \in 1 .. Len(b) /\ k + (i - (k - 1)) = i + 1
      BY <1>1, <2>2
    <3>2. d[i] = b[i - (k - 1)]
      BY <1>3, <3>1 DEF d
    <3> QED
      BY <1>1, <2>2, <3>1, <3>2
  <2> QED
    BY <2>1, <2>2
<1> QED
  BY <1>2, <1>3, <1>4 DEF d

LEMMA RemovePlaces ==
  ASSUME NEW S, NEW c \in Seq(S), NEW k \in 1 .. Len(c), NEW d, d = RemoveAt(c, k)
  PROVE  /\ d \in Seq(S) /\ Len(d) = Len(c) - 1
         /\ \A i \in 1 .. Len(c) : /\ i < k => d[i] = c[i] /\ i \in 1 .. Len(d)
                                   /\ i > k => d[i - 1] = c[i] /\ i - 1 \in 1 .. Len(d)
         /\ \A j \in 1 .. Len(d) : \E i \in 1 .. Len(c) : i # k /\ j = (IF i < k THEN i ELSE i - 1)
<1>1. /\ d \in Seq(S) /\ Len(d) = Len(c) - 1 /\ Len(c) \in Nat
      /\ \A i \in 1 .. Len(c) - 1 : d[i] = IF i < k THEN c[i] ELSE c[i + 1]
  BY RemoveIs, SMTT(60)
<1>2. ASSUME NEW i \in 1 .. Len(c), i < k PROVE d[i] = c[i] /\ i \in 1 .. Len(d)
  BY <1>1, <1>2
<1>3. ASSUME NEW i \in 1 .. Len(c), i > k PROVE d[i - 1] = c[i] /\ i - 1 \in 1 .. Len(d)
  <2>1. i - 1 \in 1 .. Len(c) - 1 /\ ~(i - 1 < k) /\ (i - 1) + 1 = i
    BY <1>1, <1>3
  <2> QED
    BY <1>1, <2>1
<1>4. ASSUME NEW j \in 1 .. Len(d)
      PROVE  \E i \in 1 .. Len(c) : i # k /\ j = (IF i < k THEN i ELSE i - 1)
  <2>1. CASE j < k
    <3>1. j \in 1 .. Len(c)
      BY <1>1, <2>1
    <3> QED
      BY <2>1, <3>1
  <2>2. CASE ~(j < k)
    <3>1. j + 1 \in 1 .. Len(c) /\ ~(j + 1 < k) /\ j + 1 # k /\ (j + 1) - 1 = j
      BY <1>1, <2>2
    <3> QED
      BY <3>1
  <2> QED
    BY <2>1, <2>2
<1> QED
  BY <1>1, <1>2, <1>3, <1>4

LEMMA MinIs ==
  ASSUME NEW S, IsFiniteSet(S), S \subseteq Nat, S # {}
  PROVE  Min(S) \in S /\ \A x \in S : Min(S) <= x
<1> DEFINE Below(x) == {y \in S : y < x}
           B == {Below(x) : x \in S}
<1>1. IsWellFoundedOn(StrictSubsetOrdering(S), FiniteSubsetsOf(S))
  BY FS_StrictSubsetOrderingWellFounded
<1>2. B \subseteq FiniteSubsetsOf(S) /\ B # {}
  <2>1. \A x \in S : Below(x) \in SUBSET S
    OBVIOUS
  <2>2. FiniteSubsetsOf(S) = SUBSET S
    BY FS_FiniteSubsetsOfFinite
  <2>3. PICK x \in S : TRUE
    OBVIOUS
  <2>4. Below(x) \in B
    OBVIOUS
  <2>5. \A U \in B : U \in SUBSET S
    BY <2>1
  <2> HIDE DEF B
  <2> QED
    BY <2>2, <2>4, <2>5
<1>3. PICK T \in B : \A U \in B : <<U, T>> \notin StrictSubsetOrdering(S)
  BY <1>1, <1>2, WFMin
<1>4. PICK x \in S : T = Below(x)
  OBVIOUS
<1>5. ASSUME NEW y \in S, y < x PROVE FALSE
  <2>1. Below(y) \subseteq T /\ y \in T /\ y \notin Below(y)
    <3>1. y \in Nat /\ x \in Nat /\ ~(y < y)
      OBVIOUS
    <3>2. \A z \in S : z < y => z < x
      BY <1>5, <3>1
    <3> QED
      BY <1>4, <1>5, <3>1, <3>2
  <2>2. Below(y) \in B /\ Below(y) # T /\ Below(y) \in SUBSET S /\ T \in SUBSET S
    BY <2>1, <1>4
  <2> HIDE DEF Below, B
  <2>3. <<Below(y), T>> \in StrictSubsetOrdering(S)
    BY <2>1, <2>2 DEF StrictSubsetOrdering
  <2> QED
    BY <1>3, <2>2, <2>3
<1>6. \A y \in S : x <= y
  BY <1>5
<1> QED
  BY <1>6 DEF Min

(* What is in a sequence.                                                   *)
LEMMA SetIs ==
  ASSUME NEW S, NEW c \in Seq(S), NEW x
  PROVE  x \in ToSet(c) <=> \E i \in 1 .. Len(c) : c[i] = x
BY DEF ToSet

LEMMA InsertedSet ==
  ASSUME NEW c \in Seq(Timers), NEW d, NEW k \in 1 .. Len(c) + 1, NEW t \in Timers,
         Inserted(d, c, k, t)
  PROVE  \A x : x \in ToSet(d) <=> x = t \/ x \in ToSet(c)
<1>1. d \in Seq(Timers) /\ Len(c) \in Nat /\ k \in 1 .. Len(d) /\ d[k] = t
  BY DEF Inserted
<1>2. ASSUME NEW x, x \in ToSet(d) PROVE x = t \/ x \in ToSet(c)
  <2>1. PICK j \in 1 .. Len(d) : d[j] = x
    BY <1>1, <1>2, SetIs
  <2>2. CASE j # k
    <3>1. PICK i \in 1 .. Len(c) : j = (IF i < k THEN i ELSE i + 1)
      BY <2>2 DEF Inserted
    <3>2. c[i] = x
      BY <2>1, <3>1 DEF Inserted
    <3> QED
      BY <3>2, SetIs
  <2> QED
    BY <1>1, <2>1, <2>2
<1>3. t \in ToSet(d)
  BY <1>1, SetIs
<1>4. ASSUME NEW x, x \in ToSet(c) PROVE x \in ToSet(d)
  <2>1. PICK i \in 1 .. Len(c) : c[i] = x
    BY <1>4, SetIs
  <2>2. CASE i < k
    <3>1. i \in 1 .. Len(d) /\ d[i] = x
      BY <1>1, <2>1, <2>2 DEF Inserted
    <3> QED
      BY <1>1, <3>1, SetIs
  <2>3. CASE ~(i < k)
    <3>1. Len(d) = Len(c) + 1 /\ d[i + 1] = c[i]
      BY <2>3 DEF Inserted
    <3>2. i + 1 \in 1 .. Len(d)
      BY <1>1, <3>1
    <3> QED
      BY <1>1, <2>1, <3>1, <3>2, SetIs
  <2> QED
    BY <2>2, <2>3
<1> QED
  BY <1>2, <1>3, <1>4

(* A node is found where it is.                                             *)
LEMMA PlaceIs ==
  ASSUME chain \in Seq(Timers), Distinct(chain), NEW k \in 1 .. Len(chain)
  PROVE  Place(chain[k]) = k
<1>1. {i \in 1 .. Len(chain) : chain[i] = chain[k]} = {k}
  BY DEF Distinct
<1>2. Min({k}) = k
  BY DEF Min
<1> QED
  BY <1>1, <1>2 DEF Place, SelectInSeq

(* A set of places of a chain: the first one.                               *)
LEMMA FirstPlace ==
  ASSUME NEW n \in Nat, NEW I, I \subseteq 1 .. n, I # {}
  PROVE  Min(I) \in I /\ \A x \in I : Min(I) <= x
<1>1. IsFiniteSet(1 .. n)
  BY FS_Interval
<1>2. IsFiniteSet(I)
  BY <1>1, FS_Subset
<1>3. I \subseteq Nat
  OBVIOUS
<1> QED
  BY <1>2, <1>3, MinIs
-----------------------------------------------------------------------------
(* The two ways in which a list changes.                                    *)

(* A node is unlinked: the one behind it gets its back pointer.             *)
LEMMA UnlinkGood ==
  ASSUME NEW c, NEW p, NEW e, Good(c, p, e), NEW k \in 1 .. Len(c), NEW q \in Pointers,
         \A i \in 1 .. Len(c) : i # k => q[c[i]] = IF i = k + 1 THEN p[c[k]] ELSE p[c[i]]
  PROVE  Good(RemoveAt(c, k), q, e)
<1> DEFINE d == RemoveAt(c, k)
<1>1. /\ c \in Seq(Timers) /\ Distinct(c) /\ Chained(c, p) /\ Sorted(c, e) /\ Len(c) \in Nat
  BY DEF Good
<1>2. /\ d \in Seq(Timers) /\ Len(d) = Len(c) - 1
      /\ \A i \in 1 .. Len(c) : /\ i < k => d[i] = c[i] /\ i \in 1 .. Len(d)
                                /\ i > k => d[i - 1] = c[i] /\ i - 1 \in 1 .. Len(d)
      /\ \A j \in 1 .. Len(d) : \E i \in 1 .. Len(c) : i # k /\ j = (IF i < k THEN i ELSE i - 1)
  BY <1>1, RemovePlaces
<1> HIDE DEF d
<1> DEFINE At(i) == IF i < k THEN i ELSE i - 1
<1>3. ASSUME NEW i \in 1 .. Len(c), i # k PROVE d[At(i)] = c[i]
  <2>1. i < k => d[i] = c[i]
    BY <1>2, Zenon
  <2>2. i > k => d[i - 1] = c[i]
    BY <1>2, Zenon
  <2> QED
    BY <1>3, <2>1, <2>2
<1>4. \A j \in 1 .. Len(d) : \E i \in 1 .. Len(c) : i # k /\ j = At(i)
  BY <1>2
<1>5. \A i, j \in 1 .. Len(c) : i # k /\ j # k => (At(i) < At(j) <=> i < j) /\ (At(i) = At(j) <=> i = j)
  BY <1>1
<1>6. Distinct(d)
  <2> SUFFICES ASSUME NEW u \in 1 .. Len(d), NEW v \in 1 .. Len(d), d[u] = d[v] PROVE u = v
    BY DEF Distinct
  <2>1. PICK i \in 1 .. Len(c), j \in 1 .. Len(c) : i # k /\ j # k /\ u = At(i) /\ v = At(j)
    BY <1>4
  <2> HIDE DEF At
  <2>2. c[i] = c[j]
    BY <1>3, <2>1
  <2> QED
    BY <1>1, <2>1, <2>2 DEF Distinct
<1>7. Sorted(d, e)
  <2> SUFFICES ASSUME NEW u \in 1 .. Len(d), NEW v \in 1 .. Len(d), u < v PROVE e[d[u]] <= e[d[v]]
    BY DEF Sorted
  <2>1. PICK i \in 1 .. Len(c), j \in 1 .. Len(c) : i # k /\ j # k /\ u = At(i) /\ v = At(j)
    BY <1>4
  <2> HIDE DEF At
  <2>2. i < j /\ d[u] = c[i] /\ d[v] = c[j]
    BY <1>3, <1>5, <2>1
  <2> QED
    BY <1>1, <2>2 DEF Sorted
<1>8. Chained(d, q)
  <2> SUFFICES ASSUME NEW u \in 1 .. Len(d) PROVE q[d[u]] = IF u = 1 THEN NULL ELSE d[u - 1]
    BY DEF Chained
  <2>1. PICK i \in 1 .. Len(c) : i # k /\ u = At(i)
    BY <1>4
  <2>2. d[u] = c[i]
    BY <1>3, <2>1
  <2>3. CASE i = k + 1
    <3>1. u = k
      BY <1>1, <2>1, <2>3
    <3>2. q[c[i]] = p[c[k]]
      BY <2>1, <2>3
    <3>3. p[c[k]] = IF k = 1 THEN NULL ELSE c[k - 1]
      BY <1>1 DEF Chained
    <3>4. k # 1 => k - 1 \in 1 .. Len(c) /\ k - 1 < k
      BY <1>1
    <3>5. k # 1 => d[k - 1] = c[k - 1]
      BY <1>2, <3>4, Zenon
    <3> QED
      BY <2>2, <3>1, <3>2, <3>3, <3>5
  <2>4. CASE i # k + 1
    <3>1. q[c[i]] = IF i = 1 THEN NULL ELSE c[i - 1]
      BY <1>1, <2>1, <2>4 DEF Chained
    <3>2. CASE i = 1
      BY <1>1, <2>1, <2>2, <3>1, <3>2
    <3>3. CASE i # 1
      <4>1. i - 1 \in 1 .. Len(c) /\ i - 1 # k /\ At(i - 1) = u - 1 /\ u # 1
        BY <1>1, <2>1, <2>4, <3>3
      <4>2. d[At(i - 1)] = c[i - 1]
        BY <1>3, <4>1
      <4> HIDE DEF At
      <4> QED
        BY <2>2, <3>1, <3>3, <4>1, <4>2
    <3> QED  BY <3>2, <3>3
  <2> QED  BY <2>3, <2>4
<1> QED
  BY <1>2, <1>6, <1>7, <1>8 DEF Good, d

(* Place k of c is between the nodes that are due no later than x and those *)
(* that are due no earlier, and t is linked there.                          *)
Between(c, k, e, x) ==
  \A i \in 1 .. Len(c) : (i < k => e[c[i]] <= x) /\ (~(i < k) => x <= e[c[i]])

Relinked(c, p, k, t, q) ==
  /\ q \in Pointers /\ q[t] = IF k = 1 THEN NULL ELSE c[k - 1]
  /\ \A i \in 1 .. Len(c) : q[c[i]] = IF i = k THEN t ELSE p[c[i]]

(* A node is linked in at place k, between nodes that are due no later and  *)
(* nodes that are due later.                                                *)
LEMMA LinkGood ==
  ASSUME NEW c, NEW p, NEW e \in [Timers -> Nat], Good(c, p, e), NEW k \in 1 .. Len(c) + 1,
         NEW t \in Timers, \A i \in 1 .. Len(c) : c[i] # t, NEW x \in Nat,
         Between(c, k, e, x), NEW d, Inserted(d, c, k, t), NEW q, Relinked(c, p, k, t, q)
  PROVE  Good(d, q, [e EXCEPT ![t] = x])
<1> DEFINE f == [e EXCEPT ![t] = x]
<1>1. /\ c \in Seq(Timers) /\ Distinct(c) /\ Chained(c, p) /\ Sorted(c, e) /\ Len(c) \in Nat
  BY DEF Good
<1>2. Inserted(d, c, k, t)
  OBVIOUS
<1>3. f[t] = x /\ \A i \in 1 .. Len(c) : f[c[i]] = e[c[i]] /\ e[c[i]] \in Nat
  BY <1>1
<1> HIDE DEF f
<1> DEFINE At(i) == IF i < k THEN i ELSE i + 1
<1>4. ASSUME NEW i \in 1 .. Len(c)
      PROVE  d[At(i)] = c[i] /\ (At(i) < k <=> i < k) /\ (k < At(i) <=> ~(i < k))
  <2>1. CASE i < k
    BY <1>2, <2>1 DEF Inserted
  <2>2. CASE ~(i < k)
    BY <1>2, <2>2 DEF Inserted
  <2> QED  BY <2>1, <2>2
<1>5. \A j \in 1 .. Len(d) : j = k \/ \E i \in 1 .. Len(c) : j = At(i)
  BY <1>2 DEF Inserted
<1>6. \A i, j \in 1 .. Len(c) : (At(i) < At(j) <=> i < j) /\ (At(i) = At(j) <=> i = j)
  BY <1>1
<1>7. Distinct(d)
  <2> SUFFICES ASSUME NEW u \in 1 .. Len(d), NEW v \in 1 .. Len(d), d[u] = d[v] PROVE u = v
    BY DEF Distinct
  <2>1. CASE u # k /\ v # k
    <3>1. PICK i \in 1 .. Len(c), j \in 1 .. Len(c) : u = At(i) /\ v = At(j)
      BY <1>5, <2>1
    <3> HIDE DEF At
    <3>2. c[i] = c[j]
      BY <1>4, <3>1
    <3> QED
      BY <1>1, <3>1, <3>2 DEF Distinct
  <2>2. \A w \in 1 .. Len(d) : d[w] = t => w = k
    <3> HIDE DEF At
    <3> QED  BY <1>4, <1>5
  <2>3. d[k] = t /\ k \in 1 .. Len(d)
    BY <1>1, <1>2 DEF Inserted
  <2> QED
    BY <2>1, <2>2, <2>3
<1>8. Sorted(d, f)
  <2> SUFFICES ASSUME NEW u \in 1 .. Len(d), NEW v \in 1 .. Len(d), u < v PROVE f[d[u]] <= f[d[v]]
    BY DEF Sorted
  <2>1. CASE u = k
    <3>1. PICK j \in 1 .. Len(c) : v = At(j)
      BY <1>5, <2>1
    <3> HIDE DEF At
    <3>2. d[u] = t /\ d[v] = c[j] /\ ~(j < k)
      BY <1>2, <1>4, <2>1, <3>1 DEF Inserted
    <3> QED
      BY <1>3, <3>2 DEF Between
  <2>2. CASE v = k
    <3>1. PICK i \in 1 .. Len(c) : u = At(i)
      BY <1>5, <2>2
    <3> HIDE DEF At
    <3>2. d[v] = t /\ d[u] = c[i] /\ i < k
      BY <1>2, <1>4, <2>2, <3>1 DEF Inserted
    <3> QED
      BY <1>3, <3>2 DEF Between
  <2>3. CASE u # k /\ v # k
    <3>1. PICK i \in 1 .. Len(c), j \in 1 .. Len(c) : u = At(i) /\ v = At(j)
      BY <1>5, <2>3
    <3> HIDE DEF At
    <3>2. d[u] = c[i] /\ d[v] = c[j] /\ i < j
      BY <1>4, <1>6, <3>1
    <3> QED
      BY <1>1, <1>3, <3>2 DEF Sorted
  <2> QED  BY <2>1, <2>2, <2>3
<1>9. Chained(d, q)
  <2> SUFFICES ASSUME NEW u \in 1 .. Len(d) PROVE q[d[u]] = IF u = 1 THEN NULL ELSE d[u - 1]
    BY DEF Chained
  <2>1. CASE u = k
    <3>1. k # 1 => k - 1 \in 1 .. Len(c) /\ k - 1 < k
      BY <1>1
    <3> QED
      BY <1>2, <2>1, <3>1 DEF Inserted, Relinked
  <2>2. CASE u # k
    <3>1. PICK i \in 1 .. Len(c) : u = At(i)
      BY <1>5, <2>2
    <3>2. d[u] = c[i]
      BY <1>4, <3>1
    <3>3. CASE i = k
      <4>1. u # 1 /\ u - 1 = k
        BY <1>1, <3>1, <3>3
      <4> QED
        BY <1>2, <3>2, <3>3, <4>1 DEF Inserted, Relinked
    <3>4. CASE i # k
      <4>1. q[c[i]] = IF i = 1 THEN NULL ELSE c[i - 1]
        BY <1>1, <3>4 DEF Chained, Relinked
      <4>2. CASE i = 1
        BY <1>1, <3>1, <3>2, <3>4, <4>1, <4>2
      <4>3. CASE i # 1
        <5>1. i - 1 \in 1 .. Len(c) /\ At(i - 1) = u - 1 /\ u # 1
          BY <1>1, <3>1, <3>4, <4>3
        <5>2. d[At(i - 1)] = c[i - 1]
          BY <1>4, <5>1
        <5> HIDE DEF At
        <5> QED
          BY <3>2, <4>1, <4>3, <5>1, <5>2
      <4> QED  BY <4>2, <4>3
    <3> QED  BY <3>3, <3>4
  <2> QED  BY <2>1, <2>2
<1> QED
  BY <1>2, <1>7, <1>8, <1>9 DEF Good, f, Inserted, Relinked

(* void add_timer(util_timer* timer, util_timer* lst_head): the walk stops  *)
(* at the first node that is due later, and those before it are not.        *)
LEMMA BehindGood ==
  ASSUME NEW c, NEW p, expire \in [Timers -> Nat], Good(c, p, expire),
         NEW i \in 1 .. Len(c), NEW t \in Timers, \A j \in 1 .. Len(c) : c[j] # t,
         NEW e \in Nat, expire[c[i]] <= e,
         tail = c[Len(c)], InsertBehind(c, p, i, t, e)
  PROVE  /\ Good(chain', prev', [expire EXCEPT ![t] = e])
         /\ tail' = chain'[Len(chain')] /\ tail' \in Timers
         /\ \A x : x \in ToSet(chain') <=> x = t \/ x \in ToSet(c)
         /\ \A x \in Timers : x # t /\ x \notin ToSet(c) => prev'[x] = p[x]
<1> DEFINE I == {j \in i + 1 .. Len(c) : e < expire[c[j]]}
           later == IF I # {} THEN Min(I) ELSE 0
           k == IF later = 0 THEN Len(c) + 1 ELSE later
           q == [p EXCEPT ![t] = c[k - 1]]
<1>1. /\ c \in Seq(Timers) /\ p \in Pointers /\ Distinct(c) /\ Chained(c, p)
      /\ Sorted(c, expire) /\ Len(c) \in Nat
  BY DEF Good
<1>2. /\ chain' = InsertAt(c, k, t)
      /\ prev' = IF later = 0 THEN q ELSE [q EXCEPT ![c[later]] = t]
      /\ tail' = IF later = 0 THEN t ELSE tail
  BY DEF InsertBehind, SelectInSubSeq
<1>3. I \subseteq 1 .. Len(c)
  BY <1>1
<1>4. \A j \in 1 .. Len(c) : j \in I <=> i < j /\ e < expire[c[j]]
  BY <1>1
<1> HIDE DEF I
<1>5. I # {} => Min(I) \in I /\ \A x \in I : Min(I) <= x
  BY <1>1, <1>3, FirstPlace
<1>6. /\ k \in 1 .. Len(c) + 1 /\ i < k /\ k - 1 \in 1 .. Len(c)
      /\ (later = 0 <=> k = Len(c) + 1) /\ (later # 0 => k = later /\ k \in I)
      /\ \A x \in I : ~(x < k)
  <2>1. CASE I = {}
    <3>1. later = 0 /\ k = Len(c) + 1
      BY <2>1
    <3> HIDE DEF k, later
    <3> QED
      BY <1>1, <2>1, <3>1
  <2>2. CASE I # {}
    <3>1. later \in I /\ \A x \in I : later <= x
      BY <1>5, <2>2
    <3>2. later \in 1 .. Len(c) /\ i < later
      BY <1>3, <1>4, <3>1
    <3>3. k = later
      BY <1>1, <3>2
    <3> HIDE DEF k, later
    <3>4. \A x \in I : x \in Nat
      BY <1>3
    <3> QED
      BY <1>1, <3>1, <3>2, <3>3, <3>4
  <2> QED
    BY <2>1, <2>2
<1> HIDE DEF k, later
<1>7. \A j \in 1 .. Len(c) : c[j] \in Timers /\ expire[c[j]] \in Nat
  BY <1>1
<1>8. ASSUME NEW j \in 1 .. Len(c)
      PROVE  (j < k => expire[c[j]] <= e) /\ (~(j < k) => e <= expire[c[j]])
  <2>1. CASE j < k
    <3>1. j \notin I
      BY <1>6, <2>1
    <3>4. expire[c[j]] \in Nat /\ expire[c[i]] \in Nat
      BY <1>7
    <3>2. CASE i < j
      <4>1. ~(e < expire[c[j]])
        BY <1>4, <3>1, <3>2
      <4> QED
        BY <2>1, <3>4, <4>1
    <3>3. CASE ~(i < j)
      <4>1. expire[c[j]] <= expire[c[i]]
        BY <1>1, <1>7, <3>3 DEF Sorted
      <4> QED
        BY <2>1, <3>4, <4>1
    <3> QED
      BY <2>1, <3>2, <3>3
  <2>2. CASE ~(j < k)
    <3>1. later # 0 /\ k \in 1 .. Len(c) /\ k \in I
      BY <1>1, <1>6, <2>2
    <3>2. e < expire[c[k]]
      BY <1>4, <3>1
    <3>3. expire[c[k]] <= expire[c[j]]
      BY <1>1, <1>7, <2>2, <3>1 DEF Sorted
    <3> QED
      BY <1>7, <2>2, <3>1, <3>2, <3>3
  <2> QED
    BY <2>1, <2>2
<1>9. /\ q \in Pointers /\ q[t] = c[k - 1]
      /\ \A j \in 1 .. Len(c) : q[c[j]] = p[c[j]]
      /\ \A x \in Timers : x # t => q[x] = p[x]
  BY <1>1, <1>6, <1>7 DEF Pointers
<1> HIDE DEF q
<1>10. /\ prev' \in Pointers /\ prev'[t] = c[k - 1]
      /\ \A j \in 1 .. Len(c) : prev'[c[j]] = IF j = k THEN t ELSE p[c[j]]
  <2>1. CASE later = 0
    BY <1>1, <1>2, <1>6, <1>9, <2>1
  <2>2. CASE later # 0
    <3>1. prev' = [q EXCEPT ![c[k]] = t] /\ k \in 1 .. Len(c)
      BY <1>1, <1>2, <1>3, <1>6, <2>2
    <3>2. \A j \in 1 .. Len(c) : c[j] = c[k] => j = k
      BY <1>1, <3>1 DEF Distinct
    <3> QED
      BY <1>7, <1>9, <3>1, <3>2 DEF Pointers
  <2> QED
    BY <2>1, <2>2
<1>11. k # 1
  BY <1>6
<1>12. Inserted(chain', c, k, t)
  BY <1>1, <1>2, <1>6, InsertPlaces
<1>13. Good(chain', prev', [expire EXCEPT ![t] = e])
  <2>1. Between(c, k, expire, e)
    BY <1>8 DEF Between
  <2>2. Relinked(c, p, k, t, prev')
    BY <1>10, <1>11 DEF Relinked
  <2>3. k \in 1 .. Len(c) + 1
    BY <1>6
  <2> QED
    BY <1>12, <2>1, <2>2, <2>3, LinkGood
<1>14. tail' = chain'[Len(chain')] /\ tail' \in Timers
  <2>1. CASE later = 0
    BY <1>1, <1>2, <1>6, <1>12, <2>1 DEF Inserted
  <2>2. CASE later # 0
    <3>1. k \in 1 .. Len(c) /\ ~(Len(c) < k) /\ Len(c) \in 1 .. Len(c)
      BY <1>1, <1>3, <1>6, <2>2
    <3>2. chain'[Len(c) + 1] = c[Len(c)] /\ Len(chain') = Len(c) + 1
      BY <1>12, <3>1 DEF Inserted
    <3> QED
      BY <1>2, <1>7, <2>2, <3>1, <3>2
  <2> QED
    BY <2>1, <2>2
<1>15. \A x : x \in ToSet(chain') <=> x = t \/ x \in ToSet(c)
  BY <1>1, <1>6, <1>12, InsertedSet
<1>16. ASSUME NEW x \in Timers, x # t, x \notin ToSet(c) PROVE prev'[x] = p[x]
  <2>1. CASE later = 0
    BY <1>2, <1>9, <1>16, <2>1
  <2>2. CASE later # 0
    <3>1. later \in 1 .. Len(c)
      BY <1>3, <1>6, <2>2
    <3>2. c[later] # x
      BY <1>1, <1>16, <3>1, SetIs
    <3> QED
      BY <1>2, <1>9, <1>16, <2>2, <3>2 DEF Pointers
  <2> QED
    BY <2>1, <2>2
<1> QED
  BY <1>13, <1>14, <1>15, <1>16

(* Nothing but pointers and deadlines of nodes that are not in the list.    *)
LEMMA SameGood ==
  ASSUME NEW c, NEW p, NEW e, Good(c, p, e), NEW q \in Pointers, NEW f,
         \A x \in Timers : x \in ToSet(c) => q[x] = p[x] /\ f[x] = e[x]
  PROVE  Good(c, q, f)
<1>1. c \in Seq(Timers) /\ Distinct(c) /\ Chained(c, p) /\ Sorted(c, e)
  BY DEF Good
<1>2. \A i \in 1 .. Len(c) : q[c[i]] = p[c[i]] /\ f[c[i]] = e[c[i]]
  BY <1>1, SetIs
<1>3. Chained(c, q)
  BY <1>1, <1>2 DEF Chained
<1>4. Sorted(c, f)
  BY <1>1, <1>2 DEF Sorted
<1> QED
  BY <1>1, <1>3, <1>4 DEF Good

LEMMA RemovedSet ==
  ASSUME NEW c \in Seq(Timers), Distinct(c), NEW k \in 1 .. Len(c)
  PROVE  \A x : x \in ToSet(RemoveAt(c, k)) <=> x \in ToSet(c) /\ x # c[k]
<1> DEFINE d == RemoveAt(c, k)
<1>1. /\ d \in Seq(Timers) /\ Len(d) = Len(c) - 1
      /\ \A i \in 1 .. Len(c) : /\ i < k => d[i] = c[i] /\ i \in 1 .. Len(d)
                                /\ i > k => d[i - 1] = c[i] /\ i - 1 \in 1 .. Len(d)
      /\ \A j \in 1 .. Len(d) : \E i \in 1 .. Len(c) : i # k /\ j = (IF i < k THEN i ELSE i - 1)
  BY RemovePlaces
<1> HIDE DEF d
<1>2. ASSUME NEW x, x \in ToSet(d) PROVE x \in ToSet(c) /\ x # c[k]
  <2>1. PICK j \in 1 .. Len(d) : d[j] = x
    BY <1>1, <1>2, SetIs
  <2>2. PICK i \in 1 .. Len(c) : i # k /\ j = (IF i < k THEN i ELSE i - 1)
    BY <1>1
  <2>3. c[i] = x
    BY <1>1, <2>1, <2>2
  <2>4. x # c[k]
    BY <2>2, <2>3 DEF Distinct
  <2> QED
    BY <2>3, <2>4, SetIs
<1>3. ASSUME NEW x, x \in ToSet(c), x # c[k] PROVE x \in ToSet(d)
  <2>1. PICK i \in 1 .. Len(c) : c[i] = x
    BY <1>3, SetIs
  <2>2. i < k \/ i > k
    BY <1>3, <2>1
  <2> QED
    BY <1>1, <2>1, <2>2, SetIs
<1> QED
  BY <1>2, <1>3 DEF d
-----------------------------------------------------------------------------
(* The steps, with what each does to the set of timers that are linked.     *)
LEMMA InvFacts ==
  ASSUME ListAssumption, LinkInv
  PROVE  /\ now \in Nat /\ chain \in Seq(Timers) /\ Len(chain) \in Nat /\ InList \subseteq Timers
         /\ prev \in Pointers /\ expire \in [Timers -> Nat] /\ tail \in Timers \cup {NULL}
         /\ Good(chain, prev, expire) /\ Distinct(chain) /\ Chained(chain, prev)
         /\ Sorted(chain, expire) /\ Unlinked(chain, prev) /\ NULL \notin Timers
         /\ chain # <<>> => tail = chain[Len(chain)] /\ 1 \in 1 .. Len(chain)
<1>1. /\ ListTypeOK /\ Good(chain, prev, expire) /\ Unlinked(chain, prev)
      /\ chain # <<>> => tail = chain[Len(chain)]
  BY LinkedIs
<1>2. /\ chain \in Seq(Timers) /\ Len(chain) \in Nat /\ prev \in Pointers
      /\ expire \in [Timers -> Nat] /\ tail \in Timers \cup {NULL} /\ now \in Nat
  BY <1>1 DEF ListTypeOK, Pointers, ListAssumption
<1>3. chain # <<>> => 1 \in 1 .. Len(chain)
  BY <1>2
<1>4. InList \subseteq Timers
  BY <1>2 DEF InList, ToSet
<1> QED
  BY <1>1, <1>2, <1>3, <1>4 DEF Good, ListAssumption

(* The invariant after a step, from its parts.                              *)
LEMMA InvNext ==
  ASSUME ListAssumption, now' \in 0 .. MaxTime, fired' \subseteq Timers,
         expire' \in [Timers -> Nat], tail' \in Timers \cup {NULL},
         Good(chain', prev', expire'), Unlinked(chain', prev'),
         chain' # <<>> => tail' = chain'[Len(chain')]
  PROVE  LinkInv'
<1>1. ListTypeOK'
  BY DEF ListTypeOK, Good, Pointers
<1>2. DOMAIN chain' = 1 .. Len(chain')
  BY DEF Good
<1>3. Linked'
  BY <1>2 DEF Linked, Good, IsInjective, Distinct, Chained, Sorted, Last
<1> QED
  BY <1>1, <1>3 DEF LinkInv

LEMMA AddGood ==
  ASSUME ListAssumption, LinkInv, NEW t \in Timers, NEW d \in Delays, AddTimer(t, now + d)
  PROVE  /\ LinkInv'
         /\ \A x : x \in InList' <=> x = t \/ x \in InList
<1> DEFINE e == now + d
<1>1. e \in Nat
  BY InvFacts DEF ListAssumption
<1>2. /\ t \notin InList /\ expire' = [expire EXCEPT ![t] = e] /\ fired' = {} /\ now' = now
      /\ \/ chain = <<>> /\ chain' = <<t>> /\ tail' = t /\ prev' = prev
         \/ /\ chain # <<>> /\ e < expire[head] /\ chain' = <<t>> \o chain
            /\ prev' = [prev EXCEPT ![head] = t] /\ tail' = tail
         \/ chain # <<>> /\ ~(e < expire[head]) /\ InsertBehind(chain, prev, 1, t, e)
  BY DEF AddTimer
<1>3. \A j \in 1 .. Len(chain) : chain[j] # t
  BY <1>2, InvFacts, SetIs DEF InList
<1> HIDE DEF e
<1>4. expire' \in [Timers -> Nat]
  BY <1>1, <1>2, InvFacts
<1>5. prev[t] = NULL
  BY <1>2, InvFacts DEF Unlinked, InList
<1>6. /\ Good(chain', prev', expire')
      /\ chain' # <<>> => tail' = chain'[Len(chain')]
      /\ tail' \in Timers \cup {NULL}
      /\ \A x : x \in InList' <=> x = t \/ x \in InList
      /\ \A x \in Timers : x # t /\ x \notin InList => prev'[x] = prev[x]
  <2>1. CASE chain = <<>> /\ chain' = <<t>> /\ tail' = t /\ prev' = prev
    <3>1. Inserted(chain', chain, 1, t)
      BY <2>1 DEF Inserted
    <3>2. Between(chain, 1, expire, e) /\ Relinked(chain, prev, 1, t, prev')
      BY <1>5, <2>1, InvFacts DEF Between, Relinked
    <3>3. Good(chain', prev', expire')
      <4>1. /\ expire \in [Timers -> Nat] /\ Good(chain, prev, expire)
            /\ 1 \in 1 .. Len(chain) + 1 /\ expire' = [expire EXCEPT ![t] = e]
        BY <1>2, InvFacts
      <4> QED
        BY <1>1, <1>3, <3>1, <3>2, <4>1, LinkGood
    <3>4. \A x : x \in InList' <=> x = t \/ x \in InList
      <4>1. chain \in Seq(Timers) /\ 1 \in 1 .. Len(chain) + 1
        BY InvFacts
      <4> QED
        BY <3>1, <4>1, InsertedSet DEF InList
    <3> QED
      BY <2>1, <3>3, <3>4
  <2>2. CASE /\ chain # <<>> /\ e < expire[head] /\ chain' = <<t>> \o chain
             /\ prev' = [prev EXCEPT ![head] = t] /\ tail' = tail
    <3>1. /\ chain' \in Seq(Timers) /\ Len(chain') = Len(chain) + 1 /\ chain'[1] = t
          /\ \A i \in 1 .. Len(chain) : chain'[i + 1] = chain[i]
      BY <2>2, InvFacts
    <3>2. Inserted(chain', chain, 1, t)
      <4>1. \A j \in 1 .. Len(chain') : j = 1 \/ \E i \in 1 .. Len(chain) : j = i + 1
        <5> SUFFICES ASSUME NEW j \in 1 .. Len(chain'), j # 1
                     PROVE  \E i \in 1 .. Len(chain) : j = i + 1
          OBVIOUS
        <5>1. j - 1 \in 1 .. Len(chain) /\ j = (j - 1) + 1
          BY <3>1, InvFacts
        <5> QED
          BY <5>1
      <4>2. \A i \in 1 .. Len(chain) : ~(i < 1)
        OBVIOUS
      <4>3. \A i \in 1 .. Len(chain) : (i < 1 => chain'[i] = chain[i]) /\ (~(i < 1) => chain'[i + 1] = chain[i])
        BY <3>1, <4>2
      <4>4. \A j \in 1 .. Len(chain') : j = 1 \/ \E i \in 1 .. Len(chain) : j = (IF i < 1 THEN i ELSE i + 1)
        BY <4>1, <4>2
      <4> QED
        BY <3>1, <4>3, <4>4 DEF Inserted
    <3>3. Between(chain, 1, expire, e)
      <4> SUFFICES ASSUME NEW i \in 1 .. Len(chain) PROVE e <= expire[chain[i]]
        BY DEF Between
      <4>1. 1 \in 1 .. Len(chain) /\ chain[1] \in Timers /\ chain[i] \in Timers
        BY <2>2, InvFacts
      <4>2. expire[chain[1]] <= expire[chain[i]]
        BY <4>1, InvFacts DEF Sorted
      <4>3. expire[chain[1]] \in Nat /\ expire[chain[i]] \in Nat
        BY <4>1, InvFacts
      <4> QED
        BY <1>1, <2>2, <4>2, <4>3 DEF head
    <3>4. Relinked(chain, prev, 1, t, prev')
      <4>1. head = chain[1] /\ 1 \in 1 .. Len(chain) /\ head \in Timers /\ head # t
        BY <1>3, <2>2, InvFacts DEF head
      <4>2. prev' \in Pointers /\ prev'[t] = NULL
        BY <1>5, <2>2, <4>1, InvFacts DEF Pointers
      <4>3. \A i \in 1 .. Len(chain) : prev'[chain[i]] = IF i = 1 THEN t ELSE prev[chain[i]]
        BY <2>2, <4>1, InvFacts DEF Pointers, Distinct
      <4> QED
        BY <4>2, <4>3 DEF Relinked
    <3>5. Good(chain', prev', expire')
      <4>1. /\ expire \in [Timers -> Nat] /\ Good(chain, prev, expire)
            /\ 1 \in 1 .. Len(chain) + 1 /\ expire' = [expire EXCEPT ![t] = e]
        BY <1>2, InvFacts
      <4> QED
        BY <1>1, <1>3, <3>2, <3>3, <3>4, <4>1, LinkGood
    <3>6. \A x : x \in InList' <=> x = t \/ x \in InList
      <4>1. chain \in Seq(Timers) /\ 1 \in 1 .. Len(chain) + 1
        BY InvFacts
      <4> QED
        BY <3>2, <4>1, InsertedSet DEF InList
    <3>7. head \in InList
      BY <2>2, InvFacts, SetIs DEF InList, head
    <3>8. \A x \in Timers : x # t /\ x \notin InList => prev'[x] = prev[x]
      BY <2>2, <3>7, InvFacts DEF Pointers
    <3>9. tail' = chain'[Len(chain')]
      <4>1. tail = chain[Len(chain)] /\ Len(chain) \in 1 .. Len(chain)
        BY <2>2, InvFacts
      <4> QED
        BY <2>2, <3>1, <4>1
    <3> QED
      BY <2>2, <3>5, <3>6, <3>8, <3>9, InvFacts
  <2>3. CASE chain # <<>> /\ ~(e < expire[head]) /\ InsertBehind(chain, prev, 1, t, e)
    <3>1. 1 \in 1 .. Len(chain) /\ chain[1] \in Timers /\ tail = chain[Len(chain)]
      BY <2>3, InvFacts
    <3>2. expire[chain[1]] <= e
      <4>1. expire[chain[1]] \in Nat
        BY <3>1, InvFacts
      <4> QED
        BY <1>1, <2>3, <4>1 DEF head
    <3>3. /\ Good(chain', prev', [expire EXCEPT ![t] = e])
          /\ tail' = chain'[Len(chain')] /\ tail' \in Timers
          /\ \A x : x \in ToSet(chain') <=> x = t \/ x \in ToSet(chain)
          /\ \A x \in Timers : x # t /\ x \notin ToSet(chain) => prev'[x] = prev[x]
      BY <1>1, <1>3, <2>3, <3>1, <3>2, InvFacts, BehindGood, ZenonT(60)
    <3> QED
      BY <1>2, <3>3 DEF InList
  <2> QED
    BY <1>2, <2>1, <2>2, <2>3
<1>7. Unlinked(chain', prev')
  BY <1>6, InvFacts DEF Unlinked, InList
<1>8. now' \in 0 .. MaxTime
  BY <1>2 DEF LinkInv, ListTypeOK
<1>9. LinkInv'
  BY <1>2, <1>4, <1>6, <1>7, <1>8, InvNext
<1> QED
  BY <1>6, <1>9

LEMMA AdjustGood ==
  ASSUME ListAssumption, LinkInv, NEW t \in Timers, NEW d \in Delays, AdjustTimer(t, now + d)
  PROVE  /\ LinkInv'
         /\ \A x : x \in InList' <=> x \in InList
<1> DEFINE e == now + d
<1>1. e \in Nat
  BY InvFacts DEF ListAssumption
<1>2. PICK k \in 1 .. Len(chain) : chain[k] = t
  BY InvFacts, SetIs DEF AdjustTimer, InList
<1>3. Place(t) = k
  BY <1>2, InvFacts, PlaceIs
<1> DEFINE next == chain[k + 1]
           stays == k = Len(chain) \/ (k < Len(chain) /\ e < expire[next])
           c == RemoveAt(chain, k)
           p == [prev EXCEPT ![next] = IF k = 1 THEN NULL ELSE prev[t]]
<1>4. /\ expire[t] <= e /\ expire' = [expire EXCEPT ![t] = e] /\ fired' = {} /\ now' = now
      /\ stays => chain' = chain /\ prev' = prev /\ tail' = tail
      /\ ~stays => InsertBehind(c, p, k, t, e)
  BY <1>3, InvFacts DEF AdjustTimer
<1>5. k # Len(chain) => k + 1 \in 1 .. Len(chain) /\ next \in Timers /\ k < Len(chain)
  BY InvFacts
<1>6. \A i \in 1 .. Len(chain) : chain[i] \in Timers /\ expire[chain[i]] \in Nat
  BY InvFacts
<1>7. expire' \in [Timers -> Nat]
  BY <1>1, <1>4, InvFacts
<1>8. /\ Good(chain', prev', expire')
      /\ chain' # <<>> => tail' = chain'[Len(chain')]
      /\ tail' \in Timers \cup {NULL}
      /\ \A x : x \in InList' <=> x \in InList
      /\ \A x \in Timers : x \notin InList => prev'[x] = prev[x]
  <2>1. CASE stays
    <3>1. Sorted(chain, expire')
      <4> SUFFICES ASSUME NEW i \in 1 .. Len(chain), NEW j \in 1 .. Len(chain), i < j
                   PROVE  expire'[chain[i]] <= expire'[chain[j]]
        BY DEF Sorted
      <4>1. expire[chain[i]] <= expire[chain[j]]
        BY InvFacts DEF Sorted
      <4>2. \A n \in 1 .. Len(chain) : expire'[chain[n]] = IF n = k THEN e ELSE expire[chain[n]]
        BY <1>2, <1>4, <1>6, InvFacts DEF Distinct
      <4> HIDE DEF e
      <4>3. CASE i = k
        <5>1. k # Len(chain) /\ k + 1 <= j
          BY <4>3, InvFacts
        <5>2. e < expire[next]
          BY <2>1, <5>1
        <5>3. expire[next] <= expire[chain[j]]
          <6>1. k + 1 = j \/ k + 1 < j
            BY <5>1
          <6>2. expire[next] <= expire[next]
            BY <1>5, <1>6, <5>1
          <6> QED
            BY <1>5, <5>1, <6>1, <6>2, InvFacts DEF Sorted
        <5>4. expire[next] \in Nat /\ expire[chain[j]] \in Nat
          BY <1>5, <1>6, <5>1
        <5>5. j # k
          BY <4>3
        <5> HIDE DEF next
        <5> QED
          BY <1>1, <4>2, <4>3, <5>2, <5>3, <5>4, <5>5
      <4>4. CASE i # k /\ j = k
        BY <1>1, <1>2, <1>4, <1>6, <4>1, <4>2, <4>4 DEF e
      <4>5. CASE i # k /\ j # k
        BY <4>1, <4>2, <4>5
      <4> QED
        BY <4>3, <4>4, <4>5
    <3>2. Good(chain, prev, expire')
      BY <3>1, InvFacts DEF Good
    <3> HIDE DEF stays
    <3> QED
      BY <1>4, <2>1, <3>2, InvFacts DEF InList
  <2>2. CASE ~stays
    <3>1. /\ k # Len(chain) /\ k + 1 \in 1 .. Len(chain) /\ next \in Timers /\ k < Len(chain)
          /\ ~(e < expire[next])
      BY <1>5, <2>2
    <3>2. InsertBehind(c, p, k, t, e)
      BY <1>4, <2>2
    <3>3. prev[t] = IF k = 1 THEN NULL ELSE chain[k - 1]
      BY <1>2, InvFacts DEF Chained
    <3>4. p \in Pointers /\ p = [prev EXCEPT ![next] = prev[t]]
      <4>1. prev[t] \in Timers \cup {NULL} /\ (k = 1 => prev[t] = NULL)
        BY <3>3, InvFacts DEF Pointers
      <4> QED
        BY <3>1, <4>1, InvFacts DEF Pointers
    <3>5. \A i \in 1 .. Len(chain) :
            i # k => p[chain[i]] = IF i = k + 1 THEN prev[chain[k]] ELSE prev[chain[i]]
      <4> HIDE DEF p
      <4> QED
        BY <1>2, <1>6, <3>1, <3>4, InvFacts DEF Distinct, Pointers
    <3>6. Good(c, p, expire)
      BY <3>4, <3>5, InvFacts, UnlinkGood
    <3>7. /\ c \in Seq(Timers) /\ Len(c) = Len(chain) - 1
          /\ \A i \in 1 .. Len(chain) : i > k => c[i - 1] = chain[i] /\ i - 1 \in 1 .. Len(c)
      BY InvFacts, RemovePlaces
    <3>8. \A x : x \in ToSet(c) <=> x \in InList /\ x # t
      BY <1>2, InvFacts, RemovedSet DEF InList
    <3> HIDE DEF c, p, stays
    <3>9. k \in 1 .. Len(c) /\ c[k] = next
      <4>1. k + 1 > k /\ (k + 1) - 1 = k
        BY InvFacts
      <4> QED
        BY <3>1, <3>7, <4>1
    <3>10. tail = c[Len(c)]
      <4>1. Len(chain) > k /\ Len(chain) \in 1 .. Len(chain)
        BY <3>1, InvFacts
      <4>2. tail = chain[Len(chain)]
        BY <4>1, InvFacts
      <4> QED
        BY <3>7, <4>1, <4>2
    <3>11. \A j \in 1 .. Len(c) : c[j] # t
      BY <3>7, <3>8, SetIs
    <3>12. expire[c[k]] <= e
      <4>1. expire[next] \in Nat
        BY <3>1, InvFacts
      <4> HIDE DEF e, next
      <4> QED
        BY <1>1, <3>1, <3>9, <4>1
    <3> HIDE DEF e, next
    <3>13. expire \in [Timers -> Nat]
      BY InvFacts
    <3>14. /\ Good(chain', prev', [expire EXCEPT ![t] = e])
           /\ tail' = chain'[Len(chain')] /\ tail' \in Timers
           /\ \A x : x \in ToSet(chain') <=> x = t \/ x \in ToSet(c)
           /\ \A x \in Timers : x # t /\ x \notin ToSet(c) => prev'[x] = p[x]
      BY <1>1, <3>2, <3>6, <3>9, <3>10, <3>11, <3>12, <3>13, BehindGood
    <3>15. t \in InList /\ next \in InList
      BY <1>2, <3>1, InvFacts, SetIs DEF InList, next
    <3>16. \A x : x \in InList' <=> x \in InList
      BY <3>8, <3>14, <3>15 DEF InList
    <3>17. \A x \in Timers : x \notin InList => prev'[x] = prev[x]
      <4> SUFFICES ASSUME NEW x \in Timers, x \notin InList PROVE prev'[x] = prev[x]
        OBVIOUS
      <4>1. prev'[x] = p[x]
        BY <3>8, <3>14, <3>15
      <4>2. p[x] = prev[x]
        BY <3>4, <3>15, InvFacts DEF Pointers
      <4> QED
        BY <4>1, <4>2
    <3> QED
      BY <1>4, <3>14, <3>16, <3>17
  <2> QED
    BY <2>1, <2>2
<1>9. Unlinked(chain', prev')
  BY <1>8, InvFacts DEF Unlinked, InList
<1>10. now' \in 0 .. MaxTime
  BY <1>4 DEF LinkInv, ListTypeOK
<1>11. LinkInv'
  BY <1>4, <1>7, <1>8, <1>9, <1>10, InvNext
<1> QED
  BY <1>8, <1>11

LEMMA DelGood ==
  ASSUME ListAssumption, LinkInv, NEW t \in Timers, DelTimer(t)
  PROVE  /\ LinkInv'
         /\ \A x : x \in InList' <=> x \in InList /\ x # t
<1>1. PICK k \in 1 .. Len(chain) : chain[k] = t
  BY InvFacts, SetIs DEF DelTimer, InList
<1>2. Place(t) = k
  BY <1>1, InvFacts, PlaceIs
<1> DEFINE c == RemoveAt(chain, k)
<1>3. chain # <<>> /\ 1 \in 1 .. Len(chain) /\ Len(chain) \in 1 .. Len(chain) /\ tail = chain[Len(chain)]
  BY InvFacts
<1>4. (t = head <=> k = 1) /\ (t = tail <=> k = Len(chain))
  BY <1>1, <1>3, InvFacts DEF head, Distinct
<1>5. expire' = [expire EXCEPT ![t] = 0] /\ fired' = {} /\ now' = now
  BY DEF DelTimer
<1>6. expire' \in [Timers -> Nat] /\ now' \in 0 .. MaxTime /\ fired' \subseteq Timers
  BY <1>5, InvFacts DEF LinkInv, ListTypeOK
<1>7. /\ Good(chain', prev', expire)
      /\ chain' # <<>> => tail' = chain'[Len(chain')]
      /\ tail' \in Timers \cup {NULL}
      /\ \A x : x \in InList' <=> x \in InList /\ x # t
      /\ \A x \in Timers : x \notin InList \/ x = t => prev'[x] = NULL
  <2>1. CASE k = 1 /\ k = Len(chain)
    <3>1. chain' = <<>> /\ tail' = NULL /\ prev' = Freed(prev, {t})
      BY <1>4, <2>1 DEF DelTimer
    <3>2. \A x : x \in InList <=> x = t
      BY <1>1, <2>1, InvFacts, SetIs DEF InList
    <3>3. \A x : x \notin InList'
      BY <3>1 DEF InList, ToSet
    <3>4. prev' \in Pointers
      BY <3>1, InvFacts DEF Freed, Pointers
    <3>5. Good(chain', prev', expire)
      BY <3>1, <3>4 DEF Good, Distinct, Chained, Sorted
    <3>6. \A x \in Timers : x \notin InList \/ x = t => prev'[x] = NULL
      BY <3>1, InvFacts DEF Freed, Unlinked, InList
    <3> QED
      BY <3>1, <3>2, <3>3, <3>5, <3>6
  <2>2. CASE ~(k = 1 /\ k = Len(chain))
    <3>1. chain' = c
      BY <1>2, <1>4, <2>2 DEF DelTimer
    <3>2. /\ c \in Seq(Timers) /\ Len(c) = Len(chain) - 1
          /\ \A i \in 1 .. Len(chain) : /\ i < k => c[i] = chain[i] /\ i \in 1 .. Len(c)
                                        /\ i > k => c[i - 1] = chain[i] /\ i - 1 \in 1 .. Len(c)
      BY InvFacts, RemovePlaces
    <3>3. \A x : x \in ToSet(c) <=> x \in InList /\ x # t
      BY <1>1, InvFacts, RemovedSet DEF InList
    <3> HIDE DEF c
    <3>4. prev[t] = IF k = 1 THEN NULL ELSE chain[k - 1]
      BY <1>1, InvFacts DEF Chained
    <3>5. k # Len(chain) => /\ k + 1 \in 1 .. Len(chain) /\ chain[k + 1] \in Timers
                            /\ chain[k + 1] # t /\ chain[k + 1] \in InList
      <4>1. k # Len(chain) => k + 1 \in 1 .. Len(chain)
        BY InvFacts
      <4> QED
        BY <1>1, <4>1, InvFacts, SetIs DEF Distinct, InList
    <3>6. prev' = IF k = Len(chain) THEN Freed(prev, {t})
                                    ELSE Freed([prev EXCEPT ![chain[k + 1]] = prev[t]], {t})
      <4>1. CASE k = 1
        <5>1. prev' = Freed([prev EXCEPT ![chain[2]] = NULL], {t}) /\ prev[t] = NULL
          BY <1>4, <2>2, <3>4, <4>1 DEF DelTimer
        <5> QED
          BY <2>2, <4>1, <5>1
      <4>2. CASE k # 1
        BY <1>2, <1>4, <4>2 DEF DelTimer
      <4> QED
        BY <4>1, <4>2
    <3>7. prev[t] \in Timers \cup {NULL}
      BY InvFacts DEF Pointers
    <3>8. /\ prev' \in Pointers /\ prev'[t] = NULL
          /\ \A x \in Timers :
               x # t => prev'[x] = IF k # Len(chain) /\ x = chain[k + 1] THEN prev[t] ELSE prev[x]
      <4>1. CASE k = Len(chain)
        BY <3>6, <4>1, InvFacts DEF Freed, Pointers
      <4>2. CASE k # Len(chain)
        BY <3>5, <3>6, <3>7, <4>2, InvFacts DEF Freed, Pointers
      <4> QED
        BY <4>1, <4>2
    <3>9. \A i \in 1 .. Len(chain) :
            i # k => prev'[chain[i]] = IF i = k + 1 THEN prev[chain[k]] ELSE prev[chain[i]]
      <4> SUFFICES ASSUME NEW i \in 1 .. Len(chain), i # k
                   PROVE  prev'[chain[i]] = IF i = k + 1 THEN prev[chain[k]] ELSE prev[chain[i]]
        OBVIOUS
      <4>1. chain[i] \in Timers /\ chain[i] # t
        BY <1>1, InvFacts DEF Distinct
      <4>2. k # Len(chain) => (chain[i] = chain[k + 1] <=> i = k + 1)
        BY <3>5, InvFacts DEF Distinct
      <4>3. i = k + 1 => k # Len(chain)
        BY InvFacts
      <4> QED
        BY <1>1, <3>8, <4>1, <4>2, <4>3
    <3>10. Good(c, prev', expire)
      BY <3>8, <3>9, InvFacts, UnlinkGood DEF c
    <3>11. tail' = c[Len(c)] /\ tail' \in Timers \cup {NULL}
      <4>1. CASE k = Len(chain)
        <5>1. tail' = prev[t] /\ k # 1
          BY <1>4, <2>2, <4>1 DEF DelTimer
        <5>2. k - 1 \in 1 .. Len(chain) /\ k - 1 < k /\ Len(c) = k - 1
          BY <3>2, <4>1, <5>1, InvFacts
        <5> QED
          BY <3>2, <3>4, <3>7, <5>1, <5>2
      <4>2. CASE k # Len(chain)
        <5>1. tail' = tail
          BY <1>4, <4>2 DEF DelTimer
        <5>2. Len(chain) > k
          BY <4>2, InvFacts
        <5> QED
          BY <1>3, <3>2, <5>1, <5>2, InvFacts
      <4> QED
        BY <4>1, <4>2
    <3>12. \A x \in Timers : x \notin InList \/ x = t => prev'[x] = NULL
      BY <3>5, <3>8, InvFacts DEF Unlinked, InList
    <3> QED
      BY <3>1, <3>3, <3>10, <3>11, <3>12 DEF InList
  <2> QED
    BY <2>1, <2>2
<1>8. prev' \in Pointers
  BY <1>7 DEF Good
<1>9. \A x \in Timers : x \in ToSet(chain') => expire'[x] = expire[x]
  BY <1>5, <1>7, InvFacts DEF InList
<1>10. Good(chain', prev', expire')
  BY <1>7, <1>8, <1>9, SameGood
<1>11. Unlinked(chain', prev')
  BY <1>7 DEF Unlinked, InList
<1>12. LinkInv'
  BY <1>6, <1>7, <1>10, <1>11, InvNext
<1> QED
  BY <1>7, <1>12

(* tick() stops at the first timer that is not due, and yet leaves no timer *)
(* that is.                                                                 *)
LEMMA TickGood ==
  ASSUME ListAssumption, LinkInv, Tick
  PROVE  /\ LinkInv'
         /\ fired' = {x \in InList : expire[x] <= now}
         /\ \A x : x \in InList' <=> x \in InList /\ ~(expire[x] <= now)
         /\ \A x \in InList' : expire'[x] = expire[x]
<1> DEFINE I == {i \in 1 .. Len(chain) : now < expire[chain[i]]}
           later == IF I # {} THEN Min(I) ELSE 0
           n == IF later = 0 THEN Len(chain) ELSE later - 1
           gone == ToSet(SubSeq(chain, 1, n))
<1>1. /\ chain' = SubSeq(chain, n + 1, Len(chain))
      /\ prev' = Freed(prev, gone \cup First(chain'))
      /\ expire' = [t \in Timers |-> IF t \in gone THEN 0 ELSE expire[t]]
      /\ fired' = gone /\ now' = now /\ tail' = tail
  BY DEF Tick, SelectInSeq
<1>2. \A i \in 1 .. Len(chain) : chain[i] \in Timers /\ expire[chain[i]] \in Nat
  BY InvFacts
<1>3. I \subseteq 1 .. Len(chain) /\ \A i \in 1 .. Len(chain) : i \in I <=> now < expire[chain[i]]
  OBVIOUS
<1> HIDE DEF I
<1>4. I # {} => Min(I) \in I /\ \A x \in I : Min(I) <= x
  BY <1>3, InvFacts, FirstPlace
<1>5. n \in 0 .. Len(chain) /\ \A i \in 1 .. Len(chain) : i <= n <=> expire[chain[i]] <= now
  <2>1. CASE I = {}
    <3>1. n = Len(chain)
      BY <2>1
    <3> HIDE DEF n, later
    <3> QED
      BY <1>2, <1>3, <2>1, <3>1, InvFacts
  <2>2. CASE I # {}
    <3>1. later \in I /\ \A x \in I : later <= x
      BY <1>4, <2>2
    <3>2. later \in 1 .. Len(chain)
      BY <1>3, <3>1
    <3>3. n = later - 1
      BY <3>2
    <3> HIDE DEF n, later
    <3>4. ASSUME NEW i \in 1 .. Len(chain) PROVE i <= n <=> expire[chain[i]] <= now
      <4>1. /\ expire[chain[i]] \in Nat /\ expire[chain[later]] \in Nat /\ now \in Nat
            /\ now < expire[chain[later]]
        BY <1>2, <1>3, <3>1, <3>2, InvFacts
      <4>2. CASE i <= n
        <5>1. ~(later <= i)
          BY <3>2, <3>3, <4>2
        <5>2. i \notin I
          BY <3>1, <5>1
        <5> QED
          BY <1>3, <4>1, <4>2, <5>2
      <4>3. CASE ~(i <= n)
        <5>1. later = i \/ later < i
          BY <3>2, <3>3, <4>3
        <5>2. later < i => expire[chain[later]] <= expire[chain[i]]
          BY <3>2, InvFacts DEF Sorted
        <5>3. later = i => expire[chain[later]] = expire[chain[i]]
          OBVIOUS
        <5> QED
          BY <4>1, <4>3, <5>1, <5>2, <5>3
      <4> QED
        BY <4>2, <4>3
    <3> QED
      BY <3>2, <3>3, <3>4, InvFacts
  <2> QED
    BY <2>1, <2>2
<1> HIDE DEF n, later
<1>6. \A x : x \in gone <=> \E i \in 1 .. Len(chain) : i <= n /\ chain[i] = x
  <2>1. /\ SubSeq(chain, 1, n) \in Seq(Timers) /\ Len(SubSeq(chain, 1, n)) = n
        /\ \A i \in 1 .. n : SubSeq(chain, 1, n)[i] = chain[i]
    BY <1>5, InvFacts, SubSeqIs
  <2>2. \A x : x \in gone <=> \E i \in 1 .. n : SubSeq(chain, 1, n)[i] = x
    BY <2>1, SetIs, ZenonT(60)
  <2>3. \A i : i \in 1 .. n <=> i \in 1 .. Len(chain) /\ i <= n
    BY <1>5, InvFacts
  <2> HIDE DEF gone
  <2> QED
    BY <2>1, <2>2, <2>3
<1> HIDE DEF gone
<1>7. \A x : x \in gone <=> x \in InList /\ expire[x] <= now
  BY <1>5, <1>6, InvFacts, SetIs DEF InList
<1>8. /\ chain' \in Seq(Timers) /\ Len(chain') = Len(chain) - n
      /\ \A i \in 1 .. Len(chain) - n : chain'[i] = chain[n + i]
  <2>1. n + 1 \in 1 .. Len(chain) + 1 /\ Len(chain) \in 0 .. Len(chain)
    BY <1>5, InvFacts
  <2>2. /\ chain' \in Seq(Timers)
        /\ Len(chain') = IF n + 1 <= Len(chain) THEN Len(chain) - (n + 1) + 1 ELSE 0
        /\ \A i \in 1 .. Len(chain') : chain'[i] = chain[(n + 1) + i - 1]
    <3> DEFINE m == n + 1
               z == Len(chain)
    <3>1. m \in 1 .. Len(chain) + 1 /\ z \in 0 .. Len(chain) /\ chain \in Seq(Timers)
      BY <2>1, InvFacts
    <3>2. chain' = SubSeq(chain, m, z)
      BY <1>1
    <3> HIDE DEF m, z
    <3>3. /\ SubSeq(chain, m, z) \in Seq(Timers)
          /\ Len(SubSeq(chain, m, z)) = IF m <= z THEN z - m + 1 ELSE 0
          /\ \A i \in 1 .. Len(SubSeq(chain, m, z)) : SubSeq(chain, m, z)[i] = chain[m + i - 1]
      BY <3>1, SubSeqIs
    <3> QED
      BY <3>2, <3>3 DEF m, z
  <2>3. Len(chain') = Len(chain) - n
    BY <1>5, <2>2, InvFacts
  <2>4. \A i \in 1 .. Len(chain') : (n + 1) + i - 1 = n + i
    BY <1>5, <2>3
  <2> QED
    BY <2>2, <2>3, <2>4
<1>9. \A i \in 1 .. Len(chain) - n : n + i \in 1 .. Len(chain) /\ ~(n + i <= n)
  BY <1>5, InvFacts
<1>10. \A x : x \in InList' <=> x \in InList /\ ~(expire[x] <= now)
  <2>1. ASSUME NEW x, x \in InList' PROVE x \in InList /\ ~(expire[x] <= now)
    <3>1. PICK i \in 1 .. Len(chain') : chain'[i] = x
      BY <1>8, <2>1, SetIs DEF InList
    <3>2. x = chain[n + i] /\ n + i \in 1 .. Len(chain) /\ ~(n + i <= n)
      BY <1>8, <1>9, <3>1
    <3> QED
      BY <1>5, <3>2, InvFacts, SetIs DEF InList
  <2>2. ASSUME NEW x, x \in InList, ~(expire[x] <= now) PROVE x \in InList'
    <3>1. PICK j \in 1 .. Len(chain) : chain[j] = x
      BY <2>2, InvFacts, SetIs DEF InList
    <3>2. ~(j <= n)
      BY <1>5, <2>2, <3>1
    <3>3. j - n \in 1 .. Len(chain) - n /\ n + (j - n) = j
      BY <1>5, <3>2, InvFacts
    <3>4. chain'[j - n] = x
      BY <1>8, <3>1, <3>3
    <3> QED
      BY <1>8, <3>3, <3>4, SetIs DEF InList
  <2> QED
    BY <2>1, <2>2
<1>11. \A x \in InList' : x \notin gone /\ x \in InList /\ x \in Timers /\ expire'[x] = expire[x]
  BY <1>1, <1>7, <1>10, InvFacts
<1>12. Distinct(chain')
  <2> SUFFICES ASSUME NEW i \in 1 .. Len(chain'), NEW j \in 1 .. Len(chain'), chain'[i] = chain'[j]
               PROVE  i = j
    BY DEF Distinct
  <2>1. chain[n + i] = chain[n + j] /\ n + i \in 1 .. Len(chain) /\ n + j \in 1 .. Len(chain)
    BY <1>8, <1>9
  <2>2. n + i = n + j
    BY <2>1, InvFacts DEF Distinct
  <2> QED
    BY <1>5, <2>2
<1>13. Sorted(chain', expire')
  <2> SUFFICES ASSUME NEW i \in 1 .. Len(chain'), NEW j \in 1 .. Len(chain'), i < j
               PROVE  expire'[chain'[i]] <= expire'[chain'[j]]
    BY DEF Sorted
  <2>1. chain'[i] \in InList' /\ chain'[j] \in InList'
    BY <1>8, SetIs DEF InList
  <2>2. n + i < n + j /\ n + i \in 1 .. Len(chain) /\ n + j \in 1 .. Len(chain)
    BY <1>5, <1>8, <1>9
  <2>3. expire[chain[n + i]] <= expire[chain[n + j]]
    BY <2>2, InvFacts DEF Sorted
  <2> QED
    BY <1>8, <1>11, <2>1, <2>3
<1>14. /\ prev' \in Pointers
       /\ \A x \in Timers : prev'[x] = IF x \in gone \cup First(chain') THEN NULL ELSE prev[x]
  BY <1>1, InvFacts DEF Freed, Pointers
<1>15. Chained(chain', prev')
  <2> SUFFICES ASSUME NEW i \in 1 .. Len(chain')
               PROVE  prev'[chain'[i]] = IF i = 1 THEN NULL ELSE chain'[i - 1]
    BY DEF Chained
  <2>1. chain'[i] \in InList' /\ chain' # <<>>
    BY <1>8, SetIs DEF InList
  <2>2. First(chain') = {chain'[1]} /\ 1 \in 1 .. Len(chain')
    BY <1>8, <2>1 DEF First
  <2>3. CASE i = 1
    BY <1>11, <1>14, <2>1, <2>2, <2>3
  <2>4. CASE i # 1
    <3>1. chain'[i] \notin gone \cup First(chain')
      BY <1>11, <1>12, <2>1, <2>2, <2>4 DEF Distinct
    <3>2. prev'[chain'[i]] = prev[chain[n + i]]
      BY <1>8, <1>11, <1>14, <2>1, <3>1
    <3>3. n + i \in 1 .. Len(chain) /\ n + i # 1 /\ (n + i) - 1 = n + (i - 1) /\ i - 1 \in 1 .. Len(chain')
      BY <1>5, <1>8, <1>9, <2>4
    <3>4. prev[chain[n + i]] = chain[(n + i) - 1]
      BY <3>3, InvFacts DEF Chained
    <3>5. chain'[i - 1] = chain[n + (i - 1)]
      BY <1>8, <3>3
    <3> QED
      BY <2>4, <3>2, <3>3, <3>4, <3>5
  <2> QED
    BY <2>3, <2>4
<1>16. chain' # <<>> => tail' = chain'[Len(chain')]
  <2> SUFFICES ASSUME chain' # <<>> PROVE tail' = chain'[Len(chain')]
    OBVIOUS
  <2>1. Len(chain') \in 1 .. Len(chain) - n /\ n + Len(chain') = Len(chain)
    BY <1>5, <1>8, InvFacts
  <2>2. chain # <<>>
    BY <1>5, <1>8, <2>1
  <2> QED
    BY <1>1, <1>8, <2>1, <2>2, InvFacts
<1>17. Unlinked(chain', prev')
  <2> SUFFICES ASSUME NEW x \in Timers, x \notin InList' PROVE prev'[x] = NULL
    BY DEF Unlinked, InList
  <2>1. x \in gone \/ x \notin InList
    BY <1>7, <1>10
  <2> QED
    BY <1>14, <2>1, InvFacts DEF Unlinked, InList
<1>18. Good(chain', prev', expire')
  BY <1>8, <1>12, <1>13, <1>14, <1>15 DEF Good
<1>19. expire' \in [Timers -> Nat] /\ tail' \in Timers \cup {NULL} /\ now' \in 0 .. MaxTime
  BY <1>1, InvFacts DEF LinkInv, ListTypeOK
<1>20. fired' \subseteq Timers /\ fired' = {x \in InList : expire[x] <= now}
  BY <1>1, <1>7, InvFacts
<1>21. LinkInv'
  BY <1>16, <1>17, <1>18, <1>19, <1>20, InvNext
<1> QED
  BY <1>10, <1>11, <1>20, <1>21

LEMMA SecondGood ==
  ASSUME ListAssumption, LinkInv, Second \/ UNCHANGED listVars
  PROVE  LinkInv' /\ InList' = InList
<1>1. /\ chain' = chain /\ prev' = prev /\ tail' = tail /\ expire' = expire
      /\ now' \in 0 .. MaxTime /\ fired' \subseteq Timers
  <2>1. now \in 0 .. MaxTime /\ fired \subseteq Timers /\ MaxTime \in Nat
    BY DEF LinkInv, ListTypeOK, ListAssumption
  <2> QED
    BY <2>1 DEF Second, listVars
<1> QED
  BY <1>1, InvFacts, InvNext DEF InList

LEMMA NextInv == ASSUME ListAssumption, LinkInv, [ListNext]_listVars PROVE LinkInv'
<1>1. ASSUME NEW t \in Timers, NEW d \in Delays, AddTimer(t, now + d) PROVE LinkInv'
  BY <1>1, AddGood
<1>2. ASSUME NEW t \in Timers, NEW d \in Delays, AdjustTimer(t, now + d) PROVE LinkInv'
  BY <1>2, AdjustGood
<1>3. ASSUME NEW t \in Timers, DelTimer(t) PROVE LinkInv'
  BY <1>3, DelGood
<1>4. CASE Tick
  BY <1>4, TickGood
<1>5. CASE Second \/ UNCHANGED listVars
  BY <1>5, SecondGood
<1> QED
  BY <1>1, <1>2, <1>3, <1>4, <1>5 DEF ListNext

LEMMA InitInv == ASSUME ListAssumption, ListInit PROVE LinkInv
<1>1. chain = <<>> /\ Len(chain) = 0 /\ chain \in Seq(Timers) /\ DOMAIN chain = {}
  BY DEF ListInit
<1>2. ListTypeOK
  BY <1>1 DEF ListInit, ListTypeOK, ListAssumption
<1>3. Linked
  BY <1>1 DEF Linked, IsInjective
<1>4. Unlinked(chain, prev)
  BY DEF ListInit, Unlinked
<1> QED
  BY <1>2, <1>3, <1>4 DEF LinkInv
-----------------------------------------------------------------------------
(* Refinement of the abstract set of timers.                                *)
LEMMA LeftIs ==
  ASSUME ListAssumption, LinkInv
  PROVE  \A x \in InList : /\ x \in Timers /\ expire[x] \in Nat /\ now \in Nat /\ Left[x] \in Nat
                           /\ Left[x] = IF expire[x] <= now THEN 0 ELSE expire[x] - now
                           /\ Left[x] = 0 <=> expire[x] <= now
<1> SUFFICES ASSUME NEW x \in InList
             PROVE  /\ x \in Timers /\ expire[x] \in Nat /\ now \in Nat /\ Left[x] \in Nat
                    /\ Left[x] = IF expire[x] <= now THEN 0 ELSE expire[x] - now
                    /\ Left[x] = 0 <=> expire[x] <= now
  OBVIOUS
<1>1. x \in Timers /\ expire[x] \in Nat /\ now \in Nat
  BY InvFacts
<1>2. Left[x] = IF expire[x] <= now THEN 0 ELSE expire[x] - now
  BY DEF Left
<1> QED
  BY <1>1, <1>2

(* A timer t set for d, the others as they were.                            *)
LEMMA SetMaps ==
  ASSUME ListAssumption, LinkInv, NEW t \in Timers, NEW d \in Delays, now' = now,
         expire' = [expire EXCEPT ![t] = now + d], \A x : x \in InList' <=> x = t \/ x \in InList
  PROVE  Left' = TS!With(Left, t, d)
<1>1. InList' = InList \cup {t} /\ DOMAIN Left = InList
  BY DEF Left
<1>2. d \in Nat /\ now \in Nat /\ expire \in [Timers -> Nat] /\ InList \subseteq Timers
  BY InvFacts DEF ListAssumption
<1>3. Left' = [x \in InList' |-> IF expire'[x] <= now' THEN 0 ELSE expire'[x] - now']
  BY DEF Left
<1>4. ASSUME NEW x \in InList'
      PROVE  (IF expire'[x] <= now' THEN 0 ELSE expire'[x] - now') = IF x = t THEN d ELSE Left[x]
  <2>1. CASE x = t
    <3>1. expire'[x] = now + d
      BY <1>2, <2>1
    <3>2. (now + d <= now <=> d = 0) /\ (now + d) - now = d
      BY <1>2
    <3> QED
      BY <2>1, <3>1, <3>2
  <2>2. CASE x # t
    <3>1. x \in InList /\ expire'[x] = expire[x]
      BY <1>1, <1>2, <2>2
    <3> QED
      BY <2>2, <3>1, LeftIs
  <2> QED
    BY <2>1, <2>2
<1>5. TS!With(Left, t, d) = [x \in InList' |-> IF x = t THEN d ELSE Left[x]]
  BY <1>1 DEF TS!With
<1> QED
  BY <1>3, <1>4, <1>5

LEMMA DelMaps ==
  ASSUME ListAssumption, LinkInv, NEW t \in Timers, DelTimer(t)
  PROVE  TS!Cancel(t)
<1>1. t \in InList /\ now' = now /\ fired' = {} /\ expire' = [expire EXCEPT ![t] = 0]
  BY DEF DelTimer
<1>2. InList' = InList \ {t} /\ DOMAIN Left = InList
  BY DelGood DEF Left
<1>3. Left' = [x \in InList' |-> IF expire'[x] <= now' THEN 0 ELSE expire'[x] - now']
  BY DEF Left
<1>4. \A x \in InList' : (IF expire'[x] <= now' THEN 0 ELSE expire'[x] - now') = Left[x]
  <2> SUFFICES ASSUME NEW x \in InList'
               PROVE  (IF expire'[x] <= now' THEN 0 ELSE expire'[x] - now') = Left[x]
    OBVIOUS
  <2>1. x \in InList /\ expire'[x] = expire[x]
    BY <1>1, <1>2, InvFacts
  <2> QED
    BY <1>1, <2>1, LeftIs
<1>5. TS!Without(Left, t) = [x \in InList' |-> Left[x]]
  BY <1>2 DEF TS!Without
<1>6. Left' = TS!Without(Left, t)
  BY <1>3, <1>4, <1>5
<1> QED
  BY <1>1, <1>2, <1>6 DEF TS!Cancel

LEMMA TickMaps == ASSUME ListAssumption, LinkInv, Tick PROVE TS!Expire
<1>1. /\ fired' = {x \in InList : expire[x] <= now} /\ now' = now
      /\ \A x : x \in InList' <=> x \in InList /\ ~(expire[x] <= now)
      /\ \A x \in InList' : expire'[x] = expire[x]
  <2>1. now' = now
    BY DEF Tick
  <2> QED
    BY <2>1, TickGood
<1>2. DOMAIN Left = InList /\ Left' = [x \in InList' |-> IF expire'[x] <= now' THEN 0 ELSE expire'[x] - now']
  BY DEF Left
<1>3. TS!Due(Left) = {x \in InList : expire[x] <= now}
  BY <1>2, LeftIs DEF TS!Due
<1>4. InList \ TS!Due(Left) = InList'
  BY <1>1, <1>3
<1>5. \A x \in InList' : (IF expire'[x] <= now' THEN 0 ELSE expire'[x] - now') = Left[x]
  <2> SUFFICES ASSUME NEW x \in InList'
               PROVE  (IF expire'[x] <= now' THEN 0 ELSE expire'[x] - now') = Left[x]
    OBVIOUS
  <2>1. x \in InList /\ expire'[x] = expire[x]
    BY <1>1
  <2> QED
    BY <1>1, <2>1, LeftIs
<1>6. TS!Undue(Left) = [x \in InList' |-> Left[x]]
  BY <1>2, <1>4 DEF TS!Undue
<1>7. Left' = TS!Undue(Left)
  BY <1>2, <1>5, <1>6
<1> QED
  BY <1>1, <1>3, <1>7 DEF TS!Expire

LEMMA SecondMaps == ASSUME ListAssumption, LinkInv, Second PROVE TS!Pass
<1>1. now' = now + 1 /\ fired' = {} /\ expire' = expire /\ InList' = InList
  BY SecondGood DEF Second
<1>2. /\ DOMAIN Left = InList
      /\ Left' = [x \in InList |-> IF expire[x] <= now + 1 THEN 0 ELSE expire[x] - (now + 1)]
  BY <1>1 DEF Left
<1>3. \A x \in InList : (IF expire[x] <= now + 1 THEN 0 ELSE expire[x] - (now + 1))
                          = IF Left[x] = 0 THEN 0 ELSE Left[x] - 1
  <2> SUFFICES ASSUME NEW x \in InList
               PROVE  (IF expire[x] <= now + 1 THEN 0 ELSE expire[x] - (now + 1))
                      = IF Left[x] = 0 THEN 0 ELSE Left[x] - 1
    OBVIOUS
  <2>1. /\ expire[x] \in Nat /\ now \in Nat
        /\ Left[x] = IF expire[x] <= now THEN 0 ELSE expire[x] - now
    BY LeftIs
  <2>2. CASE expire[x] <= now
    BY <2>1, <2>2
  <2>3. CASE expire[x] = now + 1
    BY <2>1, <2>3
  <2>4. CASE expire[x] > now + 1
    BY <2>1, <2>4
  <2> QED
    BY <2>1, <2>2, <2>3, <2>4
<1>4. TS!Later(Left) = [x \in InList |-> IF Left[x] = 0 THEN 0 ELSE Left[x] - 1]
  BY <1>2 DEF TS!Later
<1>5. Left' = TS!Later(Left)
  BY <1>2, <1>3, <1>4
<1> QED
  BY <1>1, <1>5 DEF TS!Pass

LEMMA StepMaps ==
  ASSUME ListAssumption, LinkInv, [ListNext]_listVars
  PROVE  [TS!ClockedNext]_<<Left, fired>>
<1>1. ASSUME NEW t \in Timers, NEW d \in Delays, AddTimer(t, now + d) PROVE TS!ClockedNext
  <2>1. /\ t \notin DOMAIN Left /\ fired' = {} /\ now' = now
        /\ expire' = [expire EXCEPT ![t] = now + d]
    BY <1>1 DEF AddTimer, Left
  <2>2. Left' = TS!With(Left, t, d)
    BY <1>1, <2>1, AddGood, SetMaps
  <2>3. TS!Arm(t, d)
    BY <2>1, <2>2 DEF TS!Arm
  <2> QED
    BY <2>3 DEF TS!ClockedNext, TS!Change
<1>2. ASSUME NEW t \in Timers, NEW d \in Delays, AdjustTimer(t, now + d) PROVE TS!ClockedNext
  <2>1. /\ t \in InList /\ t \in DOMAIN Left /\ fired' = {} /\ now' = now
        /\ expire' = [expire EXCEPT ![t] = now + d]
    BY <1>2 DEF AdjustTimer, Left
  <2>2. Left' = TS!With(Left, t, d)
    <3>1. \A x : x \in InList' <=> x = t \/ x \in InList
      BY <1>2, <2>1, AdjustGood
    <3> QED
      BY <2>1, <3>1, SetMaps
  <2>3. TS!Rearm(t, d)
    BY <2>1, <2>2 DEF TS!Rearm
  <2> QED
    BY <2>3 DEF TS!ClockedNext, TS!Change
<1>3. ASSUME NEW t \in Timers, DelTimer(t) PROVE TS!ClockedNext
  BY <1>3, DelMaps DEF TS!ClockedNext, TS!Change
<1>4. CASE Tick
  BY <1>4, TickMaps DEF TS!ClockedNext
<1>5. CASE Second
  BY <1>5, SecondMaps DEF TS!ClockedNext
<1>6. CASE UNCHANGED listVars
  BY <1>6 DEF listVars, Left, InList
<1> QED
  BY <1>1, <1>2, <1>3, <1>4, <1>5, <1>6 DEF ListNext

LEMMA InitMaps == ASSUME ListAssumption, ListInit PROVE TS!TimersInit
<1>1. InList = {}
  BY DEF ListInit, InList, ToSet
<1> QED
  BY <1>1 DEF ListInit, Left, TS!TimersInit, TS!NoTimers
-----------------------------------------------------------------------------
(* TimerWheel                                                               *)
(* Where the hand goes next, without the remainder.                         *)
LEMMA NextSlot ==
    ASSUME Wheel!WheelAssumption, NEW c \in Wheel!Slots
    PROVE  /\ (c + 1) % N \in Wheel!Slots
           /\ (c + 1) % N = IF c + 1 = N THEN 0 ELSE c + 1
<1>1. N \in Nat /\ N > 0 /\ c \in Nat /\ c < N
  BY DEF Wheel!WheelAssumption, Wheel!Slots
<1>2. CASE c + 1 = N
  <2>1. (c + 1) % N = 0
    BY <1>1, <1>2
  <2> QED BY <1>1, <1>2, <2>1 DEF Wheel!Slots
<1>3. CASE c + 1 # N
  <2>1. c + 1 < N
    BY <1>1, <1>3
  <2>2. (c + 1) % N = c + 1
    BY <1>1, <2>1
  <2> QED BY <1>1, <1>3, <2>1, <2>2 DEF Wheel!Slots
<1> QED BY <1>2, <1>3

(* Quotient and remainder of a number of ticks.                             *)
LEMMA Division ==
    ASSUME Wheel!WheelAssumption, NEW k \in Nat
    PROVE  /\ k \div N \in Nat
           /\ k % N \in Wheel!Slots
           /\ k = (k \div N) * N + (k % N)
<1>1. N \in Nat /\ N > 0
  BY DEF Wheel!WheelAssumption
<1>2. k % N \in Wheel!Slots
  BY <1>1 DEF Wheel!Slots
<1>3. k \div N \in Nat
  BY <1>1
<1>4. k = N * (k \div N) + (k % N)
  BY <1>1
<1> QED BY <1>1, <1>2, <1>3, <1>4 DEF Wheel!Slots

(* The slot r places ahead of the hand.                                     *)
LEMMA Ahead ==
    ASSUME Wheel!WheelAssumption, NEW c \in Wheel!Slots, NEW r \in Wheel!Slots
    PROVE  /\ (c + r) % N \in Wheel!Slots
           /\ (c + r) % N = IF c + r < N THEN c + r ELSE c + r - N
<1>1. N \in Nat /\ N > 0 /\ c \in Nat /\ r \in Nat /\ c < N /\ r < N
  BY DEF Wheel!WheelAssumption, Wheel!Slots
<1>2. CASE c + r < N
  <2>1. (c + r) % N = c + r
    BY <1>1, <1>2
  <2> QED BY <1>1, <1>2, <2>1 DEF Wheel!Slots
<1>3. CASE ~(c + r < N)
  <2>1. (c + r) % N = c + r - N
    BY <1>1, <1>3
  <2> QED BY <1>1, <1>3, <2>1 DEF Wheel!Slots
<1> QED BY <1>2, <1>3

LEMMA TicksType ==
    ASSUME Wheel!WheelAssumption, NEW timeout \in Timeouts
    PROVE  Wheel!TicksOf(timeout) \in Nat
BY DEF Wheel!WheelAssumption, Wheel!TicksOf

(* Type correctness: a timer is found where its time_slot says.            *)
LEMMA WheelInitType == ASSUME Wheel!WheelAssumption PROVE Wheel!Init => Wheel!TypeOK
BY DEF Wheel!WheelAssumption, Wheel!Init, Wheel!TypeOK, Wheel!Slots

LEMMA WheelNextType ==
    ASSUME Wheel!WheelAssumption, Wheel!TypeOK, [Wheel!Next]_wheelVars
    PROVE  Wheel!TypeOK'
<1>1. ASSUME NEW t \in Timers, NEW timeout \in Timeouts, Wheel!AddTimer(t, timeout)
      PROVE  Wheel!TypeOK'
  <2> DEFINE ticks == Wheel!TicksOf(timeout)
             ts == (cur_slot + (ticks % N)) % N
  <2>1. ticks \in Nat
    BY TicksType
  <2>2. ticks % N \in Wheel!Slots /\ ticks \div N \in Nat
    BY <2>1, Division
  <2>3. ts \in Wheel!Slots
    BY <2>2, Ahead DEF Wheel!TypeOK
  <2> HIDE DEF ticks
  <2>4. /\ rotation' = [rotation EXCEPT ![t] = ticks \div N]
        /\ time_slot' = [time_slot EXCEPT ![t] = ts]
        /\ slots' = [slots EXCEPT ![ts] = @ \cup {t}]
        /\ turned' = {} /\ cur_slot' = cur_slot /\ t \notin Wheel!InWheel
    BY <1>1 DEF Wheel!AddTimer, Wheel!SlotAfter, ticks
  <2> HIDE DEF ts
  <2>5. \A s \in Wheel!Slots, x \in Timers : x \in slots'[s] => time_slot'[x] = s
    BY <2>3, <2>4 DEF Wheel!TypeOK, Wheel!InWheel
  <2> QED BY <2>2, <2>3, <2>4, <2>5 DEF Wheel!TypeOK
<1>2. ASSUME NEW t \in Timers, Wheel!DelTimer(t)
      PROVE  Wheel!TypeOK'
  BY <1>2 DEF Wheel!DelTimer, Wheel!TypeOK
<1>3. CASE Wheel!Tick
  <2> DEFINE due == {t \in slots[cur_slot] : rotation[t] = 0}
  <2>1. cur_slot' \in Wheel!Slots
    BY <1>3, NextSlot DEF Wheel!Tick, Wheel!TypeOK
  <2>2. rotation' \in [Timers -> Nat]
    BY <1>3 DEF Wheel!Tick, Wheel!TypeOK
  <2>3. slots' \in [Wheel!Slots -> SUBSET Timers] /\ \A s \in Wheel!Slots : slots'[s] \subseteq slots[s]
    BY <1>3 DEF Wheel!Tick, Wheel!TypeOK
  <2> QED BY <1>3, <2>1, <2>2, <2>3 DEF Wheel!Tick, Wheel!TypeOK
<1>4. CASE UNCHANGED wheelVars
  BY <1>4 DEF wheelVars, Wheel!TypeOK
<1> QED BY <1>1, <1>2, <1>3, <1>4 DEF Wheel!Next

(* Refinement of the abstract set of timers.                               *)
LEMMA DistanceType ==
    ASSUME Wheel!WheelAssumption, Wheel!TypeOK, NEW t \in Timers
    PROVE  /\ Wheel!Distance(t) \in Wheel!Slots
           /\ Wheel!Distance(t) = 0 <=> time_slot[t] = cur_slot
<1>1. N \in Nat /\ N > 0
  BY DEF Wheel!WheelAssumption
<1>2. time_slot[t] \in 0 .. N - 1 /\ cur_slot \in 0 .. N - 1
  BY DEF Wheel!TypeOK, Wheel!Slots
<1> QED BY <1>1, <1>2 DEF Wheel!Distance, Wheel!Slots

LEMMA WheelLeftType ==
    ASSUME Wheel!WheelAssumption, Wheel!TypeOK, NEW t \in Wheel!InWheel
    PROVE  /\ t \in Timers /\ Wheel!Left[t] = rotation[t] * N + Wheel!Distance(t)
           /\ Wheel!Left[t] \in Nat
           /\ Wheel!Left[t] = 0 <=> rotation[t] = 0 /\ time_slot[t] = cur_slot
<1>1. t \in Timers
  BY DEF Wheel!InWheel
<1>2. N \in Nat /\ N > 0
  BY DEF Wheel!WheelAssumption
<1>3. Wheel!Distance(t) \in Nat /\ (Wheel!Distance(t) = 0 <=> time_slot[t] = cur_slot)
  BY <1>1, <1>2, DistanceType DEF Wheel!Slots
<1>4. rotation[t] \in Nat
  BY <1>1 DEF Wheel!TypeOK
<1>5. rotation[t] * N \in Nat /\ (rotation[t] * N = 0 <=> rotation[t] = 0)
  BY <1>2, <1>4
<1>6. Wheel!Left[t] = rotation[t] * N + Wheel!Distance(t)
  BY DEF Wheel!Left
<1> QED BY <1>1, <1>3, <1>5, <1>6

LEMMA WheelAddMaps ==
    ASSUME Wheel!WheelAssumption, Wheel!TypeOK, NEW t \in Timers, NEW timeout \in Timeouts,
           Wheel!AddTimer(t, timeout)
    PROVE  Wheel!TS!Arm(t, Wheel!TicksOf(timeout))
<1> DEFINE ticks == Wheel!TicksOf(timeout)
           r == ticks % N
           ts == (cur_slot + r) % N
<1>1. ticks \in Nat
  BY TicksType
<1>2. ticks \div N \in Nat /\ r \in Wheel!Slots /\ ticks = (ticks \div N) * N + r
  BY <1>1, Division
<1>3. cur_slot \in Wheel!Slots
  BY DEF Wheel!TypeOK
<1>4. ts \in Wheel!Slots /\ ts = IF cur_slot + r < N THEN cur_slot + r ELSE cur_slot + r - N
  BY <1>2, <1>3, Ahead
<1>5. /\ rotation' = [rotation EXCEPT ![t] = ticks \div N]
      /\ time_slot' = [time_slot EXCEPT ![t] = ts]
      /\ slots' = [slots EXCEPT ![ts] = @ \cup {t}]
      /\ turned' = {} /\ cur_slot' = cur_slot /\ t \notin Wheel!InWheel
  BY DEF Wheel!AddTimer, Wheel!SlotAfter
<1> HIDE DEF ticks, r, ts
<1>6. Wheel!InWheel' = Wheel!InWheel \cup {t}
  BY <1>4, <1>5 DEF Wheel!InWheel, Wheel!TypeOK
<1>7. \A x \in Wheel!InWheel : Wheel!Left'[x] = Wheel!Left[x]
  <2> SUFFICES ASSUME NEW x \in Wheel!InWheel PROVE Wheel!Left'[x] = Wheel!Left[x]
    OBVIOUS
  <2>1. x # t /\ x \in Timers
    BY <1>5 DEF Wheel!InWheel
  <2>2. rotation'[x] = rotation[x] /\ time_slot'[x] = time_slot[x]
    BY <1>5, <2>1 DEF Wheel!TypeOK
  <2> QED BY <1>5, <1>6, <2>2 DEF Wheel!Left, Wheel!Distance
<1>8. Wheel!Left'[t] = ticks
  <2>1. rotation'[t] = ticks \div N /\ time_slot'[t] = ts
    BY <1>5 DEF Wheel!TypeOK
  <2>2. Wheel!Distance(t)' = IF cur_slot <= ts THEN ts - cur_slot ELSE ts + N - cur_slot
    BY <1>5, <2>1 DEF Wheel!Distance
  <2>3. Wheel!Distance(t)' = r
    BY <1>2, <1>3, <1>4, <2>2 DEF Wheel!Slots, Wheel!WheelAssumption
  <2>4. Wheel!Left'[t] = rotation'[t] * N + Wheel!Distance(t)'
    BY <1>6 DEF Wheel!Left
  <2> QED BY <1>2, <2>1, <2>3, <2>4
<1>9. DOMAIN Wheel!Left = Wheel!InWheel /\ DOMAIN Wheel!Left' = Wheel!InWheel'
  BY DEF Wheel!Left
<1>10. Wheel!Left' = [x \in Wheel!InWheel \cup {t} |-> IF x = t THEN ticks ELSE Wheel!Left[x]]
  <2>1. Wheel!Left' = [x \in Wheel!InWheel' |-> Wheel!Left'[x]]
    BY DEF Wheel!Left
  <2> QED BY <1>5, <1>6, <1>7, <1>8, <2>1
<1> QED BY <1>5, <1>9, <1>10 DEF Wheel!TS!Arm, Wheel!TS!With, ticks

LEMMA WheelDelMaps ==
    ASSUME Wheel!WheelAssumption, Wheel!TypeOK, NEW t \in Timers, Wheel!DelTimer(t)
    PROVE  Wheel!TS!Cancel(t)
<1>1. t \in Wheel!InWheel /\ turned' = {} /\ cur_slot' = cur_slot /\ rotation' = rotation
      /\ time_slot' = time_slot /\ slots' = [slots EXCEPT ![time_slot[t]] = @ \ {t}]
  BY DEF Wheel!DelTimer
<1>2. Wheel!InWheel' = Wheel!InWheel \ {t}
  BY <1>1 DEF Wheel!InWheel, Wheel!TypeOK
<1>3. Wheel!Left' = [x \in Wheel!InWheel \ {t} |-> Wheel!Left[x]]
  BY <1>1, <1>2 DEF Wheel!Left, Wheel!Distance
<1> QED BY <1>1, <1>3 DEF Wheel!TS!Cancel, Wheel!TS!Without, Wheel!Left

LEMMA WheelTickMaps ==
    ASSUME Wheel!WheelAssumption, Wheel!TypeOK, Wheel!Tick
    PROVE  Wheel!TS!Turn
<1> DEFINE due == {t \in slots[cur_slot] : rotation[t] = 0}
<1>1. /\ turned' = due
      /\ slots' = [slots EXCEPT ![cur_slot] = @ \ due]
      /\ rotation' = [t \in Timers |-> IF t \in slots[cur_slot] \ due
                                         THEN rotation[t] - 1 ELSE rotation[t]]
      /\ cur_slot' = (cur_slot + 1) % N
      /\ time_slot' = time_slot
  BY DEF Wheel!Tick
<1>2. cur_slot \in Wheel!Slots /\ cur_slot' \in Wheel!Slots
      /\ cur_slot' = IF cur_slot + 1 = N THEN 0 ELSE cur_slot + 1
  BY <1>1, NextSlot DEF Wheel!TypeOK
<1>3. \A t \in Wheel!InWheel : t \in slots[cur_slot] <=> time_slot[t] = cur_slot
  BY <1>2 DEF Wheel!TypeOK, Wheel!InWheel
<1>4. due = {t \in Wheel!InWheel : Wheel!Left[t] = 0}
  <2>1. due \subseteq Wheel!InWheel
    BY <1>2 DEF Wheel!InWheel, Wheel!TypeOK
  <2> QED BY <1>3, <2>1, WheelLeftType
<1>5. Wheel!InWheel' = Wheel!InWheel \ due
  BY <1>1, <1>2 DEF Wheel!InWheel, Wheel!TypeOK
<1>6. ASSUME NEW t \in Wheel!InWheel \ due
      PROVE  Wheel!Left'[t] = Wheel!Left[t] - 1 /\ Wheel!Left[t] \in Nat /\ Wheel!Left[t] # 0
  <2>1. t \in Timers /\ Wheel!Left[t] = rotation[t] * N + Wheel!Distance(t) /\ Wheel!Left[t] \in Nat
    BY WheelLeftType
  <2>2. Wheel!Left[t] # 0
    BY <1>4
  <2>3. N \in Nat /\ N > 0 /\ rotation[t] \in Nat /\ time_slot[t] \in 0 .. N - 1
    BY <2>1 DEF Wheel!WheelAssumption, Wheel!TypeOK, Wheel!Slots
  <2>4. Wheel!Left'[t] = rotation'[t] * N + Wheel!Distance(t)'
    BY <1>5 DEF Wheel!Left
  <2>5. Wheel!Distance(t)' = IF cur_slot' <= time_slot[t] THEN time_slot[t] - cur_slot'
                                                  ELSE time_slot[t] + N - cur_slot'
    BY <1>1 DEF Wheel!Distance
  <2>6. CASE time_slot[t] = cur_slot
    <3>1. t \in slots[cur_slot] \ due
      BY <1>3, <2>6
    <3>2. rotation'[t] = rotation[t] - 1 /\ rotation[t] # 0
      BY <1>1, <2>1, <3>1
    <3>3. Wheel!Distance(t) = 0 /\ Wheel!Distance(t)' = N - 1
      BY <1>2, <2>3, <2>5, <2>6 DEF Wheel!Distance, Wheel!Slots
    <3>4. /\ rotation[t] * N \in Nat
          /\ (rotation[t] - 1) * N = rotation[t] * N - N
      BY <2>3, <3>2
    <3>5. Wheel!Left'[t] = (rotation[t] - 1) * N + (N - 1)
      BY <2>4, <3>2, <3>3
    <3>6. Wheel!Left[t] = rotation[t] * N + 0
      BY <2>1, <3>3
    <3>7. Wheel!Left'[t] = Wheel!Left[t] - 1
      <4> DEFINE whole == rotation[t] * N
      <4>1. Wheel!Left'[t] = (whole - N) + (N - 1)
        BY <3>4, <3>5
      <4>2. Wheel!Left[t] = whole + 0 /\ whole \in Nat /\ N \in Nat
        BY <2>3, <3>4, <3>6
      <4> HIDE DEF whole
      <4> QED BY <4>1, <4>2
    <3> QED BY <2>1, <2>2, <3>7
  <2>7. CASE time_slot[t] # cur_slot
    <3>1. t \notin slots[cur_slot]
      BY <1>3, <2>7
    <3>2. rotation'[t] = rotation[t]
      BY <1>1, <2>1, <3>1
    <3>3. Wheel!Distance(t)' = Wheel!Distance(t) - 1 /\ Wheel!Distance(t) \in Nat
      BY <1>2, <2>3, <2>5, <2>7 DEF Wheel!Distance, Wheel!Slots
    <3>4. rotation[t] * N \in Nat
      BY <2>3
    <3> QED BY <2>1, <2>2, <2>4, <3>2, <3>3, <3>4
  <2> QED BY <2>6, <2>7
<1>7. DOMAIN Wheel!Left = Wheel!InWheel
  BY DEF Wheel!Left
<1>8. Wheel!Left' = [t \in Wheel!InWheel \ due |-> Wheel!Left'[t]]
  BY <1>5 DEF Wheel!Left
<1>9. Wheel!TS!Undue(Wheel!Left) = [t \in Wheel!InWheel \ due |-> Wheel!Left[t]] /\ Wheel!TS!Due(Wheel!Left) = due
  BY <1>4, <1>7 DEF Wheel!TS!Undue, Wheel!TS!Due
<1>10. Wheel!TS!Later(Wheel!TS!Undue(Wheel!Left)) = [t \in Wheel!InWheel \ due |-> IF Wheel!Left[t] = 0 THEN 0 ELSE Wheel!Left[t] - 1]
  BY <1>9 DEF Wheel!TS!Later
<1>11. Wheel!Left' = Wheel!TS!Later(Wheel!TS!Undue(Wheel!Left))
  BY <1>6, <1>8, <1>10
<1> QED BY <1>1, <1>9, <1>11 DEF Wheel!TS!Turn

LEMMA WheelStepMaps ==
    ASSUME Wheel!WheelAssumption, Wheel!TypeOK, [Wheel!Next]_wheelVars
    PROVE  [Wheel!TS!TickedNext]_<<Wheel!Left, turned>>
<1>1. ASSUME NEW t \in Timers, NEW timeout \in Timeouts, Wheel!AddTimer(t, timeout)
      PROVE  Wheel!TS!TickedNext
  BY <1>1, WheelAddMaps DEF Wheel!TS!TickedNext, Wheel!TS!Change
<1>2. ASSUME NEW t \in Timers, Wheel!DelTimer(t)
      PROVE  Wheel!TS!TickedNext
  BY <1>2, WheelDelMaps DEF Wheel!TS!TickedNext, Wheel!TS!Change
<1>3. CASE Wheel!Tick
  BY <1>3, WheelTickMaps DEF Wheel!TS!TickedNext
<1>4. CASE UNCHANGED wheelVars
  BY <1>4 DEF wheelVars, Wheel!Left, Wheel!InWheel, Wheel!Distance
<1> QED BY <1>1, <1>2, <1>3, <1>4 DEF Wheel!Next

LEMMA WheelInitMaps == ASSUME Wheel!WheelAssumption PROVE Wheel!Init => Wheel!TS!TimersInit
<1> SUFFICES ASSUME Wheel!Init PROVE Wheel!TS!TimersInit
  OBVIOUS
<1>1. Wheel!InWheel = {}
  BY DEF Wheel!Init, Wheel!InWheel, Wheel!Slots
<1> QED BY <1>1 DEF Wheel!Init, Wheel!Left, Wheel!TS!TimersInit, Wheel!TS!NoTimers
-----------------------------------------------------------------------------
(* The containers together.                                                 *)
ContainersInv == LinkInv /\ Wheel!TypeOK /\ HeapInv

LEMMA InitAll == Init => ContainersInv
BY InitInv, WheelInitType, HeapInitInv, ContainersAssumption DEF Init, ContainersInv

(* A step of the one leaves the others alone.                               *)
LEMMA StepAll == [Next]_vars => [ListNext]_listVars /\ [Wheel!Next]_wheelVars
BY DEF Next, vars, wheelVars

LEMMA NextAll == ContainersInv /\ [Next]_vars => ContainersInv'
BY StepAll, HeapStep, NextInv, WheelNextType, HeapNextInv, ContainersAssumption DEF ContainersInv

(* The variables of sort_timer_lst (28-140) always have their types, and a  *)
(* timer in the wheel is always in the slot that time_slot names, where     *)
(* del_timer takes it from (03_timer_wheel.h:75-93), and in no other.  The  *)
(* array of the heap holds cur_size different timers, never more than the   *)
(* capacity that resize doubles (04_ime_heap.h:73-90, 157-171).             *)
THEOREM TypeCorrect == Spec => []TypeOK
<1>1. Init => ContainersInv
  BY InitAll
<1>2. ContainersInv /\ [Next]_vars => ContainersInv'
  BY NextAll
<1>3. ContainersInv => TypeOK
  BY InvImplies DEF ContainersInv, LinkInv, TypeOK
<1> QED
  BY <1>1, <1>2, <1>3, PTL DEF Spec

(* sort_timer_lst: whatever is added, moved, deleted and ticked away, next  *)
(* and prev describe one list in which no timer occurs twice, tail is its   *)
(* last node as long as there is one, and the deadlines are in order.       *)
THEOREM StaysLinked == Spec => []Linked
<1>1. Init => ContainersInv
  BY InitAll
<1>2. ContainersInv /\ [Next]_vars => ContainersInv'
  BY NextAll
<1>3. ContainersInv => Linked
  BY DEF ContainersInv, LinkInv
<1> QED
  BY <1>1, <1>2, <1>3, PTL DEF Spec

(* sort_timer_lst is the abstract set of timers: every tick fires the timers*)
(* that are due, all of them and no other, although it looks at no node     *)
(* behind the first that is not (104-122), and a deleted timer never fires. *)
THEOREM ListImplementation == Spec => ImplementsTimerSet
<1>1. Init => ContainersInv
  BY InitAll
<1>2. ContainersInv /\ [Next]_vars => ContainersInv'
  BY NextAll
<1>3. Init => TS!TimersInit
  BY InitMaps, ContainersAssumption DEF Init
<1>4. ContainersInv /\ [Next]_vars => [TS!ClockedNext]_<<Left, fired>>
  BY StepAll, StepMaps, ContainersAssumption DEF ContainersInv
<1> QED
  BY <1>1, <1>2, <1>3, <1>4, PTL DEF Spec, ImplementsTimerSet, TS!ClockedSet, TS!timerVars

(* time_wheel is the abstract set of timers: the wheel, which never compares*)
(* two times, fires each timer in the tick it was promised, whatever its    *)
(* delay in turns of the wheel, and a deleted one never (95-125).           *)
THEOREM WheelImplementation == Spec => WheelImplements
<1>1. Init => ContainersInv
  BY InitAll
<1>2. ContainersInv /\ [Next]_vars => ContainersInv'
  BY NextAll
<1>3. Init => Wheel!TS!TimersInit
  BY WheelInitMaps, ContainersAssumption DEF Init
<1>4. ContainersInv /\ [Next]_vars => [Wheel!TS!TickedNext]_<<Wheel!Left, turned>>
  BY StepAll, WheelStepMaps, ContainersAssumption DEF ContainersInv
<1> QED
  BY <1>1, <1>2, <1>3, <1>4, PTL
     DEF Spec, WheelImplements, Wheel!ImplementsTimerSet, Wheel!TS!TickedSet, Wheel!TS!timerVars
=============================================================================
