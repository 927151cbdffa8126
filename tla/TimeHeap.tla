------------------------------- MODULE TimeHeap -------------------------------
(***************************************************************************)
(* time_heap of chapter_11/04_ime_heap.h: a binary heap of timers ordered  *)
(* by expire, in an array that doubles when it is full.  del_timer only    *)
(* clears cb_func; the object leaves the heap when it reaches the top.     *)
(* array is the part of the code's array below cur_size.                   *)
(***************************************************************************)
EXTENDS Naturals

CONSTANTS Timers,    \* addresses of heap_timer objects
          Delays,    \* the argument of heap_timer's constructor
          Capacity,  \* the argument of time_heap's first constructor
          Given,     \* size and capacity of the array the second one is given
          MaxTime    \* bound of the model: time(NULL) stops there

(* A heap made with capacity 0 never grows: resize doubles it (157-171).    *)
HeapAssumption ==
    /\ Delays \subseteq Nat /\ MaxTime \in Nat
    /\ Capacity \in Nat \ {0} /\ Given \in Nat \ {0}

VARIABLES now,       \* time(NULL)
          array, capacity, cur_size,
          expire,
          cb_func,   \* the timers whose cb_func is not NULL
          fired      \* the timers whose cb_func the last step called

vars == <<now, array, capacity, cur_size, expire, cb_func, fired>>

Swept(ex, S) == [t \in Timers |-> IF t \in S THEN 0 ELSE ex[t]]

InHeap == {array[i] : i \in DOMAIN array}

(* One turn of the loop of percolate_down.  temp, which the code writes to  *)
(* the hole after the last turn, is in it here all the time; it goes down   *)
(* to the child that expires first, if that expires before temp.            *)
Swap(a, i, j) == [a EXCEPT ![i] = a[j], ![j] = a[i]]

Down(s, size, ex) ==
    LET left == 2 * s.hole + 1
        child == IF left + 1 < size /\ ex[s.array[left + 1]] < ex[s.array[left]]
                   THEN left + 1 ELSE left
    IN  IF left < size /\ ex[s.array[child]] < ex[s.array[s.hole]]
          THEN [array |-> Swap(s.array, s.hole, child), hole |-> child]
          ELSE s

(* void percolate_down(int hole): size turns are enough.                    *)
percolate_down(a, size, hole, ex) ==
    LET turn[k \in 0 .. size] ==
          IF k = 0 THEN [array |-> a, hole |-> hole] ELSE Down(turn[k - 1], size, ex)
    IN  turn[size].array

(* The second constructor's loop, from the last inner node down to 0.       *)
HeapifyNode(s, size, ex) ==
    IF s.todo = 0 THEN s
    ELSE [array |-> percolate_down(s.array, size, s.todo - 1, ex), todo |-> s.todo - 1]

heapify(a, size, ex) ==
    LET inner == (size - 1) \div 2 + 1
        turn[k \in 0 .. inner] ==
          IF k = 0 THEN [array |-> a, todo |-> inner] ELSE HeapifyNode(turn[k - 1], size, ex)
    IN  turn[inner].array

(* The first constructor.                                                   *)
Empty ==
    /\ array = <<>> /\ capacity = Capacity /\ cur_size = 0
    /\ expire = [t \in Timers |-> 0] /\ cb_func = {}

(* The second one, for an array of timers in any order.                     *)
FromArray ==
    \E init_array \in [0 .. Given - 1 -> Timers] :
        /\ capacity = Given
        /\ \A i, j \in 0 .. Given - 1 : i # j => init_array[i] # init_array[j]
        /\ cb_func = {init_array[i] : i \in 0 .. Given - 1}
        /\ expire \in [Timers -> Delays \cup {0}]
        /\ \A t \in Timers : expire[t] = 0 <=> t \notin cb_func
        /\ array = heapify(init_array, Given, expire)
        /\ cur_size = Given

Init == now = 0 /\ fired = {} /\ (Empty \/ FromArray)
-----------------------------------------------------------------------------
(* One turn of the loop of add_timer: up while the parent expires later.    *)
Up(s, ex) ==
    LET parent == (s.hole - 1) \div 2
    IN  IF s.hole > 0 /\ ~(ex[s.array[parent]] <= ex[s.array[s.hole]])
          THEN [array |-> Swap(s.array, s.hole, parent), hole |-> parent]
          ELSE s

percolate_up(a, hole, ex) ==
    LET turn[k \in 0 .. hole] ==
          IF k = 0 THEN [array |-> a, hole |-> hole] ELSE Up(turn[k - 1], ex)
    IN  turn[hole].array

(* mutant: the array is never made larger                                   *)
resizeForgotten == capacity

(* void resize(), when the array is full                                    *)
resize == IF cur_size >= capacity THEN 2 * capacity ELSE capacity

(* void add_timer(heap_timer* timer), timer = new heap_timer(delay)          *)
AddTimer(t, delay) ==
    LET ex == [expire EXCEPT ![t] = now + delay]
    IN  /\ t \notin InHeap
        /\ expire' = ex
        /\ capacity' = resize
        /\ cur_size' = cur_size + 1
        /\ array' = percolate_up([i \in 0 .. cur_size |-> IF i < cur_size THEN array[i] ELSE t],
                                 cur_size, ex)
        /\ cb_func' = cb_func \cup {t}
        /\ fired' = {}
        /\ UNCHANGED now

(* void del_timer(heap_timer* timer): lazy                                  *)
DelTimer(t) ==
    /\ t \in cb_func
    /\ cb_func' = cb_func \ {t}
    /\ fired' = {}
    /\ UNCHANGED <<now, array, capacity, cur_size, expire>>

(* mutant: the last timer takes the place of the top and stays there         *)
WithoutTopUnsifted(a, size, ex) == [i \in 0 .. size - 2 |-> IF i = 0 THEN a[size - 1] ELSE a[i]]

(* The array after pop_timer(): the last timer goes to the top, and down.   *)
WithoutTop(a, size, ex) ==
    percolate_down([i \in 0 .. size - 2 |-> IF i = 0 THEN a[size - 1] ELSE a[i]], size - 1, 0, ex)

(* void pop_timer(), called from outside tick()                             *)
PopTimer ==
    /\ cur_size > 0
    /\ array' = WithoutTop(array, cur_size, expire)
    /\ cur_size' = cur_size - 1
    /\ cb_func' = cb_func \ {array[0]}
    /\ expire' = Swept(expire, {array[0]})
    /\ fired' = {}
    /\ UNCHANGED <<now, capacity>>

(* mutant: a deleted timer at the top ends the loop                         *)
PopUntilDeleted(s) ==
    IF s.cur_size = 0 THEN s
    ELSE IF expire[s.array[0]] > now \/ s.array[0] \notin cb_func THEN s
    ELSE [array |-> WithoutTop(s.array, s.cur_size, expire), cur_size |-> s.cur_size - 1]

(* One turn of the loop of tick(): pop the top if it is due.                *)
Pop(s) ==
    IF s.cur_size = 0 THEN s
    ELSE IF expire[s.array[0]] > now THEN s
    ELSE [array |-> WithoutTop(s.array, s.cur_size, expire), cur_size |-> s.cur_size - 1]

PopDue ==
    LET turn[k \in 0 .. cur_size] ==
          IF k = 0 THEN [array |-> array, cur_size |-> cur_size] ELSE Pop(turn[k - 1])
    IN  turn[cur_size]

(* void tick()                                                              *)
Tick ==
    LET rest == PopDue
        gone == InHeap \ {rest.array[i] : i \in DOMAIN rest.array}
    IN  /\ array' = rest.array /\ cur_size' = rest.cur_size
        /\ fired' = gone \cap cb_func
        /\ cb_func' = cb_func \ gone
        /\ expire' = Swept(expire, gone)
        /\ UNCHANGED <<now, capacity>>

(* Time goes by (external).                                                 *)
Second ==
    /\ now < MaxTime
    /\ now' = now + 1
    /\ fired' = {}
    /\ UNCHANGED <<array, capacity, cur_size, expire, cb_func>>

Next ==
    \/ \E t \in Timers : DelTimer(t) \/ \E d \in Delays : AddTimer(t, d)
    \/ PopTimer \/ Tick \/ Second

Spec == Init /\ [][Next]_vars
-----------------------------------------------------------------------------
(* The array holds cur_size timers, each once, and add_timer never writes   *)
(* past its end (73-90, 157-171).                                           *)
TypeOK ==
    /\ now \in 0 .. MaxTime
    /\ cur_size \in 0 .. capacity
    /\ array \in [0 .. cur_size - 1 -> Timers]
    /\ \A i, j \in 0 .. cur_size - 1 : i # j => array[i] # array[j]
    /\ expire \in [Timers -> Nat]
    /\ cb_func \subseteq InHeap /\ fired \subseteq Timers

(* No timer expires before its parent, deleted ones included: the top is    *)
(* the first to expire, which is all that tick() looks at (118-134).        *)
HeapOrdered ==
    \A i \in 1 .. cur_size - 1 : expire[array[(i - 1) \div 2]] <= expire[array[i]]

Left == [t \in cb_func |-> IF expire[t] <= now THEN 0 ELSE expire[t] - now]

(* The heap, without the deleted timers in it, is the abstract set: what is  *)
(* due fires at the next tick() however the array is arranged.              *)
TS == INSTANCE TimerSet WITH left <- Left

ImplementsTimerSet == TS!ClockedSetGiven
=============================================================================
