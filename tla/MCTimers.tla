------------------------------- MODULE MCTimers -------------------------------
(* The three timer containers for TLC, one of them in each behaviour: which *)
(* says which, and the variables of the other two keep their first values.  *)
EXTENDS SortTimerList, TLC

CONSTANTS Timeouts, N, TI, Capacity, Given

VARIABLES which,
          slots, cur_slot, rotation, time_slot,  \* TimerWheel
          turned,                                \* its fired
          array, capacity, cur_size, cb_func,    \* TimeHeap
          clock, deadline, called                \* its now, expire and fired

wheelVars == <<slots, cur_slot, rotation, time_slot, turned>>
heapVars == <<array, capacity, cur_size, cb_func, clock, deadline, called>>

Wheel == INSTANCE TimerWheel WITH fired <- turned
Heap == INSTANCE TimeHeap WITH now <- clock, expire <- deadline, fired <- called

ASSUME ContainersAssumption ==
    ListAssumption /\ Wheel!WheelAssumption /\ Heap!HeapAssumption

Init ==
    /\ which \in {"list", "wheel", "heap"} /\ ListInit /\ Wheel!Init /\ Heap!Init
    /\ which # "heap" => Heap!Empty

Next ==
    /\ UNCHANGED which
    /\ \/ which = "list" /\ ListNext /\ UNCHANGED <<wheelVars, heapVars>>
       \/ which = "wheel" /\ Wheel!Next /\ UNCHANGED <<listVars, heapVars>>
       \/ which = "heap" /\ Heap!Next /\ UNCHANGED <<listVars, wheelVars>>

vars == <<which, listVars, wheelVars, heapVars>>

Spec == Init /\ [][Next]_vars

Symmetry == Permutations(Timers)

TypeOK == ListTypeOK /\ Wheel!TypeOK /\ Heap!TypeOK

(* The wheel and the heap fire what is due and nothing else, and forget what *)
(* was deleted, as ImplementsTimerSet says of the list.                     *)

(* TimerWheel, which counts turns of the wheel for a long delay (95-125).    *)
WheelImplements == Wheel!ImplementsTimerSet

(* TimeHeap: the top of the heap is the first to expire.                     *)
HeapOrdered == Heap!HeapOrdered

(* TimeHeap, whose deleted timers stay in the array (92-98, 118-134).        *)
HeapImplements == Heap!ImplementsTimerSet
=============================================================================
