------------------------------ MODULE TimerWheel ------------------------------
(***************************************************************************)
(* time_wheel of chapter_11/03_timer_wheel.h: N slots; a timer waits in    *)
(* slot time_slot for rotation whole turns.  There is no clock: the caller *)
(* calls tick() once per slot interval TI, and each call handles one slot. *)
(* The timers of a slot are a set here: the order in which tick() walks    *)
(* the list of a slot does not matter.                                     *)
(***************************************************************************)
EXTENDS Naturals

CONSTANTS Timers,    \* addresses of tw_timer objects
          Timeouts,  \* what a caller passes to add_timer, which refuses negative ones
          N, TI      \* number of slots, slot interval

WheelAssumption ==
    /\ N \in Nat \ {0} /\ TI \in Nat \ {0}
    /\ Timeouts \subseteq Nat

VARIABLES slots, cur_slot,
          rotation, time_slot,  \* the fields of the tw_timers
          fired                 \* the timers whose cb_func the last step called

vars == <<slots, cur_slot, rotation, time_slot, fired>>

Slots == 0 .. N - 1

Init ==
    /\ slots = [s \in Slots |-> {}]
    /\ cur_slot = 0
    /\ rotation = [t \in Timers |-> 0] /\ time_slot = [t \in Timers |-> 0]
    /\ fired = {}

InWheel == {t \in Timers : \E s \in Slots : t \in slots[s]}

TicksOf(timeout) == IF timeout < TI THEN 1 ELSE timeout \div TI

SlotAfter(ticks) == (cur_slot + (ticks % N)) % N

(* tw_timer* add_timer(int timeout), with t the new object                  *)
AddTimer(t, timeout) ==
    LET ticks == TicksOf(timeout)
        ts == SlotAfter(ticks)
    IN  /\ t \notin InWheel
        /\ rotation' = [rotation EXCEPT ![t] = ticks \div N]
        /\ time_slot' = [time_slot EXCEPT ![t] = ts]
        /\ slots' = [slots EXCEPT ![ts] = @ \cup {t}]
        /\ fired' = {}
        /\ UNCHANGED cur_slot

(* void del_timer(tw_timer* timer)                                          *)
DelTimer(t) ==
    /\ t \in InWheel
    /\ slots' = [slots EXCEPT ![time_slot[t]] = @ \ {t}]
    /\ fired' = {}
    /\ UNCHANGED <<cur_slot, rotation, time_slot>>

(* mutant: a timer fires in the turn in which its rotation reaches 0        *)
TickEarly ==
    LET due == {t \in slots[cur_slot] : rotation[t] <= 1}
    IN  /\ fired' = due
        /\ slots' = [slots EXCEPT ![cur_slot] = @ \ due]
        /\ rotation' = [t \in Timers |-> IF t \in slots[cur_slot] \ due
                                           THEN rotation[t] - 1 ELSE rotation[t]]
        /\ cur_slot' = (cur_slot + 1) % N
        /\ UNCHANGED time_slot

(* void tick()                                                              *)
Tick ==
    LET due == {t \in slots[cur_slot] : rotation[t] = 0}
    IN  /\ fired' = due
        /\ slots' = [slots EXCEPT ![cur_slot] = @ \ due]
        /\ rotation' = [t \in Timers |-> IF t \in slots[cur_slot] \ due
                                           THEN rotation[t] - 1 ELSE rotation[t]]
        /\ cur_slot' = (cur_slot + 1) % N
        /\ UNCHANGED time_slot

Next ==
    \/ \E t \in Timers : DelTimer(t) \/ \E timeout \in Timeouts : AddTimer(t, timeout)
    \/ Tick

Spec == Init /\ [][Next]_vars
-----------------------------------------------------------------------------
(* A timer in the wheel is in the slot that its time_slot names, which is   *)
(* where del_timer looks for it (75-93), and in no other.                   *)
TypeOK ==
    /\ slots \in [Slots -> SUBSET Timers] /\ cur_slot \in Slots
    /\ rotation \in [Timers -> Nat] /\ time_slot \in [Timers -> Slots]
    /\ fired \subseteq Timers
    /\ \A s \in Slots, t \in Timers : t \in slots[s] => time_slot[t] = s

(* Slots between the hand and the slot of t.                                *)
Distance(t) == IF cur_slot <= time_slot[t] THEN time_slot[t] - cur_slot
                                           ELSE time_slot[t] + N - cur_slot

Left == [t \in InWheel |-> rotation[t] * N + Distance(t)]

(* The wheel is the abstract set of timers, in which a timer of k ticks is   *)
(* due after k ticks and fires in the one after: add_timer counts from the  *)
(* slot whose own tick is still to come (54-60, 95-125).                    *)
TS == INSTANCE TimerSet WITH left <- Left, Delays <- {TicksOf(d) : d \in Timeouts}

ImplementsTimerSet == TS!TickedSet
=============================================================================
