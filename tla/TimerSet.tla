------------------------------ MODULE TimerSet ------------------------------
(***************************************************************************)
(* What the three timer containers of chapter_11 promise: a timer that was *)
(* added with a delay fires at the first tick after that time, and never   *)
(* after it was deleted.  How a container finds the timers that are due is *)
(* not visible.  SortTimerList, TimeHeap and TimerWheel implement this     *)
(* module; TimerServer uses it in place of the list.                       *)
(***************************************************************************)
EXTENDS Naturals

CONSTANTS Timers,  \* the addresses of timer objects
          Delays   \* the times for which a timer can be set

VARIABLES left,   \* for every timer that is set, the time until it is due
          fired   \* the timers whose cb_func the last step called

timerVars == <<left, fired>>

NoTimers == [t \in {} |-> 0]

TimersInit == left = NoTimers /\ fired = {}

(* A container may be made with timers in it.                               *)
TimersGiven == fired = {} /\ left \in UNION {[S -> Delays] : S \in SUBSET Timers}

With(l, t, d) == [x \in DOMAIN l \cup {t} |-> IF x = t THEN d ELSE l[x]]

Without(l, t) == [x \in DOMAIN l \ {t} |-> l[x]]

Due(l) == {t \in DOMAIN l : l[t] = 0}

Later(l) == [t \in DOMAIN l |-> IF l[t] = 0 THEN 0 ELSE l[t] - 1]

Undue(l) == [t \in DOMAIN l \ Due(l) |-> l[t]]

(* add_timer                                                                *)
Arm(t, d) ==
    /\ t \notin DOMAIN left
    /\ left' = With(left, t, d)
    /\ fired' = {}

(* adjust_timer                                                             *)
Rearm(t, d) ==
    /\ t \in DOMAIN left
    /\ left' = With(left, t, d)
    /\ fired' = {}

(* del_timer                                                                *)
Cancel(t) ==
    /\ t \in DOMAIN left
    /\ left' = Without(left, t)
    /\ fired' = {}

(* One unit of time goes by.                                                *)
Pass ==
    /\ left' = Later(left)
    /\ fired' = {}

(* tick, where the container reads a clock                                  *)
Expire ==
    /\ fired' = Due(left)
    /\ left' = Undue(left)

(* tick, where the call itself is the clock                                 *)
Turn ==
    /\ fired' = Due(left)
    /\ left' = Later(Undue(left))

Change(t) == Cancel(t) \/ \E d \in Delays : Arm(t, d) \/ Rearm(t, d)

ClockedNext == (\E t \in Timers : Change(t)) \/ Pass \/ Expire

ClockedSet == TimersInit /\ [][ClockedNext]_timerVars

ClockedSetGiven == TimersGiven /\ [][ClockedNext]_timerVars

TickedNext == (\E t \in Timers : Change(t)) \/ Turn

TickedSet == TimersInit /\ [][TickedNext]_timerVars
=============================================================================
