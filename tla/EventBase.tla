------------------------------ MODULE EventBase ------------------------------
(***************************************************************************)
(* chapter_12: the excerpts of libevent with the author's comments, as     *)
(* they stand: event_add_internal, event_queue_insert, evmap_io_add and    *)
(* event_base_loop over an event_base.  What they call and the repository  *)
(* does not have (the poll, the heap of timeouts, the removal from a queue *)
(* and the callbacks) is modelled from how they use it.                    *)
(*                                                                         *)
(* The I/O events are of one descriptor and wait for reading.  A deadline  *)
(* is due whenever the poll says so.                                       *)
(***************************************************************************)
EXTENDS Naturals, Sequences, FiniteSets

CONSTANTS IoEvents, TimerEvents,
          MaxRead       \* bound of the model, and of the 0xffff of nread

Events == IoEvents \cup TimerEvents

VARIABLES
    ev_flags,           \* of each event, a set of "INSERTED", "ACTIVE", "TIMEOUT"
    events, nread,      \* evmap_io of the descriptor
    polled,             \* the descriptor is known to the poll
    event_count,
    event_break,
    loop,               \* "out", "top", "dispatch", "process"
    flags,              \* of event_base_loop: "none", "ONCE" or "NONBLOCK"
    retval              \* of the last event_base_loop: "none", "0", "1", "-1"

vars == <<ev_flags, events, nread, polled, event_count, event_break, loop, flags, retval>>
loopVars == <<event_break, loop, flags, retval>>
mapVars == <<events, nread, polled>>

Init ==
    /\ ev_flags = [e \in Events |-> {}] /\ events = <<>> /\ nread = 0 /\ polled = FALSE
    /\ event_count = 0 /\ event_break = FALSE /\ loop = "out" /\ flags = "none" /\ retval = "none"

Active == {e \in Events : "ACTIVE" \in ev_flags[e]}
-----------------------------------------------------------------------------
(* event_queue_insert: the flags after the events es have entered a queue,  *)
(* and how many were not on it before; those alone are counted.             *)
Entered(fl, es, queue) == [e \in Events |-> fl[e] \cup (IF e \in es THEN {queue} ELSE {})]
NewOn(fl, es, queue) == Cardinality({e \in es : queue \notin fl[e]})

(* evmap_io_add: every call counts, the first one tells the poll.  Beyond   *)
(* the largest nread it fails, and nothing changes.                         *)
evmap_io_add(ev) ==
    /\ nread < MaxRead /\ nread' = nread + 1
    /\ polled' = TRUE /\ events' = Append(events, ev)

(* event_add_internal.  The event is entered into the map of the I/O events *)
(* unless it is marked as inserted or active; nothing here marks it as      *)
(* inserted.  With a timeout it leaves the queue of active events and that  *)
(* of timeouts (if it is there), and enters the latter.                     *)
event_add(ev, tv) ==
    /\ IF ev \in IoEvents /\ ev_flags[ev] \cap {"INSERTED", "ACTIVE"} = {}
       THEN evmap_io_add(ev) ELSE UNCHANGED mapVars
    /\ IF ~tv THEN UNCHANGED <<ev_flags, event_count>>
       ELSE LET left == ev_flags[ev] \cap {"ACTIVE", "TIMEOUT"}
                rest == [ev_flags EXCEPT ![ev] = @ \ left]
            IN  /\ ev_flags' = Entered(rest, {ev}, "TIMEOUT")
                /\ event_count' = event_count - Cardinality(left) + NewOn(rest, {ev}, "TIMEOUT")

(* The program adds events before the loop and in callbacks; a timer has a  *)
(* timeout.                                                                 *)
Add(ev) ==
    /\ loop \in {"out", "process"}
    /\ \E tv \in BOOLEAN : (ev \in TimerEvents => tv) /\ event_add(ev, tv)
    /\ UNCHANGED loopVars

event_base_loopbreak ==
    /\ loop = "process" /\ ~event_break /\ event_break' = TRUE
    /\ UNCHANGED <<ev_flags, mapVars, event_count, loop, flags, retval>>
-----------------------------------------------------------------------------
LoopBegins ==
    /\ loop = "out" /\ loop' = "top" /\ event_break' = FALSE /\ retval' = "none"
    /\ flags' \in {"none", "ONCE", "NONBLOCK"}
    /\ UNCHANGED <<ev_flags, mapVars, event_count>>

Done(r) == loop' = "out" /\ retval' = r

event_haveevents == event_count > 0

LoopTop ==
    /\ loop = "top"
    /\ IF event_break THEN Done("0")
       ELSE IF ~event_haveevents /\ Active = {} THEN Done("1")
       ELSE loop' = "dispatch" /\ UNCHANGED retval
    /\ UNCHANGED <<ev_flags, mapVars, event_count, event_break, flags>>

(* The poll returns, with data for the descriptor or none, and timeouts are *)
(* due or not: what is due leaves its queue and becomes active.             *)
Dispatch ==
    /\ loop = "dispatch"
    /\ \E ready \in {{}, {events[k] : k \in DOMAIN events}},
          due \in SUBSET {e \in Events : "TIMEOUT" \in ev_flags[e]} :
          LET rest == [e \in Events |-> ev_flags[e] \ (IF e \in due THEN {"TIMEOUT"} ELSE {})]
          IN  /\ ev_flags' = Entered(rest, ready \cup due, "ACTIVE")
              /\ event_count' = event_count - Cardinality(due)
                                   + NewOn(rest, ready \cup due, "ACTIVE")
    /\ loop' = "process"
    /\ UNCHANGED <<mapVars, event_break, flags, retval>>

DispatchFails ==
    /\ loop = "dispatch" /\ Done("-1")
    /\ UNCHANGED <<ev_flags, mapVars, event_count, event_break, flags>>

(* event_process_active calls the callbacks (Add happens before this step)  *)
(* and takes the events off the queue; the events stay in the map.          *)
ProcessActive ==
    /\ loop = "process"
    /\ ev_flags' = [e \in Events |-> ev_flags[e] \ {"ACTIVE"}]
    /\ event_count' = event_count - Cardinality(Active)
    /\ IF (Active # {} /\ flags = "ONCE") \/ (Active = {} /\ flags = "NONBLOCK")
       THEN Done("0") ELSE loop' = "top" /\ UNCHANGED retval
    /\ UNCHANGED <<mapVars, event_break, flags>>

Next ==
    \/ \E ev \in Events : Add(ev)
    \/ event_base_loopbreak
    \/ LoopBegins \/ LoopTop \/ Dispatch \/ DispatchFails \/ ProcessActive

Spec == Init /\ [][Next]_vars
-----------------------------------------------------------------------------
(* 02_event_internal.c:85 says that an I/O event is marked as inserted when *)
(* it enters the map, and event_base_loop says "no events registered" as it *)
(* returns 1 (06:48): at that moment there is no event in the map.  What    *)
(* the program adds after the return is not meant.                          *)
LoopReturns == loop # "out" /\ loop' = "out"

EndsOnlyWhenEmpty == [][LoopReturns /\ retval' = "1" => events = <<>>]_vars
=============================================================================
