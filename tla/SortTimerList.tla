---------------------------- MODULE SortTimerList ----------------------------
(***************************************************************************)
(* sort_timer_lst of chapter_11/02_lst_timer.h: a doubly linked list,      *)
(* sorted by expire.  The timers reached from head through next form the   *)
(* sequence chain; prev and tail are kept apart, since the code updates    *)
(* them apart.  The caller is any program that keeps to what the code      *)
(* takes for granted: a timer is in the list or not allocated, and         *)
(* adjust_timer is called with a deadline that is not earlier.             *)
(***************************************************************************)
EXTENDS Naturals, SequencesExt

CONSTANTS Timers,   \* addresses of util_timer objects
          Delays,   \* what a caller adds to the current time
          MaxTime,  \* bound of the model: time(NULL) stops there
          NULL

ListAssumption == Delays \subseteq Nat /\ MaxTime \in Nat /\ NULL \notin Timers

VARIABLES now,     \* time(NULL)
          chain, prev, tail,
          expire,
          fired    \* the timers whose cb_func the last step called

listVars == <<now, chain, prev, tail, expire, fired>>

InList == ToSet(chain)

ListInit ==
    /\ now = 0
    /\ chain = <<>> /\ tail = NULL
    /\ prev = [t \in Timers |-> NULL]
    /\ expire = [t \in Timers |-> 0]
    /\ fired = {}

head == chain[1]

(* void add_timer(util_timer* timer, util_timer* lst_head), where lst_head  *)
(* is the node at place i of the list c, whose back pointers are p: before  *)
(* the first node behind lst_head that expires later, or at the end.        *)
InsertBehind(c, p, i, t, e) ==
    LET later == SelectInSubSeq(c, i + 1, Len(c), LAMBDA x : e < expire[x])
        place == IF later = 0 THEN Len(c) + 1 ELSE later
        linked == [p EXCEPT ![t] = c[place - 1]]
    IN  /\ chain' = InsertAt(c, place, t)
        /\ prev' = IF later = 0 THEN linked ELSE [linked EXCEPT ![c[later]] = t]
        /\ tail' = IF later = 0 THEN t ELSE tail

(* void add_timer(util_timer* timer), timer new and set to expire at e       *)
AddTimer(t, e) ==
    /\ t \notin InList
    /\ expire' = [expire EXCEPT ![t] = e]
    /\ IF chain = <<>>
         THEN chain' = <<t>> /\ tail' = t /\ UNCHANGED prev
       ELSE IF e < expire[head]
         THEN chain' = <<t>> \o chain /\ prev' = [prev EXCEPT ![head] = t] /\ UNCHANGED tail
       ELSE InsertBehind(chain, prev, 1, t, e)
    /\ fired' = {}
    /\ UNCHANGED now

(* Where timer stands in the list.                                          *)
Place(t) == SelectInSeq(chain, LAMBDA x : x = t)

(* mutant: the timer is not moved                                           *)
AdjustTimerStays(t, e) ==
    /\ t \in InList
    /\ e >= expire[t]
    /\ expire' = [expire EXCEPT ![t] = e]
    /\ fired' = {}
    /\ UNCHANGED <<now, chain, prev, tail>>

(* The caller sets timer->expire to e and calls adjust_timer(timer): it is  *)
(* taken out and put back behind the node that was next to it.              *)
AdjustTimer(t, e) ==
    /\ t \in InList
    /\ e >= expire[t]
    /\ expire' = [expire EXCEPT ![t] = e]
    /\ LET i == Place(t)
       IN  IF i = Len(chain) \/ (i < Len(chain) /\ e < expire[chain[i + 1]])
             THEN UNCHANGED <<chain, prev, tail>>
             ELSE InsertBehind(RemoveAt(chain, i),
                               [prev EXCEPT ![chain[i + 1]] = IF i = 1 THEN NULL ELSE prev[t]],
                               i, t, e)
    /\ fired' = {}
    /\ UNCHANGED now

Freed(p, S) == [t \in Timers |-> IF t \in S THEN NULL ELSE p[t]]

(* void del_timer(util_timer* timer)                                        *)
DelTimer(t) ==
    /\ t \in InList
    /\ chain' = IF t = head /\ t = tail THEN <<>> ELSE RemoveAt(chain, Place(t))
    /\ \/ /\ t = head /\ t = tail
          /\ tail' = NULL /\ prev' = Freed(prev, {t})
       \/ /\ t = head /\ t # tail
          /\ prev' = Freed([prev EXCEPT ![chain[2]] = NULL], {t}) /\ UNCHANGED tail
       \/ /\ t # head /\ t = tail
          /\ tail' = prev[t] /\ prev' = Freed(prev, {t})
       \/ /\ t # head /\ t # tail
          /\ prev' = Freed([prev EXCEPT ![chain[Place(t) + 1]] = prev[t]], {t})
          /\ UNCHANGED tail
    /\ expire' = [expire EXCEPT ![t] = 0]
    /\ fired' = {}
    /\ UNCHANGED now

First(c) == IF c = <<>> THEN {} ELSE {Head(c)}

(* mutant: the new head keeps its back pointer                              *)
TickKeepsPrev ==
    LET later == SelectInSeq(chain, LAMBDA x : now < expire[x])
        gone == IF later = 0 THEN InList ELSE ToSet(SubSeq(chain, 1, later - 1))
    IN  /\ chain' = SelectSeq(chain, LAMBDA x : x \notin gone)
        /\ prev' = Freed(prev, gone)
        /\ expire' = [t \in Timers |-> IF t \in gone THEN 0 ELSE expire[t]]
        /\ fired' = gone
        /\ UNCHANGED <<now, tail>>

(* void tick(): from the head up to the first timer that expires later.     *)
(* tail is left as it is, even when the list becomes empty.                 *)
Tick ==
    LET later == SelectInSeq(chain, LAMBDA x : now < expire[x])
        n == IF later = 0 THEN Len(chain) ELSE later - 1
        gone == ToSet(SubSeq(chain, 1, n))
    IN  /\ chain' = SubSeq(chain, n + 1, Len(chain))
        /\ prev' = Freed(prev, gone \cup First(chain'))
        /\ expire' = [t \in Timers |-> IF t \in gone THEN 0 ELSE expire[t]]
        /\ fired' = gone
        /\ UNCHANGED <<now, tail>>

(* Time goes by (external).                                                 *)
Second ==
    /\ now < MaxTime
    /\ now' = now + 1
    /\ fired' = {}
    /\ UNCHANGED <<chain, prev, tail, expire>>

ListNext ==
    \/ \E t \in Timers, d \in Delays : AddTimer(t, now + d) \/ AdjustTimer(t, now + d)
    \/ \E t \in Timers : DelTimer(t)
    \/ Tick \/ Second

ListSpec == ListInit /\ [][ListNext]_listVars
-----------------------------------------------------------------------------
ListTypeOK ==
    /\ now \in 0 .. MaxTime
    /\ chain \in Seq(Timers)
    /\ prev \in [Timers -> Timers \cup {NULL}] /\ tail \in Timers \cup {NULL}
    /\ expire \in [Timers -> Nat] /\ fired \subseteq Timers

(* The list is one list: no timer is in it twice, prev undoes next, tail is *)
(* the last node unless tick() emptied the list and left it dangling        *)
(* (104-122), and the deadlines are in order, on which tick() relies.       *)
Linked ==
    /\ IsInjective(chain)
    /\ \A i \in DOMAIN chain : prev[chain[i]] = IF i = 1 THEN NULL ELSE chain[i - 1]
    /\ chain # <<>> => tail = Last(chain)
    /\ \A i, j \in DOMAIN chain : i < j => expire[chain[i]] <= expire[chain[j]]

Left == [t \in InList |-> IF expire[t] <= now THEN 0 ELSE expire[t] - now]

TS == INSTANCE TimerSet WITH left <- Left

(* The list is the abstract set of timers, although tick() stops at the     *)
(* first timer that is not due (104-122): each tick fires all that is due   *)
(* and nothing else, and a deleted timer is forgotten.                      *)
ImplementsTimerSet == TS!ClockedSet
=============================================================================
