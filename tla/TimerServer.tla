----------------------------- MODULE TimerServer -----------------------------
(***************************************************************************)
(* chapter_11/02_timer_server.c: one process, edge-triggered epoll, and a  *)
(* timer per connection that closes it after 3 * TIMESLOT without data.    *)
(* Signals reach the loop as bytes in a pipe.  The timer list appears as   *)
(* the abstract TimerSet, which SortTimerList is checked to implement.     *)
(*                                                                         *)
(* Time is counted down in left and alarm, so it has no bound.  A piece of *)
(* data is what one recv takes (BUFFER_SIZE - 1 bytes).  The descriptor    *)
(* table never fills up: accept, whose result the code does not look at,   *)
(* does not fail.                                                          *)
(***************************************************************************)
EXTENDS TimerSet, FiniteSets

CONSTANTS FDs,        \* descriptors the kernel can hand out
          TIMESLOT,
          MaxUnread,  \* bound of the model: pieces of a connection not yet received
          NULL

IdleLimit == 3 * TIMESLOT

ASSUME ServerAssumption ==
    /\ TIMESLOT \in Nat \ {0} /\ MaxUnread \in Nat
    /\ Delays = {IdleLimit}
    /\ IsFiniteSet(FDs) /\ FDs \cap {"listenfd", "pipefd"} = {}
    /\ NULL \notin Timers

VARIABLES
  (* the kernel                                                            *)
    backlog,      \* connections that wait for accept
    listenEdge,   \* the listening socket is on epoll's ready list
    sock,         \* per descriptor: open, edge (on the ready list), unread, hup
    alarm,        \* time until SIGALRM; NULL when no alarm is set
    pipe,         \* the signals whose bytes are in the pipe
  (* the program                                                           *)
    users,        \* users[fd].timer; timers know their user by user_data
    user_data,
    events,       \* what epoll_wait returned and main has not handled yet
    mainpc, timeout, stop_server,
  (* history: time since the last data of a connection was received        *)
    idle

kernelVars == <<backlog, listenEdge, sock, alarm, pipe>>
programVars == <<users, user_data, events, mainpc, timeout, stop_server>>
vars == <<timerVars, kernelVars, programVars, idle>>

ClosedSocket == [open |-> FALSE, edge |-> FALSE, unread |-> 0, hup |-> FALSE]

(* The state when main enters its loop: the alarm has been set.             *)
Init ==
    /\ TimersInit
    /\ backlog = 0 /\ listenEdge = FALSE
    /\ sock = [fd \in FDs |-> ClosedSocket]
    /\ alarm = TIMESLOT /\ pipe = {}
    /\ users = [fd \in FDs |-> NULL] /\ user_data = [t \in Timers |-> NULL]
    /\ events = {} /\ mainpc = "epoll_wait" /\ timeout = FALSE /\ stop_server = FALSE
    /\ idle = [fd \in FDs |-> 0]

Running == mainpc # "exit"
-----------------------------------------------------------------------------
(* The clients, the clock and the signals (external)                        *)

ClientConnect ==
    /\ Running
    /\ backlog + Cardinality({fd \in FDs : sock[fd].open}) < Cardinality(FDs)
    /\ backlog' = backlog + 1
    /\ listenEdge' = TRUE
    /\ UNCHANGED <<timerVars, sock, alarm, pipe, programVars, idle>>

ClientSend(fd) ==
    /\ sock[fd].open /\ ~sock[fd].hup /\ sock[fd].unread < MaxUnread
    /\ sock' = [sock EXCEPT ![fd].unread = @ + 1, ![fd].edge = TRUE]
    /\ UNCHANGED <<timerVars, backlog, listenEdge, alarm, pipe, programVars, idle>>

(* The client closes, or resets, which discards what is unread.             *)
ClientClose(fd) ==
    /\ sock[fd].open /\ ~sock[fd].hup
    /\ \E n \in {0, sock[fd].unread} :
         sock' = [sock EXCEPT ![fd].hup = TRUE, ![fd].edge = TRUE, ![fd].unread = n]
    /\ UNCHANGED <<timerVars, backlog, listenEdge, alarm, pipe, programVars, idle>>

(* Time goes by; an alarm that is due is delivered before more time does.   *)
Clock ==
    /\ Running
    /\ alarm # 0
    /\ alarm' = IF alarm = NULL THEN NULL ELSE alarm - 1
    /\ Pass
    /\ idle' = [fd \in FDs |-> IF sock[fd].open /\ idle[fd] < IdleLimit
                                 THEN idle[fd] + 1 ELSE idle[fd]]
    /\ UNCHANGED <<backlog, listenEdge, sock, pipe, programVars>>

(* void sig_handler(int sig) puts a byte into the pipe; several bytes of    *)
(* one signal have the effect of one.                                       *)
SigAlrm ==
    /\ Running
    /\ alarm = 0
    /\ alarm' = NULL
    /\ pipe' = pipe \cup {"SIGALRM"}
    /\ UNCHANGED <<timerVars, backlog, listenEdge, sock, programVars, idle>>

SigTerm ==
    /\ Running
    /\ pipe' = pipe \cup {"SIGTERM"}
    /\ UNCHANGED <<timerVars, backlog, listenEdge, sock, alarm, programVars, idle>>
-----------------------------------------------------------------------------
(* The event loop                                                           *)

Ready(fd) == sock[fd].edge /\ (sock[fd].unread > 0 \/ sock[fd].hup)

EpollWait ==
    /\ mainpc = "epoll_wait"
    /\ ~stop_server
    /\ events' = {fd \in FDs : Ready(fd)} \cup (IF listenEdge THEN {"listenfd"} ELSE {})
                                        \cup (IF pipe # {} THEN {"pipefd"} ELSE {})
    /\ events' # {}
    /\ listenEdge' = FALSE
    /\ sock' = [fd \in FDs |-> [sock[fd] EXCEPT !.edge = FALSE]]
    /\ mainpc' = "dispatch"
    /\ UNCHANGED <<timerVars, backlog, alarm, pipe, users, user_data, timeout, stop_server, idle>>

(* mutant: the timers are looked at after every event                       *)
HandleOne(e) ==
    /\ mainpc = "dispatch"
    /\ e \in events
    /\ events' = events \ {e}
    /\ mainpc' = "timeout"

(* The next event of the batch, in any order; then the timers, if due.      *)
Handle(e) ==
    /\ mainpc = "dispatch"
    /\ e \in events
    /\ events' = events \ {e}
    /\ mainpc' = IF events' = {} THEN "timeout" ELSE "dispatch"

(* addfd, users[connfd] and its timer.                                      *)
Accept ==
    /\ Handle("listenfd")
    /\ backlog > 0
    /\ backlog' = backlog - 1
    /\ \E connfd \in {fd \in FDs : ~sock[fd].open}, t \in Timers \ DOMAIN left :
         /\ Arm(t, IdleLimit)
         /\ sock' = [sock EXCEPT ![connfd].open = TRUE]
         /\ users' = [users EXCEPT ![connfd] = t]
         /\ user_data' = [user_data EXCEPT ![t] = connfd]
         /\ idle' = [idle EXCEPT ![connfd] = 0]
    /\ UNCHANGED <<listenEdge, alarm, pipe, timeout, stop_server>>

ReadSignals ==
    /\ Handle("pipefd")
    /\ pipe' = {}
    /\ timeout' = (timeout \/ "SIGALRM" \in pipe)
    /\ stop_server' = (stop_server \/ "SIGTERM" \in pipe)
    /\ fired' = {} /\ UNCHANGED left
    /\ UNCHANGED <<backlog, listenEdge, sock, alarm, users, user_data, idle>>

(* mutants: the timer of a closed connection stays; data does not extend it  *)
CloseTimerStays(fd) ==
    /\ sock' = [sock EXCEPT ![fd] = ClosedSocket]
    /\ fired' = {} /\ UNCHANGED left
    /\ UNCHANGED <<users, user_data, idle>>

ExtendForgotten(fd) ==
    /\ sock' = [sock EXCEPT ![fd].unread = @ - 1]
    /\ fired' = {} /\ UNCHANGED left
    /\ idle' = [idle EXCEPT ![fd] = 0]
    /\ UNCHANGED <<users, user_data>>

(* cb_func(&users[fd]) and del_timer.  cb_func's epoll_ctl goes to the      *)
(* global epollfd, which is descriptor 0, and fails; close() is enough.     *)
Close(fd) ==
    /\ sock' = [sock EXCEPT ![fd] = ClosedSocket]
    /\ Cancel(users[fd])
    /\ user_data' = [user_data EXCEPT ![users[fd]] = NULL]
    /\ idle' = [idle EXCEPT ![fd] = 0]
    /\ UNCHANGED users

Extend(fd) ==
    /\ sock' = [sock EXCEPT ![fd].unread = @ - 1]
    /\ Rearm(users[fd], IdleLimit)
    /\ idle' = [idle EXCEPT ![fd] = 0]
    /\ UNCHANGED <<users, user_data>>

(* EPOLLIN: one recv, which takes a piece, or finds the end of the          *)
(* connection, or (EAGAIN) nothing.                                         *)
Receive(fd) ==
    /\ Handle(fd)
    /\ IF sock[fd].unread > 0 THEN Extend(fd)
       ELSE IF sock[fd].hup THEN Close(fd)
       ELSE fired' = {} /\ UNCHANGED <<left, sock, users, user_data, idle>>
    /\ UNCHANGED <<backlog, listenEdge, alarm, pipe, timeout, stop_server>>

(* tick(), with cb_func for every timer that is due: the connection is      *)
(* closed and the timer deleted.                                            *)
Overdue == {fd \in FDs : \E t \in Due(left) : user_data[t] = fd}

TickTimers ==
    /\ Expire
    /\ sock' = [fd \in FDs |-> IF fd \in Overdue THEN ClosedSocket ELSE sock[fd]]
    /\ user_data' = [t \in Timers |-> IF t \in Due(left) THEN NULL ELSE user_data[t]]
    /\ idle' = [fd \in FDs |-> IF fd \in Overdue THEN 0 ELSE idle[fd]]

(* mutant: the alarm is set again only when a timer was due                  *)
TimerHandlerOnce ==
    /\ mainpc = "timeout"
    /\ timeout
    /\ TickTimers
    /\ alarm' = IF Due(left) = {} THEN alarm ELSE TIMESLOT
    /\ timeout' = FALSE
    /\ mainpc' = "epoll_wait"
    /\ UNCHANGED <<backlog, listenEdge, pipe, users, events, stop_server>>

(* void timer_handler()                                                     *)
TimerHandler ==
    /\ mainpc = "timeout"
    /\ timeout
    /\ TickTimers
    /\ alarm' = TIMESLOT
    /\ timeout' = FALSE
    /\ mainpc' = "epoll_wait"
    /\ UNCHANGED <<backlog, listenEdge, pipe, users, events, stop_server>>

NoTimeout ==
    /\ mainpc = "timeout"
    /\ ~timeout
    /\ mainpc' = "epoll_wait"
    /\ fired' = {} /\ UNCHANGED left
    /\ UNCHANGED <<kernelVars, users, user_data, events, timeout, stop_server, idle>>

(* The loop ends, main returns: the process's descriptors and timers go.    *)
Exit ==
    /\ mainpc = "epoll_wait"
    /\ stop_server
    /\ mainpc' = "exit"
    /\ sock' = [fd \in FDs |-> ClosedSocket]
    /\ left' = NoTimers /\ fired' = {} /\ user_data' = [t \in Timers |-> NULL]
    /\ idle' = [fd \in FDs |-> 0]
    /\ alarm' = NULL /\ pipe' = {} /\ backlog' = 0 /\ listenEdge' = FALSE
    /\ UNCHANGED <<users, events, timeout, stop_server>>
-----------------------------------------------------------------------------
MainStep ==
    \/ EpollWait \/ Accept \/ ReadSignals \/ TimerHandler \/ NoTimeout \/ Exit
    \/ \E fd \in FDs : Receive(fd)

Next ==
    \/ ClientConnect
    \/ \E fd \in FDs : ClientSend(fd) \/ ClientClose(fd)
    \/ Clock \/ SigAlrm \/ SigTerm
    \/ MainStep

(* The process runs, time goes by and a signal that is due is delivered.    *)
Fairness == WF_vars(MainStep) /\ WF_vars(Clock) /\ WF_vars(SigAlrm)

Spec == Init /\ [][Next]_vars /\ Fairness
-----------------------------------------------------------------------------
TypeOK ==
    /\ left \in UNION {[S -> 0 .. IdleLimit] : S \in SUBSET Timers} /\ fired \subseteq Timers
    /\ backlog \in 0 .. Cardinality(FDs) /\ listenEdge \in BOOLEAN
    /\ sock \in [FDs -> [open : BOOLEAN, edge : BOOLEAN, unread : 0 .. MaxUnread, hup : BOOLEAN]]
    /\ alarm \in 0 .. TIMESLOT \cup {NULL} /\ pipe \subseteq {"SIGALRM", "SIGTERM"}
    /\ users \in [FDs -> Timers \cup {NULL}] /\ user_data \in [Timers -> FDs \cup {NULL}]
    /\ events \subseteq FDs \cup {"listenfd", "pipefd"} /\ (mainpc # "dispatch" => events = {})
    /\ mainpc \in {"epoll_wait", "dispatch", "timeout", "exit"}
    /\ timeout \in BOOLEAN /\ stop_server \in BOOLEAN
    /\ idle \in [FDs -> 0 .. IdleLimit]

(* No timer that was deleted is ever reached through users[fd].timer (163-  *)
(* 183), and no connection is closed by another one's timer: the open       *)
(* connections and the timers that are set point to each other, one to one. *)
TimersMatch ==
    /\ \A fd \in FDs : sock[fd].open =>
         users[fd] \in DOMAIN left /\ user_data[users[fd]] = fd
    /\ \A t \in DOMAIN left : sock[user_data[t]].open /\ users[user_data[t]] = t
    /\ \A fd \in events \cap FDs : sock[fd].open

(* A connection that its client has not closed is closed by the server only *)
(* after IdleLimit without data, however the alarm and the data race.       *)
NoEarlyClose ==
    [][\A fd \in FDs :
         sock[fd].open /\ ~sock'[fd].open /\ Running' =>
             sock[fd].hup \/ idle[fd] >= IdleLimit]_vars

(* A connection whose client has gone, or sends nothing, is closed in the   *)
(* end, although recv is called once per edge and may leave the end of the  *)
(* stream unread behind data (160), and although the alarm is set again     *)
(* only after its byte has come through the pipe (57-60).                   *)
IdleIsClosed ==
    \A fd \in FDs : []<>(~sock[fd].open \/ idle[fd] = 0)
=============================================================================
