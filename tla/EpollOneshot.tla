---------------------------- MODULE EpollOneshot ----------------------------
(***************************************************************************)
(* chapter_09/03_epolloneshot.c: main starts a thread for every event and  *)
(* passes it the address of a local variable, fds_for_new_worker.  The     *)
(* thread reads it when it first runs; by then main may have left the      *)
(* block and written the variable again for another event.                 *)
(***************************************************************************)
EXTENDS Naturals, FiniteSets

CONSTANTS Sockets,   \* connections, each used once
          Threads,   \* identities of the threads that may run at a time
          NoSocket,
          MaxUnread  \* bound of the model: unread pieces of a connection

VARIABLES sock,                \* per connection: state, armed, unread, hup
          listening,           \* the listening socket is on the ready list
          events,              \* events that main has not handled yet
          mainpc,
          fds_for_new_worker,  \* its sockfd; the epollfd is always the same
          worker               \* per thread: pc, sockfd

vars == <<sock, listening, events, mainpc, fds_for_new_worker, worker>>

Init ==
    /\ sock = [s \in Sockets |-> [state |-> "free", armed |-> FALSE, unread |-> 0, hup |-> FALSE]]
    /\ listening = FALSE
    /\ events = {} /\ mainpc = "epoll_wait"
    /\ fds_for_new_worker = NoSocket
    /\ worker = [t \in Threads |-> [pc |-> "none", sockfd |-> NoSocket]]
-----------------------------------------------------------------------------
(* Clients (external): connect, send, close.                                *)
Client(s) ==
    /\ \/ /\ sock[s].state = "free"
          /\ sock' = [sock EXCEPT ![s].state = "backlog"]
          /\ listening' = TRUE
       \/ /\ sock[s].state \in {"backlog", "open"}
          /\ sock[s].unread < MaxUnread /\ ~sock[s].hup
          /\ sock' = [sock EXCEPT ![s].unread = @ + 1]
          /\ UNCHANGED listening
       \/ /\ sock[s].state \in {"backlog", "open"} /\ ~sock[s].hup
          /\ sock' = [sock EXCEPT ![s].hup = TRUE]
          /\ UNCHANGED listening
    /\ UNCHANGED <<events, mainpc, fds_for_new_worker, worker>>

Ready(s) == sock[s].armed /\ (sock[s].unread > 0 \/ sock[s].hup)

EpollWait ==
    /\ mainpc = "epoll_wait"
    /\ events' = {s \in Sockets : Ready(s)} \cup (IF listening THEN {NoSocket} ELSE {})
    /\ events' # {}
    /\ listening' = FALSE
    /\ sock' = [s \in Sockets |-> [sock[s] EXCEPT !.armed = @ /\ ~Ready(s)]]
    /\ mainpc' = "dispatch"
    /\ UNCHANGED <<fds_for_new_worker, worker>>

Handle(e) ==
    /\ mainpc = "dispatch" /\ e \in events
    /\ events' = events \ {e}
    /\ mainpc' = IF events' = {} THEN "epoll_wait" ELSE "dispatch"

(* addfd(epollfd, connfd, true).  This block has a variable of the same     *)
(* name, which a build may keep in the same place.  An accept that fails    *)
(* registers -1, which has no effect.                                       *)
Accept ==
    /\ Handle(NoSocket)
    /\ \/ \E s \in Sockets :
            /\ sock[s].state = "backlog"
            /\ sock' = [sock EXCEPT ![s].state = "open", ![s].armed = TRUE]
            /\ fds_for_new_worker' \in {fds_for_new_worker, s}
       \/ /\ \A s \in Sockets : sock[s].state # "backlog"
          /\ UNCHANGED <<sock, fds_for_new_worker>>
    /\ UNCHANGED <<listening, worker>>

StartWorker(s) ==
    /\ Handle(s)
    /\ s \in Sockets
    /\ fds_for_new_worker' = s
    /\ \E t \in Threads :
         /\ worker[t].pc = "none"
         /\ worker' = [worker EXCEPT ![t].pc = "created"]
    /\ UNCHANGED <<sock, listening>>
-----------------------------------------------------------------------------
(* void* worker(void* arg)                                                  *)

ReadArgument(t) ==
    /\ worker[t].pc = "created"
    /\ worker' = [worker EXCEPT ![t] = [pc |-> "recv", sockfd |-> fds_for_new_worker]]
    /\ UNCHANGED <<sock, listening, events, mainpc, fds_for_new_worker>>

(* Sleeping after a recv that got data changes nothing the others see.      *)
Recv(t) ==
    LET s == worker[t].sockfd
    IN  /\ worker[t].pc = "recv"
        /\ \/ /\ sock[s].state = "open" /\ sock[s].unread > 0
              /\ sock' = [sock EXCEPT ![s].unread = 0]
              /\ UNCHANGED worker
           \/ /\ sock[s].state = "open" /\ sock[s].unread = 0
              /\ sock' = IF sock[s].hup
                           THEN [sock EXCEPT ![s].state = "closed", ![s].armed = FALSE]
                           ELSE [sock EXCEPT ![s].armed = TRUE]
              /\ worker' = [worker EXCEPT ![t] = [pc |-> "none", sockfd |-> NoSocket]]
           \/ (* EBADF is neither 0 nor EAGAIN: the loop goes on for ever *)
              /\ sock[s].state = "closed"
              /\ UNCHANGED <<sock, worker>>
        /\ UNCHANGED <<listening, events, mainpc, fds_for_new_worker>>

Next ==
    \/ \E s \in Sockets : Client(s) \/ StartWorker(s)
    \/ EpollWait \/ Accept
    \/ \E t \in Threads : ReadArgument(t) \/ Recv(t)

Spec == Init /\ [][Next]_vars
-----------------------------------------------------------------------------
(* "Every socket is handled by only one thread at any moment" (the comment   *)
(* of line 5, in translation), which EPOLLONESHOT is there to ensure: no two *)
(* threads are in the recv loop (69-86) on the same socket.                  *)
OneThreadPerSocket ==
    \A s \in Sockets :
        Cardinality({t \in Threads : worker[t].pc = "recv" /\ worker[t].sockfd = s}) <= 1
=============================================================================
