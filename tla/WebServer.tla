------------------------------ MODULE WebServer ------------------------------
(***************************************************************************)
(* The web server of chapter_15: the event loop of 05_main.cpp, the        *)
(* connection objects of 04_http_conn.cpp and the epoll instance between   *)
(* them, served by the thread pool, which appears here as the abstract     *)
(* queue of RequestQueue that ThreadPool is proved to implement.           *)
(*                                                                         *)
(* One object users[fd] exists per descriptor and is used, without a lock, *)
(* by main and by the workers.  EPOLLONESHOT is what hands it from one to  *)
(* the other.  The steps of close_conn and of process() that touch shared  *)
(* state one after the other are steps of their own here.                  *)
(*                                                                         *)
(* A request is RequestPieces pieces of input, well formed; what the       *)
(* parser makes of the bytes is HttpParser.  pending, serving and closed   *)
(* are the pool's; Requests are the descriptors.                           *)
(***************************************************************************)
EXTENDS RequestQueue, Integers, FiniteSets

CONSTANTS MAX_FD,         \* limit that main compares m_user_count with
          RequestPieces,  \* pieces that make a complete request
          BufferSize,     \* READ_BUFFER_SIZE, in pieces
          Backlog,        \* completed connections the kernel keeps for accept
          MaxConnects,    \* bound of the model: connections made in a behaviour
          main            \* the thread that runs the event loop

FDs == Requests           \* descriptors the kernel can hand out: numbers
LowestOf(S) == CHOOSE x \in S : \A y \in S : x <= y
Callers == Workers \cup {main}

ASSUME ServerAssumption ==
    /\ FDs \subseteq Nat /\ FDs # {} /\ IsFiniteSet(FDs)
    /\ {MAX_FD, RequestPieces, BufferSize, Backlog, MaxConnects} \subseteq Nat
    /\ RequestPieces > 0 /\ BufferSize > RequestPieces
    /\ main \notin Workers /\ IsFiniteSet(Workers)

VARIABLES
  (* the kernel                                                            *)
    connects,      \* connections made so far
    backlog,       \* connections waiting for accept
    listenEdge,    \* the listening socket is on epoll's ready list
    sock,          \* per descriptor: open, interest, unread, hup, writable
  (* the objects                                                           *)
    users,         \* users[fd]: m_sockfd, m_read_idx, body_cut (m_checked_idx is
                   \* inside the body), m_linger, response, m_file_address
    m_user_count,
  (* the threads                                                           *)
    events,        \* what epoll_wait returned and main has not handled yet
    mainpc, sockfd,
    workerpc,
    loaded,        \* the value of m_user_count a thread has read to update it
  (* history, read by no action that models code                           *)
    reused,        \* descriptors accepted while a worker still used them
    refused,       \* descriptors whose append() was refused
    lost,          \* updates of m_user_count that were overwritten
    abandoned      \* objects closed while they held a mapping

listenVars == <<connects, backlog, listenEdge>>
kernelVars == <<listenVars, sock>>
poolVars == <<pending, serving, closed>>
mainVars == <<events, mainpc, sockfd>>
historyVars == <<reused, refused, lost, abandoned>>
vars == <<kernelVars, users, m_user_count, mainVars, workerpc, loaded, historyVars, poolVars>>

ClosedSocket == [open |-> FALSE, interest |-> "none", unread |-> 0,
                 hup |-> FALSE, writable |-> TRUE]

(* new http_conn[MAX_FD] comes zeroed from the system.                      *)
FreshObject == [m_sockfd |-> 0, m_read_idx |-> 0, body_cut |-> FALSE, m_linger |-> FALSE,
                response |-> FALSE, m_file_address |-> FALSE]

Init ==
    /\ QueueInit
    /\ connects = 0 /\ backlog = 0 /\ listenEdge = FALSE
    /\ sock = [fd \in FDs |-> ClosedSocket]
    /\ users = [fd \in FDs |-> FreshObject]
    /\ m_user_count = 0
    /\ events = {} /\ mainpc = "epoll_wait" /\ sockfd = LowestOf(FDs)
    /\ workerpc = [w \in Workers |-> "idle"]
    /\ loaded = [t \in Callers |-> 0]
    /\ reused = {} /\ refused = {} /\ lost = 0 /\ abandoned = {}
-----------------------------------------------------------------------------
(* Clients and the network (external).                                      *)

(* A connection completes: it waits for accept, and the edge-triggered      *)
(* listening socket becomes ready.                                          *)
ClientConnect ==
    /\ backlog < Backlog
    /\ connects < MaxConnects
    /\ connects' = connects + 1
    /\ backlog' = backlog + 1
    /\ listenEdge' = TRUE
    /\ UNCHANGED <<sock, users, m_user_count, mainVars, workerpc, loaded, historyVars, poolVars>>

(* The client sends a piece or hangs up.  Its next piece waits until there  *)
(* is room for it in m_read_buf: the bound of the model on unread data.     *)
ClientStep(fd) ==
    /\ sock[fd].open
    /\ \/ /\ ~sock[fd].hup
          /\ sock[fd].unread + users[fd].m_read_idx < BufferSize
          /\ sock' = [sock EXCEPT ![fd].unread = @ + 1]
       \/ /\ ~sock[fd].hup
          /\ sock' = [sock EXCEPT ![fd].hup = TRUE]
    /\ UNCHANGED <<listenVars, users, m_user_count, mainVars, workerpc,
                   loaded, historyVars, poolVars>>

ClientDrains(fd) ==
    /\ sock[fd].open
    /\ ~sock[fd].writable
    /\ sock' = [sock EXCEPT ![fd].writable = TRUE]
    /\ UNCHANGED <<listenVars, users, m_user_count, mainVars, workerpc,
                   loaded, historyVars, poolVars>>
-----------------------------------------------------------------------------
(* epoll.  With EPOLLONESHOT a descriptor is disarmed ("off") as its event  *)
(* is delivered; arming it again with modfd looks at its state afresh.      *)

(* mutants: EPOLL_CTL_MOD is forgotten, or always asks for EPOLLIN          *)
modfdForgotten(s, fd, ev) == s
modfdIn(s, fd, ev) ==
    IF fd \in FDs /\ s[fd].interest # "none"
      THEN [s EXCEPT ![fd].interest = "in"] ELSE s

(* modfd(m_epollfd, fd, ev): fails on a descriptor that is not registered.  *)
modfd(s, fd, ev) ==
    IF fd \in FDs /\ s[fd].interest # "none"
      THEN [s EXCEPT ![fd].interest = ev] ELSE s

(* addfd(m_epollfd, fd, true): fails on a closed descriptor.                *)
addfd(s, fd) == IF s[fd].open THEN [s EXCEPT ![fd].interest = "in"] ELSE s

(* mutant: close() without EPOLL_CTL_DEL on a duplicated descriptor         *)
removefdRegistered(s, fd) == [s EXCEPT ![fd].open = FALSE, ![fd].unread = 0]

(* removefd(m_epollfd, fd)                                                  *)
removefd(s, fd) == [s EXCEPT ![fd] = ClosedSocket]

Armed(fd) == sock[fd].interest \in {"in", "out"}

(* What epoll reports of an armed descriptor; main looks for EPOLLRDHUP     *)
(* first, then for EPOLLIN, then for EPOLLOUT.                              *)
Ready(fd) == /\ Armed(fd)
             /\ \/ sock[fd].hup
                \/ sock[fd].interest = "in" /\ sock[fd].unread > 0
                \/ sock[fd].interest = "out" /\ sock[fd].writable

EventOf(fd) == [fd |-> fd, ev |-> IF sock[fd].hup THEN "hup" ELSE sock[fd].interest]

ListenEvent == IF listenEdge THEN {[fd |-> 0, ev |-> "accept"]} ELSE {}

(* mutant: the descriptors are registered without EPOLLONESHOT              *)
EpollWaitNoOneshot ==
    /\ mainpc = "epoll_wait"
    /\ events' = {EventOf(fd) : fd \in {x \in FDs : Ready(x)}} \cup ListenEvent
    /\ events' # {}
    /\ listenEdge' = FALSE
    /\ mainpc' = "dispatch"
    /\ UNCHANGED <<connects, backlog, sock, users, m_user_count, sockfd, workerpc,
                   loaded, historyVars, poolVars>>

EpollWait ==
    /\ mainpc = "epoll_wait"
    /\ events' = {EventOf(fd) : fd \in {x \in FDs : Ready(x)}} \cup ListenEvent
    /\ events' # {}
    /\ listenEdge' = FALSE
    /\ sock' = [fd \in FDs |-> IF Ready(fd) THEN [sock[fd] EXCEPT !.interest = "off"]
                                            ELSE sock[fd]]
    /\ mainpc' = "dispatch"
    /\ UNCHANGED <<connects, backlog, users, m_user_count, sockfd, workerpc, loaded,
                   historyVars, poolVars>>
-----------------------------------------------------------------------------
(* m_user_count++ and m_user_count-- are a load and a store.                *)

LoadCount(t) == loaded' = [loaded EXCEPT ![t] = m_user_count]

StoreCount(t, d) ==
    /\ m_user_count' = loaded[t] + d
    /\ loaded' = [loaded EXCEPT ![t] = 0]
    /\ lost' = IF m_user_count = loaded[t] THEN lost ELSE lost + 1

(* void init(): the parser and the response start over; the mapping is left. *)
Reset(u) == [u EXCEPT !.m_read_idx = 0, !.body_cut = FALSE, !.m_linger = FALSE,
                      !.response = FALSE]
-----------------------------------------------------------------------------
(* main: accept one connection and users[connfd].init(connfd, address)      *)

(* Back to the for loop, which takes the events in any order, or out of it. *)
Handled == mainpc' = IF events' = {} THEN "epoll_wait" ELSE "dispatch"

FreeFds == {fd \in FDs : ~sock[fd].open}

InUse(fd) == \/ \E e \in events : e.fd = fd
             \/ \E i \in DOMAIN pending : pending[i] = fd
             \/ \E w \in Workers : serving[w] = fd

(* accept() fails when no connection waits or no descriptor is free; a      *)
(* client beyond MAX_FD is told so and closed.                              *)
Accept ==
    /\ mainpc = "dispatch"
    /\ \E e \in events :
        /\ e.ev = "accept"
        /\ events' = events \ {e}
    /\ IF backlog = 0 \/ FreeFds = {}
         THEN /\ Handled
              /\ UNCHANGED <<backlog, sock, users, sockfd, reused>>
         ELSE /\ backlog' = backlog - 1
              /\ IF m_user_count >= MAX_FD
                   THEN Handled /\ UNCHANGED <<sock, users, sockfd, reused>>
                   ELSE LET fd == LowestOf(FreeFds)
                        IN  /\ sock' = [sock EXCEPT ![fd].open = TRUE]
                            /\ users' = [users EXCEPT ![fd].m_sockfd = fd]
                            /\ sockfd' = fd
                            /\ reused' = IF InUse(fd) THEN reused \cup {fd} ELSE reused
                            /\ mainpc' = "addfd"
    /\ UNCHANGED <<connects, listenEdge, m_user_count, workerpc, loaded, lost, refused, abandoned,
                   poolVars>>

InitAddfd ==
    /\ mainpc = "addfd"
    /\ sock' = addfd(sock, sockfd)
    /\ LoadCount(main)
    /\ mainpc' = "count++"
    /\ UNCHANGED <<listenVars, users, m_user_count, events, sockfd, workerpc,
                   historyVars, poolVars>>

InitCount ==
    /\ mainpc = "count++"
    /\ StoreCount(main, 1)
    /\ users' = [users EXCEPT ![sockfd] = Reset(@)]
    /\ UNCHANGED <<kernelVars, events, sockfd, workerpc, reused, refused, abandoned, poolVars>>
    /\ Handled
-----------------------------------------------------------------------------
(* main: the events of a connection                                         *)

(* close_conn(true) by main: nothing when the object is closed already.     *)
CloseConn(s, u, fd) ==
    IF u[fd].m_sockfd = -1
      THEN /\ sock' = s /\ users' = u
           /\ Handled
           /\ UNCHANGED <<loaded, abandoned>>
      ELSE /\ sock' = removefd(s, u[fd].m_sockfd)
           /\ users' = [u EXCEPT ![fd].m_sockfd = -1]
           /\ LoadCount(main)
           /\ abandoned' = IF u[fd].m_file_address THEN abandoned \cup {fd}
                                                ELSE abandoned \ {fd}
           /\ mainpc' = "count--"

(* mutant: m_user_count-- is forgotten                                      *)
CloseCountForgotten ==
    /\ mainpc = "count--"
    /\ loaded' = [loaded EXCEPT ![main] = 0]
    /\ UNCHANGED <<kernelVars, users, m_user_count, events, sockfd, workerpc, historyVars, poolVars>>
    /\ Handled

CloseCount ==
    /\ mainpc = "count--"
    /\ StoreCount(main, -1)
    /\ UNCHANGED <<kernelVars, users, events, sockfd, workerpc, reused, refused,
                   abandoned, poolVars>>
    /\ Handled

Take(fd, ev) ==
    /\ mainpc = "dispatch"
    /\ [fd |-> fd, ev |-> ev] \in events
    /\ events' = events \ {[fd |-> fd, ev |-> ev]}
    /\ sockfd' = fd

HandleHangUp(fd) ==
    /\ Take(fd, "hup")
    /\ CloseConn(sock, users, fd)
    /\ UNCHANGED <<listenVars, m_user_count, workerpc, reused, refused, lost, poolVars>>

(* bool read(): takes all there is; false when the buffer has become full   *)
(* (recv is then called with length 0 and returns 0), when the peer has     *)
(* closed, or when m_sockfd is -1.                                          *)
HandleIn(fd) ==
    LET s == users[fd].m_sockfd
        taken == sock[fd].unread
        full == users[fd].m_read_idx + taken >= BufferSize
        drained == [sock EXCEPT ![fd].unread = 0]
        filled == [users EXCEPT ![fd].m_read_idx = @ + taken]
    IN  /\ Take(fd, "in")
        /\ IF s = -1 \/ ~sock[fd].open THEN CloseConn(sock, users, fd)
           ELSE IF full \/ sock[fd].hup THEN CloseConn(drained, filled, fd)
           ELSE /\ sock' = drained /\ users' = filled
                /\ mainpc' = "append"
                /\ UNCHANGED <<loaded, abandoned>>
        /\ UNCHANGED <<listenVars, m_user_count, workerpc, reused, refused, lost, poolVars>>

(* pool->append(users + sockfd): the result is ignored.                     *)
HandleAppend ==
    /\ mainpc = "append"
    /\ IF Full THEN refused' = refused \cup {sockfd} /\ UNCHANGED poolVars
               ELSE Submit(sockfd) /\ UNCHANGED refused
    /\ UNCHANGED <<kernelVars, users, m_user_count, events, sockfd, workerpc, loaded,
                   reused, lost, abandoned>>
    /\ Handled

(* mutant: unmap() is forgotten                                             *)
unmapForgotten(fd) == users

(* void unmap()                                                             *)
unmap(fd) == [users EXCEPT ![fd].m_file_address = FALSE]

(* bool write(), for the response that process() left.                      *)
HandleOut(fd) ==
    LET s == users[fd].m_sockfd
        valid == s # -1 /\ sock[fd].open
        unmapped == unmap(fd)
    IN  /\ Take(fd, "out")
        /\ \/ (* m_write_idx is 0 *)
              /\ ~users[fd].response
              /\ sock' = modfd(sock, s, "in")
              /\ users' = [users EXCEPT ![fd] = Reset(@)]
              /\ Handled
              /\ UNCHANGED <<loaded, abandoned>>
           \/ (* writev fills the socket: EAGAIN *)
              /\ users[fd].response /\ valid
              /\ sock' = modfd([sock EXCEPT ![fd].writable = FALSE], s, "out")
              /\ Handled
              /\ UNCHANGED <<users, loaded, abandoned>>
           \/ (* writev fails *)
              /\ users[fd].response /\ (sock[fd].hup \/ ~valid)
              /\ CloseConn(sock, unmapped, fd)
           \/ (* all is sent, keep-alive *)
              /\ users[fd].response /\ valid
              /\ users[fd].m_linger
              /\ sock' = modfd(sock, s, "in")
              /\ users' = [unmapped EXCEPT ![fd] = Reset(@)]
              /\ abandoned' = abandoned \ {fd}
              /\ Handled
              /\ UNCHANGED loaded
           \/ (* all is sent, close *)
              /\ users[fd].response /\ valid
              /\ ~users[fd].m_linger
              /\ CloseConn(modfd(sock, s, "in"), unmapped, fd)
        /\ UNCHANGED <<listenVars, m_user_count, workerpc, reused, refused, lost, poolVars>>
-----------------------------------------------------------------------------
(* A worker of the pool: users[fd].process()                                *)

WorkerGoto(w, to) == workerpc' = [workerpc EXCEPT ![w] = to]

Begin(w) ==
    /\ Start(w)
    /\ WorkerGoto(w, "process")
    /\ UNCHANGED <<kernelVars, users, m_user_count, mainVars, loaded, historyVars>>

(* process_read(), and process_write() on what it returned.  A file that is *)
(* empty is "mapped" too (mmap fails and its result is kept), and falls     *)
(* through to the default case of process_write, which fails.               *)
Respond(w, fd, outcome, linger) ==
    /\ users' = [users EXCEPT ![fd].m_linger = linger,
                              ![fd].response = TRUE,
                              ![fd].m_file_address = @ \/ outcome # "error"]
    /\ abandoned' = IF outcome # "error" THEN abandoned \ {fd} ELSE abandoned
    /\ WorkerGoto(w, IF outcome = "empty file" THEN "removefd" ELSE "arm out")

(* Any read may end inside the body: process_read then calls parse_line     *)
(* once more, which moves m_checked_idx into the body, and from then on     *)
(* measures the body from there.  The whole request is NO_REQUEST for ever, *)
(* unless the client sends so much more that the wrong measure is met.      *)
NoRequestYet(w, fd) ==
    /\ users[fd].m_read_idx < RequestPieces \/ users[fd].body_cut
    /\ \E cut \in {FALSE, users[fd].m_read_idx > 0} :
          users' = [users EXCEPT ![fd].body_cut = @ \/ cut]
    /\ WorkerGoto(w, "arm in")
    /\ UNCHANGED abandoned

Parsed(fd) == users[fd].m_read_idx >= RequestPieces + IF users[fd].body_cut THEN 1 ELSE 0

Process(w) ==
    LET fd == serving[w]
    IN  /\ workerpc[w] = "process"
        /\ \/ NoRequestYet(w, fd)
           \/ /\ Parsed(fd)
              /\ \E outcome \in {"file", "empty file", "error"}, linger \in BOOLEAN :
                    Respond(w, fd, outcome, linger)
        /\ UNCHANGED <<kernelVars, m_user_count, mainVars, loaded, reused, refused, lost, poolVars>>

(* The modfd that ends process(), on whatever m_sockfd is by then.          *)
Rearm(w) ==
    LET s == users[serving[w]].m_sockfd
    IN  /\ \/ workerpc[w] = "arm in" /\ sock' = modfd(sock, s, "in")
           \/ workerpc[w] = "arm out" /\ sock' = modfd(sock, s, "out")
        /\ Finish(w)
        /\ WorkerGoto(w, "idle")
        /\ UNCHANGED <<listenVars, users, m_user_count, mainVars, loaded, historyVars>>

(* close_conn() by a worker, in four steps.   Once the descriptor is closed *)
(* the kernel may give it to the next connection, and with it users[fd].    *)
WorkerRemovefd(w) ==
    LET fd == serving[w]
        s == users[fd].m_sockfd
    IN  /\ workerpc[w] = "removefd"
        /\ IF s = -1
             THEN WorkerGoto(w, "arm out") /\ UNCHANGED <<sock, abandoned>>
             ELSE /\ sock' = removefd(sock, s)
                  /\ abandoned' = abandoned \cup {fd}
                  /\ WorkerGoto(w, "forget")
        /\ UNCHANGED <<listenVars, users, m_user_count, mainVars, loaded,
                       reused, refused, lost, poolVars>>

WorkerForget(w) ==
    /\ workerpc[w] = "forget"
    /\ users' = [users EXCEPT ![serving[w]].m_sockfd = -1]
    /\ WorkerGoto(w, "load count")
    /\ UNCHANGED <<kernelVars, m_user_count, mainVars, loaded, historyVars, poolVars>>

WorkerLoad(w) ==
    /\ workerpc[w] = "load count"
    /\ LoadCount(w)
    /\ WorkerGoto(w, "count--")
    /\ UNCHANGED <<kernelVars, users, m_user_count, mainVars, historyVars, poolVars>>

WorkerCount(w) ==
    /\ workerpc[w] = "count--"
    /\ StoreCount(w, -1)
    /\ WorkerGoto(w, "arm out")
    /\ UNCHANGED <<kernelVars, users, mainVars, reused, refused, abandoned, poolVars>>
-----------------------------------------------------------------------------
MainStep ==
    \/ EpollWait \/ Accept \/ InitAddfd \/ InitCount \/ CloseCount \/ HandleAppend
    \/ \E fd \in FDs : HandleHangUp(fd) \/ HandleIn(fd) \/ HandleOut(fd)

WorkerStep(w) ==
    \/ Begin(w) \/ Process(w) \/ Rearm(w)
    \/ WorkerRemovefd(w) \/ WorkerForget(w) \/ WorkerLoad(w) \/ WorkerCount(w)

Next ==
    \/ ClientConnect
    \/ \E fd \in FDs : ClientStep(fd) \/ ClientDrains(fd)
    \/ MainStep
    \/ \E w \in Workers : WorkerStep(w)

(* Threads run, and a client that receives drains its socket.  No client is *)
(* obliged to connect, send or hang up.  A client's full window is drained  *)
(* often enough for one response to fit in the end.                         *)
Fairness ==
    /\ WF_vars(MainStep)
    /\ \A w \in Workers : WF_vars(WorkerStep(w))
    /\ \A fd \in FDs : WF_vars(ClientDrains(fd))
    /\ \A fd \in FDs : SF_vars(HandleOut(fd) /\ sock'[fd].writable)

Spec == Init /\ [][Next]_vars /\ Fairness
-----------------------------------------------------------------------------
TypeOK ==
    /\ pending \in Seq(FDs) /\ serving \in [Workers -> FDs \cup {NoRequest}]
    /\ closed = FALSE
    /\ connects \in 0 .. MaxConnects /\ backlog \in 0 .. Backlog /\ listenEdge \in BOOLEAN
    /\ sock \in [FDs -> [open : BOOLEAN, interest : {"none", "off", "in", "out"},
                         unread : 0 .. BufferSize, hup : BOOLEAN, writable : BOOLEAN]]
    /\ \A fd \in FDs : sock[fd].open \/ sock[fd] = ClosedSocket
    /\ \A fd \in FDs : users[fd] \in
           [m_sockfd : {0, fd, -1}, m_read_idx : 0 .. BufferSize, body_cut : BOOLEAN,
            m_linger : BOOLEAN, response : BOOLEAN, m_file_address : BOOLEAN]
    /\ m_user_count \in Int
    /\ events \subseteq [fd : FDs, ev : {"in", "out", "hup"}] \cup {[fd |-> 0, ev |-> "accept"]}
    /\ mainpc \in {"epoll_wait", "dispatch", "addfd", "count++", "count--", "append"}
    /\ sockfd \in FDs
    /\ workerpc \in [Workers -> {"idle", "process", "arm in", "arm out", "removefd",
                                 "forget", "load count", "count--"}]
    /\ loaded \in [Callers -> Int]
    /\ reused \subseteq FDs /\ refused \subseteq FDs /\ lost \in Nat /\ abandoned \subseteq FDs

(***************************************************************************)
(* EPOLLONESHOT at work: an open connection belongs to exactly one of      *)
(* epoll (armed), main (an event or a handler) and the pool (queued or     *)
(* being processed).  The exception, which the code does not exclude, is a *)
(* descriptor accepted again while the worker that closed it is still      *)
(* inside close_conn or process (51-58, 448-452).                          *)
(***************************************************************************)
Owners(fd) ==
    Cardinality({x \in {"epoll"} : Armed(fd)})
    + Cardinality({e \in events : e.ev # "accept" /\ e.fd = fd})
    + Cardinality({x \in {main} : sockfd = fd /\ mainpc \in {"append", "addfd"}})
    + Cardinality({i \in DOMAIN pending : pending[i] = fd})
    + Cardinality({w \in Workers : serving[w] = fd})

ExactlyOneOwner == \A fd \in FDs \ (reused \cup refused) : sock[fd].open => Owners(fd) = 1

(***************************************************************************)
(* m_user_count counts the open connections, give or take the ones that    *)
(* init() has not counted yet and that close_conn() has not discounted     *)
(* yet, until two unlocked updates overlap (main and a worker both change  *)
(* it, 56 and 69) or a descriptor is reused too early and closed twice.    *)
(***************************************************************************)
UserCountExact ==
    lost = 0 /\ reused = {} =>
        m_user_count + Cardinality({x \in {main} : mainpc \in {"addfd", "count++"}})
        = Cardinality({fd \in FDs : sock[fd].open})
          + Cardinality({x \in {main} : mainpc = "count--"})
          + Cardinality({w \in Workers : workerpc[w] \in {"forget", "load count", "count--"}})

(* A file stays mapped only until its response has been written (292-333),  *)
(* unless the connection was closed first: close_conn does not unmap, and   *)
(* the next connection of that descriptor finds the old mapping.            *)
MappingAccounted ==
    \A fd \in FDs \ reused :
        users[fd].m_file_address => users[fd].response \/ fd \in abandoned

(* A client that sent a complete request gets a response prepared, or is    *)
(* closed, whatever the other connections do, as long as the queue of the   *)
(* pool does not refuse it and its descriptor is not used twice at a time.  *)
(* Nor is anything promised once a read has ended inside its body, which    *)
(* the code then measures from the wrong place (215, 228-229, 253-257).     *)
Initialised(fd) == ~(sockfd = fd /\ mainpc \in {"addfd", "count++"})

Complete(fd) == /\ sock[fd].open /\ Initialised(fd) /\ ~users[fd].response
                /\ sock[fd].unread + users[fd].m_read_idx >= RequestPieces

RequestAnswered ==
    \A fd \in FDs : Complete(fd) ~> \/ users[fd].response \/ ~sock[fd].open
                                    \/ users[fd].body_cut \/ fd \in reused \cup refused

(* A response that was prepared is sent or its connection closed, although  *)
(* write() gives up at every EAGAIN and comes back with the next EPOLLOUT.  *)
ResponseSent ==
    \A fd \in FDs : (sock[fd].open /\ users[fd].response)
                        ~> \/ ~users[fd].response \/ ~sock[fd].open
                           \/ fd \in reused \cup refused
=============================================================================
