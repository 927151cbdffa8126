--------------------------- MODULE WebServerProofs ---------------------------
(***************************************************************************)
(* Proofs about WebServer, for any descriptors, workers and bounds: who    *)
(* owns a descriptor while main, epoll and the workers pass it around.     *)
(***************************************************************************)
EXTENDS WebServer, FiniteSetTheorems, TLAPS

(* Who owns the descriptor fd.                                              *)
EventFor(fd) == \E e \in events : e.ev # "accept" /\ e.fd = fd
InMain(fd) == sockfd = fd /\ mainpc \in {"append", "addfd"}
Queued(fd) == \E k \in DOMAIN pending : pending[k] = fd
Served(fd) == \E w \in Workers : serving[w] = fd
Owned(fd) == Armed(fd) \/ EventFor(fd) \/ InMain(fd) \/ Queued(fd) \/ Served(fd)

(* At most one owner.                                                       *)
OneKind(fd) ==
    /\ Armed(fd) => ~EventFor(fd) /\ ~InMain(fd) /\ ~Queued(fd) /\ ~Served(fd)
    /\ EventFor(fd) => ~InMain(fd) /\ ~Queued(fd) /\ ~Served(fd)
    /\ InMain(fd) => ~Queued(fd) /\ ~Served(fd)
    /\ Queued(fd) => ~Served(fd)

OneOfKind(fd) ==
    /\ \A k, l \in DOMAIN pending : pending[k] = fd /\ pending[l] = fd => k = l
    /\ \A v, w \in Workers : serving[v] = fd /\ serving[w] = fd => v = w

(* An open descriptor has an owner and its object; it is registered as soon *)
(* as main has let go of it.  One whose request was refused has no owner    *)
(* and stays open for good.  A closed one is at most in the hands of the    *)
(* worker that closed it.                                                   *)
OpenOwned(fd) ==
    sock[fd].open =>
        /\ Owned(fd) \/ fd \in refused
        /\ users[fd].m_sockfd = fd
        /\ sock[fd].interest = "none" => sockfd = fd /\ mainpc = "addfd"
Stranded(fd) == fd \in refused => sock[fd].open /\ ~Owned(fd)
ClosedLeft(fd) ==
    ~sock[fd].open => ~EventFor(fd) /\ ~InMain(fd) /\ ~Queued(fd)

(* How far a worker is with close_conn.                                     *)
AtWorker(fd) ==
    \A w \in Workers : serving[w] = fd =>
        /\ workerpc[w] \in {"process", "arm in", "removefd"} => sock[fd].open
        /\ workerpc[w] \in {"forget", "load count", "count--"} => ~sock[fd].open
        /\ workerpc[w] \in {"load count", "count--"} => users[fd].m_sockfd = -1
        /\ workerpc[w] = "arm out" => sock[fd].open \/ users[fd].m_sockfd = -1

Good(fd) == /\ OneKind(fd) /\ OneOfKind(fd) /\ OpenOwned(fd) /\ Stranded(fd) /\ ClosedLeft(fd)
            /\ AtWorker(fd)

(* For every descriptor, also one that was reused: an object that somebody  *)
(* may use has been initialised, so nobody acts on another's descriptor.    *)
Known(fd) ==
    sock[fd].open \/ Owned(fd) => users[fd].m_sockfd \in {fd, -1}

Threads ==
    /\ \A w \in Workers : workerpc[w] = "idle" <=> serving[w] = NoRequest
    /\ mainpc = "epoll_wait" => events = {}
    /\ \A e, f \in events : e.ev # "accept" /\ f.ev # "accept" /\ e.fd = f.fd => e = f

OwnerInv == \A fd \in FDs \ reused : Good(fd)
KnownInv == \A fd \in FDs : Known(fd)

(* The mapping of an object belongs to a response that waits to be written, *)
(* or close_conn has left it behind.                                        *)
Mapped(fd) == users[fd].m_file_address =>
                  fd \in abandoned \/ (users[fd].response /\ sock[fd].open)

(* users is a function on the descriptors, which TypeOK does not say.       *)
Socket == [open : BOOLEAN, interest : {"none", "off", "in", "out"},
           unread : 0 .. BufferSize, hup : BOOLEAN, writable : BOOLEAN]
Object == [m_sockfd : Int, m_read_idx : 0 .. BufferSize, body_cut : BOOLEAN, m_linger : BOOLEAN,
           response : BOOLEAN, m_file_address : BOOLEAN]
Event == [fd : FDs, ev : {"in", "out", "hup"}] \cup {[fd |-> 0, ev |-> "accept"]}

SocketsOK(s) == /\ s \in [FDs -> Socket]
                /\ \A fd \in FDs : s[fd].open \/ s[fd] = ClosedSocket
ObjectsOK(u) == /\ u \in [FDs -> Object]
                /\ \A fd \in FDs : u[fd].m_sockfd \in {0, fd, -1}
RoomLeft(s, u) == \A fd \in FDs : s[fd].unread + u[fd].m_read_idx <= BufferSize
Data(s, u) == SocketsOK(s) /\ ObjectsOK(u) /\ RoomLeft(s, u)

PoolType == pending \in Seq(FDs) /\ serving \in [Workers -> FDs \cup {NoRequest}] /\ closed = FALSE
ListenType == connects \in 0 .. MaxConnects /\ backlog \in 0 .. Backlog /\ listenEdge \in BOOLEAN
MainType ==
    /\ events \subseteq Event /\ sockfd \in FDs
    /\ mainpc \in {"epoll_wait", "dispatch", "addfd", "count++", "count--", "append"}
WorkerType == workerpc \in [Workers -> {"idle", "process", "arm in", "arm out", "removefd",
                                         "forget", "load count", "count--"}]
CountType == m_user_count \in Int /\ loaded \in [Callers -> Int] /\ lost \in Nat
HistoryType == reused \subseteq FDs /\ refused \subseteq FDs /\ abandoned \subseteq FDs

Types == /\ Data(sock, users)
         /\ PoolType /\ ListenType /\ MainType /\ WorkerType /\ CountType /\ HistoryType

IInv == Types /\ Threads /\ KnownInv /\ OwnerInv

LEMMA TypesSuffice == Types => TypeOK
<1> SUFFICES ASSUME Types PROVE TypeOK
  OBVIOUS
<1>1. ASSUME NEW fd \in FDs
      PROVE  users[fd] \in [m_sockfd : {0, fd, -1}, m_read_idx : 0 .. BufferSize, body_cut : BOOLEAN,
                            m_linger : BOOLEAN, response : BOOLEAN, m_file_address : BOOLEAN]
  <2>1. users[fd] \in Object /\ users[fd].m_sockfd \in {0, fd, -1}
    BY DEF Types, Data, ObjectsOK
  <2> QED
    BY <2>1 DEF Object
<1>2. sock \in [FDs -> Socket] /\ \A fd \in FDs : sock[fd].open \/ sock[fd] = ClosedSocket
  BY DEF Types, Data, SocketsOK
<1> QED
  BY <1>1, <1>2 DEF Types, PoolType, ListenType, MainType, WorkerType, CountType, HistoryType,
                    TypeOK, Socket, Event
-----------------------------------------------------------------------------
(* What the helpers do to the kernel's and the objects' data.               *)

LEMMA UnreadChanged ==
  ASSUME NEW r \in Socket, NEW n \in 0 .. BufferSize
  PROVE  LET c == [r EXCEPT !.unread = n]
         IN  c \in Socket /\ c.unread = n /\ c.open = r.open /\ c.interest = r.interest
BY DEF Socket

LEMMA ReadChanged ==
  ASSUME NEW r \in Object, NEW n \in 0 .. BufferSize
  PROVE  LET c == [r EXCEPT !.m_read_idx = n]
         IN  /\ c \in Object /\ c.m_read_idx = n /\ c.m_sockfd = r.m_sockfd
             /\ c.response = r.response /\ c.m_file_address = r.m_file_address
BY DEF Object

LEMMA InterestChanged ==
  ASSUME NEW r \in Socket, NEW ev \in {"off", "in", "out"}
  PROVE  LET c == [r EXCEPT !.interest = ev]
         IN  c \in Socket /\ c.interest = ev /\ c.open = r.open /\ c.unread = r.unread
BY DEF Socket

LEMMA ClosedIsOff ==
  ASSUME NEW s, SocketsOK(s), NEW fd \in FDs, ~s[fd].open
  PROVE  s[fd].interest = "none"
BY DEF SocketsOK, ClosedSocket

LEMMA OpenChanged ==
  ASSUME NEW r \in Socket
  PROVE  LET c == [r EXCEPT !.open = TRUE]
         IN  c \in Socket /\ c.open /\ c.interest = r.interest /\ c.unread = r.unread
BY DEF Socket

(* The object of fd arms nothing but fd.                                    *)
LEMMA ModfdData ==
  ASSUME NEW s, SocketsOK(s), NEW fd \in FDs, NEW x \in {fd, -1}, NEW ev \in {"in", "out"}
  PROVE  LET t == modfd(s, x, ev)
         IN  /\ SocketsOK(t) /\ t[fd].open = s[fd].open /\ t[fd].unread = s[fd].unread
             /\ \A g \in FDs : g # fd => t[g] = s[g]
             /\ x = fd /\ s[fd].interest # "none" => t[fd].interest = ev
             /\ x = -1 => t = s
<1> DEFINE t == modfd(s, x, ev)
           r == [s[fd] EXCEPT !.interest = ev]
<1>1. s \in [FDs -> Socket] /\ -1 \notin FDs /\ (s[fd].interest # "none" => s[fd].open)
  BY ServerAssumption DEF SocketsOK, ClosedSocket, FDs
<1>2. CASE x = fd /\ s[fd].interest # "none"
  <2>1. t = [s EXCEPT ![fd] = r]
    BY <1>2 DEF modfd
  <2>2. r \in Socket /\ r.interest = ev /\ r.open = s[fd].open /\ r.unread = s[fd].unread
    <3>1. s[fd] \in Socket /\ ev \in {"off", "in", "out"}
      BY <1>1
    <3> QED
      BY <3>1, InterestChanged
  <2> HIDE DEF r, t
  <2>3. t \in [FDs -> Socket] /\ t[fd] = r /\ \A g \in FDs : g # fd => t[g] = s[g]
    BY <1>1, <2>1, <2>2
  <2>4. SocketsOK(t)
    BY <1>1, <1>2, <2>2, <2>3 DEF SocketsOK
  <2> QED
    BY <1>1, <1>2, <2>2, <2>3, <2>4 DEF t
<1>3. CASE ~(x = fd /\ s[fd].interest # "none")
  <2>1. t = s
    BY <1>1, <1>3 DEF modfd
  <2> HIDE DEF t
  <2> QED
    BY <1>3, <2>1 DEF t
<1> QED
  BY <1>2, <1>3

LEMMA RemovefdData ==
  ASSUME NEW s, SocketsOK(s), NEW x \in FDs
  PROVE  /\ SocketsOK(removefd(s, x)) /\ removefd(s, x)[x] = ClosedSocket
         /\ \A g \in FDs : g # x => removefd(s, x)[g] = s[g]
<1>1. ClosedSocket \in Socket
  BY ServerAssumption DEF ClosedSocket, Socket
<1> QED
  BY <1>1 DEF SocketsOK, removefd

(* One object changes, and has not more in its buffer than before.          *)
LEMMA ObjectData ==
  ASSUME NEW s, NEW u, Data(s, u), NEW fd \in FDs, NEW r \in Object,
         r.m_sockfd = u[fd].m_sockfd, r.m_read_idx <= u[fd].m_read_idx
  PROVE  /\ Data(s, [u EXCEPT ![fd] = r]) /\ [u EXCEPT ![fd] = r][fd] = r
         /\ \A g \in FDs : g # fd => [u EXCEPT ![fd] = r][g] = u[g]
<1> DEFINE v == [u EXCEPT ![fd] = r]
<1>1. u \in [FDs -> Object] /\ s \in [FDs -> Socket] /\ BufferSize \in Nat
  BY ServerAssumption DEF Data, ObjectsOK, SocketsOK
<1>2. v \in [FDs -> Object] /\ v[fd] = r /\ \A g \in FDs : g # fd => v[g] = u[g]
  BY <1>1
<1>3. ObjectsOK(v)
  BY <1>2 DEF Data, ObjectsOK
<1>4. RoomLeft(s, v)
  <2> HIDE DEF v
  <2> SUFFICES ASSUME NEW g \in FDs PROVE s[g].unread + v[g].m_read_idx <= BufferSize
    BY DEF RoomLeft
  <2>1. /\ s[g].unread \in Nat /\ u[g].m_read_idx \in Nat /\ v[g].m_read_idx \in Nat
        /\ s[g].unread + u[g].m_read_idx <= BufferSize
    BY <1>1, <1>2 DEF Socket, Object, Data, RoomLeft
  <2>2. v[g].m_read_idx <= u[g].m_read_idx
    BY <1>2, <2>1
  <2> QED
    BY <1>1, <2>1, <2>2
<1> QED
  BY <1>2, <1>3, <1>4 DEF Data

LEMMA SocketData ==
  ASSUME NEW s, NEW u, Data(s, u), NEW fd \in FDs, NEW x \in {fd, -1}, NEW ev \in {"in", "out"}
  PROVE  Data(modfd(s, x, ev), u)
<1> DEFINE t == modfd(s, x, ev)
<1>1. SocketsOK(t) /\ t[fd].unread = s[fd].unread /\ \A g \in FDs : g # fd => t[g] = s[g]
  BY ModfdData DEF Data
<1> HIDE DEF t
<1>2. RoomLeft(t, u)
  BY <1>1 DEF Data, RoomLeft
<1> QED
  BY <1>1, <1>2 DEF Data, t

(* init() and unmap()                                                       *)
LEMMA ResetObject ==
  ASSUME NEW r \in Object
  PROVE  /\ Reset(r) \in Object /\ Reset(r).m_sockfd = r.m_sockfd /\ Reset(r).m_read_idx = 0
         /\ Reset(r).m_file_address = r.m_file_address
<1>1. 0 \in 0 .. BufferSize
  BY ServerAssumption
<1> QED
  BY <1>1 DEF Reset, Object

LEMMA UnmappedObject ==
  ASSUME NEW r \in Object
  PROVE  LET c == [r EXCEPT !.m_file_address = FALSE]
         IN  /\ c \in Object /\ c.m_sockfd = r.m_sockfd /\ c.m_read_idx = r.m_read_idx
             /\ c.response = r.response /\ ~c.m_file_address
BY DEF Object

LEMMA WritableChanged ==
  ASSUME NEW s, NEW u, Data(s, u), NEW fd \in FDs, s[fd].open, NEW b \in BOOLEAN
  PROVE  LET c == [s EXCEPT ![fd].writable = b]
         IN  /\ Data(c, u) /\ c[fd].open /\ c[fd].interest = s[fd].interest
             /\ \A g \in FDs : g # fd => c[g] = s[g]
<1> DEFINE r == [s[fd] EXCEPT !.writable = b]
           c == [s EXCEPT ![fd] = r]
<1>1. s \in [FDs -> Socket]
  BY DEF Data, SocketsOK
<1>2. r \in Socket /\ r.open = s[fd].open /\ r.interest = s[fd].interest /\ r.unread = s[fd].unread
  BY <1>1 DEF Socket
<1>3. c \in [FDs -> Socket] /\ c[fd] = r /\ \A g \in FDs : g # fd => c[g] = s[g]
  BY <1>1, <1>2
<1>4. [s EXCEPT ![fd].writable = b] = c
  OBVIOUS
<1> HIDE DEF c, r
<1>5. SocketsOK(c)
  BY <1>2, <1>3 DEF Data, SocketsOK
<1>6. RoomLeft(c, u)
  BY <1>2, <1>3 DEF Data, RoomLeft
<1> QED
  BY <1>2, <1>3, <1>4, <1>5, <1>6 DEF Data

LEMMA ChangedObject ==
  ASSUME NEW u, ObjectsOK(u), NEW fd \in FDs, NEW r \in Object, r.m_sockfd \in {fd, -1}
  PROVE  ObjectsOK([u EXCEPT ![fd] = r])
BY DEF ObjectsOK

(* What is common to the ways in which the event of fd is handled.  On a    *)
(* descriptor that is as it should be, its object is closed with it, or it  *)
(* is armed again, or it is to be handed to the pool.                       *)
Handler(fd) ==
    /\ Data(sock', users')
    /\ \A g \in FDs \ {fd} : sock'[g] = sock[g] /\ users'[g] = users[g]
    /\ loaded' \in [Callers -> Int] /\ abandoned' \subseteq FDs
    /\ users'[fd].m_sockfd \in {fd, -1}
    /\ Handled \/ mainpc' \in {"count--", "append"}
    /\ Mapped(fd) => Mapped(fd)'
    /\ \A g \in FDs \ {fd} : g \in abandoned' <=> g \in abandoned
    /\ sock[fd].open /\ users[fd].m_sockfd = fd /\ sock[fd].interest # "none" =>
          \/ sock'[fd] = ClosedSocket /\ mainpc' = "count--"
          \/ /\ sock'[fd].open /\ users'[fd].m_sockfd = fd
             /\ \/ sock'[fd].interest \in {"in", "out"} /\ Handled
                \/ sock'[fd].interest = sock[fd].interest /\ mainpc' = "append"

LEMMA Closing ==
  ASSUME NEW s, NEW u, NEW fd \in FDs, Data(s, u), Types, events' \subseteq Event,
         u[fd].m_sockfd \in {fd, -1}, u[fd].m_sockfd = users[fd].m_sockfd,
         \A g \in FDs \ {fd} : s[g] = sock[g] /\ u[g] = users[g],
         s[fd].open = sock[fd].open, u[fd].response = users[fd].response,
         u[fd].m_file_address => users[fd].m_file_address,
         CloseConn(s, u, fd)
  PROVE  Handler(fd)
<1>1. main \in Callers /\ [loaded EXCEPT ![main] = m_user_count] \in [Callers -> Int]
  BY DEF Types, CountType, Callers
<1>2. -1 \in Int /\ fd \in Int /\ fd # -1
  BY ServerAssumption DEF FDs
<1>3. CASE u[fd].m_sockfd = -1
  <2>1. sock' = s /\ users' = u /\ Handled /\ UNCHANGED <<loaded, abandoned>>
    BY <1>3 DEF CloseConn
  <2> QED
    BY <1>2, <1>3, <2>1 DEF Types, CountType, HistoryType, Handler, Mapped
<1>4. CASE u[fd].m_sockfd = fd
  <2>1. /\ sock' = removefd(s, fd) /\ users' = [u EXCEPT ![fd].m_sockfd = -1]
        /\ loaded' = [loaded EXCEPT ![main] = m_user_count] /\ mainpc' = "count--"
        /\ abandoned' \subseteq FDs /\ (u[fd].m_file_address => fd \in abandoned')
        /\ \A g \in FDs \ {fd} : g \in abandoned' <=> g \in abandoned
    BY <1>2, <1>4 DEF CloseConn, LoadCount, Types, HistoryType
  <2>2. [u[fd] EXCEPT !.m_sockfd = -1] \in Object /\ [u[fd] EXCEPT !.m_sockfd = -1].m_sockfd = -1
        /\ [u[fd] EXCEPT !.m_sockfd = -1].m_read_idx = u[fd].m_read_idx
        /\ [u[fd] EXCEPT !.m_sockfd = -1].m_file_address = u[fd].m_file_address
    BY <1>2 DEF Data, ObjectsOK, Object
  <2>3. users' = [u EXCEPT ![fd] = [u[fd] EXCEPT !.m_sockfd = -1]]
    BY <2>1
  <2>4. ObjectsOK(users')
    BY <2>2, <2>3, ChangedObject DEF Data
  <2>5. SocketsOK(sock') /\ sock'[fd] = ClosedSocket /\ \A g \in FDs : g # fd => sock'[g] = s[g]
    BY <2>1, RemovefdData DEF Data
  <2>6. \A g \in FDs : g # fd => users'[g] = u[g]
    BY <2>3 DEF Data, ObjectsOK
  <2>7. /\ users'[fd].m_sockfd = -1 /\ users'[fd].m_read_idx = u[fd].m_read_idx
        /\ users'[fd].m_file_address = u[fd].m_file_address
    BY <2>2, <2>3 DEF Data, ObjectsOK
  <2>8. RoomLeft(sock', users')
    <3> SUFFICES ASSUME NEW g \in FDs PROVE sock'[g].unread + users'[g].m_read_idx <= BufferSize
      BY DEF RoomLeft
    <3>1. u[g] \in Object /\ s[g].unread + u[g].m_read_idx <= BufferSize
      BY DEF Data, ObjectsOK, RoomLeft
    <3>2. CASE g = fd
      BY <2>5, <2>7, <3>1, <3>2, ServerAssumption DEF ClosedSocket, Object
    <3>3. CASE g # fd
      BY <2>5, <2>6, <3>1, <3>3
    <3> QED  BY <3>2, <3>3
  <2> QED
    BY <2>1, <2>4, <2>5, <2>6, <2>7, <2>8, <1>1 DEF Handler, Mapped, Data
<1> QED
  BY <1>3, <1>4
-----------------------------------------------------------------------------
(* The three kinds of events of a connection.                               *)

LEMMA HangUp ==
  ASSUME Types, NEW fd \in FDs, users[fd].m_sockfd \in {fd, -1}, HandleHangUp(fd)
  PROVE  Handler(fd)
BY Closing DEF HandleHangUp, Take, Types, MainType

LEMMA In ==
  ASSUME Types, NEW fd \in FDs, users[fd].m_sockfd \in {fd, -1}, HandleIn(fd)
  PROVE  Handler(fd)
<1> DEFINE taken == sock[fd].unread
           full == users[fd].m_read_idx + taken >= BufferSize
           drained == [sock EXCEPT ![fd].unread = 0]
           filled == [users EXCEPT ![fd].m_read_idx = @ + taken]
<1>1. /\ sock[fd] \in Socket /\ users[fd] \in Object /\ taken + users[fd].m_read_idx <= BufferSize
      /\ sock \in [FDs -> Socket] /\ users \in [FDs -> Object]
      /\ (sock[fd].open \/ sock[fd] = ClosedSocket)
  BY DEF Types, Data, SocketsOK, ObjectsOK, RoomLeft
<1>2. events' \subseteq Event
  BY DEF HandleIn, Take, Types, MainType
<1>3. CASE users[fd].m_sockfd = -1 \/ ~sock[fd].open
  <2>1. CloseConn(sock, users, fd)
    BY <1>3 DEF HandleIn
  <2> QED
    BY <2>1, <1>2, Closing DEF Types
<1>4. CASE ~(users[fd].m_sockfd = -1 \/ ~sock[fd].open)
  <2>0. BufferSize \in Nat /\ taken \in 0 .. BufferSize /\ users[fd].m_read_idx \in 0 .. BufferSize
    BY <1>1, ServerAssumption DEF Socket, Object
  <2>1. drained[fd] \in Socket /\ drained[fd].open = sock[fd].open /\ drained[fd].interest = sock[fd].interest
        /\ drained[fd].unread = 0
    <3>1. drained[fd] = [sock[fd] EXCEPT !.unread = 0]
      BY <1>1
    <3> QED
      BY <1>1, <2>0, <3>1, UnreadChanged
  <2>2. filled[fd] \in Object /\ filled[fd].m_sockfd = users[fd].m_sockfd
        /\ filled[fd].m_read_idx = users[fd].m_read_idx + taken
        /\ filled[fd].response = users[fd].response /\ filled[fd].m_file_address = users[fd].m_file_address
    <3>1. filled[fd] = [users[fd] EXCEPT !.m_read_idx = users[fd].m_read_idx + taken]
      BY <1>1
    <3>2. users[fd].m_read_idx + taken \in 0 .. BufferSize
      BY <1>1, <2>0
    <3> QED
      BY <1>1, <3>1, <3>2, ReadChanged
  <2>3. \A g \in FDs : g # fd => drained[g] = sock[g] /\ filled[g] = users[g]
    BY <1>1
  <2>4. drained \in [FDs -> Socket] /\ filled \in [FDs -> Object]
    BY <1>1, <2>1, <2>2
  <2>5. SocketsOK(drained)
    <3> SUFFICES ASSUME NEW g \in FDs PROVE drained[g].open \/ drained[g] = ClosedSocket
      BY <2>4 DEF SocketsOK
    <3>1. CASE g = fd
      BY <3>1, <1>4, <2>1
    <3>2. CASE g # fd
      BY <3>2, <2>3 DEF Types, Data, SocketsOK
    <3> QED  BY <3>1, <3>2
  <2>6. ObjectsOK(filled)
    <3> SUFFICES ASSUME NEW g \in FDs PROVE filled[g].m_sockfd \in {0, g, -1}
      BY <2>4 DEF ObjectsOK
    <3>1. CASE g = fd
      BY <3>1, <2>2
    <3>2. CASE g # fd
      BY <3>2, <2>3 DEF Types, Data, ObjectsOK
    <3> QED  BY <3>1, <3>2
  <2>7. RoomLeft(drained, filled)
    <3> SUFFICES ASSUME NEW g \in FDs PROVE drained[g].unread + filled[g].m_read_idx <= BufferSize
      BY DEF RoomLeft
    <3>1. CASE g = fd
      BY <3>1, <1>1, <2>0, <2>1, <2>2
    <3>2. CASE g # fd
      BY <3>2, <2>3 DEF Types, Data, RoomLeft
    <3> QED  BY <3>1, <3>2
  <2>8. Data(drained, filled)
    BY <2>5, <2>6, <2>7 DEF Data
  <2>9. CASE full \/ sock[fd].hup
    <3>1. CloseConn(drained, filled, fd)
      BY <1>4, <2>9 DEF HandleIn
    <3> HIDE DEF drained, filled
    <3> QED
      BY <3>1, <1>2, <2>1, <2>2, <2>3, <2>8, Closing
  <2>10. CASE ~(full \/ sock[fd].hup)
    <3>1. sock' = drained /\ users' = filled /\ mainpc' = "append" /\ UNCHANGED <<loaded, abandoned>>
      BY <1>4, <2>10 DEF HandleIn
    <3> HIDE DEF drained, filled
    <3> QED
      BY <3>1, <2>1, <2>2, <2>3, <2>8 DEF Handler, Mapped, Types, CountType, HistoryType
  <2> QED  BY <2>9, <2>10
<1> QED  BY <1>3, <1>4

LEMMA Out ==
  ASSUME Types, NEW fd \in FDs, users[fd].m_sockfd \in {fd, -1}, HandleOut(fd)
  PROVE  Handler(fd)
<1> DEFINE n == users[fd].m_sockfd
           unmapped == unmap(fd)
<1>1. /\ sock \in [FDs -> Socket] /\ users \in [FDs -> Object] /\ Data(sock, users)
      /\ users[fd] \in Object /\ sock[fd] \in Socket /\ SocketsOK(sock) /\ n \in {fd, -1}
  BY DEF Types, Data, SocketsOK, ObjectsOK
<1>2. events' \subseteq Event
  BY DEF HandleOut, Take, Types, MainType
<1>3. /\ Data(sock, unmapped) /\ unmapped[fd].m_sockfd = n /\ unmapped[fd] \in Object
      /\ unmapped[fd].response = users[fd].response /\ ~unmapped[fd].m_file_address
      /\ \A g \in FDs : g # fd => unmapped[g] = users[g]
  <2>1. unmapped = [users EXCEPT ![fd] = [users[fd] EXCEPT !.m_file_address = FALSE]]
    BY DEF unmap
  <2> HIDE DEF unmapped
  <2>2. LET r == [users[fd] EXCEPT !.m_file_address = FALSE]
        IN  /\ r \in Object /\ r.m_sockfd = n /\ r.m_read_idx <= users[fd].m_read_idx
            /\ r.response = users[fd].response /\ ~r.m_file_address
    BY <1>1, UnmappedObject DEF Object
  <2> QED
    BY <1>1, <2>1, <2>2, ObjectData
<1>4. ASSUME NEW u, Data(sock, u), u[fd].m_sockfd = n
      PROVE  LET v == [u EXCEPT ![fd] = Reset(@)]
             IN  /\ Data(sock, v) /\ v[fd].m_sockfd = n /\ v[fd].m_file_address = u[fd].m_file_address
                 /\ \A g \in FDs : g # fd => v[g] = u[g]
  <2>1. u[fd] \in Object
    BY <1>4 DEF Data, ObjectsOK
  <2>2. /\ Reset(u[fd]) \in Object /\ Reset(u[fd]).m_sockfd = n /\ Reset(u[fd]).m_read_idx <= u[fd].m_read_idx
        /\ Reset(u[fd]).m_file_address = u[fd].m_file_address
    BY <1>4, <2>1, ResetObject, ServerAssumption DEF Object
  <2> QED
    BY <1>4, <2>2, ObjectData
<1>5. mainpc' = "append" => ~Handled
  BY DEF Handled
<1>6. UNCHANGED <<loaded, abandoned>> => loaded' \in [Callers -> Int] /\ abandoned' \subseteq FDs
  BY DEF Types, CountType, HistoryType
<1> HIDE DEF unmapped
<1>7. CASE /\ ~users[fd].response /\ sock' = modfd(sock, n, "in") /\ users' = [users EXCEPT ![fd] = Reset(@)]
           /\ Handled /\ UNCHANGED <<loaded, abandoned>>
  <2>1. /\ Data(sock', users') /\ users'[fd].m_sockfd = n /\ \A g \in FDs : g # fd => users'[g] = users[g]
        /\ users'[fd].m_file_address = users[fd].m_file_address
    BY <1>1, <1>4, <1>7, SocketData
  <2>2. /\ \A g \in FDs : g # fd => sock'[g] = sock[g]
        /\ sock'[fd].open = sock[fd].open
        /\ n = fd /\ sock[fd].interest # "none" => sock'[fd].interest = "in"
    <3>1. sock' = modfd(sock, n, "in")
      BY <1>7
    <3>2. SocketsOK(sock) /\ n \in {fd, -1} /\ "in" \in {"in", "out"}
      BY <1>1
    <3> HIDE DEF n
    <3> DEFINE t == modfd(sock, n, "in")
    <3>3. /\ \A g \in FDs : g # fd => t[g] = sock[g]
          /\ t[fd].open = sock[fd].open
          /\ n = fd /\ sock[fd].interest # "none" => t[fd].interest = "in"
      BY <3>2, ModfdData
    <3> QED
      BY <3>1, <3>3
  <2> QED
    BY <1>5, <1>6, <1>7, <2>1, <2>2 DEF Handler, Mapped
<1>8. CASE /\ sock[fd].open /\ sock' = modfd([sock EXCEPT ![fd].writable = FALSE], n, "out")
           /\ Handled /\ UNCHANGED <<users, loaded, abandoned>>
  <2> DEFINE s == [sock EXCEPT ![fd].writable = FALSE]
  <2>1. Data(s, users) /\ s[fd].open /\ s[fd].interest = sock[fd].interest /\ \A g \in FDs : g # fd => s[g] = sock[g]
    BY <1>1, <1>8, WritableChanged
  <2> HIDE DEF s
  <2>2. Data(sock', users')
    BY <1>1, <1>8, <2>1, SocketData DEF s
  <2>3. /\ \A g \in FDs : g # fd => sock'[g] = sock[g]
        /\ sock'[fd].open
        /\ n = fd /\ sock[fd].interest # "none" => sock'[fd].interest = "out"
    <3>1. SocketsOK(s) /\ sock' = modfd(s, n, "out")
      BY <1>8, <2>1 DEF Data, s
    <3> QED
      BY <1>1, <2>1, <3>1, ModfdData
  <2> QED
    BY <1>5, <1>6, <1>8, <2>2, <2>3 DEF Handler, Mapped
<1>9. CASE CloseConn(sock, unmapped, fd)
  BY <1>1, <1>2, <1>3, <1>9, Closing
<1>10. CASE /\ sock' = modfd(sock, n, "in") /\ users' = [unmapped EXCEPT ![fd] = Reset(@)]
            /\ abandoned' = abandoned \ {fd} /\ Handled /\ UNCHANGED loaded
  <2>1. /\ Data(sock', users') /\ users'[fd].m_sockfd = n /\ \A g \in FDs : g # fd => users'[g] = users[g]
        /\ ~users'[fd].m_file_address
    <3>1. /\ Data(sock, users') /\ users'[fd].m_sockfd = n /\ \A g \in FDs : g # fd => users'[g] = unmapped[g]
          /\ users'[fd].m_file_address = unmapped[fd].m_file_address
      BY <1>3, <1>4, <1>10
    <3> QED
      BY <1>1, <1>3, <1>10, <3>1, SocketData
  <2>2. /\ \A g \in FDs : g # fd => sock'[g] = sock[g]
        /\ sock'[fd].open = sock[fd].open
        /\ n = fd /\ sock[fd].interest # "none" => sock'[fd].interest = "in"
    <3>1. sock' = modfd(sock, n, "in")
      BY <1>10
    <3>2. SocketsOK(sock) /\ n \in {fd, -1} /\ "in" \in {"in", "out"}
      BY <1>1
    <3> HIDE DEF n
    <3> DEFINE t == modfd(sock, n, "in")
    <3>3. /\ \A g \in FDs : g # fd => t[g] = sock[g]
          /\ t[fd].open = sock[fd].open
          /\ n = fd /\ sock[fd].interest # "none" => t[fd].interest = "in"
      BY <3>2, ModfdData
    <3> QED
      BY <3>1, <3>3
  <2>3. loaded' \in [Callers -> Int] /\ abandoned' \subseteq FDs
    BY <1>10 DEF Types, CountType, HistoryType
  <2> QED
    BY <1>5, <1>10, <2>1, <2>2, <2>3 DEF Handler, Mapped
<1>11. CASE n # -1 /\ CloseConn(modfd(sock, n, "in"), unmapped, fd)
  <2>1. n = fd
    BY <1>11
  <2>2. Data(modfd(sock, n, "in"), unmapped)
    BY <1>1, <1>3, SocketData
  <2>3. /\ \A g \in FDs \ {fd} : modfd(sock, n, "in")[g] = sock[g]
        /\ modfd(sock, n, "in")[fd].open = sock[fd].open
    <3>1. SocketsOK(sock) /\ n \in {fd, -1} /\ "in" \in {"in", "out"}
      BY <1>1
    <3> HIDE DEF n
    <3> DEFINE t == modfd(sock, n, "in")
    <3>2. /\ \A g \in FDs : g # fd => t[g] = sock[g]
          /\ t[fd].open = sock[fd].open
          /\ n = fd /\ sock[fd].interest # "none" => t[fd].interest = "in"
      BY <3>1, ModfdData
    <3> QED
      BY <3>2
  <2> QED
    BY <1>2, <1>3, <1>11, <2>2, <2>3, Closing
<1> QED
  BY <1>7, <1>8, <1>9, <1>10, <1>11 DEF HandleOut, unmapped
-----------------------------------------------------------------------------
(* Steps of main.                                                           *)

(* A descriptor that the step leaves to its owner.                          *)
LEMMA KeptByMain ==
  ASSUME NEW g \in FDs, Good(g), UNCHANGED <<pending, serving, workerpc>>,
         g \in refused' <=> g \in refused,
         sock'[g].open = sock[g].open,
         (sock'[g].interest = "none") <=> (sock[g].interest = "none"), Armed(g)' <=> Armed(g),
         users'[g].m_sockfd = users[g].m_sockfd,
         EventFor(g)' <=> EventFor(g), InMain(g)' <=> InMain(g),
         (sockfd = g /\ mainpc = "addfd") => (sockfd' = g /\ mainpc' = "addfd")
  PROVE  Good(g)'
<1>1. (Queued(g)' <=> Queued(g)) /\ (Served(g)' <=> Served(g)) /\ (Owned(g)' <=> Owned(g))
  BY DEF Queued, Served, Owned
<1>2. OneKind(g)' /\ OneOfKind(g)'
  BY <1>1 DEF Good, OneKind, OneOfKind
<1>3. OpenOwned(g)' /\ Stranded(g)' /\ ClosedLeft(g)'
  BY <1>1 DEF Good, OpenOwned, Stranded, ClosedLeft
<1>4. AtWorker(g)'
  BY DEF Good, AtWorker
<1> QED
  BY <1>2, <1>3, <1>4 DEF Good

LEMMA KnownByMain ==
  ASSUME NEW g \in FDs, Known(g), UNCHANGED <<pending, serving>>,
         sock'[g].open => sock[g].open, Armed(g)' => Armed(g),
         users'[g].m_sockfd = users[g].m_sockfd,
         EventFor(g)' => EventFor(g), InMain(g)' => InMain(g)
  PROVE  Known(g)'
BY DEF Known, Owned, Queued, Served

(* The handler of an event keeps everything.                                *)
LEMMA HandlerStep ==
  ASSUME IInv, NEW fd \in FDs, NEW ev \in {"in", "out", "hup"}, Take(fd, ev), Handler(fd),
         UNCHANGED <<listenVars, m_user_count, workerpc, reused, refused, lost, poolVars>>
  PROVE  IInv'
<1> DEFINE e == [fd |-> fd, ev |-> ev]
<1>1. /\ e \in events /\ e.fd = fd /\ e.ev = ev /\ ev # "accept"
      /\ events' = events \ {e} /\ sockfd' = fd /\ mainpc = "dispatch"
  BY DEF Take
<1>2. Types'
  <2>1. MainType'
    BY <1>1 DEF Handler, Handled, IInv, Types, MainType
  <2> QED
    BY <2>1 DEF Handler, IInv, Types, PoolType, ListenType, WorkerType, CountType, HistoryType,
                listenVars, poolVars
<1>3. Threads'
  <2>1. \A w \in Workers : (workerpc[w] = "idle")' <=> (serving[w] = NoRequest)'
    BY DEF IInv, Threads, poolVars
  <2>2. mainpc' = "epoll_wait" => events' = {}
    BY DEF Handler, Handled
  <2> QED
    BY <1>1, <2>1, <2>2 DEF IInv, Threads
<1>4. ~EventFor(fd)' /\ \A g \in FDs : g # fd => (EventFor(g)' <=> EventFor(g))
  BY <1>1 DEF EventFor, IInv, Threads
<1>5. EventFor(fd) /\ \A g \in FDs : ~InMain(g)
  BY <1>1 DEF EventFor, InMain
<1>6. \A g \in FDs : g # fd => ~InMain(g)'
  BY <1>1 DEF InMain
<1>7. \A g \in FDs : g # fd => sock'[g] = sock[g] /\ users'[g] = users[g]
  BY DEF Handler
<1>8. KnownInv'
  <2> SUFFICES ASSUME NEW g \in FDs PROVE Known(g)'
    BY DEF KnownInv
  <2>1. CASE g = fd
    BY <2>1 DEF Handler, Known
  <2>2. CASE g # fd
    BY <2>2, <1>4, <1>6, <1>7, KnownByMain DEF IInv, KnownInv, Armed, poolVars
  <2> QED  BY <2>1, <2>2
<1>9. OwnerInv'
  <2> SUFFICES ASSUME NEW g \in FDs, g \notin reused PROVE Good(g)'
    BY DEF OwnerInv
  <2>0. Good(g)
    BY DEF IInv, OwnerInv
  <2>1. CASE g # fd
    BY <2>0, <2>1, <1>1, <1>4, <1>5, <1>6, <1>7, KeptByMain DEF Armed, poolVars
  <2>2. CASE g = fd
    <3>1. /\ ~Queued(fd) /\ ~Served(fd) /\ ~Armed(fd) /\ sock[fd].open
          /\ users[fd].m_sockfd = fd /\ sock[fd].interest # "none" /\ fd \notin refused
      BY <2>0, <2>2, <1>1, <1>5 DEF Good, OneKind, OpenOwned, Stranded, ClosedLeft, Owned
    <3>2. ~Queued(fd)' /\ ~Served(fd)' /\ OneOfKind(fd)' /\ AtWorker(fd)'
      BY <3>1 DEF Queued, Served, OneOfKind, AtWorker, poolVars
    <3>3. CASE sock'[fd] = ClosedSocket /\ mainpc' = "count--"
      <4>1. ~Armed(fd)' /\ ~InMain(fd)' /\ ~sock'[fd].open
        BY <3>3 DEF Armed, InMain, ClosedSocket, Handler, Handled
      <4> QED
        BY <2>2, <3>1, <3>2, <4>1, <1>4 DEF Good, OneKind, OpenOwned, Stranded, ClosedLeft
    <3>4. CASE /\ sock'[fd].open /\ users'[fd].m_sockfd = fd
               /\ sock'[fd].interest \in {"in", "out"} /\ Handled
      <4>1. Armed(fd)' /\ ~InMain(fd)' /\ sock'[fd].interest # "none"
        BY <3>4 DEF Armed, InMain, Handler, Handled
      <4> QED
        BY <2>2, <3>1, <3>2, <3>4, <4>1, <1>4 DEF Good, OneKind, OpenOwned, Stranded, ClosedLeft, Owned
    <3>5. CASE /\ sock'[fd].open /\ users'[fd].m_sockfd = fd
               /\ sock'[fd].interest = sock[fd].interest /\ mainpc' = "append"
      <4>1. ~Armed(fd)' /\ InMain(fd)' /\ sock'[fd].interest # "none"
        BY <3>1, <3>5, <1>1 DEF Armed, InMain
      <4> QED
        BY <2>2, <3>1, <3>2, <3>5, <4>1, <1>4 DEF Good, OneKind, OpenOwned, Stranded, ClosedLeft, Owned
    <3> QED
      BY <3>1, <3>3, <3>4, <3>5 DEF Handler
  <2> QED  BY <2>1, <2>2
<1> QED
  BY <1>2, <1>3, <1>8, <1>9 DEF IInv

LEMMA EpollWaitStep ==
  ASSUME IInv, EpollWait
  PROVE  IInv'
<1>1. /\ events = {} /\ mainpc = "epoll_wait" /\ mainpc' = "dispatch" /\ sockfd' = sockfd
      /\ events' = {EventOf(fd) : fd \in {x \in FDs : Ready(x)}} \cup ListenEvent
      /\ sock' = [fd \in FDs |-> IF Ready(fd) THEN [sock[fd] EXCEPT !.interest = "off"] ELSE sock[fd]]
      /\ users' = users /\ UNCHANGED <<pending, serving, closed, workerpc, reused, refused>>
  BY DEF EpollWait, IInv, Threads, poolVars, historyVars
<1>2. \A g \in FDs : EventFor(g)' <=> Ready(g)
  <2> SUFFICES ASSUME NEW g \in FDs PROVE EventFor(g)' <=> Ready(g)
    OBVIOUS
  <2>1. ASSUME Ready(g) PROVE EventFor(g)'
    <3>1. EventOf(g) \in events' /\ EventOf(g).fd = g /\ EventOf(g).ev # "accept"
      BY <1>1, <2>1 DEF EventOf, Ready, Armed
    <3> QED  BY <3>1 DEF EventFor
  <2>2. ASSUME EventFor(g)' PROVE Ready(g)
    <3>1. PICK e \in events' : e.ev # "accept" /\ e.fd = g
      BY <2>2 DEF EventFor
    <3>2. e \notin ListenEvent
      BY <3>1 DEF ListenEvent
    <3>3. PICK x \in FDs : Ready(x) /\ e = EventOf(x)
      BY <1>1, <3>2
    <3> QED  BY <3>1, <3>3 DEF EventOf
  <2> QED  BY <2>1, <2>2
<1>3. /\ \A g \in FDs : Ready(g) => /\ sock'[g] = [sock[g] EXCEPT !.interest = "off"]
                                 /\ sock[g].open /\ Armed(g)
      /\ \A g \in FDs : ~Ready(g) => sock'[g] = sock[g]
  BY <1>1 DEF Ready, Armed, ClosedSocket, IInv, Types, Data, SocketsOK
<1>4. \A g \in FDs : Ready(g) => /\ sock'[g] \in Socket /\ sock'[g].open /\ sock'[g].interest = "off"
                                /\ sock'[g].unread = sock[g].unread
  <2> SUFFICES ASSUME NEW g \in FDs, Ready(g)
               PROVE  /\ sock'[g] \in Socket /\ sock'[g].open /\ sock'[g].interest = "off"
                      /\ sock'[g].unread = sock[g].unread
    OBVIOUS
  <2>1. sock[g] \in Socket
    BY DEF IInv, Types, Data, SocketsOK
  <2>2. sock'[g] = [sock[g] EXCEPT !.interest = "off"] /\ sock[g].open
    BY <1>3
  <2> DEFINE c == [sock[g] EXCEPT !.interest = "off"]
  <2>3. c \in Socket /\ c.interest = "off" /\ c.open = sock[g].open /\ c.unread = sock[g].unread
    BY <2>1, InterestChanged
  <2> QED
    BY <2>2, <2>3
<1>5. \A g \in FDs : ~EventFor(g) /\ ~InMain(g) /\ ~InMain(g)'
  BY <1>1 DEF EventFor, InMain
<1>6. Types'
  <2>1. Data(sock, users)'
    <3>1. sock' \in [FDs -> Socket]
      <4>1. \A g \in FDs : sock'[g] \in Socket
        BY <1>3, <1>4 DEF IInv, Types, Data, SocketsOK
      <4> QED  BY <1>1, <4>1
    <3>2. SocketsOK(sock')
      BY <3>1, <1>3, <1>4 DEF IInv, Types, Data, SocketsOK
    <3>3. RoomLeft(sock', users')
      BY <1>1, <1>3, <1>4 DEF IInv, Types, Data, RoomLeft
    <3> QED
      BY <1>1, <3>2, <3>3 DEF IInv, Types, Data
  <2>2. MainType'
    <3>1. ListenEvent \subseteq Event
      BY DEF ListenEvent, Event
    <3>2. \A x \in FDs : Ready(x) => EventOf(x) \in Event
      <4> SUFFICES ASSUME NEW x \in FDs, Ready(x) PROVE EventOf(x) \in Event
        OBVIOUS
      <4>1. (IF sock[x].hup THEN "hup" ELSE sock[x].interest) \in {"in", "out", "hup"}
        BY DEF Ready, Armed
      <4> QED  BY <4>1 DEF EventOf, Event
    <3>3. events' \subseteq Event
      BY <1>1, <3>1, <3>2
    <3> QED  BY <1>1, <3>3 DEF IInv, Types, MainType
  <2> QED
    BY <1>1, <2>1, <2>2 DEF EpollWait, IInv, Types, PoolType, ListenType, WorkerType, CountType, HistoryType,
                            historyVars
<1>7. Threads'
  <2>1. ASSUME NEW e \in events', NEW f \in events', e.ev # "accept", f.ev # "accept", e.fd = f.fd
        PROVE  e = f
    <3>1. e \notin ListenEvent /\ f \notin ListenEvent
      BY <2>1 DEF ListenEvent
    <3> QED
      BY <1>1, <2>1, <3>1 DEF EventOf
  <2> QED
    BY <1>1, <2>1 DEF IInv, Threads
<1>8. ASSUME NEW g \in FDs PROVE Known(g)'
  <2>1. Known(g) /\ (sock'[g].open => sock[g].open) /\ (Armed(g)' => Armed(g))
    BY <1>3, <1>4 DEF IInv, KnownInv, Armed
  <2>2. CASE Ready(g)
    <3>1. users[g].m_sockfd \in {g, -1}
      BY <2>1, <2>2, <1>3 DEF Known
    <3> QED  BY <3>1, <1>1 DEF Known
  <2>3. CASE ~Ready(g)
    BY <2>1, <2>3, <1>1, <1>2, <1>5, KnownByMain
  <2> QED  BY <2>2, <2>3
<1>9. ASSUME NEW g \in FDs, g \notin reused PROVE Good(g)'
  <2>1. Good(g)
    BY <1>9 DEF IInv, OwnerInv
  <2>2. CASE Ready(g)
    <3>1. Armed(g) /\ ~Queued(g) /\ ~Served(g) /\ sock[g].open /\ users[g].m_sockfd = g /\ g \notin refused
      BY <2>1, <2>2, <1>3 DEF Good, OneKind, OpenOwned, Stranded, Owned
    <3>2. EventFor(g)' /\ ~Queued(g)' /\ ~Served(g)' /\ ~Armed(g)' /\ OneOfKind(g)' /\ AtWorker(g)'
      BY <2>2, <3>1, <1>1, <1>2, <1>4 DEF Queued, Served, OneOfKind, AtWorker, Armed
    <3> QED
      BY <2>2, <3>1, <3>2, <1>1, <1>4, <1>5 DEF Good, OneKind, OpenOwned, Stranded, ClosedLeft, Owned
  <2>3. CASE ~Ready(g)
    BY <2>1, <2>3, <1>1, <1>2, <1>3, <1>5, KeptByMain DEF Armed
  <2> QED  BY <2>2, <2>3
<1> QED
  BY <1>1, <1>6, <1>7, <1>8, <1>9 DEF IInv, KnownInv, OwnerInv

(* Main takes the event of the listening socket, or has nothing more to do  *)
(* with a connection that it has initialised or closed.                     *)
LEMMA MainMovesOn ==
  ASSUME IInv, Types', UNCHANGED <<sock, poolVars, workerpc, reused, refused, sockfd>>,
         \A g \in FDs : users'[g].m_sockfd = users[g].m_sockfd,
         events' \subseteq events, \A e \in events : e \notin events' => e.ev = "accept",
         Handled, mainpc \in {"dispatch", "count++", "count--"}
  PROVE  IInv'
<1>1. \A g \in FDs : EventFor(g)' <=> EventFor(g)
  BY DEF EventFor
<1>2. \A g \in FDs : ~InMain(g) /\ ~InMain(g)' /\ ~(sockfd = g /\ mainpc = "addfd")
  BY DEF InMain, Handled
<1>3. Threads'
  <2>1. mainpc' = "epoll_wait" => events' = {}
    BY DEF Handled
  <2> QED
    BY <2>1 DEF IInv, Threads, poolVars
<1>4. KnownInv'
  BY <1>1, <1>2, KnownByMain DEF IInv, KnownInv, Armed, poolVars
<1>5. OwnerInv'
  BY <1>1, <1>2, KeptByMain DEF IInv, OwnerInv, Armed, poolVars
<1> QED
  BY <1>3, <1>4, <1>5 DEF IInv

(* accept gives the lowest free number: there is one, for the descriptors   *)
(* below a descriptor are a finite set.                                     *)
LEMMA LowestFree ==
  ASSUME NEW S, S \subseteq FDs, S # {}
  PROVE  LowestOf(S) \in S
<1> DEFINE Below(x) == {y \in S : y < x}
           B == {Below(x) : x \in S}
<1>1. S \subseteq Nat /\ IsFiniteSet(S)
  BY ServerAssumption, FS_Subset
<1>2. IsWellFoundedOn(StrictSubsetOrdering(S), FiniteSubsetsOf(S))
  BY FS_StrictSubsetOrderingWellFounded
<1>3. B \subseteq FiniteSubsetsOf(S) /\ B # {}
  <2>1. \A x \in S : Below(x) \in SUBSET S
    OBVIOUS
  <2>2. FiniteSubsetsOf(S) = SUBSET S
    BY <1>1, FS_FiniteSubsetsOfFinite
  <2>3. PICK x \in S : TRUE
    OBVIOUS
  <2>4. Below(x) \in B
    OBVIOUS
  <2>5. \A U \in B : U \in SUBSET S
    BY <2>1
  <2> HIDE DEF B
  <2> QED
    BY <2>2, <2>4, <2>5
<1>4. PICK T \in B : \A U \in B : <<U, T>> \notin StrictSubsetOrdering(S)
  BY <1>2, <1>3, WFMin
<1>5. PICK x \in S : T = Below(x)
  BY <1>4
<1>6. ASSUME NEW y \in S, y < x PROVE FALSE
  <2>1. Below(y) \subseteq T /\ y \in T /\ y \notin Below(y)
    <3>1. y \in Nat /\ x \in Nat /\ ~(y < y)
      BY <1>1
    <3>2. \A z \in S : z < y => z < x
      BY <1>1, <1>6, <3>1
    <3> QED
      BY <1>5, <1>6, <3>1, <3>2
  <2>2. Below(y) \in B /\ Below(y) # T /\ Below(y) \in SUBSET S /\ T \in SUBSET S
    BY <2>1, <1>5
  <2> HIDE DEF Below, B
  <2>3. <<Below(y), T>> \in StrictSubsetOrdering(S)
    BY <2>1, <2>2 DEF StrictSubsetOrdering
  <2> QED
    BY <1>4, <2>2, <2>3
<1>7. \A y \in S : x <= y
  BY <1>1, <1>6
<1> QED
  BY <1>7 DEF LowestOf

LEMMA AcceptStep ==
  ASSUME IInv, Accept
  PROVE  IInv'
<1>1. PICK e \in events : e.ev = "accept" /\ events' = events \ {e}
  BY DEF Accept
<1>2. /\ mainpc = "dispatch" /\ UNCHANGED <<poolVars, workerpc, refused, abandoned, lost, loaded, m_user_count>>
      /\ listenEdge' = listenEdge /\ connects' = connects
  BY DEF Accept
<1>3. events' \subseteq Event /\ backlog \in 0 .. Backlog
  BY <1>1 DEF IInv, Types, MainType, ListenType
<1>4. CASE /\ backlog' = backlog \/ (backlog # 0 /\ backlog' = backlog - 1)
           /\ Handled /\ UNCHANGED <<sock, users, sockfd, reused>>
  <2>1. backlog' \in 0 .. Backlog /\ MainType'
    BY <1>3, <1>4, ServerAssumption DEF Handled, IInv, Types, MainType
  <2>2. Types'
    BY <1>2, <1>4, <2>1 DEF IInv, Types, Data, SocketsOK, ObjectsOK, RoomLeft, PoolType, ListenType, WorkerType,
                            CountType, HistoryType, poolVars
  <2> QED
    BY <1>1, <1>2, <1>4, <2>2, MainMovesOn
<1>5. CASE \E fd \in FreeFds :
             /\ backlog # 0 /\ backlog' = backlog - 1 /\ sock' = [sock EXCEPT ![fd].open = TRUE]
             /\ users' = [users EXCEPT ![fd].m_sockfd = fd] /\ sockfd' = fd /\ mainpc' = "addfd"
             /\ reused' = IF InUse(fd) THEN reused \cup {fd} ELSE reused
  <2>1. PICK fd \in FDs :
             /\ ~sock[fd].open
             /\ backlog # 0 /\ backlog' = backlog - 1 /\ sock' = [sock EXCEPT ![fd].open = TRUE]
             /\ users' = [users EXCEPT ![fd].m_sockfd = fd] /\ sockfd' = fd /\ mainpc' = "addfd"
             /\ reused' = IF InUse(fd) THEN reused \cup {fd} ELSE reused
    BY <1>5 DEF FreeFds
  <2>2. /\ sock \in [FDs -> Socket] /\ users \in [FDs -> Object] /\ fd \in Int
        /\ sock[fd] = ClosedSocket /\ sock[fd] \in Socket /\ users[fd] \in Object
    BY <2>1, ServerAssumption DEF FDs, IInv, Types, Data, SocketsOK, ObjectsOK
  <2> DEFINE r == [sock[fd] EXCEPT !.open = TRUE]
             o == [users[fd] EXCEPT !.m_sockfd = fd]
  <2>3. r \in Socket /\ r.open /\ r.interest = "none" /\ r.unread = 0
    <3>1. sock[fd].interest = "none" /\ sock[fd].unread = 0
      BY <2>2 DEF ClosedSocket
    <3> QED
      BY <2>2, <3>1, OpenChanged
  <2>4. o \in Object /\ o.m_sockfd = fd /\ o.m_read_idx \in 0 .. BufferSize
    BY <2>2 DEF Object
  <2>5. /\ sock' = [sock EXCEPT ![fd] = r] /\ users' = [users EXCEPT ![fd] = o]
    BY <2>1
  <2> HIDE DEF r, o
  <2>6. /\ sock' \in [FDs -> Socket] /\ sock'[fd] = r /\ \A g \in FDs : g # fd => sock'[g] = sock[g]
        /\ users' \in [FDs -> Object] /\ users'[fd] = o /\ \A g \in FDs : g # fd => users'[g] = users[g]
    BY <2>2, <2>3, <2>4, <2>5
  <2>7. SocketsOK(sock') /\ ObjectsOK(users')
    BY <2>3, <2>4, <2>6 DEF IInv, Types, Data, SocketsOK, ObjectsOK
  <2>8. RoomLeft(sock', users')
    BY <2>3, <2>4, <2>6, ServerAssumption DEF IInv, Types, Data, RoomLeft
  <2>9. backlog' \in 0 .. Backlog /\ reused' \subseteq FDs
    BY <2>1, <1>3, ServerAssumption DEF IInv, Types, HistoryType
  <2>10. Types'
    BY <1>2, <1>3, <2>1, <2>7, <2>8, <2>9
    DEF IInv, Types, Data, PoolType, MainType, ListenType, WorkerType, CountType, HistoryType, poolVars
  <2>11. Threads'
    BY <1>1, <1>2, <2>1 DEF IInv, Threads, poolVars
  <2>12. \A g \in FDs : (EventFor(g)' <=> EventFor(g)) /\ ~InMain(g) /\ (g # fd => ~InMain(g)')
    BY <1>1, <1>2, <2>1 DEF EventFor, InMain
  <2>13. ASSUME NEW g \in FDs PROVE Known(g)'
    <3>1. CASE g = fd
      BY <3>1, <2>4, <2>6 DEF Known
    <3>2. CASE g # fd
      BY <3>2, <1>2, <2>6, <2>12, KnownByMain DEF IInv, KnownInv, Armed, poolVars
    <3> QED  BY <3>1, <3>2
  <2>14. ASSUME NEW g \in FDs, g \notin reused' PROVE Good(g)'
    <3>1. Good(g)
      BY <1>2, <2>1, <2>14 DEF IInv, OwnerInv
    <3>2. CASE g # fd
      BY <3>1, <3>2, <1>2, <2>6, <2>12, KeptByMain DEF Armed, poolVars
    <3>3. CASE g = fd
      <4>1. ~InUse(fd) /\ fd \notin refused'
        BY <3>1, <3>3, <1>2, <2>1, <2>14 DEF Good, Stranded
      <4>2. ~EventFor(fd)' /\ ~Queued(fd)' /\ ~Served(fd)' /\ OneOfKind(fd)' /\ AtWorker(fd)'
        BY <4>1, <1>2, <2>12 DEF InUse, EventFor, Queued, Served, OneOfKind, AtWorker, poolVars
      <4>3. ~Armed(fd)' /\ InMain(fd)'
        BY <2>1, <2>3, <2>6 DEF Armed, InMain
      <4> QED
        BY <3>3, <4>1, <4>2, <4>3, <2>1, <2>3, <2>4, <2>6 DEF Good, OneKind, OpenOwned, Stranded, ClosedLeft, Owned
    <3> QED  BY <3>2, <3>3
  <2> QED
    BY <2>10, <2>11, <2>13, <2>14 DEF IInv, KnownInv, OwnerInv
<1>6. FreeFds # {} => LowestOf(FreeFds) \in FreeFds
  BY LowestFree DEF FreeFds
<1> QED
  BY <1>4, <1>5, <1>6 DEF Accept

LEMMA InitAddfdStep ==
  ASSUME IInv, InitAddfd
  PROVE  IInv'
<1>1. /\ mainpc = "addfd" /\ mainpc' = "count++" /\ sock' = addfd(sock, sockfd)
      /\ loaded' = [loaded EXCEPT ![main] = m_user_count]
      /\ UNCHANGED <<users, sockfd, events, workerpc, reused, refused, pending, serving>>
  BY DEF InitAddfd, LoadCount, poolVars, historyVars
<1>2. /\ sockfd \in FDs /\ sock \in [FDs -> Socket] /\ sock[sockfd] \in Socket
  BY DEF IInv, Types, Data, SocketsOK, MainType
<1> DEFINE r == [sock[sockfd] EXCEPT !.interest = "in"]
<1>3. r \in Socket /\ r.interest = "in" /\ r.open = sock[sockfd].open /\ r.unread = sock[sockfd].unread
  BY <1>2, InterestChanged
<1>4. sock[sockfd].open => sock' = [sock EXCEPT ![sockfd] = r]
  BY <1>1 DEF addfd
<1>5. ~sock[sockfd].open => sock' = sock
  BY <1>1 DEF addfd
<1> HIDE DEF r
<1>6. /\ sock[sockfd].open => sock'[sockfd] = r
      /\ \A g \in FDs : g # sockfd => sock'[g] = sock[g]
      /\ sock' \in [FDs -> Socket]
  BY <1>2, <1>3, <1>4, <1>5
<1>7. \A g \in FDs : /\ sock'[g].open = sock[g].open /\ sock'[g].unread = sock[g].unread
                     /\ sock'[g] # sock[g] => sock'[g].open
  BY <1>3, <1>5, <1>6
<1>8. Types'
  <2>1. SocketsOK(sock')
    <3> SUFFICES ASSUME NEW g \in FDs PROVE sock'[g].open \/ sock'[g] = ClosedSocket
      BY <1>6 DEF SocketsOK
    <3>1. sock[g].open \/ sock[g] = ClosedSocket
      BY DEF IInv, Types, Data, SocketsOK
    <3> QED
      BY <1>7, <3>1
  <2>2. RoomLeft(sock', users')
    <3> SUFFICES ASSUME NEW g \in FDs PROVE sock'[g].unread + users'[g].m_read_idx <= BufferSize
      BY DEF RoomLeft
    <3>1. sock[g].unread + users[g].m_read_idx <= BufferSize
      BY DEF IInv, Types, Data, RoomLeft
    <3> QED
      BY <1>1, <1>7, <3>1
  <2>3. loaded' \in [Callers -> Int]
    BY <1>1 DEF IInv, Types, CountType
  <2> QED
    BY <1>1, <2>1, <2>2, <2>3
    DEF InitAddfd, IInv, Types, Data, PoolType, ListenType, MainType, WorkerType, CountType, HistoryType,
        listenVars, poolVars, historyVars
<1>9. Threads'
  BY <1>1 DEF IInv, Threads
<1>10. \A g \in FDs : (EventFor(g)' <=> EventFor(g)) /\ (InMain(g) <=> g = sockfd) /\ ~InMain(g)'
  BY <1>1 DEF EventFor, InMain
<1>11. ASSUME NEW g \in FDs PROVE Known(g)'
  <2>1. CASE g = sockfd
    BY <2>1, <1>1, <1>10 DEF IInv, KnownInv, Known, Owned
  <2>2. CASE g # sockfd
    BY <2>2, <1>1, <1>6, <1>10, KnownByMain DEF IInv, KnownInv, Armed
  <2> QED  BY <2>1, <2>2
<1>12. ASSUME NEW g \in FDs, g \notin reused PROVE Good(g)'
  <2>1. Good(g)
    BY <1>12 DEF IInv, OwnerInv
  <2>2. CASE g # sockfd
    BY <2>1, <2>2, <1>1, <1>6, <1>10, KeptByMain DEF Armed
  <2>3. CASE g = sockfd
    <3>1. /\ sock[g].open /\ ~EventFor(g) /\ ~Queued(g) /\ ~Served(g) /\ users[g].m_sockfd = g
          /\ g \notin refused
      BY <2>1, <2>3, <1>10 DEF Good, ClosedLeft, OneKind, OpenOwned, Stranded, Owned
    <3>2. ~EventFor(g)' /\ ~Queued(g)' /\ ~Served(g)' /\ OneOfKind(g)' /\ AtWorker(g)'
      BY <3>1, <1>1, <1>10 DEF Queued, Served, OneOfKind, AtWorker
    <3>3. sock'[g].open /\ sock'[g].interest = "in" /\ Armed(g)'
      BY <2>3, <3>1, <1>3, <1>6 DEF Armed
    <3> QED
      BY <3>1, <3>2, <3>3, <1>1, <1>10 DEF Good, OneKind, OpenOwned, Stranded, ClosedLeft, Owned
  <2> QED  BY <2>2, <2>3
<1> QED
  BY <1>1, <1>8, <1>9, <1>11, <1>12 DEF IInv, KnownInv, OwnerInv

(* The unlocked update of m_user_count                                      *)
LEMMA StoreType ==
  ASSUME Types, NEW t \in Callers, NEW d \in {1, -1}, StoreCount(t, d)
  PROVE  CountType'
<1>1. loaded[t] \in Int /\ loaded[t] + d \in Int
  BY DEF Types, CountType
<1> QED
  BY <1>1 DEF StoreCount, Types, CountType

LEMMA InitCountStep ==
  ASSUME IInv, InitCount
  PROVE  IInv'
<1>1. /\ mainpc = "count++" /\ Handled /\ users' = [users EXCEPT ![sockfd] = Reset(users[sockfd])]
      /\ UNCHANGED <<sock, events, sockfd, workerpc, reused, refused>> /\ UNCHANGED poolVars
      /\ UNCHANGED listenVars /\ abandoned' = abandoned
  BY DEF InitCount, kernelVars
<1>2. Data(sock, users) /\ sockfd \in FDs /\ users[sockfd] \in Object
  BY DEF IInv, Types, Data, ObjectsOK, MainType
<1> DEFINE r == Reset(users[sockfd])
<1>3. r \in Object /\ r.m_sockfd = users[sockfd].m_sockfd /\ r.m_read_idx <= users[sockfd].m_read_idx
  BY <1>2, ResetObject DEF Object
<1> HIDE DEF r
<1>4. Data(sock, users') /\ users'[sockfd] = r /\ \A g \in FDs : g # sockfd => users'[g] = users[g]
  <2>1. users' = [users EXCEPT ![sockfd] = r]
    BY <1>1 DEF r
  <2> DEFINE v == [users EXCEPT ![sockfd] = r]
  <2>2. Data(sock, v) /\ v[sockfd] = r /\ \A g \in FDs : g # sockfd => v[g] = users[g]
    BY <1>2, <1>3, ObjectData
  <2> QED
    BY <2>1, <2>2
<1>5. \A g \in FDs : users'[g].m_sockfd = users[g].m_sockfd
  BY <1>3, <1>4
<1>6. CountType'
  BY StoreType DEF InitCount, Callers, IInv
<1>7. Types'
  BY <1>1, <1>4, <1>6 DEF IInv, Types, PoolType, ListenType, MainType, WorkerType, HistoryType,
                          listenVars, poolVars, Handled
<1> QED
  BY <1>1, <1>5, <1>7, MainMovesOn

LEMMA CloseCountStep ==
  ASSUME IInv, CloseCount
  PROVE  IInv'
<1>1. /\ mainpc = "count--" /\ Handled /\ UNCHANGED <<sock, users, events, sockfd, workerpc, reused, refused, abandoned>>
      /\ UNCHANGED poolVars /\ UNCHANGED listenVars
  BY DEF CloseCount, kernelVars
<1>2. CountType'
  BY StoreType DEF CloseCount, Callers, IInv
<1>3. Types'
  BY <1>1, <1>2 DEF IInv, Types, Data, SocketsOK, ObjectsOK, RoomLeft, PoolType, ListenType, MainType, WorkerType, HistoryType,
                    listenVars, poolVars, Handled
<1> QED
  BY <1>1, <1>3, MainMovesOn

LEMMA AppendQueue ==
  ASSUME NEW q \in Seq(FDs), NEW x \in FDs
  PROVE  /\ DOMAIN q = 1 .. Len(q) /\ DOMAIN Append(q, x) = 1 .. Len(q) + 1 /\ Len(q) \in Nat
         /\ Append(q, x) \in Seq(FDs) /\ Append(q, x)[Len(q) + 1] = x
         /\ \A k \in 1 .. Len(q) : Append(q, x)[k] = q[k]
OBVIOUS

LEMMA HandleAppendStep ==
  ASSUME IInv, HandleAppend
  PROVE  IInv'
<1>1. /\ mainpc = "append" /\ Handled /\ UNCHANGED <<sock, users, events, sockfd, workerpc, reused>>
      /\ UNCHANGED listenVars /\ UNCHANGED <<loaded, lost, m_user_count, abandoned, serving, closed>>
  BY DEF HandleAppend, kernelVars, poolVars, Submit
<1>2. sockfd \in FDs /\ pending \in Seq(FDs)
  BY DEF IInv, Types, MainType, PoolType
<1>3. \A g \in FDs : (EventFor(g)' <=> EventFor(g)) /\ (InMain(g) <=> g = sockfd) /\ ~InMain(g)'
  BY <1>1 DEF EventFor, InMain, Handled
<1>4. MainType' /\ Data(sock, users)'
  BY <1>1 DEF Handled, IInv, Types, MainType, Data, SocketsOK, ObjectsOK, RoomLeft
<1>5. Threads'
  BY <1>1 DEF Handled, IInv, Threads
<1>6. CASE refused' = refused \cup {sockfd} /\ UNCHANGED poolVars
  <2>1. Types'
    BY <1>1, <1>2, <1>4, <1>6 DEF IInv, Types, PoolType, ListenType, WorkerType, CountType, HistoryType,
                                  listenVars, poolVars
  <2>2. KnownInv'
    BY <1>1, <1>3, <1>6, KnownByMain DEF IInv, KnownInv, Armed, poolVars
  <2>3. ASSUME NEW g \in FDs, g \notin reused PROVE Good(g)'
    <3>1. Good(g)
      BY <2>3 DEF IInv, OwnerInv
    <3>2. CASE g # sockfd
      BY <3>1, <3>2, <1>1, <1>3, <1>6, KeptByMain DEF Armed, poolVars
    <3>3. CASE g = sockfd
      <4>1. /\ sock[g].open /\ ~Queued(g) /\ ~Armed(g) /\ ~EventFor(g) /\ ~Served(g)
            /\ users[g].m_sockfd = g /\ sock[g].interest # "none"
        BY <3>1, <3>3, <1>1, <1>3 DEF Good, OneKind, OpenOwned, ClosedLeft
      <4>2. ~Owned(g)' /\ g \in refused'
        BY <3>3, <4>1, <1>1, <1>3, <1>6 DEF Owned, Armed, Queued, Served, poolVars
      <4>3. OneKind(g)' /\ OneOfKind(g)' /\ AtWorker(g)' /\ ClosedLeft(g)'
        BY <3>1, <4>1, <4>2, <1>1, <1>6
        DEF Good, OneKind, OneOfKind, ClosedLeft, AtWorker, Owned, Served, poolVars
      <4> QED
        BY <4>1, <4>2, <4>3, <1>1 DEF Good, OpenOwned, Stranded
    <3> QED  BY <3>2, <3>3
  <2> QED
    BY <1>1, <1>5, <2>1, <2>2, <2>3 DEF IInv, OwnerInv
<1>7. CASE pending' = Append(pending, sockfd) /\ refused' = refused
  <2>1. /\ DOMAIN pending = 1 .. Len(pending) /\ DOMAIN pending' = 1 .. Len(pending) + 1 /\ Len(pending) \in Nat
        /\ pending' \in Seq(FDs) /\ pending'[Len(pending) + 1] = sockfd
        /\ \A k \in 1 .. Len(pending) : pending'[k] = pending[k]
    BY <1>2, <1>7, AppendQueue
  <2>2. Types'
    BY <1>1, <1>4, <1>7, <2>1 DEF IInv, Types, PoolType, ListenType, WorkerType, CountType, HistoryType,
                                  listenVars
  <2>3. \A k \in DOMAIN pending' : k \in DOMAIN pending \/ k = Len(pending) + 1
    BY <2>1
  <2>4. /\ Queued(sockfd)'
        /\ \A g \in FDs : g # sockfd => (Queued(g)' <=> Queued(g))
    <3>1. Len(pending) + 1 \in DOMAIN pending' /\ DOMAIN pending \subseteq DOMAIN pending'
      BY <2>1
    <3>2. Queued(sockfd)'
      BY <1>1, <2>1, <3>1 DEF Queued
    <3>3. ASSUME NEW g \in FDs, g # sockfd, Queued(g) PROVE Queued(g)'
      BY <2>1, <3>1, <3>3 DEF Queued
    <3>4. ASSUME NEW g \in FDs, g # sockfd, Queued(g)' PROVE Queued(g)
      <4>1. PICK k \in DOMAIN pending' : pending'[k] = g
        BY <3>4 DEF Queued
      <4>2. k \in DOMAIN pending /\ pending[k] = g
        BY <2>1, <2>3, <3>4, <4>1
      <4> QED  BY <4>2 DEF Queued
    <3> QED  BY <3>2, <3>3, <3>4
  <2>5. \A g \in FDs : (Served(g)' <=> Served(g)) /\ (Armed(g)' <=> Armed(g))
    BY <1>1 DEF Served, Armed
  <2>6. ASSUME NEW g \in FDs PROVE Known(g)'
    <3>1. Owned(g)' => Owned(g)
      BY <1>3, <2>4, <2>5 DEF Owned
    <3> QED
      BY <3>1, <1>1 DEF IInv, KnownInv, Known
  <2>7. ASSUME NEW g \in FDs, g \notin reused PROVE Good(g)'
    <3>1. Good(g)
      BY <2>7 DEF IInv, OwnerInv
    <3>2. AtWorker(g)'
      BY <3>1, <1>1 DEF Good, AtWorker
    <3>3. CASE g # sockfd
      <4>1. OneOfKind(g)'
        BY <3>1, <3>3, <1>1, <2>1, <2>3 DEF Good, OneOfKind
      <4> QED
        BY <3>1, <3>2, <3>3, <4>1, <1>1, <1>3, <1>7, <2>4, <2>5
        DEF Good, OneKind, OpenOwned, Stranded, ClosedLeft, Owned
    <3>4. CASE g = sockfd
      <4>1. /\ sock[g].open /\ ~Queued(g) /\ ~Armed(g) /\ ~EventFor(g) /\ ~Served(g)
            /\ users[g].m_sockfd = g /\ sock[g].interest # "none" /\ g \notin refused
        BY <3>1, <3>4, <1>1, <1>3 DEF Good, OneKind, OpenOwned, Stranded, ClosedLeft, Owned
      <4>2. OneOfKind(g)'
        BY <3>1, <3>4, <4>1, <1>1, <2>1, <2>3 DEF Good, OneOfKind, Queued
      <4> QED
        BY <3>2, <3>4, <4>1, <4>2, <1>1, <1>3, <1>7, <2>4, <2>5
        DEF Good, OneKind, OpenOwned, Stranded, ClosedLeft, Owned
    <3> QED  BY <3>3, <3>4
  <2> QED
    BY <1>1, <1>5, <1>7, <2>2, <2>6, <2>7 DEF IInv, KnownInv, OwnerInv
<1> QED
  BY <1>6, <1>7 DEF HandleAppend, Submit
-----------------------------------------------------------------------------
(* Steps of the clients                                                     *)

LEMMA KeptByClients ==
  ASSUME IInv, Types', UNCHANGED <<users, events, mainpc, sockfd, workerpc, reused, refused, pending, serving>>,
         \A g \in FDs : sock'[g].open = sock[g].open /\ sock'[g].interest = sock[g].interest
  PROVE  IInv'
<1>1. \A g \in FDs : (EventFor(g)' <=> EventFor(g)) /\ (InMain(g)' <=> InMain(g)) /\ (Armed(g)' <=> Armed(g))
  BY DEF EventFor, InMain, Armed
<1>2. Threads'
  BY DEF IInv, Threads
<1>3. KnownInv'
  BY <1>1, KnownByMain DEF IInv, KnownInv
<1>4. OwnerInv'
  BY <1>1, KeptByMain DEF IInv, OwnerInv
<1> QED
  BY <1>2, <1>3, <1>4 DEF IInv

LEMMA ConnectStep ==
  ASSUME IInv, ClientConnect
  PROVE  IInv'
<1>1. connects' \in 0 .. MaxConnects /\ backlog' \in 0 .. Backlog /\ listenEdge' \in BOOLEAN
  BY ServerAssumption DEF ClientConnect, IInv, Types, ListenType
<1>2. UNCHANGED <<sock, users, m_user_count, mainVars, workerpc, loaded, historyVars, poolVars>>
  BY DEF ClientConnect
<1>3. Types'
  BY <1>1, <1>2 DEF IInv, Types, Data, SocketsOK, ObjectsOK, RoomLeft, PoolType, ListenType, MainType, WorkerType,
                    CountType, HistoryType, mainVars, historyVars, poolVars
<1> QED
  BY <1>2, <1>3, KeptByClients DEF mainVars, historyVars, poolVars

LEMMA SocketStep ==
  ASSUME IInv, NEW fd \in FDs, ClientStep(fd) \/ ClientDrains(fd)
  PROVE  IInv'
<1>1. /\ sock[fd].open /\ sock \in [FDs -> Socket] /\ sock[fd] \in Socket /\ users[fd] \in Object
      /\ sock[fd].unread + users[fd].m_read_idx <= BufferSize
  BY DEF ClientStep, ClientDrains, IInv, Types, Data, SocketsOK, ObjectsOK, RoomLeft
<1>2. UNCHANGED <<listenVars, users, m_user_count, mainVars, workerpc, loaded, historyVars, poolVars>>
  BY DEF ClientStep, ClientDrains
<1>3. \E r \in Socket :
         /\ sock' = [sock EXCEPT ![fd] = r] /\ r.open = sock[fd].open /\ r.interest = sock[fd].interest
         /\ r.unread + users[fd].m_read_idx <= BufferSize
  <2>1. CASE sock' = [sock EXCEPT ![fd].unread = @ + 1] /\ sock[fd].unread + users[fd].m_read_idx < BufferSize
    <3> DEFINE n == sock[fd].unread + 1
               r == [sock[fd] EXCEPT !.unread = n]
    <3>1. n \in 0 .. BufferSize /\ n + users[fd].m_read_idx <= BufferSize
      BY <1>1, <2>1, ServerAssumption DEF Socket, Object
    <3>2. sock' = [sock EXCEPT ![fd] = r]
      BY <2>1
    <3>3. r \in Socket /\ r.unread = n /\ r.open = sock[fd].open /\ r.interest = sock[fd].interest
      BY <1>1, <3>1, UnreadChanged
    <3> HIDE DEF r, n
    <3> QED  BY <3>1, <3>2, <3>3
  <2>2. CASE sock' = [sock EXCEPT ![fd].hup = TRUE]
    <3> DEFINE r == [sock[fd] EXCEPT !.hup = TRUE]
    <3>1. sock' = [sock EXCEPT ![fd] = r]
      BY <2>2
    <3>2. r \in Socket /\ r.unread = sock[fd].unread /\ r.open = sock[fd].open /\ r.interest = sock[fd].interest
      BY <1>1 DEF Socket
    <3> HIDE DEF r
    <3> QED  BY <1>1, <3>1, <3>2
  <2>3. CASE sock' = [sock EXCEPT ![fd].writable = TRUE]
    <3> DEFINE r == [sock[fd] EXCEPT !.writable = TRUE]
    <3>1. sock' = [sock EXCEPT ![fd] = r]
      BY <2>3
    <3>2. r \in Socket /\ r.unread = sock[fd].unread /\ r.open = sock[fd].open /\ r.interest = sock[fd].interest
      BY <1>1 DEF Socket
    <3> HIDE DEF r
    <3> QED  BY <1>1, <3>1, <3>2
  <2> QED
    BY <2>1, <2>2, <2>3 DEF ClientStep, ClientDrains
<1>4. PICK r \in Socket :
         /\ sock' = [sock EXCEPT ![fd] = r] /\ r.open = sock[fd].open /\ r.interest = sock[fd].interest
         /\ r.unread + users[fd].m_read_idx <= BufferSize
  BY <1>3
<1>5. sock' \in [FDs -> Socket] /\ sock'[fd] = r /\ \A g \in FDs : g # fd => sock'[g] = sock[g]
  BY <1>1, <1>4
<1>6. SocketsOK(sock') /\ RoomLeft(sock', users)
  BY <1>1, <1>4, <1>5 DEF IInv, Types, Data, SocketsOK, RoomLeft
<1>7. Types'
  BY <1>2, <1>6 DEF IInv, Types, Data, SocketsOK, ObjectsOK, RoomLeft, PoolType, ListenType, MainType, WorkerType,
                    CountType, HistoryType, listenVars, mainVars, historyVars, poolVars
<1>8. \A g \in FDs : sock'[g].open = sock[g].open /\ sock'[g].interest = sock[g].interest
  BY <1>4, <1>5
<1> QED
  BY <1>2, <1>7, <1>8, KeptByClients DEF mainVars, historyVars, poolVars
-----------------------------------------------------------------------------
(* Steps of the workers                                                     *)

LEMMA KeptByWorker ==
  ASSUME NEW g \in FDs, NEW w \in Workers, Good(g), serving[w] # g, serving'[w] # g,
         \A v \in Workers : v # w => serving'[v] = serving[v] /\ workerpc'[v] = workerpc[v],
         UNCHANGED <<events, mainpc, sockfd>>, g \in refused' <=> g \in refused,
         (Queued(g)' <=> Queued(g)) /\ (Queued(g) => OneOfKind(g)'),
         sock'[g] = sock[g], users'[g].m_sockfd = users[g].m_sockfd
  PROVE  Good(g)'
<1>1. (EventFor(g)' <=> EventFor(g)) /\ (InMain(g)' <=> InMain(g)) /\ (Armed(g)' <=> Armed(g))
  BY DEF EventFor, InMain, Armed
<1>2. Served(g)' <=> Served(g)
  BY DEF Served
<1>3. OneKind(g)' /\ OpenOwned(g)' /\ Stranded(g)' /\ ClosedLeft(g)'
  BY <1>1, <1>2 DEF Good, OneKind, OpenOwned, Stranded, ClosedLeft, Owned
<1>4. OneOfKind(g)'
  BY DEF Good, OneOfKind, Queued
<1>5. AtWorker(g)'
  <2> SUFFICES ASSUME NEW v \in Workers, serving'[v] = g
               PROVE  /\ workerpc'[v] \in {"process", "arm in", "removefd"} => sock'[g].open
                      /\ workerpc'[v] \in {"forget", "load count", "count--"} => ~sock'[g].open
                      /\ workerpc'[v] \in {"load count", "count--"} => users'[g].m_sockfd = -1
                      /\ workerpc'[v] = "arm out" => sock'[g].open \/ users'[g].m_sockfd = -1
    BY DEF AtWorker
  <2>1. v # w /\ serving[v] = g /\ workerpc'[v] = workerpc[v]
    OBVIOUS
  <2> QED
    BY <2>1 DEF Good, AtWorker
<1> QED
  BY <1>3, <1>4, <1>5 DEF Good

(* A worker that goes on with its request.                                  *)
LEMMA StillServes ==
  ASSUME IInv, Types', NEW w \in Workers, NEW fd \in FDs, serving[w] = fd,
         NEW x \in {"process", "arm in", "arm out", "removefd", "forget", "load count", "count--"},
         workerpc' = [workerpc EXCEPT ![w] = x],
         UNCHANGED <<pending, serving, events, mainpc, sockfd, reused, refused>>,
         \A g \in FDs \ {fd} : sock'[g] = sock[g] /\ users'[g].m_sockfd = users[g].m_sockfd,
         users'[fd].m_sockfd \in {fd, -1},
         Good(fd) =>
            \/ /\ sock[fd].open /\ sock'[fd].open /\ sock'[fd].interest = sock[fd].interest
               /\ users'[fd].m_sockfd = fd /\ x \in {"process", "arm in", "arm out", "removefd"}
            \/ ~sock'[fd].open /\ x = "forget"
            \/ ~sock'[fd].open /\ users'[fd].m_sockfd = -1 /\ x \in {"load count", "count--", "arm out"}
  PROVE  IInv'
<1>1. /\ workerpc' \in [Workers -> {"idle", "process", "arm in", "arm out", "removefd",
                                     "forget", "load count", "count--"}]
      /\ workerpc'[w] = x /\ (\A v \in Workers : v # w => workerpc'[v] = workerpc[v]) /\ fd # NoRequest
  BY QueueAssumption DEF IInv, Types, WorkerType, FDs
<1>2. Threads'
  BY <1>1 DEF IInv, Threads
<1>3. \A g \in FDs : /\ (Queued(g)' <=> Queued(g)) /\ (Served(g)' <=> Served(g)) /\ (EventFor(g)' <=> EventFor(g))
                     /\ (InMain(g)' <=> InMain(g))
  BY DEF Queued, Served, EventFor, InMain
<1>4. ASSUME NEW g \in FDs PROVE Known(g)'
  <2>1. CASE g = fd
    BY <2>1 DEF Known
  <2>2. CASE g # fd
    BY <2>2, <1>3, KnownByMain DEF IInv, KnownInv, Armed
  <2> QED  BY <2>1, <2>2
<1>5. ASSUME NEW g \in FDs, g \notin reused PROVE Good(g)'
  <2>1. Good(g)
    BY <1>5 DEF IInv, OwnerInv
  <2>2. OneOfKind(g)'
    BY <2>1 DEF Good, OneOfKind
  <2>3. CASE g # fd
    BY <2>1, <2>2, <2>3, <1>1, <1>3, KeptByWorker
  <2>4. CASE g = fd
    <3>1. /\ Served(g) /\ ~Queued(g) /\ ~EventFor(g) /\ ~InMain(g) /\ ~Armed(g) /\ g \notin refused
          /\ \A v \in Workers : v # w => serving[v] # g
      BY <2>1, <2>4 DEF Good, OneKind, OneOfKind, Served, Stranded, Owned
    <3>2. ~Armed(g)'
      <4>1. sock'[g].open => sock'[g].interest = sock[g].interest
        BY <2>1, <2>4
      <4>2. ~sock'[g].open => sock'[g].interest = "none"
        <5>1. SocketsOK(sock')
          BY DEF Types, Data
        <5> QED
          BY <5>1, ClosedIsOff
      <4> QED
        BY <3>1, <4>1, <4>2 DEF Armed
    <3>3. OneKind(g)' /\ ClosedLeft(g)'
      BY <1>3, <3>1, <3>2 DEF OneKind, ClosedLeft
    <3>4. OpenOwned(g)'
      <4>1. sock[g].interest = "none" => ~sock[g].open
        BY <2>1, <3>1 DEF Good, OpenOwned, InMain
      <4> QED
        BY <2>1, <2>4, <1>3, <3>1, <4>1 DEF OpenOwned, Owned
    <3>5. AtWorker(g)'
      BY <2>1, <2>4, <1>1, <3>1 DEF AtWorker
    <3> QED
      BY <2>2, <3>1, <3>3, <3>4, <3>5 DEF Good, Stranded
  <2> QED  BY <2>3, <2>4
<1> QED
  BY <1>2, <1>4, <1>5 DEF IInv, KnownInv, OwnerInv

(* Where a worker is says what it serves and what it may assume.            *)
LEMMA WorkerServes ==
  ASSUME IInv, NEW w \in Workers, workerpc[w] # "idle"
  PROVE  /\ serving[w] \in FDs /\ users[serving[w]].m_sockfd \in {serving[w], -1}
         /\ users[serving[w]] \in Object /\ sock[serving[w]] \in Socket
         /\ Good(serving[w]) =>
               /\ (sock[serving[w]].open => /\ users[serving[w]].m_sockfd = serving[w]
                                            /\ sock[serving[w]].interest # "none")
               /\ workerpc[w] \in {"process", "arm in", "removefd"} => sock[serving[w]].open
               /\ workerpc[w] \in {"forget", "load count", "count--"} => ~sock[serving[w]].open
               /\ workerpc[w] \in {"load count", "count--"} => users[serving[w]].m_sockfd = -1
               /\ workerpc[w] = "arm out" => sock[serving[w]].open \/ users[serving[w]].m_sockfd = -1
<1>1. serving[w] \in FDs
  BY DEF IInv, Threads, Types, PoolType
<1>2. Served(serving[w])
  BY <1>1 DEF Served
<1>3. users[serving[w]].m_sockfd \in {serving[w], -1}
  BY <1>1, <1>2 DEF IInv, KnownInv, Known, Owned
<1>4. users[serving[w]] \in Object /\ sock[serving[w]] \in Socket
  BY <1>1 DEF IInv, Types, Data, ObjectsOK, SocketsOK
<1>5. Good(serving[w]) /\ sock[serving[w]].open =>
        users[serving[w]].m_sockfd = serving[w] /\ sock[serving[w]].interest # "none"
  BY <1>1, <1>2 DEF Good, OpenOwned, OneKind, InMain
<1>6. Good(serving[w]) =>
        /\ workerpc[w] \in {"process", "arm in", "removefd"} => sock[serving[w]].open
        /\ workerpc[w] \in {"forget", "load count", "count--"} => ~sock[serving[w]].open
        /\ workerpc[w] \in {"load count", "count--"} => users[serving[w]].m_sockfd = -1
        /\ workerpc[w] = "arm out" => sock[serving[w]].open \/ users[serving[w]].m_sockfd = -1
  BY DEF Good, AtWorker
<1> QED
  BY <1>1, <1>3, <1>4, <1>5, <1>6

LEMMA RespondObject ==
  ASSUME NEW r \in Object, NEW linger \in BOOLEAN, NEW mapped \in BOOLEAN
  PROVE  LET c == [r EXCEPT !.m_linger = linger, !.response = TRUE, !.m_file_address = mapped]
         IN  c \in Object /\ c.m_sockfd = r.m_sockfd /\ c.m_read_idx = r.m_read_idx
BY DEF Object

LEMMA RespondData ==
  ASSUME Data(sock, users), NEW w, NEW fd \in FDs, NEW outcome, NEW linger \in BOOLEAN,
         Respond(w, fd, outcome, linger)
  PROVE  /\ Data(sock, users') /\ users'[fd].m_sockfd = users[fd].m_sockfd
         /\ \A g \in FDs : g # fd => users'[g] = users[g]
<1> DEFINE mapped == users[fd].m_file_address \/ outcome # "error"
           r == [users[fd] EXCEPT !.m_linger = linger, !.response = TRUE, !.m_file_address = mapped]
<1>1. users[fd] \in Object /\ users \in [FDs -> Object] /\ mapped \in BOOLEAN
  BY DEF Data, ObjectsOK
<1>2. users' = [users EXCEPT ![fd] = r]
  BY <1>1 DEF Respond
<1> HIDE DEF mapped
<1>3. r \in Object /\ r.m_sockfd = users[fd].m_sockfd /\ r.m_read_idx = users[fd].m_read_idx
  BY <1>1, RespondObject
<1>4. users[fd].m_read_idx \in Int
  BY <1>1, ServerAssumption DEF Object
<1> HIDE DEF r
<1>5. r.m_read_idx <= users[fd].m_read_idx
  BY <1>3, <1>4
<1> DEFINE v == [users EXCEPT ![fd] = r]
<1>6. Data(sock, v) /\ v[fd] = r /\ \A g \in FDs : g # fd => v[g] = users[g]
  BY <1>3, <1>5, ObjectData
<1> HIDE DEF v
<1> QED
  BY <1>2, <1>3, <1>6 DEF v

LEMMA CutObject ==
  ASSUME NEW r \in Object, NEW cut \in BOOLEAN
  PROVE  LET c == [r EXCEPT !.body_cut = @ \/ cut]
         IN  /\ c \in Object /\ c.m_sockfd = r.m_sockfd /\ c.m_read_idx = r.m_read_idx
             /\ c.response = r.response /\ c.m_file_address = r.m_file_address
BY DEF Object

(* A read that ended inside the body leaves a note in the object, no more.  *)
LEMMA NoRequestData ==
  ASSUME Data(sock, users), NEW w, NEW fd \in FDs, NoRequestYet(w, fd)
  PROVE  /\ Data(sock, users') /\ users'[fd].m_sockfd = users[fd].m_sockfd
         /\ users'[fd].response = users[fd].response
         /\ users'[fd].m_file_address = users[fd].m_file_address
         /\ \A g \in FDs : g # fd => users'[g] = users[g]
<1>1. users[fd] \in Object /\ users \in [FDs -> Object]
  BY DEF Data, ObjectsOK
<1>2. users[fd].m_read_idx \in Int
  BY <1>1, ServerAssumption DEF Object
<1>3. PICK cut \in BOOLEAN : users' = [users EXCEPT ![fd].body_cut = @ \/ cut]
  BY <1>2 DEF NoRequestYet
<1> DEFINE r == [users[fd] EXCEPT !.body_cut = @ \/ cut]
<1>4. users' = [users EXCEPT ![fd] = r]
  BY <1>1, <1>3
<1>5. /\ r \in Object /\ r.m_sockfd = users[fd].m_sockfd /\ r.m_read_idx = users[fd].m_read_idx
      /\ r.response = users[fd].response /\ r.m_file_address = users[fd].m_file_address
  BY <1>1, CutObject
<1> HIDE DEF r
<1>6. r.m_read_idx <= users[fd].m_read_idx
  BY <1>2, <1>5
<1> DEFINE v == [users EXCEPT ![fd] = r]
<1>7. Data(sock, v) /\ v[fd] = r /\ \A g \in FDs : g # fd => v[g] = users[g]
  BY <1>5, <1>6, ObjectData
<1> HIDE DEF v
<1> QED
  BY <1>4, <1>5, <1>7 DEF v

(* A step to x that types allow.                                            *)
LEMMA WorkerTypes ==
  ASSUME Types, NEW w \in Workers,
         NEW x \in {"idle", "process", "arm in", "arm out", "removefd", "forget", "load count", "count--"},
         WorkerGoto(w, x), Data(sock', users'), PoolType', CountType', abandoned' \subseteq FDs,
         UNCHANGED <<listenVars, mainVars, reused, refused>>
  PROVE  Types'
BY DEF Types, WorkerGoto, ListenType, MainType, WorkerType, HistoryType, listenVars, mainVars

LEMMA ProcessStep ==
  ASSUME IInv, NEW w \in Workers, Process(w)
  PROVE  IInv'
<1> DEFINE fd == serving[w]
<1>1. workerpc[w] = "process" /\ UNCHANGED <<kernelVars, m_user_count, mainVars, loaded, reused, refused, lost, poolVars>>
  BY DEF Process
<1>2. /\ fd \in FDs /\ users[fd].m_sockfd \in {fd, -1} /\ users[fd] \in Object /\ Data(sock, users)
      /\ Good(fd) => sock[fd].open /\ users[fd].m_sockfd = fd
  BY <1>1, WorkerServes DEF IInv, Types
<1>3. \E x \in {"arm in", "arm out", "removefd"} :
         /\ WorkerGoto(w, x) /\ abandoned' \subseteq FDs /\ Data(sock, users') /\ users'[fd].m_sockfd = users[fd].m_sockfd
         /\ \A g \in FDs : g # fd => users'[g] = users[g]
  <2>1. CASE NoRequestYet(w, fd)
    <3>1. Data(sock, users') /\ users'[fd].m_sockfd = users[fd].m_sockfd /\ \A g \in FDs : g # fd => users'[g] = users[g]
      BY <1>2, <2>1, NoRequestData
    <3>2. WorkerGoto(w, "arm in") /\ abandoned' \subseteq FDs
      BY <2>1 DEF NoRequestYet, IInv, Types, HistoryType
    <3> QED
      BY <3>1, <3>2
  <2>2. CASE \E outcome \in {"file", "empty file", "error"}, linger \in BOOLEAN : Respond(w, fd, outcome, linger)
    <3>1. PICK outcome \in {"file", "empty file", "error"}, linger \in BOOLEAN : Respond(w, fd, outcome, linger)
      BY <2>2
    <3>2. Data(sock, users') /\ users'[fd].m_sockfd = users[fd].m_sockfd /\ \A g \in FDs : g # fd => users'[g] = users[g]
      BY <1>2, <3>1, RespondData
    <3>3. abandoned' \subseteq FDs /\ (WorkerGoto(w, "arm out") \/ WorkerGoto(w, "removefd"))
      BY <3>1 DEF Respond, IInv, Types, HistoryType
    <3> QED
      BY <3>2, <3>3
  <2> QED
    BY <2>1, <2>2 DEF Process
<1>4. PICK x \in {"arm in", "arm out", "removefd"} :
         /\ WorkerGoto(w, x) /\ abandoned' \subseteq FDs /\ Data(sock, users') /\ users'[fd].m_sockfd = users[fd].m_sockfd
         /\ \A g \in FDs : g # fd => users'[g] = users[g]
  BY <1>3
<1>5. sock' = sock /\ PoolType' /\ CountType'
  BY <1>1 DEF kernelVars, poolVars, IInv, Types, PoolType, CountType
<1>6. Types'
  BY <1>1, <1>4, <1>5, WorkerTypes DEF IInv, kernelVars
<1> QED
  BY <1>1, <1>2, <1>4, <1>5, <1>6, StillServes DEF WorkerGoto, mainVars, poolVars

LEMMA WorkerRemovefdStep ==
  ASSUME IInv, NEW w \in Workers, WorkerRemovefd(w)
  PROVE  IInv'
<1> DEFINE fd == serving[w]
<1>1. /\ workerpc[w] = "removefd"
      /\ UNCHANGED <<listenVars, users, m_user_count, mainVars, loaded, reused, refused, lost, poolVars>>
  BY DEF WorkerRemovefd
<1>2. /\ fd \in FDs /\ users[fd].m_sockfd \in {fd, -1} /\ Data(sock, users)
      /\ Good(fd) => sock[fd].open /\ users[fd].m_sockfd = fd
  BY <1>1, WorkerServes DEF IInv, Types
<1>3. fd # -1
  BY <1>2, ServerAssumption DEF FDs
<1>4. PoolType' /\ CountType'
  BY <1>1 DEF poolVars, IInv, Types, PoolType, CountType
<1>5. CASE users[fd].m_sockfd = -1
  <2>1. WorkerGoto(w, "arm out") /\ UNCHANGED <<sock, abandoned>>
    BY <1>1, <1>5 DEF WorkerRemovefd
  <2>2. Types'
    <3>1. Data(sock', users') /\ abandoned' \subseteq FDs
      BY <1>1, <2>1 DEF IInv, Types, HistoryType, Data, SocketsOK, ObjectsOK, RoomLeft
    <3> QED
      BY <1>1, <1>4, <2>1, <3>1, WorkerTypes DEF IInv
  <2>3. ~Good(fd)
    BY <1>2, <1>3, <1>5
  <2> QED
    BY <1>1, <1>2, <2>1, <2>2, <2>3, StillServes DEF WorkerGoto, mainVars, poolVars
<1>6. CASE users[fd].m_sockfd = fd
  <2>1. WorkerGoto(w, "forget") /\ sock' = removefd(sock, fd) /\ abandoned' = abandoned \cup {fd}
    BY <1>1, <1>3, <1>6 DEF WorkerRemovefd
  <2>2. SocketsOK(sock') /\ sock'[fd] = ClosedSocket /\ \A g \in FDs : g # fd => sock'[g] = sock[g]
    BY <1>2, <2>1, RemovefdData DEF Data
  <2>3. RoomLeft(sock', users')
    <3> SUFFICES ASSUME NEW g \in FDs PROVE sock'[g].unread + users'[g].m_read_idx <= BufferSize
      BY DEF RoomLeft
    <3>1. users[g] \in Object /\ sock[g].unread + users[g].m_read_idx <= BufferSize
      BY <1>2 DEF Data, ObjectsOK, RoomLeft
    <3>2. CASE g = fd
      BY <1>1, <2>2, <3>1, <3>2, ServerAssumption DEF ClosedSocket, Object
    <3>3. CASE g # fd
      BY <1>1, <2>2, <3>1, <3>3
    <3> QED  BY <3>2, <3>3
  <2>4. Data(sock', users') /\ abandoned' \subseteq FDs
    BY <1>1, <1>2, <2>1, <2>2, <2>3 DEF Data, IInv, Types, HistoryType
  <2>5. Types'
    BY <1>1, <1>4, <2>1, <2>4, WorkerTypes DEF IInv
  <2>6. ~sock'[fd].open
    BY <2>2 DEF ClosedSocket
  <2> QED
    BY <1>1, <1>2, <2>1, <2>2, <2>5, <2>6, StillServes DEF WorkerGoto, mainVars, poolVars
<1> QED
  BY <1>2, <1>5, <1>6

LEMMA WorkerForgetStep ==
  ASSUME IInv, NEW w \in Workers, WorkerForget(w)
  PROVE  IInv'
<1> DEFINE fd == serving[w]
           r == [users[fd] EXCEPT !.m_sockfd = -1]
<1>1. /\ workerpc[w] = "forget" /\ WorkerGoto(w, "load count") /\ users' = [users EXCEPT ![fd] = r]
      /\ UNCHANGED <<kernelVars, m_user_count, mainVars, loaded, historyVars, poolVars>>
  BY DEF WorkerForget
<1>2. /\ fd \in FDs /\ users[fd] \in Object /\ Data(sock, users)
      /\ Good(fd) => ~sock[fd].open
  BY <1>1, WorkerServes DEF IInv, Types
<1>3. r \in Object /\ r.m_sockfd = -1 /\ r.m_read_idx = users[fd].m_read_idx
  BY <1>2 DEF Object
<1> HIDE DEF r
<1>4. ObjectsOK(users')
  BY <1>1, <1>2, <1>3, ChangedObject DEF Data
<1>5. users'[fd] = r /\ \A g \in FDs : g # fd => users'[g] = users[g]
  BY <1>1, <1>2 DEF Data, ObjectsOK
<1>6. Data(sock, users')
  BY <1>2, <1>3, <1>4, <1>5 DEF Data, RoomLeft
<1>7. sock' = sock /\ PoolType' /\ CountType' /\ abandoned' \subseteq FDs
  BY <1>1 DEF kernelVars, historyVars, poolVars, IInv, Types, PoolType, CountType, HistoryType
<1>8. Types'
  BY <1>1, <1>6, <1>7, WorkerTypes DEF IInv, kernelVars, historyVars
<1>9. /\ users'[fd].m_sockfd = -1
      /\ \A g \in FDs \ {fd} : sock'[g] = sock[g] /\ users'[g].m_sockfd = users[g].m_sockfd
      /\ Good(fd) => ~sock'[fd].open
  BY <1>2, <1>3, <1>5, <1>7
<1>10. /\ workerpc' = [workerpc EXCEPT ![w] = "load count"]
       /\ UNCHANGED <<pending, serving, events, mainpc, sockfd, reused, refused>>
  BY <1>1 DEF WorkerGoto, mainVars, historyVars, poolVars
<1> QED
  BY <1>2, <1>8, <1>9, <1>10, StillServes

LEMMA WorkerLoadStep ==
  ASSUME IInv, NEW w \in Workers, WorkerLoad(w)
  PROVE  IInv'
<1>1. /\ workerpc[w] = "load count" /\ WorkerGoto(w, "count--") /\ loaded' = [loaded EXCEPT ![w] = m_user_count]
      /\ UNCHANGED <<kernelVars, users, m_user_count, mainVars, historyVars, poolVars>>
  BY DEF WorkerLoad, LoadCount
<1>2. /\ serving[w] \in FDs /\ users[serving[w]].m_sockfd \in {serving[w], -1}
      /\ Good(serving[w]) => ~sock[serving[w]].open /\ users[serving[w]].m_sockfd = -1
  BY <1>1, WorkerServes
<1>3. PoolType' /\ CountType' /\ abandoned' \subseteq FDs /\ Data(sock', users')
  BY <1>1 DEF kernelVars, historyVars, poolVars, IInv, Types, PoolType, CountType, HistoryType,
              Data, SocketsOK, ObjectsOK, RoomLeft
<1>4. Types'
  BY <1>1, <1>3, WorkerTypes DEF IInv, kernelVars, historyVars
<1> QED
  BY <1>1, <1>2, <1>4, StillServes DEF WorkerGoto, kernelVars, mainVars, historyVars, poolVars

LEMMA WorkerCountStep ==
  ASSUME IInv, NEW w \in Workers, WorkerCount(w)
  PROVE  IInv'
<1>1. /\ workerpc[w] = "count--" /\ WorkerGoto(w, "arm out") /\ StoreCount(w, -1)
      /\ UNCHANGED <<kernelVars, users, mainVars, reused, refused, abandoned, poolVars>>
  BY DEF WorkerCount
<1>2. /\ serving[w] \in FDs /\ users[serving[w]].m_sockfd \in {serving[w], -1}
      /\ Good(serving[w]) => ~sock[serving[w]].open /\ users[serving[w]].m_sockfd = -1
  BY <1>1, WorkerServes
<1>3. PoolType' /\ abandoned' \subseteq FDs /\ Data(sock', users')
  BY <1>1 DEF kernelVars, poolVars, IInv, Types, PoolType, HistoryType, Data, SocketsOK, ObjectsOK, RoomLeft
<1>4. CountType'
  BY <1>1, StoreType DEF IInv, Callers
<1>5. Types'
  BY <1>1, <1>3, <1>4, WorkerTypes DEF IInv, kernelVars
<1> QED
  BY <1>1, <1>2, <1>5, StillServes DEF WorkerGoto, kernelVars, mainVars, poolVars

(* The end of process(): the descriptor goes back to epoll.                 *)
LEMMA RearmStep ==
  ASSUME IInv, NEW w \in Workers, Rearm(w)
  PROVE  IInv'
<1> DEFINE fd == serving[w]
           n == users[fd].m_sockfd
<1>1. /\ workerpc[w] \in {"arm in", "arm out"} /\ WorkerGoto(w, "idle")
      /\ serving' = [serving EXCEPT ![w] = NoRequest] /\ UNCHANGED <<pending, closed>>
      /\ UNCHANGED <<listenVars, users, m_user_count, mainVars, loaded, historyVars>>
  BY DEF Rearm, Finish
<1>2. /\ fd \in FDs /\ n \in {fd, -1} /\ Data(sock, users) /\ SocketsOK(sock)
      /\ Good(fd) => /\ sock[fd].open => n = fd /\ sock[fd].interest # "none"
                     /\ ~sock[fd].open => n = -1
  BY <1>1, WorkerServes DEF IInv, Types, Data
<1>3. PICK ev \in {"in", "out"} : sock' = modfd(sock, n, ev)
  BY DEF Rearm
<1>4. Data(sock', users')
  <2>1. Data(modfd(sock, n, ev), users)
    BY <1>2, SocketData
  <2> QED
    BY <1>1, <1>3, <2>1
<1>5. /\ sock'[fd].open = sock[fd].open /\ \A g \in FDs : g # fd => sock'[g] = sock[g]
      /\ n = fd /\ sock[fd].interest # "none" => sock'[fd].interest = ev
      /\ n = -1 => sock' = sock
  <2> DEFINE t == modfd(sock, n, ev)
  <2>1. /\ t[fd].open = sock[fd].open /\ \A g \in FDs : g # fd => t[g] = sock[g]
        /\ n = fd /\ sock[fd].interest # "none" => t[fd].interest = ev
        /\ n = -1 => t = sock
    <3>1. fd \in FDs /\ n \in {fd, -1} /\ SocketsOK(sock)
      BY <1>2
    <3> HIDE DEF n, fd
    <3> QED
      BY <3>1, ModfdData
  <2> HIDE DEF t
  <2> QED
    BY <1>3, <2>1 DEF t
<1>6. serving' \in [Workers -> FDs \cup {NoRequest}] /\ serving'[w] = NoRequest
      /\ \A v \in Workers : v # w => serving'[v] = serving[v]
  BY <1>1 DEF IInv, Types, PoolType
<1>7. /\ workerpc'[w] = "idle" /\ \A v \in Workers : v # w => workerpc'[v] = workerpc[v]
  BY <1>1 DEF IInv, Types, WorkerType, WorkerGoto
<1>8. Types'
  <2>1. PoolType' /\ CountType' /\ abandoned' \subseteq FDs
    BY <1>1, <1>6 DEF historyVars, IInv, Types, PoolType, CountType, HistoryType
  <2> QED
    BY <1>1, <1>4, <2>1, WorkerTypes DEF IInv, historyVars
<1>9. Threads'
  BY <1>1, <1>6, <1>7 DEF IInv, Threads, mainVars
<1>10. \A g \in FDs : /\ (Queued(g)' <=> Queued(g)) /\ (Served(g)' => Served(g)) /\ (EventFor(g)' <=> EventFor(g))
                      /\ (InMain(g)' <=> InMain(g))
  BY <1>1, <1>6, QueueAssumption DEF Queued, Served, EventFor, InMain, mainVars, FDs
<1>11. ASSUME NEW g \in FDs PROVE Known(g)'
  <2>1. CASE g = fd
    BY <2>1, <1>1, <1>2 DEF Known
  <2>2. CASE g # fd
    <3>1. Armed(g)' <=> Armed(g)
      BY <2>2, <1>5 DEF Armed
    <3> QED
      BY <2>2, <1>1, <1>5, <1>10, <3>1 DEF IInv, KnownInv, Known, Owned
  <2> QED  BY <2>1, <2>2
<1>12. ASSUME NEW g \in FDs, g \notin reused PROVE Good(g)'
  <2>1. Good(g)
    BY <1>12 DEF IInv, OwnerInv
  <2>2. g # NoRequest
    BY QueueAssumption DEF FDs
  <2>3. OneOfKind(g)'
    BY <2>1, <2>2, <1>1, <1>6 DEF Good, OneOfKind
  <2>4. CASE g # fd
    BY <2>1, <2>2, <2>3, <2>4, <1>1, <1>5, <1>6, <1>7, <1>10, KeptByWorker DEF mainVars, historyVars
  <2>5. CASE g = fd
    <3>1. /\ Served(g) /\ ~Queued(g) /\ ~EventFor(g) /\ ~InMain(g) /\ g \notin refused
          /\ \A v \in Workers : v # w => serving[v] # g
      BY <2>1, <2>5 DEF Good, OneKind, OneOfKind, Served, Stranded, Owned
    <3>2. ~Served(g)'
      BY <2>2, <3>1, <1>6 DEF Served
    <3>3. sock'[g].open => Armed(g)' /\ sock'[g].interest # "none" /\ users'[g].m_sockfd = g
      BY <2>1, <2>5, <1>1, <1>2, <1>5 DEF Armed
    <3>4. AtWorker(g)'
      BY <3>2 DEF AtWorker, Served
    <3>5. OneKind(g)' /\ ClosedLeft(g)' /\ OpenOwned(g)'
      BY <1>10, <3>1, <3>2, <3>3 DEF OneKind, ClosedLeft, OpenOwned, Owned
    <3> QED
      BY <2>3, <3>1, <3>4, <3>5, <1>1 DEF Good, Stranded, historyVars
  <2> QED  BY <2>4, <2>5
<1> QED
  BY <1>1, <1>8, <1>9, <1>11, <1>12 DEF IInv, KnownInv, OwnerInv, historyVars

LEMMA TailQueue ==
  ASSUME NEW q \in Seq(FDs), q # <<>>
  PROVE  /\ DOMAIN q = 1 .. Len(q) /\ Len(q) \in Nat \ {0} /\ Head(q) = q[1] /\ q[1] \in FDs
         /\ Tail(q) \in Seq(FDs) /\ DOMAIN Tail(q) = 1 .. Len(q) - 1
         /\ \A k \in 1 .. Len(q) - 1 : Tail(q)[k] = q[k + 1]
OBVIOUS

(* A worker takes the next request: its descriptor is now served, and no    *)
(* longer queued, for it was queued once.                                   *)
LEMMA BeginStep ==
  ASSUME IInv, NEW w \in Workers, Begin(w)
  PROVE  IInv'
<1> DEFINE fd == Head(pending)
<1>1. /\ serving[w] = NoRequest /\ pending # <<>> /\ serving' = [serving EXCEPT ![w] = fd] /\ pending' = Tail(pending)
      /\ closed' = closed /\ WorkerGoto(w, "process")
      /\ UNCHANGED <<kernelVars, users, m_user_count, mainVars, loaded, historyVars>>
  BY DEF Begin, Start
<1>2. /\ DOMAIN pending = 1 .. Len(pending) /\ Len(pending) \in Nat \ {0} /\ fd = pending[1] /\ fd \in FDs
      /\ pending' \in Seq(FDs) /\ DOMAIN pending' = 1 .. Len(pending) - 1
      /\ \A k \in 1 .. Len(pending) - 1 : pending'[k] = pending[k + 1]
  BY <1>1, TailQueue DEF IInv, Types, PoolType
<1>3. Queued(fd) /\ fd # NoRequest
  BY <1>2, QueueAssumption DEF Queued, FDs
<1> HIDE DEF fd
<1>4. serving' \in [Workers -> FDs \cup {NoRequest}] /\ serving'[w] = fd
      /\ \A v \in Workers : v # w => serving'[v] = serving[v]
  BY <1>1, <1>2 DEF IInv, Types, PoolType
<1>5. workerpc'[w] = "process" /\ \A v \in Workers : v # w => workerpc'[v] = workerpc[v]
  BY <1>1 DEF IInv, Types, WorkerType, WorkerGoto
<1>6. Types'
  <2>1. PoolType' /\ CountType' /\ abandoned' \subseteq FDs /\ Data(sock', users')
    BY <1>1, <1>2, <1>4 DEF kernelVars, historyVars, IInv, Types, PoolType, CountType, HistoryType,
                            Data, SocketsOK, ObjectsOK, RoomLeft
  <2> QED
    BY <1>1, <2>1, WorkerTypes DEF IInv, kernelVars, historyVars
<1>7. Threads'
  BY <1>1, <1>3, <1>4, <1>5 DEF IInv, Threads, mainVars
<1>8. \A k \in DOMAIN pending' : k + 1 \in DOMAIN pending /\ pending'[k] = pending[k + 1] /\ k \in Int
  BY <1>2
<1>9. \A k \in DOMAIN pending : k = 1 \/ (k - 1 \in DOMAIN pending' /\ pending'[k - 1] = pending[k])
  <2> SUFFICES ASSUME NEW k \in DOMAIN pending, k # 1
               PROVE  k - 1 \in DOMAIN pending' /\ pending'[k - 1] = pending[k]
    OBVIOUS
  <2>1. k \in 1 .. Len(pending) /\ k - 1 \in 1 .. Len(pending) - 1 /\ (k - 1) + 1 = k
    BY <1>2
  <2> QED
    BY <1>2, <2>1
<1>10. \A g \in FDs : g # fd => (Queued(g)' <=> Queued(g))
  BY <1>2, <1>8, <1>9 DEF Queued
<1>11. \A g \in FDs : Queued(g)' => Queued(g)
  BY <1>8 DEF Queued
<1>12. /\ \A g \in FDs : (EventFor(g)' <=> EventFor(g)) /\ (InMain(g)' <=> InMain(g)) /\ (Armed(g)' <=> Armed(g))
       /\ \A g \in FDs : g # fd => (Served(g)' <=> Served(g))
       /\ \E v \in Workers : serving'[v] = fd
  <2>1. \A g \in FDs : (EventFor(g)' <=> EventFor(g)) /\ (InMain(g)' <=> InMain(g)) /\ (Armed(g)' <=> Armed(g))
    BY <1>1 DEF EventFor, InMain, Armed, mainVars, kernelVars
  <2>2. ASSUME NEW g \in FDs, g # fd PROVE Served(g)' <=> Served(g)
    <3>1. g # NoRequest
      BY QueueAssumption DEF FDs
    <3> QED
      BY <2>2, <3>1, <1>1, <1>4 DEF Served
  <2>3. \E v \in Workers : serving'[v] = fd
    BY <1>4
  <2> QED
    BY <2>1, <2>2, <2>3 DEF Served
<1>13. ASSUME NEW g \in FDs PROVE Known(g)'
  <2>1. Owned(g)' => Owned(g)
    BY <1>3, <1>11, <1>12 DEF Owned
  <2> QED
    BY <2>1, <1>1 DEF IInv, KnownInv, Known, kernelVars
<1>14. ASSUME NEW g \in FDs, g \notin reused PROVE Good(g)'
  <2>1. Good(g) /\ g # NoRequest
    BY <1>14, QueueAssumption DEF IInv, OwnerInv, FDs
  <2>2. \A k, l \in DOMAIN pending' : pending'[k] = g /\ pending'[l] = g => k = l
    <3> SUFFICES ASSUME NEW k \in DOMAIN pending', NEW l \in DOMAIN pending', pending'[k] = g, pending'[l] = g
                 PROVE  k = l
      OBVIOUS
    <3>1. k + 1 = l + 1
      BY <2>1, <1>8 DEF Good, OneOfKind
    <3> QED
      BY <3>1, <1>8
  <2>3. CASE g # fd
    <3>1. OneOfKind(g)'
      BY <2>1, <2>2, <2>3, <1>1, <1>4 DEF Good, OneOfKind
    <3>2. serving[w] # g /\ serving'[w] # g
      BY <2>1, <2>3, <1>1, <1>4
    <3> QED
      BY <2>1, <2>3, <3>1, <3>2, <1>1, <1>4, <1>5, <1>10, KeptByWorker DEF mainVars, historyVars, kernelVars
  <2>4. CASE g = fd
    <3>1. ~Served(g) /\ ~EventFor(g) /\ ~InMain(g) /\ ~Armed(g) /\ sock[g].open /\ users[g].m_sockfd = g
          /\ sock[g].interest # "none" /\ g \notin refused
      BY <2>1, <2>4, <1>3 DEF Good, OneKind, ClosedLeft, OpenOwned, InMain, Stranded, Owned
    <3>2. ~Queued(g)'
      <4> SUFFICES ASSUME NEW k \in DOMAIN pending', pending'[k] = g PROVE FALSE
        BY DEF Queued
      <4>1. k + 1 = 1
        BY <2>1, <2>4, <1>2, <1>8 DEF Good, OneOfKind
      <4> QED
        BY <4>1, <1>2
    <3>3. OneOfKind(g)'
      BY <2>2, <3>1, <1>4 DEF OneOfKind, Served
    <3>4. AtWorker(g)'
      BY <3>1, <1>1, <1>4, <1>5 DEF AtWorker, Served, kernelVars
    <3>5. Served(g)' /\ ~EventFor(g)' /\ ~InMain(g)' /\ ~Armed(g)'
      BY <2>4, <3>1, <1>12, <1>4 DEF Served
    <3>6. OneKind(g)' /\ ClosedLeft(g)' /\ OpenOwned(g)'
      BY <3>1, <3>2, <3>5, <1>1 DEF OneKind, ClosedLeft, OpenOwned, Owned, kernelVars
    <3> QED
      BY <3>1, <3>3, <3>4, <3>6, <1>1 DEF Good, Stranded, historyVars
  <2> QED  BY <2>3, <2>4
<1> QED
  BY <1>1, <1>6, <1>7, <1>13, <1>14 DEF IInv, KnownInv, OwnerInv, historyVars
-----------------------------------------------------------------------------
LEMMA InitIInv == Init => IInv
<1> SUFFICES ASSUME Init PROVE IInv
  OBVIOUS
<1>1. Types
  <2>1. ClosedSocket \in Socket /\ FreshObject \in Object /\ main \in Callers
    BY ServerAssumption DEF ClosedSocket, FreshObject, Socket, Object, Callers
  <2>2. SocketsOK(sock)
    BY <2>1 DEF Init, SocketsOK
  <2>3. ObjectsOK(users)
    BY <2>1 DEF Init, ObjectsOK, FreshObject
  <2>4. RoomLeft(sock, users)
    BY ServerAssumption DEF Init, RoomLeft, ClosedSocket, FreshObject
  <2>5. sockfd \in FDs
    BY LowestFree, ServerAssumption DEF Init
  <2> QED
    <3>1. Data(sock, users) /\ CountType
      BY <2>1, <2>2, <2>3, <2>4 DEF Init, Data, CountType
    <3>2. ListenType
      <4>1. MaxConnects \in Nat /\ Backlog \in Nat
        BY ServerAssumption
      <4>2. connects = 0 /\ backlog = 0 /\ listenEdge = FALSE
        BY DEF Init
      <4>3. connects \in 0 .. MaxConnects
        BY <4>1, <4>2
      <4>4. backlog \in 0 .. Backlog
        BY <4>1, <4>2
      <4>5. listenEdge \in BOOLEAN
        BY <4>2
      <4> QED
        BY <4>3, <4>4, <4>5 DEF ListenType
    <3>3. PoolType
      BY DEF Init, QueueInit, PoolType
    <3>4. MainType /\ WorkerType /\ HistoryType
      BY <2>5 DEF Init, MainType, WorkerType, HistoryType
    <3> QED
      BY <3>1, <3>2, <3>3, <3>4 DEF Types
<1>2. Threads
  BY DEF Init, QueueInit, Threads
<1>3. \A g \in FDs : ~sock[g].open /\ ~Armed(g) /\ ~EventFor(g) /\ ~InMain(g) /\ ~Queued(g) /\ ~Served(g)
  BY QueueAssumption DEF Init, QueueInit, ClosedSocket, Armed, EventFor, InMain, Queued, Served, FDs
<1>4. KnownInv
  BY <1>3 DEF KnownInv, Known, Owned
<1>5. OwnerInv
  BY <1>3 DEF Init, OwnerInv, Good, OneKind, OneOfKind, OpenOwned, Stranded, ClosedLeft, AtWorker, Queued, Served
<1> QED
  BY <1>1, <1>2, <1>4, <1>5 DEF IInv

LEMMA Stutter ==
  ASSUME IInv, UNCHANGED vars
  PROVE  IInv'
<1>1. UNCHANGED <<connects, backlog, listenEdge, sock, users, m_user_count, events, mainpc, sockfd, workerpc,
                  loaded, reused, refused, lost, abandoned, pending, serving, closed>>
  BY DEF vars, kernelVars, listenVars, mainVars, historyVars, poolVars
<1>2. Types'
  BY <1>1 DEF IInv, Types, Data, SocketsOK, ObjectsOK, RoomLeft, PoolType, ListenType, MainType, WorkerType,
              CountType, HistoryType
<1> QED
  BY <1>1, <1>2, KeptByClients

LEMMA EventHandler ==
  ASSUME IInv, NEW fd \in FDs, HandleHangUp(fd) \/ HandleIn(fd) \/ HandleOut(fd)
  PROVE  /\ EventFor(fd) /\ Handler(fd) /\ \E ev \in {"in", "out", "hup"} : Take(fd, ev)
         /\ UNCHANGED <<listenVars, m_user_count, workerpc, reused, refused, lost, poolVars>>
<1>1. PICK ev \in {"in", "out", "hup"} : Take(fd, ev)
  BY DEF HandleHangUp, HandleIn, HandleOut
<1>2. UNCHANGED <<listenVars, m_user_count, workerpc, reused, refused, lost, poolVars>>
  BY DEF HandleHangUp, HandleIn, HandleOut
<1>3. EventFor(fd)
  BY <1>1 DEF Take, EventFor
<1>4. users[fd].m_sockfd \in {fd, -1}
  BY <1>3 DEF IInv, KnownInv, Known, Owned
<1>5. Handler(fd)
  BY <1>4, HangUp, In, Out DEF IInv
<1> QED
  BY <1>1, <1>2, <1>3, <1>5

LEMMA EventStep ==
  ASSUME IInv, NEW fd \in FDs, HandleHangUp(fd) \/ HandleIn(fd) \/ HandleOut(fd)
  PROVE  IInv'
BY EventHandler, HandlerStep

LEMMA Inductive == IInv /\ [Next]_vars => IInv'
<1> SUFFICES ASSUME IInv, [Next]_vars PROVE IInv'
  OBVIOUS
<1>1. ASSUME NEW w \in Workers, WorkerStep(w) PROVE IInv'
  BY <1>1, BeginStep, ProcessStep, RearmStep, WorkerRemovefdStep, WorkerForgetStep, WorkerLoadStep, WorkerCountStep
  DEF WorkerStep
<1>2. CASE MainStep
  BY <1>2, EpollWaitStep, AcceptStep, InitAddfdStep, InitCountStep, CloseCountStep, HandleAppendStep, EventStep
  DEF MainStep
<1> QED
  BY <1>1, <1>2, ConnectStep, SocketStep, Stutter DEF Next

(* The buffers never hold more than READ_BUFFER_SIZE, and an object's       *)
(* m_sockfd is its own index, -1, or the 0 it was created with.             *)
THEOREM TypeCorrect == Spec => []TypeOK
<1>1. IInv => TypeOK
  BY TypesSuffice DEF IInv
<1> QED
  BY <1>1, InitIInv, Inductive, PTL DEF Spec

(* Exactly one kind of owner, and one of its kind: the sum is 1.            *)
LEMMA OwnersCount ==
  ASSUME IInv
  PROVE  ExactlyOneOwner
<1> SUFFICES ASSUME NEW fd \in FDs, fd \notin reused, fd \notin refused, sock[fd].open
             PROVE  Owners(fd) = 1
  BY DEF ExactlyOneOwner
<1> DEFINE A == {x \in {"epoll"} : Armed(fd)}
           E == {e \in events : e.ev # "accept" /\ e.fd = fd}
           M == {x \in {main} : sockfd = fd /\ mainpc \in {"append", "addfd"}}
           Q == {k \in DOMAIN pending : pending[k] = fd}
           S == {w \in Workers : serving[w] = fd}
<1>1. OneKind(fd) /\ OneOfKind(fd) /\ Owned(fd)
  BY DEF IInv, OwnerInv, Good, OpenOwned
<1>2. ASSUME NEW X, NEW x, X = {x} PROVE Cardinality(X) = 1
  BY <1>2, FS_Singleton
<1>3. Cardinality({}) = 0
  BY FS_EmptySet
<1>4. (Armed(fd) => A = {"epoll"}) /\ (~Armed(fd) => A = {})
  OBVIOUS
<1>5. (EventFor(fd) => \E x : E = {x}) /\ (~EventFor(fd) => E = {})
  <2>1. \A e, f \in E : e = f
    BY DEF IInv, Threads
  <2> QED
    BY <2>1 DEF EventFor
<1>6. (InMain(fd) => M = {main}) /\ (~InMain(fd) => M = {})
  BY DEF InMain
<1>7. (Queued(fd) => \E x : Q = {x}) /\ (~Queued(fd) => Q = {})
  BY <1>1 DEF Queued, OneOfKind
<1>8. (Served(fd) => \E x : S = {x}) /\ (~Served(fd) => S = {})
  BY <1>1 DEF Served, OneOfKind
<1>9. Owners(fd) = Cardinality(A) + Cardinality(E) + Cardinality(M) + Cardinality(Q) + Cardinality(S)
  BY DEF Owners
<1> HIDE DEF A, E, M, Q, S
<1>10. CASE Armed(fd)
  <2>1. Cardinality(A) = 1 /\ E = {} /\ M = {} /\ Q = {} /\ S = {}
    BY <1>1, <1>2, <1>4, <1>5, <1>6, <1>7, <1>8, <1>10 DEF OneKind
  <2> QED  BY <2>1, <1>3, <1>9
<1>11. CASE EventFor(fd)
  <2>1. A = {} /\ Cardinality(E) = 1 /\ M = {} /\ Q = {} /\ S = {}
    BY <1>1, <1>2, <1>4, <1>5, <1>6, <1>7, <1>8, <1>11 DEF OneKind
  <2> QED  BY <2>1, <1>3, <1>9
<1>12. CASE InMain(fd)
  <2>1. A = {} /\ E = {} /\ Cardinality(M) = 1 /\ Q = {} /\ S = {}
    BY <1>1, <1>2, <1>4, <1>5, <1>6, <1>7, <1>8, <1>12 DEF OneKind
  <2> QED  BY <2>1, <1>3, <1>9
<1>13. CASE Queued(fd)
  <2>1. A = {} /\ E = {} /\ M = {} /\ Cardinality(Q) = 1 /\ S = {}
    BY <1>1, <1>2, <1>4, <1>5, <1>6, <1>7, <1>8, <1>13 DEF OneKind
  <2> QED  BY <2>1, <1>3, <1>9
<1>14. CASE Served(fd)
  <2>1. A = {} /\ E = {} /\ M = {} /\ Q = {} /\ Cardinality(S) = 1
    BY <1>1, <1>2, <1>4, <1>5, <1>6, <1>7, <1>8, <1>14 DEF OneKind
  <2> QED  BY <2>1, <1>3, <1>9
<1> QED
  BY <1>1, <1>10, <1>11, <1>12, <1>13, <1>14 DEF Owned

(* EPOLLONESHOT at work (53-73, 448-484): however main, epoll and any number*)
(* of workers interleave, an open connection has one owner, unless its      *)
(* descriptor was given out too early or its request refused.               *)
THEOREM OneOwner == Spec => []ExactlyOneOwner
BY OwnersCount, InitIInv, Inductive, PTL DEF Spec
-----------------------------------------------------------------------------
(* The count: what main and the workers have opened or closed and not yet   *)
(* counted makes up for the difference.                                     *)
One(P) == IF P THEN 1 ELSE 0
OpenFds == {fd \in FDs : sock[fd].open}
Closers == {w \in Workers : workerpc[w] \in {"forget", "load count", "count--"}}
Balanced ==
    m_user_count + One(mainpc \in {"addfd", "count++"})
    = Cardinality(OpenFds) + One(mainpc = "count--") + Cardinality(Closers)
CountInv == lost = 0 /\ reused = {} => Balanced

LEMMA CountSuffices == CountInv => UserCountExact
<1>1. \A S : (S = {main} => Cardinality(S) = 1) /\ (S = {} => Cardinality(S) = 0)
  BY FS_Singleton, FS_EmptySet
<1>2. Cardinality({x \in {main} : mainpc \in {"addfd", "count++"}}) = One(mainpc \in {"addfd", "count++"})
  <2> DEFINE S == {x \in {main} : mainpc \in {"addfd", "count++"}}
  <2>1. IF mainpc \in {"addfd", "count++"} THEN S = {main} ELSE S = {}
    OBVIOUS
  <2> HIDE DEF S
  <2>2. Cardinality(S) = One(mainpc \in {"addfd", "count++"})
    BY <1>1, <2>1 DEF One
  <2> QED  BY <2>2 DEF S
<1>3. Cardinality({x \in {main} : mainpc = "count--"}) = One(mainpc = "count--")
  <2> DEFINE S == {x \in {main} : mainpc = "count--"}
  <2>1. IF mainpc = "count--" THEN S = {main} ELSE S = {}
    OBVIOUS
  <2> HIDE DEF S
  <2>2. Cardinality(S) = One(mainpc = "count--")
    BY <1>1, <2>1 DEF One
  <2> QED  BY <2>2 DEF S
<1> QED
  BY <1>2, <1>3 DEF CountInv, Balanced, UserCountExact, OpenFds, Closers

LEMMA CardinalityPlus ==
  ASSUME NEW U, IsFiniteSet(U), NEW S, S \subseteq U, NEW x \in U, x \notin S
  PROVE  /\ Cardinality(S \cup {x}) = Cardinality(S) + 1
         /\ Cardinality(S) \in Nat
<1>1. IsFiniteSet(S)
  BY FS_Subset
<1> QED
  BY <1>1, FS_AddElement, FS_CardinalityType

(* lost and reused only grow.                                               *)
LEMMA HistoryGrows ==
  ASSUME IInv, [Next]_vars, lost' = 0, reused' = {}
  PROVE  lost = 0 /\ reused = {}
<1>1. lost \in Nat
  BY DEF IInv, Types, CountType
<1>2. ASSUME NEW t, NEW d, StoreCount(t, d) PROVE lost = 0
  BY <1>1, <1>2 DEF StoreCount
<1>3. CASE Accept
  BY <1>3 DEF Accept
<1>4. CASE InitCount \/ CloseCount \/ \E w \in Workers : WorkerCount(w)
  <2>1. reused' = reused /\ \E t, d : StoreCount(t, d)
    BY <1>4 DEF InitCount, CloseCount, WorkerCount
  <2> QED
    BY <2>1, <1>2
<1>5. CASE UNCHANGED <<lost, reused>>
  BY <1>5
<1>6. UNCHANGED vars => UNCHANGED <<lost, reused>>
  BY DEF vars, historyVars
<1>7. ClientConnect => UNCHANGED <<lost, reused>>
  BY DEF ClientConnect, historyVars
<1>8. ASSUME NEW fd \in FDs
      PROVE  ClientStep(fd) \/ ClientDrains(fd) \/ HandleHangUp(fd) \/ HandleIn(fd) \/ HandleOut(fd)
                => UNCHANGED <<lost, reused>>
  BY DEF ClientStep, ClientDrains, HandleHangUp, HandleIn, HandleOut, historyVars
<1>9. EpollWait \/ InitAddfd \/ HandleAppend => UNCHANGED <<lost, reused>>
  BY DEF EpollWait, InitAddfd, HandleAppend, historyVars
<1>10. ASSUME NEW w \in Workers
       PROVE  Begin(w) \/ Process(w) \/ Rearm(w) \/ WorkerRemovefd(w) \/ WorkerForget(w) \/ WorkerLoad(w)
                 => UNCHANGED <<lost, reused>>
  BY DEF Begin, Process, Rearm, WorkerRemovefd, WorkerForget, WorkerLoad, historyVars
<1> QED
  BY <1>3, <1>4, <1>5, <1>6, <1>7, <1>8, <1>9, <1>10 DEF Next, MainStep, WorkerStep

(* A step that opens, closes and counts nothing.                            *)
LEMMA SameCount ==
  ASSUME Balanced, m_user_count' = m_user_count, OpenFds' = OpenFds, Closers' = Closers,
         (mainpc \in {"addfd", "count++"})' <=> mainpc \in {"addfd", "count++"},
         (mainpc = "count--")' <=> mainpc = "count--"
  PROVE  Balanced'
BY DEF Balanced

LEMMA SameSets ==
  ASSUME IInv, workerpc' = workerpc, \A fd \in FDs : sock'[fd].open = sock[fd].open
  PROVE  OpenFds' = OpenFds /\ Closers' = Closers
BY DEF OpenFds, Closers

(* With nothing reused and nothing lost.                                    *)
LEMMA CountAccept ==
  ASSUME IInv, Balanced, Accept
  PROVE  Balanced'
<1>1. mainpc = "dispatch" /\ UNCHANGED <<m_user_count, workerpc>>
  BY DEF Accept
<1>2. CASE Handled /\ sock' = sock
  BY <1>1, <1>2, SameSets, SameCount DEF Handled
<1>3. CASE \E fd \in FreeFds : sock' = [sock EXCEPT ![fd].open = TRUE] /\ mainpc' = "addfd"
  <2>1. PICK fd \in FDs : ~sock[fd].open /\ sock' = [sock EXCEPT ![fd].open = TRUE] /\ mainpc' = "addfd"
    BY <1>3 DEF FreeFds
  <2>2. OpenFds' = OpenFds \cup {fd} /\ fd \notin OpenFds /\ OpenFds \subseteq FDs
    BY <2>1 DEF OpenFds, IInv, Types, Data, SocketsOK, Socket
  <2>3. Cardinality(OpenFds') = Cardinality(OpenFds) + 1 /\ Cardinality(OpenFds) \in Nat
    BY <2>2, CardinalityPlus, ServerAssumption
  <2>4. Closers' = Closers /\ Closers \subseteq Workers
    BY <1>1 DEF Closers
  <2>5. Cardinality(Closers) \in Nat
    BY <2>4, FS_Subset, FS_CardinalityType, ServerAssumption
  <2> QED
    BY <1>1, <2>1, <2>3, <2>4, <2>5 DEF Balanced, One, IInv, Types, CountType
<1>4. FreeFds # {} => LowestOf(FreeFds) \in FreeFds
  BY LowestFree DEF FreeFds
<1> QED
  BY <1>2, <1>3, <1>4 DEF Accept

LEMMA CountMain ==
  ASSUME IInv, Balanced, InitCount \/ CloseCount, lost' = 0, lost = 0
  PROVE  Balanced'
<1>1. UNCHANGED <<sock, workerpc>> /\ Handled
  BY DEF InitCount, CloseCount, kernelVars
<1>2. OpenFds' = OpenFds /\ Closers' = Closers
  BY <1>1, SameSets
<1>3. Cardinality(OpenFds) \in Nat /\ Cardinality(Closers) \in Nat
  BY FS_Subset, FS_CardinalityType, ServerAssumption DEF OpenFds, Closers
<1>4. \/ mainpc = "count++" /\ m_user_count' = m_user_count + 1
      \/ mainpc = "count--" /\ m_user_count' = m_user_count - 1
  BY DEF InitCount, CloseCount, StoreCount, IInv, Types, CountType
<1> QED
  BY <1>1, <1>2, <1>3, <1>4 DEF Balanced, One, Handled, IInv, Types, CountType

(* An event: its connection is open, and is closed or stays open.           *)
LEMMA CountEvent ==
  ASSUME IInv, Balanced, reused = {}, NEW fd \in FDs, HandleHangUp(fd) \/ HandleIn(fd) \/ HandleOut(fd)
  PROVE  Balanced'
<1>1. /\ EventFor(fd) /\ Handler(fd) /\ mainpc = "dispatch" /\ UNCHANGED <<m_user_count, workerpc>>
  BY EventHandler DEF Take
<1>2. Good(fd)
  BY DEF IInv, OwnerInv
<1>3. sock[fd].open /\ users[fd].m_sockfd = fd /\ sock[fd].interest # "none"
  BY <1>1, <1>2 DEF Good, ClosedLeft, OpenOwned
<1>4. \A g \in FDs : g # fd => sock'[g] = sock[g]
  BY <1>1 DEF Handler
<1>5. CASE sock'[fd] = ClosedSocket /\ mainpc' = "count--"
  <2>1. fd \in OpenFds /\ fd \notin OpenFds' /\ OpenFds = OpenFds' \cup {fd} /\ OpenFds' \subseteq FDs
    BY <1>3, <1>4, <1>5 DEF OpenFds, ClosedSocket
  <2>2. Cardinality(OpenFds) = Cardinality(OpenFds') + 1 /\ Cardinality(OpenFds') \in Nat
    BY <2>1, CardinalityPlus, ServerAssumption
  <2>3. Closers' = Closers /\ Cardinality(Closers) \in Nat
    BY <1>1, FS_Subset, FS_CardinalityType, ServerAssumption DEF Closers
  <2> QED
    BY <1>1, <1>5, <2>2, <2>3 DEF Balanced, One, IInv, Types, CountType
<1>6. CASE sock'[fd].open /\ (Handled \/ mainpc' = "append")
  <2>1. \A g \in FDs : sock'[g].open = sock[g].open
    BY <1>3, <1>4, <1>6 DEF IInv, Types, Data, SocketsOK, Socket, Handler
  <2>2. mainpc' \in {"epoll_wait", "dispatch", "append"}
    BY <1>6 DEF Handled
  <2> QED
    BY <1>1, <2>1, <2>2, SameSets, SameCount
<1> QED
  BY <1>1, <1>3, <1>5, <1>6 DEF Handler

LEMMA ModfdOpen ==
  ASSUME NEW s, SocketsOK(s), NEW x, NEW ev
  PROVE  \A g \in FDs : modfd(s, x, ev)[g].open = s[g].open
BY DEF modfd, SocketsOK, Socket

LEMMA CountWorker ==
  ASSUME IInv, Balanced, reused = {}, lost = 0, lost' = 0, NEW w \in Workers, WorkerStep(w)
  PROVE  Balanced'
<1>1. mainpc' = mainpc
  BY DEF WorkerStep, Begin, Process, Rearm, WorkerRemovefd, WorkerForget, WorkerLoad, WorkerCount, mainVars
<1> DEFINE C == {"forget", "load count", "count--"}
<1>2. workerpc \in [Workers -> {"idle", "process", "arm in", "arm out", "removefd", "forget", "load count", "count--"}]
  BY DEF IInv, Types, WorkerType
<1>3. ASSUME NEW x, WorkerGoto(w, x)
      PROVE  /\ (x \in C <=> workerpc[w] \in C) => Closers' = Closers
             /\ x \in C /\ workerpc[w] \notin C => Closers' = Closers \cup {w} /\ w \notin Closers
             /\ x \notin C /\ workerpc[w] \in C => Closers = Closers' \cup {w} /\ w \notin Closers'
  BY <1>2, <1>3 DEF WorkerGoto, Closers
<1> HIDE DEF C
<1>4. Closers \subseteq Workers /\ Closers' \subseteq Workers /\ OpenFds \subseteq FDs /\ OpenFds' \subseteq FDs
  BY DEF Closers, OpenFds
<1>5. /\ Cardinality(OpenFds) \in Nat /\ Cardinality(Closers) \in Nat
      /\ Cardinality(OpenFds') \in Nat /\ Cardinality(Closers') \in Nat
  BY <1>4, FS_Subset, FS_CardinalityType, ServerAssumption
<1>6. CASE Begin(w) \/ Process(w) \/ Rearm(w)
  <2>1. m_user_count' = m_user_count /\ \A g \in FDs : sock'[g].open = sock[g].open
    <3>1. CASE Begin(w) \/ Process(w)
      BY <3>1 DEF Begin, Process, kernelVars
    <3>2. CASE Rearm(w)
      <4> DEFINE fd == serving[w]
                 n == users[fd].m_sockfd
      <4>1. /\ workerpc[w] # "idle" /\ m_user_count' = m_user_count
            /\ sock' = modfd(sock, n, "in") \/ sock' = modfd(sock, n, "out")
        BY <3>2 DEF Rearm
      <4>2. fd \in FDs /\ n \in {fd, -1} /\ SocketsOK(sock)
        BY <4>1, WorkerServes DEF IInv, Types, Data
      <4> HIDE DEF n, fd
      <4>3. ASSUME NEW ev \in {"in", "out"}
            PROVE  \A g \in FDs : modfd(sock, n, ev)[g].open = sock[g].open
        BY <4>2, ModfdOpen
      <4> QED
        BY <4>1, <4>3
    <3> QED  BY <1>6, <3>1, <3>2
  <2>2. OpenFds' = OpenFds
    BY <2>1 DEF OpenFds
  <2>3. Closers' = Closers
    <3>1. CASE Begin(w)
      <4>1. workerpc[w] \notin C /\ "process" \notin C /\ WorkerGoto(w, "process")
        BY <3>1 DEF Begin, Start, IInv, Threads, C
      <4> QED  BY <4>1, <1>3
    <3>2. CASE Process(w)
      <4>1. workerpc[w] \notin C /\ (\E x : x \notin C /\ WorkerGoto(w, x))
        BY <3>2 DEF Process, NoRequestYet, Respond, C
      <4> QED  BY <4>1, <1>3
    <3>3. CASE Rearm(w)
      <4>1. workerpc[w] \notin C /\ "idle" \notin C /\ WorkerGoto(w, "idle")
        BY <3>3 DEF Rearm, C
      <4> QED  BY <4>1, <1>3
    <3> QED  BY <1>6, <3>1, <3>2, <3>3
  <2> QED
    BY <1>1, <2>1, <2>2, <2>3, SameCount
<1>7. CASE WorkerForget(w) \/ WorkerLoad(w)
  <2>1. /\ UNCHANGED <<sock, m_user_count>> /\ workerpc[w] \in C
        /\ \E x \in C : WorkerGoto(w, x)
    BY <1>7 DEF WorkerForget, WorkerLoad, kernelVars, C
  <2>2. Closers' = Closers /\ OpenFds' = OpenFds
    BY <2>1, <1>3 DEF OpenFds
  <2> QED
    BY <1>1, <2>1, <2>2, SameCount
<1>8. CASE WorkerRemovefd(w)
  <2> DEFINE fd == serving[w]
  <2>1. fd \in FDs /\ users[fd].m_sockfd = fd /\ sock[fd].open /\ workerpc[w] = "removefd" /\ SocketsOK(sock)
    <3>1. workerpc[w] = "removefd"
      BY <1>8 DEF WorkerRemovefd
    <3>2. fd \in FDs /\ Good(fd)
      BY <3>1, WorkerServes DEF IInv, OwnerInv
    <3> QED
      BY <3>1, <3>2, WorkerServes DEF IInv, Types, Data
  <2> HIDE DEF fd
  <2>2. fd # -1
    BY <2>1, ServerAssumption DEF FDs
  <2>3. sock' = removefd(sock, fd) /\ WorkerGoto(w, "forget") /\ m_user_count' = m_user_count
    BY <1>8, <2>1, <2>2 DEF WorkerRemovefd, fd
  <2>4. sock'[fd] = ClosedSocket /\ \A g \in FDs : g # fd => sock'[g] = sock[g]
    BY <2>1, <2>3, RemovefdData
  <2>5. OpenFds = OpenFds' \cup {fd} /\ fd \notin OpenFds'
    BY <2>1, <2>4 DEF OpenFds, ClosedSocket
  <2>6. Closers' = Closers \cup {w} /\ w \notin Closers
    BY <2>1, <2>3, <1>3 DEF C
  <2>7. Cardinality(OpenFds) = Cardinality(OpenFds') + 1
    BY <2>1, <2>5, <1>4, CardinalityPlus, ServerAssumption
  <2>8. Cardinality(Closers') = Cardinality(Closers) + 1
    BY <2>6, <1>4, CardinalityPlus, ServerAssumption
  <2> QED
    BY <1>1, <1>5, <2>3, <2>7, <2>8 DEF Balanced, One, IInv, Types, CountType
<1>9. CASE WorkerCount(w)
  <2>1. workerpc[w] = "count--" /\ WorkerGoto(w, "arm out") /\ UNCHANGED sock /\ StoreCount(w, -1)
    BY <1>9 DEF WorkerCount, kernelVars
  <2>2. OpenFds' = OpenFds
    BY <2>1 DEF OpenFds
  <2>3. Closers = Closers' \cup {w} /\ w \notin Closers'
    <3>1. workerpc[w] \in C /\ "arm out" \notin C /\ WorkerGoto(w, "arm out")
      BY <2>1 DEF C
    <3> QED  BY <3>1, <1>3
  <2>4. Cardinality(Closers) = Cardinality(Closers') + 1
    BY <2>3, <1>4, CardinalityPlus, ServerAssumption
  <2>5. m_user_count' = m_user_count - 1 /\ m_user_count \in Int
    <3>1. m_user_count \in Int /\ m_user_count' = loaded[w] + (-1)
      BY <2>1 DEF StoreCount, IInv, Types, CountType
    <3>2. loaded[w] = m_user_count
      <4>1. lost' = IF m_user_count = loaded[w] THEN lost ELSE lost + 1
        BY <2>1 DEF StoreCount
      <4> QED  BY <4>1
    <3> QED  BY <3>1, <3>2
  <2> QED
    BY <1>1, <1>5, <2>2, <2>4, <2>5 DEF Balanced, One
<1> QED
  BY <1>6, <1>7, <1>8, <1>9 DEF WorkerStep

LEMMA CountNext == IInv /\ CountInv /\ [Next]_vars => CountInv'
<1> SUFFICES ASSUME IInv, CountInv, [Next]_vars, lost' = 0, reused' = {} PROVE Balanced'
  BY DEF CountInv
<1>1. lost = 0 /\ reused = {} /\ Balanced
  BY HistoryGrows DEF CountInv
<1>2. CASE ClientConnect \/ UNCHANGED vars
  <2>1. UNCHANGED <<sock, workerpc, m_user_count, mainpc>>
    BY <1>2 DEF ClientConnect, vars, kernelVars, mainVars
  <2> QED
    BY <1>1, <2>1, SameSets, SameCount
<1>3. ASSUME NEW fd \in FDs, ClientStep(fd) \/ ClientDrains(fd) PROVE Balanced'
  <2>1. UNCHANGED <<workerpc, m_user_count, mainpc>>
    BY <1>3 DEF ClientStep, ClientDrains, mainVars
  <2>2. sock \in [FDs -> Socket]
    BY DEF IInv, Types, Data, SocketsOK
  <2>3. CASE sock' = [sock EXCEPT ![fd].unread = @ + 1]
    BY <1>1, <2>1, <2>2, <2>3, SameSets, SameCount DEF Socket
  <2>4. CASE sock' = [sock EXCEPT ![fd].hup = TRUE]
    BY <1>1, <2>1, <2>2, <2>4, SameSets, SameCount DEF Socket
  <2>5. CASE sock' = [sock EXCEPT ![fd].writable = TRUE]
    BY <1>1, <2>1, <2>2, <2>5, SameSets, SameCount DEF Socket
  <2> QED
    BY <1>3, <2>3, <2>4, <2>5 DEF ClientStep, ClientDrains
<1>4. CASE EpollWait
  <2>1. /\ UNCHANGED <<workerpc, m_user_count>> /\ mainpc = "epoll_wait" /\ mainpc' = "dispatch"
        /\ sock' = [fd \in FDs |-> IF Ready(fd) THEN [sock[fd] EXCEPT !.interest = "off"] ELSE sock[fd]]
    BY <1>4 DEF EpollWait
  <2>2. \A g \in FDs : sock'[g].open = sock[g].open
    BY <2>1 DEF IInv, Types, Data, SocketsOK, Socket
  <2> QED
    BY <1>1, <2>1, <2>2, SameSets, SameCount
<1>5. CASE InitAddfd
  <2>1. /\ UNCHANGED <<workerpc, m_user_count>> /\ mainpc = "addfd" /\ mainpc' = "count++"
        /\ sock' = addfd(sock, sockfd)
    BY <1>5 DEF InitAddfd, historyVars
  <2>2. \A g \in FDs : sock'[g].open = sock[g].open
    BY <2>1 DEF addfd, IInv, Types, Data, SocketsOK, Socket
  <2> QED
    BY <1>1, <2>1, <2>2, SameSets, SameCount
<1>6. CASE HandleAppend
  <2>1. UNCHANGED <<sock, workerpc, m_user_count>> /\ mainpc = "append" /\ Handled
    BY <1>6 DEF HandleAppend, kernelVars
  <2> QED
    BY <1>1, <2>1, SameSets, SameCount DEF Handled
<1> QED
  BY <1>1, <1>2, <1>3, <1>4, <1>5, <1>6, CountAccept, CountMain, CountEvent, CountWorker DEF Next, MainStep

(* The unlocked m_user_count of main and the workers (04_http_conn.cpp:56,  *)
(* 69): whatever they interleave, it is off by what they are about to count *)
(* and no more, until two updates overlap or a descriptor is used twice.    *)
THEOREM Counted == Spec => []UserCountExact
<1>1. Init => CountInv
  <2> SUFFICES ASSUME Init PROVE Balanced
    BY DEF CountInv
  <2>1. OpenFds = {} /\ Closers = {} /\ m_user_count = 0 /\ mainpc = "epoll_wait"
    BY DEF Init, OpenFds, Closers, ClosedSocket
  <2> QED
    BY <2>1, FS_EmptySet DEF Balanced, One
<1> QED
  BY <1>1, CountNext, CountSuffices, InitIInv, Inductive, PTL DEF Spec
-----------------------------------------------------------------------------
(* While main initialises a connection its object, as the last one left it, *)
(* holds no mapping that is accounted for otherwise; nobody else has it.    *)
Fresh(fd) == sockfd = fd /\ mainpc \in {"addfd", "count++"}
MappingOK(fd) ==
    /\ Mapped(fd)
    /\ Fresh(fd) => (users[fd].m_file_address => fd \in abandoned)
    /\ Fresh(fd) /\ mainpc = "count++" => Armed(fd)
MappingInv == \A fd \in FDs \ reused : MappingOK(fd)

LEMMA KeptMapping ==
  ASSUME NEW g \in FDs, MappingOK(g),
         users'[g].m_file_address => users[g].m_file_address, users'[g].response = users[g].response,
         sock'[g].open = sock[g].open, g \in abandoned => g \in abandoned',
         Fresh(g)' => Fresh(g) /\ (mainpc' = "count++" => mainpc = "count++" /\ (Armed(g) => Armed(g)'))
  PROVE  MappingOK(g)'
BY DEF MappingOK, Mapped

(* Main leaves the object of g alone, or does not initialise it.            *)
LEMMA KeptByOthers ==
  ASSUME MappingInv, reused' = reused, UNCHANGED <<users, abandoned>>,
         \A g \in FDs : sock'[g].open = sock[g].open,
         \/ mainpc' \notin {"addfd", "count++"}
         \/ /\ UNCHANGED <<mainpc, sockfd>>
            /\ \A g \in FDs : Armed(g) => Armed(g)'
  PROVE  MappingInv'
BY KeptMapping DEF MappingInv, Fresh

LEMMA MappingAccept ==
  ASSUME IInv, MappingInv, Accept
  PROVE  MappingInv'
<1>1. mainpc = "dispatch" /\ abandoned' = abandoned
  BY DEF Accept
<1>2. CASE Handled /\ UNCHANGED <<sock, users, sockfd, reused>>
  BY <1>1, <1>2, KeptByOthers DEF Handled
<1>3. CASE \E fd \in FreeFds :
             /\ sock' = [sock EXCEPT ![fd].open = TRUE] /\ users' = [users EXCEPT ![fd].m_sockfd = fd]
             /\ sockfd' = fd /\ mainpc' = "addfd" /\ reused' = IF InUse(fd) THEN reused \cup {fd} ELSE reused
  <2>1. PICK fd \in FDs :
             /\ ~sock[fd].open
             /\ sock' = [sock EXCEPT ![fd].open = TRUE] /\ users' = [users EXCEPT ![fd].m_sockfd = fd]
             /\ sockfd' = fd /\ mainpc' = "addfd" /\ reused' = IF InUse(fd) THEN reused \cup {fd} ELSE reused
    BY <1>3 DEF FreeFds
  <2>2. /\ sock \in [FDs -> Socket] /\ users \in [FDs -> Object]
    BY DEF IInv, Types, Data, SocketsOK, ObjectsOK
  <2>3. /\ \A g \in FDs : g # fd => sock'[g] = sock[g] /\ users'[g] = users[g]
        /\ users'[fd].m_file_address = users[fd].m_file_address
    BY <2>1, <2>2 DEF Object
  <2>4. ASSUME NEW g \in FDs, g \notin reused' PROVE MappingOK(g)'
    <3>1. MappingOK(g)
      BY <2>1, <2>4 DEF MappingInv
    <3>2. CASE g = fd
      BY <1>1, <2>1, <2>3, <3>1, <3>2 DEF MappingOK, Mapped
    <3>3. CASE g # fd
      BY <1>1, <2>1, <2>3, <3>1, <3>3, KeptMapping DEF Fresh
    <3> QED  BY <3>2, <3>3
  <2> QED
    BY <2>4 DEF MappingInv
<1>4. FreeFds # {} => LowestOf(FreeFds) \in FreeFds
  BY LowestFree DEF FreeFds
<1> QED
  BY <1>2, <1>3, <1>4 DEF Accept

LEMMA MappingAddfd ==
  ASSUME IInv, MappingInv, InitAddfd
  PROVE  MappingInv'
<1>1. /\ mainpc = "addfd" /\ mainpc' = "count++" /\ sock' = addfd(sock, sockfd)
      /\ UNCHANGED <<users, sockfd, reused, abandoned>>
  BY DEF InitAddfd, historyVars
<1>2. sock \in [FDs -> Socket] /\ sockfd \in FDs
  BY DEF IInv, Types, Data, SocketsOK, MainType
<1>3. /\ \A g \in FDs : sock'[g].open = sock[g].open
      /\ sock[sockfd].open => sock'[sockfd].interest = "in"
  BY <1>1, <1>2 DEF addfd, Socket
<1>4. ASSUME NEW g \in FDs, g \notin reused PROVE MappingOK(g)'
  <2>1. MappingOK(g) /\ Good(g)
    BY <1>4 DEF MappingInv, IInv, OwnerInv
  <2>2. CASE g = sockfd
    <3>1. sock[g].open
      BY <2>1, <2>2, <1>1 DEF Good, ClosedLeft, InMain
    <3> QED
      BY <2>1, <2>2, <3>1, <1>1, <1>3 DEF MappingOK, Mapped, Fresh, Armed
  <2>3. CASE g # sockfd
    BY <2>1, <2>3, <1>1, <1>3, KeptMapping DEF Fresh
  <2> QED  BY <2>2, <2>3
<1> QED
  BY <1>1, <1>4 DEF MappingInv

LEMMA MappingCount ==
  ASSUME IInv, MappingInv, InitCount
  PROVE  MappingInv'
<1>1. /\ mainpc = "count++" /\ Handled /\ users' = [users EXCEPT ![sockfd] = Reset(users[sockfd])]
      /\ UNCHANGED <<sock, sockfd, reused, abandoned>>
  BY DEF InitCount, kernelVars
<1>2. users \in [FDs -> Object] /\ sockfd \in FDs
  BY DEF IInv, Types, Data, ObjectsOK, MainType
<1>3. /\ users'[sockfd].m_file_address = users[sockfd].m_file_address
      /\ \A g \in FDs : g # sockfd => users'[g] = users[g]
  BY <1>1, <1>2, ResetObject
<1>4. \A g \in FDs : ~Fresh(g)'
  BY <1>1 DEF Fresh, Handled
<1>5. ASSUME NEW g \in FDs, g \notin reused PROVE MappingOK(g)'
  <2>1. MappingOK(g)
    BY <1>5 DEF MappingInv
  <2>2. CASE g = sockfd
    BY <2>1, <2>2, <1>1, <1>3, <1>4 DEF MappingOK, Mapped, Fresh
  <2>3. CASE g # sockfd
    BY <2>1, <2>3, <1>1, <1>3, <1>4, KeptMapping
  <2> QED  BY <2>2, <2>3
<1> QED
  BY <1>1, <1>5 DEF MappingInv

LEMMA MappingEvent ==
  ASSUME IInv, MappingInv, NEW fd \in FDs, HandleHangUp(fd) \/ HandleIn(fd) \/ HandleOut(fd)
  PROVE  MappingInv'
<1>1. Handler(fd) /\ reused' = reused
  BY EventHandler
<1>2. \A g \in FDs : ~Fresh(g)'
  BY <1>1 DEF Fresh, Handler, Handled
<1>3. ASSUME NEW g \in FDs, g \notin reused PROVE MappingOK(g)'
  <2>1. MappingOK(g)
    BY <1>3 DEF MappingInv
  <2>2. CASE g = fd
    BY <2>1, <2>2, <1>1, <1>2 DEF MappingOK, Handler
  <2>3. CASE g # fd
    <3>1. sock'[g] = sock[g] /\ users'[g] = users[g] /\ (g \in abandoned' <=> g \in abandoned)
      BY <2>3, <1>1 DEF Handler
    <3> QED
      BY <2>1, <3>1, <1>2, KeptMapping
  <2> QED  BY <2>2, <2>3
<1> QED
  BY <1>1, <1>3 DEF MappingInv

(* The descriptor that a worker serves is not being initialised.            *)
LEMMA ServedNotFresh ==
  ASSUME IInv, MappingInv, NEW w \in Workers, workerpc[w] # "idle", serving[w] \notin reused
  PROVE  /\ serving[w] \in FDs /\ Good(serving[w]) /\ MappingOK(serving[w])
         /\ ~Fresh(serving[w]) /\ ~Armed(serving[w])
<1>1. serving[w] \in FDs
  BY WorkerServes
<1>2. Served(serving[w]) /\ Good(serving[w]) /\ MappingOK(serving[w])
  BY <1>1 DEF Served, IInv, OwnerInv, MappingInv
<1>3. ~Armed(serving[w]) /\ ~InMain(serving[w])
  BY <1>2 DEF Good, OneKind
<1> QED
  BY <1>1, <1>2, <1>3 DEF Fresh, InMain, MappingOK

LEMMA MappingRespond ==
  ASSUME IInv, MappingInv, NEW w \in Workers, Process(w)
  PROVE  MappingInv'
<1> DEFINE fd == serving[w]
<1>1. workerpc[w] = "process" /\ UNCHANGED <<sock, mainpc, sockfd, reused>>
  BY DEF Process, kernelVars, mainVars
<1>2. CASE NoRequestYet(w, fd)
  <2>1. /\ fd \in FDs /\ Data(sock, users) /\ abandoned' = abandoned
    BY <1>1, <1>2, WorkerServes DEF IInv, Types, NoRequestYet
  <2>2. \A g \in FDs : /\ users'[g].m_file_address = users[g].m_file_address
                       /\ users'[g].response = users[g].response
    BY <1>2, <2>1, NoRequestData
  <2>3. ASSUME NEW g \in FDs, g \notin reused PROVE MappingOK(g)'
    BY <1>1, <2>1, <2>2, <2>3, KeptMapping DEF MappingInv, Fresh, Armed
  <2> QED
    BY <1>1, <2>3 DEF MappingInv
<1>3. CASE \E outcome \in {"file", "empty file", "error"}, linger \in BOOLEAN : Respond(w, fd, outcome, linger)
  <2>1. PICK outcome \in {"file", "empty file", "error"}, linger \in BOOLEAN : Respond(w, fd, outcome, linger)
    BY <1>3
  <2>2. fd \in FDs /\ users \in [FDs -> Object] /\ users[fd] \in Object
    BY <1>1, WorkerServes DEF IInv, Types, Data, ObjectsOK
  <2>3. /\ users'[fd].response /\ \A g \in FDs : g # fd => users'[g] = users[g]
        /\ \A g \in FDs : g # fd => (g \in abandoned => g \in abandoned')
    BY <2>1, <2>2 DEF Respond, Object
  <2>4. ASSUME NEW g \in FDs, g \notin reused PROVE MappingOK(g)'
    <3>1. MappingOK(g)
      BY <2>4 DEF MappingInv
    <3>2. CASE g = fd
      <4>1. sock[g].open /\ ~Fresh(g)'
        BY <1>1, <2>4, <3>2, ServedNotFresh DEF Good, AtWorker, Fresh
      <4> QED
        BY <1>1, <2>3, <3>2, <4>1 DEF MappingOK, Mapped
    <3>3. CASE g # fd
      BY <1>1, <2>3, <3>1, <3>3, KeptMapping DEF Fresh, Armed
    <3> QED  BY <3>2, <3>3
  <2> QED
    BY <1>1, <2>4 DEF MappingInv
<1> QED
  BY <1>2, <1>3 DEF Process

LEMMA MappingClose ==
  ASSUME IInv, MappingInv, NEW w \in Workers, WorkerRemovefd(w)
  PROVE  MappingInv'
<1> DEFINE fd == serving[w]
<1>1. workerpc[w] = "removefd" /\ UNCHANGED <<users, mainpc, sockfd, reused>>
  BY DEF WorkerRemovefd, mainVars
<1>2. fd \in FDs /\ users[fd].m_sockfd \in {fd, -1} /\ SocketsOK(sock)
  BY <1>1, WorkerServes DEF IInv, Types, Data
<1>3. CASE UNCHANGED <<sock, abandoned>>
  BY <1>1, <1>3, KeptByOthers DEF Armed
<1>4. CASE users[fd].m_sockfd # -1 /\ sock' = removefd(sock, users[fd].m_sockfd) /\ abandoned' = abandoned \cup {fd}
  <2>1. \A g \in FDs : g # fd => sock'[g] = sock[g]
    <3>1. fd \in FDs /\ SocketsOK(sock) /\ sock' = removefd(sock, fd)
      BY <1>2, <1>4
    <3> HIDE DEF fd
    <3> QED
      BY <3>1, RemovefdData
  <2>2. ASSUME NEW g \in FDs, g \notin reused PROVE MappingOK(g)'
    <3>1. MappingOK(g)
      BY <2>2 DEF MappingInv
    <3>2. CASE g = fd
      <4>1. ~Fresh(g)'
        BY <1>1, <2>2, <3>2, ServedNotFresh DEF Fresh
      <4> QED
        BY <1>4, <3>2, <4>1 DEF MappingOK, Mapped
    <3>3. CASE g # fd
      BY <1>1, <1>4, <2>1, <3>1, <3>3, KeptMapping DEF Fresh, Armed
    <3> QED  BY <3>2, <3>3
  <2> QED
    BY <1>1, <2>2 DEF MappingInv
<1> QED
  BY <1>3, <1>4 DEF WorkerRemovefd

LEMMA MappingForget ==
  ASSUME IInv, MappingInv, NEW w \in Workers, WorkerForget(w)
  PROVE  MappingInv'
<1>1. /\ users' = [users EXCEPT ![serving[w]].m_sockfd = -1]
      /\ UNCHANGED <<sock, mainpc, sockfd, reused, abandoned>>
  BY DEF WorkerForget, kernelVars, mainVars, historyVars
<1>2. users \in [FDs -> Object]
  BY DEF IInv, Types, Data, ObjectsOK
<1>3. \A g \in FDs : /\ users'[g].m_file_address = users[g].m_file_address
                     /\ users'[g].response = users[g].response
  BY <1>1, <1>2 DEF Object
<1> QED
  BY <1>1, <1>3, KeptMapping DEF MappingInv, Fresh, Armed

LEMMA MappingRearm ==
  ASSUME IInv, MappingInv, NEW w \in Workers, Rearm(w)
  PROVE  MappingInv'
<1> DEFINE fd == serving[w]
           n == users[fd].m_sockfd
<1>1. /\ workerpc[w] # "idle" /\ UNCHANGED <<users, mainpc, sockfd, reused, abandoned>>
      /\ \E ev \in {"in", "out"} : sock' = modfd(sock, n, ev)
  BY DEF Rearm, mainVars, historyVars
<1>2. SocketsOK(sock)
  BY DEF IInv, Types, Data
<1> HIDE DEF n
<1>3. \A g \in FDs : /\ sock'[g].open = sock[g].open
                     /\ Armed(g) => Armed(g)'
  BY <1>1, <1>2 DEF modfd, SocketsOK, Socket, Armed
<1> QED
  BY <1>1, <1>3, KeptByOthers

LEMMA MappingNext == IInv /\ MappingInv /\ [Next]_vars => MappingInv'
<1> SUFFICES ASSUME IInv, MappingInv, [Next]_vars PROVE MappingInv'
  OBVIOUS
<1>1. CASE ClientConnect \/ UNCHANGED vars
  BY <1>1, KeptByOthers DEF ClientConnect, Armed, vars, kernelVars, mainVars, historyVars
<1>2. ASSUME NEW fd \in FDs, ClientStep(fd) \/ ClientDrains(fd) PROVE MappingInv'
  <2>1. UNCHANGED <<users, mainpc, sockfd, reused, abandoned>>
    BY <1>2 DEF ClientStep, ClientDrains, mainVars, historyVars
  <2>2. sock \in [FDs -> Socket]
    BY DEF IInv, Types, Data, SocketsOK
  <2>3. CASE sock' = [sock EXCEPT ![fd].unread = @ + 1]
    BY <2>1, <2>2, <2>3, KeptByOthers DEF Socket, Armed
  <2>4. CASE sock' = [sock EXCEPT ![fd].hup = TRUE]
    BY <2>1, <2>2, <2>4, KeptByOthers DEF Socket, Armed
  <2>5. CASE sock' = [sock EXCEPT ![fd].writable = TRUE]
    BY <2>1, <2>2, <2>5, KeptByOthers DEF Socket, Armed
  <2> QED
    BY <1>2, <2>3, <2>4, <2>5 DEF ClientStep, ClientDrains
<1>3. CASE EpollWait
  <2>1. /\ UNCHANGED <<users, reused, abandoned>> /\ mainpc' = "dispatch"
        /\ sock' = [fd \in FDs |-> IF Ready(fd) THEN [sock[fd] EXCEPT !.interest = "off"] ELSE sock[fd]]
    BY <1>3 DEF EpollWait, historyVars
  <2>2. \A g \in FDs : sock'[g].open = sock[g].open
    BY <2>1 DEF IInv, Types, Data, SocketsOK, Socket
  <2> QED
    BY <2>1, <2>2, KeptByOthers
<1>4. CASE CloseCount \/ HandleAppend
  <2>1. UNCHANGED <<sock, users, reused, abandoned>> /\ Handled
    BY <1>4 DEF CloseCount, HandleAppend, kernelVars
  <2> QED
    BY <2>1, KeptByOthers DEF Handled
<1>5. ASSUME NEW w \in Workers, Begin(w) \/ WorkerLoad(w) \/ WorkerCount(w) PROVE MappingInv'
  BY <1>5, KeptByOthers DEF Begin, WorkerLoad, WorkerCount, kernelVars, mainVars, historyVars, Armed
<1>6. ASSUME NEW w \in Workers, WorkerStep(w) PROVE MappingInv'
  BY <1>5, <1>6, MappingRespond, MappingClose, MappingForget, MappingRearm DEF WorkerStep
<1> QED
  BY <1>1, <1>2, <1>3, <1>4, <1>6, MappingAccept, MappingAddfd, MappingCount, MappingEvent DEF Next, MainStep

(* The file that do_request maps (287) is unmapped with its response, or is *)
(* left by a close_conn that the history records; no connection loses one   *)
(* in another way, however many workers serve it one after the other.       *)
THEOREM MappingsAccounted == Spec => []MappingAccounted
<1>1. Init => MappingInv
  BY DEF Init, FreshObject, MappingInv, MappingOK, Mapped, Fresh
<1>2. MappingInv => MappingAccounted
  BY DEF MappingInv, MappingOK, Mapped, MappingAccounted
<1> QED
  BY <1>1, <1>2, MappingNext, InitIInv, Inductive, PTL DEF Spec
=============================================================================
