-------------------------- MODULE TimerServerProofs --------------------------
(***************************************************************************)
(* Proofs about TimerServer, for any descriptors, timers and TIMESLOT: the *)
(* open connections and the timers find each other, and a timer that is    *)
(* due belongs to a connection that has been idle for IdleLimit.           *)
(***************************************************************************)
EXTENDS TimerServer, FiniteSetTheorems, TLAPS

(* The inductive invariant: what TimersMatch says of a connection and of a  *)
(* timer, and that the timer counts down what idle counts up.               *)
Paired(fd) ==
    /\ users[fd] \in DOMAIN left
    /\ user_data[users[fd]] = fd
    /\ idle[fd] + left[users[fd]] = IdleLimit

Reaches(t) ==
    /\ user_data[t] \in FDs
    /\ sock[user_data[t]].open
    /\ users[user_data[t]] = t

Connections == \A fd \in FDs : sock[fd].open => Paired(fd)
SetTimers == \A t \in DOMAIN left : Reaches(t)
Batch == \A fd \in events \cap FDs : sock[fd].open

Socket == [open : BOOLEAN, edge : BOOLEAN, unread : 0 .. MaxUnread, hup : BOOLEAN]

(* epoll does not report a descriptor that is closed.                       *)
Unreported == \A fd \in FDs : sock[fd].edge => sock[fd].open

Inv == TypeOK /\ Connections /\ SetTimers /\ Batch /\ Unreported

LEMMA LimitType == IdleLimit \in Nat \ {0}
BY ServerAssumption DEF IdleLimit

LEMMA Matching == Inv => TimersMatch
BY DEF Inv, Connections, SetTimers, Batch, Paired, Reaches, TimersMatch
-----------------------------------------------------------------------------
(* What the operations of TimerSet do to the set timers.                    *)
LeftOK(l) == l \in UNION {[S -> 0 .. IdleLimit] : S \in SUBSET Timers}

LEMMA LeftType ==
  ASSUME NEW l
  PROVE  LeftOK(l) <=> /\ DOMAIN l \subseteq Timers
                       /\ l = [t \in DOMAIN l |-> l[t]]
                       /\ \A t \in DOMAIN l : l[t] \in 0 .. IdleLimit
<1>1. ASSUME LeftOK(l)
      PROVE  /\ DOMAIN l \subseteq Timers
             /\ l = [t \in DOMAIN l |-> l[t]]
             /\ \A t \in DOMAIN l : l[t] \in 0 .. IdleLimit
  BY <1>1 DEF LeftOK
<1>2. ASSUME DOMAIN l \subseteq Timers, l = [t \in DOMAIN l |-> l[t]],
             \A t \in DOMAIN l : l[t] \in 0 .. IdleLimit
      PROVE  LeftOK(l)
  <2>1. l \in [DOMAIN l -> 0 .. IdleLimit]
    BY <1>2
  <2> QED
    BY <1>2, <2>1 DEF LeftOK
<1> QED
  BY <1>1, <1>2

LEMMA WithOK ==
  ASSUME NEW l, LeftOK(l), NEW t \in Timers
  PROVE  /\ LeftOK(With(l, t, IdleLimit))
         /\ DOMAIN With(l, t, IdleLimit) = DOMAIN l \cup {t}
         /\ With(l, t, IdleLimit)[t] = IdleLimit
         /\ \A u \in DOMAIN l : u # t => With(l, t, IdleLimit)[u] = l[u]
<1> DEFINE m == With(l, t, IdleLimit)
<1>1. /\ DOMAIN m = DOMAIN l \cup {t} /\ m[t] = IdleLimit
      /\ \A u \in DOMAIN l : u # t => m[u] = l[u]
      /\ m = [u \in DOMAIN m |-> m[u]]
  BY DEF With
<1> HIDE DEF m
<1>2. LeftOK(m)
  BY <1>1, LeftType, LimitType
<1> QED
  BY <1>1, <1>2 DEF m

LEMMA WithoutOK ==
  ASSUME NEW l, LeftOK(l), NEW t
  PROVE  /\ LeftOK(Without(l, t))
         /\ DOMAIN Without(l, t) = DOMAIN l \ {t}
         /\ \A u \in DOMAIN l : u # t => Without(l, t)[u] = l[u]
<1> DEFINE m == Without(l, t)
<1>1. /\ DOMAIN m = DOMAIN l \ {t} /\ m = [u \in DOMAIN m |-> m[u]]
      /\ \A u \in DOMAIN l : u # t => m[u] = l[u]
  BY DEF Without
<1> HIDE DEF m
<1>2. LeftOK(m)
  BY <1>1, LeftType
<1> QED
  BY <1>1, <1>2 DEF m

LEMMA LaterOK ==
  ASSUME NEW l, LeftOK(l)
  PROVE  /\ LeftOK(Later(l))
         /\ DOMAIN Later(l) = DOMAIN l
         /\ \A u \in DOMAIN l : Later(l)[u] = IF l[u] = 0 THEN 0 ELSE l[u] - 1
<1> DEFINE m == Later(l)
<1>1. /\ DOMAIN m = DOMAIN l /\ m = [u \in DOMAIN m |-> m[u]]
      /\ \A u \in DOMAIN l : m[u] = IF l[u] = 0 THEN 0 ELSE l[u] - 1
  BY DEF Later
<1> HIDE DEF m
<1>2. LeftOK(m)
  BY <1>1, LeftType, LimitType
<1> QED
  BY <1>1, <1>2 DEF m

LEMMA UndueOK ==
  ASSUME NEW l, LeftOK(l)
  PROVE  /\ LeftOK(Undue(l))
         /\ DOMAIN Undue(l) = DOMAIN l \ Due(l)
         /\ \A u \in DOMAIN l \ Due(l) : Undue(l)[u] = l[u]
<1> DEFINE m == Undue(l)
<1>1. /\ DOMAIN m = DOMAIN l \ Due(l) /\ m = [u \in DOMAIN m |-> m[u]]
      /\ \A u \in DOMAIN l \ Due(l) : m[u] = l[u]
  BY DEF Undue
<1> HIDE DEF m
<1>2. LeftOK(m)
  BY <1>1, LeftType
<1> QED
  BY <1>1, <1>2 DEF m

LEMMA NoTimersOK == LeftOK(NoTimers) /\ DOMAIN NoTimers = {}
<1>1. DOMAIN NoTimers = {} /\ NoTimers = [t \in DOMAIN NoTimers |-> NoTimers[t]]
  BY DEF NoTimers
<1> QED
  BY <1>1, LeftType
-----------------------------------------------------------------------------
LEMMA ClosedOK ==
  /\ ClosedSocket \in Socket
  /\ ~ClosedSocket.open
BY ServerAssumption DEF ClosedSocket, Socket

LEMMA InitInv == Init => Inv
<1> SUFFICES ASSUME Init PROVE Inv
  OBVIOUS
<1>1. LeftOK(left) /\ DOMAIN left = {}
  BY NoTimersOK DEF Init, TimersInit
<1>2. Cardinality(FDs) \in Nat
  BY ServerAssumption, FS_CardinalityType
<1>3. sock \in [FDs -> Socket]
  BY ClosedOK DEF Init
<1>4. idle \in [FDs -> 0 .. IdleLimit]
  BY LimitType DEF Init
<1>5. /\ backlog \in 0 .. Cardinality(FDs) /\ alarm \in 0 .. TIMESLOT \cup {NULL}
      /\ users \in [FDs -> Timers \cup {NULL}] /\ user_data \in [Timers -> FDs \cup {NULL}]
  BY <1>2, ServerAssumption DEF Init
<1>6. TypeOK
  BY <1>1, <1>3, <1>4, <1>5 DEF LeftOK, Init, TimersInit, TypeOK, Socket
<1> QED
  BY <1>1, <1>6 DEF Inv, Init, ClosedSocket, Connections, SetTimers, Batch, Unreported
-----------------------------------------------------------------------------
(* The clients, the clock and the signals                                   *)

LEMMA ConnectInv == Inv /\ ClientConnect => Inv'
<1> SUFFICES ASSUME Inv, ClientConnect PROVE Inv'
  OBVIOUS
<1>1. Cardinality({fd \in FDs : sock[fd].open}) \in Nat /\ Cardinality(FDs) \in Nat
  <2>1. IsFiniteSet({fd \in FDs : sock[fd].open})
    BY ServerAssumption, FS_Subset
  <2> QED
    BY <2>1, ServerAssumption, FS_CardinalityType
<1>2. backlog' \in 0 .. Cardinality(FDs)
  <2>1. backlog \in 0 .. Cardinality(FDs) /\ backlog' = backlog + 1
        /\ backlog + Cardinality({fd \in FDs : sock[fd].open}) < Cardinality(FDs)
    BY DEF Inv, TypeOK, Socket, ClientConnect
  <2> QED
    BY <1>1, <2>1
<1> QED
  BY <1>2 DEF Inv, ClientConnect, timerVars, programVars, TypeOK, Socket, Connections, SetTimers, Batch, Unreported, Paired, Reaches

(* A change of the sockets that opens and closes none.                      *)
LEMMA SameOpen ==
  ASSUME Inv, UNCHANGED <<left, users, user_data, events, idle>>,
         \A fd \in FDs : /\ sock'[fd].open = sock[fd].open
                         /\ sock'[fd].edge => sock[fd].edge \/ sock[fd].open
  PROVE  Connections' /\ SetTimers' /\ Batch' /\ Unreported'
BY DEF Inv, Connections, SetTimers, Batch, Paired, Reaches, Unreported

LEMMA ClientInv ==
  ASSUME Inv, NEW fd \in FDs, ClientSend(fd) \/ ClientClose(fd)
  PROVE  Inv'
<1>1. UNCHANGED <<timerVars, backlog, listenEdge, alarm, pipe, programVars, idle>>
  BY DEF ClientSend, ClientClose
<1>2. /\ sock \in [FDs -> Socket]
      /\ MaxUnread \in Nat
  BY ServerAssumption DEF Inv, TypeOK, Socket
<1>3. /\ sock' \in [FDs -> Socket]
      /\ \A g \in FDs : /\ sock'[g].open = sock[g].open
                        /\ sock'[g].edge => sock[g].edge \/ sock[g].open
  <2>1. CASE ClientSend(fd)
    <3>1. sock[fd].unread + 1 \in 0 .. MaxUnread
      BY <1>2, <2>1 DEF ClientSend, Socket
    <3> QED
      BY <1>2, <2>1, <3>1 DEF ClientSend, Socket
  <2>2. CASE ClientClose(fd)
    <3>1. PICK n \in {0, sock[fd].unread} :
             sock' = [sock EXCEPT ![fd].hup = TRUE, ![fd].edge = TRUE, ![fd].unread = n]
      BY <2>2 DEF ClientClose
    <3>2. n \in 0 .. MaxUnread
      BY <1>2 DEF Socket
    <3>3. /\ sock' \in [FDs -> Socket]
          /\ \A g \in FDs : sock'[g].open = sock[g].open
      BY <1>2, <3>1, <3>2, ZenonT(60) DEF Socket
    <3>4. \A g \in FDs : sock'[g].edge => sock[g].edge \/ sock[g].open
      BY <1>2, <2>2, <3>1 DEF ClientClose
    <3> QED
      BY <3>3, <3>4
  <2> QED
    BY <2>1, <2>2
<1>4. TypeOK'
  BY <1>1, <1>3 DEF Inv, TypeOK, Socket, timerVars, programVars
<1> QED
  BY <1>1, <1>3, <1>4, SameOpen DEF Inv, timerVars, programVars

LEMMA SignalInv == Inv /\ (SigAlrm \/ SigTerm) => Inv'
<1> SUFFICES ASSUME Inv, SigAlrm \/ SigTerm PROVE Inv'
  OBVIOUS
<1>1. UNCHANGED <<timerVars, backlog, listenEdge, sock, programVars, idle>>
      /\ alarm' \in {alarm, NULL} /\ \E s \in {"SIGALRM", "SIGTERM"} : pipe' = pipe \cup {s}
  BY DEF SigAlrm, SigTerm
<1> QED
  BY <1>1 DEF Inv, TypeOK, Socket, timerVars, programVars, Connections, SetTimers, Batch, Unreported, Paired, Reaches

LEMMA ClockInv == Inv /\ Clock => Inv'
<1> SUFFICES ASSUME Inv, Clock PROVE Inv'
  OBVIOUS
<1>1. /\ UNCHANGED <<backlog, listenEdge, sock, pipe, programVars>> /\ fired' = {}
      /\ left' = Later(left)
      /\ idle' = [fd \in FDs |-> IF sock[fd].open /\ idle[fd] < IdleLimit THEN idle[fd] + 1 ELSE idle[fd]]
  BY DEF Clock, Pass
<1>2. LeftOK(left) /\ idle \in [FDs -> 0 .. IdleLimit] /\ alarm \in 0 .. TIMESLOT \cup {NULL}
  BY DEF Inv, TypeOK, Socket, LeftOK
<1>3. /\ LeftOK(left') /\ DOMAIN left' = DOMAIN left
      /\ \A u \in DOMAIN left : left'[u] = IF left[u] = 0 THEN 0 ELSE left[u] - 1
  BY <1>1, <1>2, LaterOK
<1>4. idle' \in [FDs -> 0 .. IdleLimit]
  BY <1>1, <1>2, LimitType
<1>5. alarm' \in 0 .. TIMESLOT \cup {NULL}
  BY <1>2, ServerAssumption DEF Clock
<1>6. TypeOK'
  BY <1>1, <1>3, <1>4, <1>5 DEF Inv, TypeOK, Socket, LeftOK, programVars
<1>7. Connections'
  <2> SUFFICES ASSUME NEW fd \in FDs, sock[fd].open PROVE Paired(fd)'
    BY <1>1 DEF Connections
  <2>1. Paired(fd)
    BY DEF Inv, Connections
  <2>2. left[users[fd]] \in 0 .. IdleLimit /\ idle[fd] \in 0 .. IdleLimit
    BY <1>2, <2>1, LeftType DEF Paired
  <2>3. idle'[fd] = IF idle[fd] < IdleLimit THEN idle[fd] + 1 ELSE idle[fd]
    BY <1>1
  <2>4. left'[users[fd]] = IF left[users[fd]] = 0 THEN 0 ELSE left[users[fd]] - 1
    BY <1>3, <2>1 DEF Paired
  <2>5. idle'[fd] + left'[users[fd]] = IdleLimit
    BY <2>1, <2>2, <2>3, <2>4, LimitType DEF Paired
  <2> QED
    BY <1>1, <1>3, <2>1, <2>5 DEF Paired, programVars
<1> QED
  BY <1>1, <1>3, <1>6, <1>7 DEF Inv, SetTimers, Batch, Unreported, Reaches, programVars
-----------------------------------------------------------------------------
(* The event loop                                                           *)

LEMMA WaitInv == Inv /\ EpollWait => Inv'
<1> SUFFICES ASSUME Inv, EpollWait PROVE Inv'
  OBVIOUS
<1>1. /\ UNCHANGED <<timerVars, backlog, alarm, pipe, users, user_data, timeout, stop_server, idle>>
      /\ listenEdge' = FALSE /\ mainpc' = "dispatch"
      /\ sock' = [fd \in FDs |-> [sock[fd] EXCEPT !.edge = FALSE]]
      /\ events' = {fd \in FDs : Ready(fd)} \cup (IF listenEdge THEN {"listenfd"} ELSE {})
                                            \cup (IF pipe # {} THEN {"pipefd"} ELSE {})
  BY DEF EpollWait
<1>2. sock \in [FDs -> Socket]
  BY DEF Inv, TypeOK, Socket
<1>3. /\ sock' \in [FDs -> Socket]
      /\ \A g \in FDs : sock'[g].open = sock[g].open /\ ~sock'[g].edge
  BY <1>1, <1>2 DEF Socket
<1>4. events' \subseteq FDs \cup {"listenfd", "pipefd"}
  BY <1>1
<1>5. TypeOK'
  BY <1>1, <1>3, <1>4 DEF Inv, TypeOK, Socket, timerVars
<1>6. Connections' /\ SetTimers'
  BY <1>1, <1>3 DEF Inv, Connections, SetTimers, Paired, Reaches, timerVars
<1>7. Batch'
  <2> SUFFICES ASSUME NEW fd \in FDs, fd \in events' PROVE sock'[fd].open
    BY DEF Batch
  <2>1. Ready(fd)
    BY <1>1, ServerAssumption
  <2>2. sock[fd].open
    BY <2>1 DEF Ready, Inv, Unreported
  <2> QED
    BY <1>3, <2>2
<1> QED
  BY <1>3, <1>5, <1>6, <1>7 DEF Inv, Unreported

LEMMA HandleStep ==
  ASSUME Inv, NEW e, Handle(e)
  PROVE  /\ e \in events /\ events' \subseteq events \ {e}
         /\ mainpc' \in {"dispatch", "timeout"} /\ (mainpc' # "dispatch" => events' = {})
BY DEF Handle

LEMMA AcceptInv == Inv /\ Accept => Inv'
<1> SUFFICES ASSUME Inv, Accept PROVE Inv'
  OBVIOUS
<1>1. PICK connfd \in {fd \in FDs : ~sock[fd].open}, t \in Timers \ DOMAIN left :
         /\ Arm(t, IdleLimit)
         /\ sock' = [sock EXCEPT ![connfd].open = TRUE]
         /\ users' = [users EXCEPT ![connfd] = t]
         /\ user_data' = [user_data EXCEPT ![t] = connfd]
         /\ idle' = [idle EXCEPT ![connfd] = 0]
  BY DEF Accept
<1>2. /\ backlog > 0 /\ backlog' = backlog - 1
      /\ UNCHANGED <<listenEdge, alarm, pipe, timeout, stop_server>>
      /\ left' = With(left, t, IdleLimit) /\ fired' = {}
  BY <1>1 DEF Accept, Arm
<1>3. /\ events' \subseteq events /\ mainpc' \in {"dispatch", "timeout"}
      /\ mainpc' # "dispatch" => events' = {}
  BY HandleStep DEF Accept
<1>4. /\ sock \in [FDs -> Socket]
      /\ users \in [FDs -> Timers \cup {NULL}] /\ user_data \in [Timers -> FDs \cup {NULL}]
      /\ idle \in [FDs -> 0 .. IdleLimit] /\ LeftOK(left) /\ backlog \in 0 .. Cardinality(FDs)
  BY DEF Inv, TypeOK, Socket, LeftOK
<1>5. /\ LeftOK(left') /\ DOMAIN left' = DOMAIN left \cup {t} /\ left'[t] = IdleLimit
      /\ \A u \in DOMAIN left : u # t => left'[u] = left[u]
  BY <1>2, <1>4, WithOK
<1>6. /\ sock' \in [FDs -> Socket]
      /\ sock'[connfd].open
      /\ \A g \in FDs : g # connfd => sock'[g] = sock[g]
  BY <1>1, <1>4, ZenonT(60) DEF Socket
<1>7. /\ users'[connfd] = t /\ user_data'[t] = connfd /\ idle'[connfd] = 0
      /\ \A g \in FDs : g # connfd => users'[g] = users[g] /\ idle'[g] = idle[g]
      /\ \A u \in Timers : u # t => user_data'[u] = user_data[u]
      /\ users' \in [FDs -> Timers \cup {NULL}] /\ user_data' \in [Timers -> FDs \cup {NULL}]
      /\ idle' \in [FDs -> 0 .. IdleLimit]
  BY <1>1, <1>4, LimitType
<1>8. backlog' \in 0 .. Cardinality(FDs)
  <2>1. Cardinality(FDs) \in Nat
    BY ServerAssumption, FS_CardinalityType
  <2> QED
    BY <1>2, <1>4, <2>1
<1>9. TypeOK'
  BY <1>2, <1>3, <1>5, <1>6, <1>7, <1>8 DEF Inv, TypeOK, Socket, LeftOK
<1>10. DOMAIN left \subseteq Timers
  BY <1>4, LeftType
<1>11. Connections'
  <2> SUFFICES ASSUME NEW g \in FDs, sock'[g].open PROVE Paired(g)'
    BY DEF Connections
  <2>1. CASE g = connfd
    BY <1>5, <1>7, <2>1, LimitType DEF Paired
  <2>2. CASE g # connfd
    <3>1. Paired(g)
      BY <1>6, <2>2 DEF Inv, Connections
    <3>2. users[g] \in DOMAIN left /\ users[g] # t
      BY <1>1, <3>1 DEF Paired
    <3> QED
      BY <1>5, <1>7, <1>10, <2>2, <3>1, <3>2 DEF Paired
  <2> QED  BY <2>1, <2>2
<1>12. SetTimers'
  <2> SUFFICES ASSUME NEW u \in DOMAIN left' PROVE Reaches(u)'
    BY DEF SetTimers
  <2>1. CASE u = t
    BY <1>1, <1>6, <1>7, <2>1 DEF Reaches
  <2>2. CASE u # t
    <3>1. u \in DOMAIN left /\ Reaches(u)
      BY <1>5, <2>2 DEF Inv, SetTimers
    <3>2. user_data[u] # connfd
      BY <1>1, <3>1 DEF Reaches
    <3> QED
      BY <1>6, <1>7, <1>10, <2>2, <3>1, <3>2 DEF Reaches
  <2> QED  BY <2>1, <2>2
<1>13. Batch' /\ Unreported'
  BY <1>1, <1>3, <1>6 DEF Inv, Batch, Unreported
<1> QED
  BY <1>9, <1>11, <1>12, <1>13 DEF Inv

LEMMA SignalsInv == Inv /\ ReadSignals => Inv'
<1> SUFFICES ASSUME Inv, ReadSignals PROVE Inv'
  OBVIOUS
<1>1. /\ pipe' = {} /\ timeout' \in BOOLEAN /\ stop_server' \in BOOLEAN /\ fired' = {}
      /\ UNCHANGED <<left, backlog, listenEdge, sock, alarm, users, user_data, idle>>
  BY DEF ReadSignals, Inv, TypeOK, Socket
<1>2. /\ events' \subseteq events /\ mainpc' \in {"dispatch", "timeout"}
      /\ mainpc' # "dispatch" => events' = {}
  BY HandleStep DEF ReadSignals
<1>3. TypeOK'
  BY <1>1, <1>2 DEF Inv, TypeOK, Socket
<1> QED
  BY <1>1, <1>2, <1>3 DEF Inv, Connections, SetTimers, Batch, Unreported, Paired, Reaches

(* Two open connections have different timers.                              *)
LEMMA OwnTimer ==
  ASSUME Inv, NEW fd \in FDs, NEW g \in FDs, sock[fd].open, sock[g].open, g # fd
  PROVE  users[g] # users[fd]
BY DEF Inv, Connections, Paired

LEMMA ExtendInv ==
  ASSUME Inv, NEW fd \in FDs, Receive(fd), sock[fd].unread > 0
  PROVE  Inv'
<1>1. /\ Extend(fd) /\ UNCHANGED <<backlog, listenEdge, alarm, pipe, timeout, stop_server>>
      /\ Handle(fd)
  BY DEF Receive
<1>2. /\ events' \subseteq events /\ mainpc' \in {"dispatch", "timeout"}
      /\ mainpc' # "dispatch" => events' = {}
      /\ sock[fd].open
  BY <1>1, HandleStep DEF Inv, Batch
<1> DEFINE t == users[fd]
<1>3. Paired(fd) /\ t \in DOMAIN left
  BY <1>2 DEF Inv, Connections, Paired
<1>4. LeftOK(left) /\ left' = With(left, t, IdleLimit)
  BY <1>1 DEF Extend, Rearm, Inv, TypeOK, LeftOK
<1>5. /\ sock' = [sock EXCEPT ![fd].unread = @ - 1]
      /\ fired' = {} /\ idle' = [idle EXCEPT ![fd] = 0] /\ UNCHANGED <<users, user_data>>
  BY <1>1 DEF Extend, Rearm
<1>6. /\ sock \in [FDs -> Socket]
      /\ idle \in [FDs -> 0 .. IdleLimit] /\ LeftOK(left) /\ MaxUnread \in Nat
  BY ServerAssumption DEF Inv, TypeOK, Socket, LeftOK
<1>7. t \in Timers
  BY <1>3, <1>6, LeftType
<1>8. /\ LeftOK(left') /\ DOMAIN left' = DOMAIN left /\ left'[t] = IdleLimit
      /\ \A u \in DOMAIN left : u # t => left'[u] = left[u]
  <2>1. /\ LeftOK(left') /\ DOMAIN left' = DOMAIN left \cup {t} /\ left'[t] = IdleLimit
        /\ \A u \in DOMAIN left : u # t => left'[u] = left[u]
    BY <1>7, <1>4, WithOK
  <2> QED
    BY <1>3, <2>1
<1>9. /\ sock' \in [FDs -> Socket]
      /\ \A g \in FDs : sock'[g].open = sock[g].open /\ sock'[g].edge = sock[g].edge
  <2>1. sock[fd].unread - 1 \in 0 .. MaxUnread
    BY <1>6 DEF Socket
  <2> QED
    BY <1>5, <1>6, <2>1 DEF Socket
<1>10. /\ idle' \in [FDs -> 0 .. IdleLimit] /\ idle'[fd] = 0
      /\ \A g \in FDs : g # fd => idle'[g] = idle[g]
  BY <1>5, <1>6, LimitType
<1>11. TypeOK'
  BY <1>1, <1>2, <1>5, <1>8, <1>9, <1>10 DEF Inv, TypeOK, Socket, LeftOK
<1>12. Connections'
  <2> SUFFICES ASSUME NEW g \in FDs, sock'[g].open PROVE Paired(g)'
    BY DEF Connections
  <2>1. Paired(g)
    BY <1>9 DEF Inv, Connections
  <2>2. idle'[g] + left'[users[g]] = IdleLimit
    <3>1. CASE g = fd
      BY <1>8, <1>10, <3>1, LimitType
    <3>2. CASE g # fd
      BY <1>2, <1>8, <1>9, <1>10, <2>1, <3>2, OwnTimer DEF Paired
    <3> QED  BY <3>1, <3>2
  <2> QED
    BY <1>5, <1>8, <2>1, <2>2 DEF Paired
<1>13. SetTimers' /\ Batch' /\ Unreported'
  BY <1>2, <1>5, <1>8, <1>9 DEF Inv, SetTimers, Reaches, Batch, Unreported
<1> QED
  BY <1>11, <1>12, <1>13 DEF Inv

LEMMA CloseInv ==
  ASSUME Inv, NEW fd \in FDs, Receive(fd), ~(sock[fd].unread > 0), sock[fd].hup
  PROVE  Inv'
<1>1. /\ Close(fd) /\ UNCHANGED <<backlog, listenEdge, alarm, pipe, timeout, stop_server>>
      /\ Handle(fd)
  BY DEF Receive
<1>2. /\ events' \subseteq events \ {fd} /\ mainpc' \in {"dispatch", "timeout"}
      /\ mainpc' # "dispatch" => events' = {}
      /\ sock[fd].open
  BY <1>1, HandleStep DEF Inv, Batch
<1> DEFINE t == users[fd]
<1>3. Paired(fd) /\ t \in DOMAIN left
  BY <1>2 DEF Inv, Connections, Paired
<1>4. /\ sock' = [sock EXCEPT ![fd] = ClosedSocket] /\ fired' = {} /\ UNCHANGED users
      /\ user_data' = [user_data EXCEPT ![t] = NULL] /\ idle' = [idle EXCEPT ![fd] = 0]
  BY <1>1 DEF Close, Cancel
<1>5. LeftOK(left) /\ left' = Without(left, t)
  BY <1>1 DEF Close, Cancel, Inv, TypeOK, LeftOK
<1>6. /\ sock \in [FDs -> Socket]
      /\ idle \in [FDs -> 0 .. IdleLimit] /\ LeftOK(left) /\ user_data \in [Timers -> FDs \cup {NULL}]
  BY DEF Inv, TypeOK, Socket, LeftOK
<1>7. t \in Timers /\ DOMAIN left \subseteq Timers
  BY <1>3, <1>6, LeftType
<1>8. /\ LeftOK(left') /\ DOMAIN left' = DOMAIN left \ {t}
      /\ \A u \in DOMAIN left : u # t => left'[u] = left[u]
  BY <1>5, WithoutOK
<1>9. /\ sock' \in [FDs -> Socket]
      /\ ~sock'[fd].open /\ ~sock'[fd].edge
      /\ \A g \in FDs : g # fd => sock'[g] = sock[g]
  <2>1. sock'[fd] = ClosedSocket
    BY <1>4, <1>6
  <2>2. /\ sock' \in [FDs -> Socket]
        /\ \A g \in FDs : g # fd => sock'[g] = sock[g]
    BY <1>4, <1>6, ClosedOK
  <2> QED
    BY <2>1, <2>2 DEF ClosedSocket
<1>10. /\ idle' \in [FDs -> 0 .. IdleLimit] /\ user_data' \in [Timers -> FDs \cup {NULL}]
      /\ \A g \in FDs : g # fd => idle'[g] = idle[g]
      /\ \A u \in Timers : u # t => user_data'[u] = user_data[u]
  <2>1. /\ idle' \in [FDs -> 0 .. IdleLimit]
        /\ \A g \in FDs : g # fd => idle'[g] = idle[g]
    BY <1>4, <1>6, LimitType
  <2>2. /\ user_data' \in [Timers -> FDs \cup {NULL}]
        /\ \A u \in Timers : u # t => user_data'[u] = user_data[u]
    BY <1>4, <1>6
  <2> QED
    BY <2>1, <2>2
<1>11. TypeOK'
  BY <1>1, <1>2, <1>4, <1>8, <1>9, <1>10 DEF Inv, TypeOK, Socket, LeftOK
<1>12. Connections'
  <2> SUFFICES ASSUME NEW g \in FDs, sock'[g].open PROVE Paired(g)'
    BY DEF Connections
  <2>1. g # fd /\ Paired(g) /\ users[g] # t
    BY <1>2, <1>9, OwnTimer DEF Inv, Connections
  <2> QED
    BY <1>4, <1>7, <1>8, <1>10, <2>1 DEF Paired
<1>13. SetTimers'
  <2> SUFFICES ASSUME NEW u \in DOMAIN left, u # t PROVE Reaches(u)'
    BY <1>8 DEF SetTimers
  <2>1. Reaches(u) /\ user_data[u] # fd
    BY DEF Inv, SetTimers, Reaches
  <2> QED
    BY <1>4, <1>7, <1>9, <1>10, <2>1 DEF Reaches
<1>14. Batch' /\ Unreported'
  BY <1>2, <1>9 DEF Inv, Batch, Unreported
<1> QED
  BY <1>11, <1>12, <1>13, <1>14 DEF Inv

LEMMA ReceiveInv ==
  ASSUME Inv, NEW fd \in FDs, Receive(fd)
  PROVE  Inv'
<1>1. CASE ~(sock[fd].unread > 0) /\ ~sock[fd].hup
  <2>1. UNCHANGED <<left, sock, users, user_data, idle, backlog, listenEdge, alarm, pipe, timeout, stop_server>>
        /\ fired' = {}
    BY <1>1 DEF Receive
  <2>2. /\ events' \subseteq events /\ mainpc' \in {"dispatch", "timeout"}
        /\ mainpc' # "dispatch" => events' = {}
    BY HandleStep DEF Receive
  <2>3. TypeOK'
    BY <2>1, <2>2 DEF Inv, TypeOK, Socket
  <2> QED
    BY <2>1, <2>2, <2>3 DEF Inv, Connections, SetTimers, Batch, Unreported, Paired, Reaches
<1> QED
  BY <1>1, ExtendInv, CloseInv

(* tick() closes the connections whose timers are due, and only they lose   *)
(* their timers.                                                            *)
LEMMA TickInv == Inv /\ TimerHandler => Inv'
<1> SUFFICES ASSUME Inv, TimerHandler PROVE Inv'
  OBVIOUS
<1>1. /\ mainpc = "timeout" /\ mainpc' = "epoll_wait" /\ alarm' = TIMESLOT /\ timeout' = FALSE
      /\ UNCHANGED <<backlog, listenEdge, pipe, users, events, stop_server>>
      /\ fired' = Due(left) /\ left' = Undue(left)
      /\ sock' = [fd \in FDs |-> IF fd \in Overdue THEN ClosedSocket ELSE sock[fd]]
      /\ user_data' = [t \in Timers |-> IF t \in Due(left) THEN NULL ELSE user_data[t]]
      /\ idle' = [fd \in FDs |-> IF fd \in Overdue THEN 0 ELSE idle[fd]]
  BY DEF TimerHandler, TickTimers, Expire
<1>2. /\ sock \in [FDs -> Socket]
      /\ idle \in [FDs -> 0 .. IdleLimit] /\ LeftOK(left) /\ user_data \in [Timers -> FDs \cup {NULL}]
      /\ events = {}
  BY <1>1 DEF Inv, TypeOK, Socket, LeftOK
<1>3. /\ LeftOK(left') /\ DOMAIN left' = DOMAIN left \ Due(left)
      /\ \A u \in DOMAIN left \ Due(left) : left'[u] = left[u]
  BY <1>1, <1>2, UndueOK
<1>4. Due(left) \subseteq Timers /\ DOMAIN left \subseteq Timers
  BY <1>2, LeftType DEF Due
<1>5. /\ sock' \in [FDs -> Socket]
      /\ \A g \in Overdue : ~sock'[g].open /\ ~sock'[g].edge
      /\ \A g \in FDs \ Overdue : sock'[g] = sock[g]
  <2>1. sock' \in [FDs -> Socket]
    BY <1>1, <1>2, ClosedOK
  <2>2. /\ \A g \in Overdue : sock'[g] = ClosedSocket
        /\ \A g \in FDs \ Overdue : sock'[g] = sock[g]
    BY <1>1 DEF Overdue
  <2> QED
    BY <2>1, <2>2 DEF ClosedSocket
<1>6. /\ idle' \in [FDs -> 0 .. IdleLimit] /\ user_data' \in [Timers -> FDs \cup {NULL}]
  BY <1>1, <1>2, LimitType
<1>7. alarm' \in 0 .. TIMESLOT \cup {NULL}
  BY <1>1, ServerAssumption
<1>8. TypeOK'
  BY <1>1, <1>2, <1>3, <1>4, <1>5, <1>6, <1>7 DEF Inv, TypeOK, Socket, LeftOK
<1>9. Connections'
  <2> SUFFICES ASSUME NEW g \in FDs, sock'[g].open PROVE Paired(g)'
    BY DEF Connections
  <2>1. g \notin Overdue /\ Paired(g)
    BY <1>5 DEF Inv, Connections
  <2>2. users[g] \in DOMAIN left \ Due(left)
    BY <2>1 DEF Overdue, Paired
  <2> QED
    BY <1>1, <1>3, <1>4, <2>1, <2>2 DEF Paired
<1>10. SetTimers'
  <2> SUFFICES ASSUME NEW u \in DOMAIN left \ Due(left) PROVE Reaches(u)'
    BY <1>3 DEF SetTimers
  <2>1. Reaches(u)
    BY DEF Inv, SetTimers
  <2>2. user_data[u] \notin Overdue
    BY <2>1 DEF Overdue, Reaches, Inv, SetTimers, Due
  <2> QED
    BY <1>1, <1>4, <1>5, <2>1, <2>2 DEF Reaches
<1>11. Batch' /\ Unreported'
  BY <1>1, <1>2, <1>5 DEF Inv, Batch, Unreported
<1> QED
  BY <1>8, <1>9, <1>10, <1>11 DEF Inv

LEMMA LoopInv == Inv /\ (NoTimeout \/ Exit) => Inv'
<1> SUFFICES ASSUME Inv, NoTimeout \/ Exit PROVE Inv'
  OBVIOUS
<1>1. CASE NoTimeout
  BY <1>1 DEF NoTimeout, kernelVars, Inv, TypeOK, Socket, Connections, SetTimers, Batch, Unreported, Paired, Reaches
<1>2. CASE Exit
  <2>1. /\ sock' = [fd \in FDs |-> ClosedSocket] /\ left' = NoTimers /\ events' = events
        /\ mainpc = "epoll_wait"
    BY <1>2 DEF Exit
  <2>2. LeftOK(left') /\ DOMAIN left' = {}
    BY <2>1, NoTimersOK
  <2>3. Cardinality(FDs) \in Nat
    BY ServerAssumption, FS_CardinalityType
  <2>4. /\ sock' \in [FDs -> Socket]
        /\ \A g \in FDs : ~sock'[g].open /\ ~sock'[g].edge
    <3>1. \A g \in FDs : sock'[g] = ClosedSocket
      BY <2>1
    <3>2. sock' \in [FDs -> Socket]
      BY <2>1, ClosedOK
    <3> QED
      BY <3>1, <3>2 DEF ClosedSocket
  <2>5. idle' \in [FDs -> 0 .. IdleLimit] /\ user_data' \in [Timers -> FDs \cup {NULL}]
    BY <1>2, LimitType DEF Exit
  <2>6. backlog' \in 0 .. Cardinality(FDs)
    BY <1>2, <2>3 DEF Exit
  <2>7. TypeOK'
    BY <1>2, <2>2, <2>4, <2>5, <2>6 DEF Exit, Inv, TypeOK, Socket, LeftOK
  <2>8. events' = {}
    BY <2>1 DEF Inv, TypeOK, Socket
  <2> QED
    BY <2>2, <2>4, <2>7, <2>8 DEF Inv, Connections, SetTimers, Batch, Unreported
<1> QED
  BY <1>1, <1>2

LEMMA NextInv == Inv /\ [Next]_vars => Inv'
<1> SUFFICES ASSUME Inv, [Next]_vars PROVE Inv'
  OBVIOUS
<1>1. CASE UNCHANGED vars
  BY <1>1 DEF vars, timerVars, kernelVars, programVars, Inv, TypeOK, Socket, Connections, SetTimers, Batch,
              Unreported, Paired, Reaches
<1> QED
  BY <1>1, ConnectInv, ClientInv, SignalInv, ClockInv, WaitInv, AcceptInv, SignalsInv, ReceiveInv,
     TickInv, LoopInv DEF Next, MainStep
-----------------------------------------------------------------------------
(* A connection is closed after its client has closed it, or by tick().     *)
LEMMA ClosedBy ==
  ASSUME Inv, [Next]_vars, NEW fd \in FDs, sock[fd].open, ~sock'[fd].open, Running'
  PROVE  sock[fd].hup \/ idle[fd] >= IdleLimit
<1>1. sock \in [FDs -> Socket]
  BY DEF Inv, TypeOK, Socket
<1>2. CASE TimerHandler
  <2>1. fd \in Overdue
    BY <1>1, <1>2 DEF TimerHandler, TickTimers
  <2>2. PICK t \in DOMAIN left : left[t] = 0 /\ user_data[t] = fd
    BY <2>1 DEF Overdue, Due
  <2>3. users[fd] = t /\ Paired(fd)
    BY <2>2 DEF Inv, SetTimers, Connections, Reaches
  <2>4. idle[fd] \in 0 .. IdleLimit /\ idle[fd] + 0 = IdleLimit
    BY <2>2, <2>3 DEF Paired, Inv, TypeOK, Socket
  <2> QED
    BY <2>4, LimitType
<1>3. ASSUME NEW g \in FDs, Receive(g) PROVE sock[fd].hup
  <2>1. CASE sock[g].unread > 0
    BY <1>1, <1>3, <2>1 DEF Receive, Extend, Socket
  <2>2. CASE ~(sock[g].unread > 0) /\ sock[g].hup
    <3>1. sock' = [sock EXCEPT ![g] = ClosedSocket]
      BY <1>3, <2>2 DEF Receive, Close
    <3> QED
      BY <1>1, <2>2, <3>1
  <2>3. CASE ~(sock[g].unread > 0) /\ ~sock[g].hup
    BY <1>3, <2>3 DEF Receive
  <2> QED  BY <2>1, <2>2, <2>3
<1>4. CASE Accept
  BY <1>1, <1>4 DEF Accept
<1>5. CASE EpollWait
  BY <1>1, <1>5 DEF EpollWait, Socket
<1>6. ASSUME NEW g \in FDs, ClientSend(g) \/ ClientClose(g) PROVE FALSE
  BY <1>1, <1>6 DEF ClientSend, ClientClose, Socket
<1>7. CASE UNCHANGED sock
  BY <1>7
<1>8. CASE Exit
  BY <1>8 DEF Exit, Running
<1> QED
  BY <1>2, <1>3, <1>4, <1>5, <1>6, <1>7, <1>8 DEF Next, MainStep, ClientConnect, Clock, SigAlrm, SigTerm,
     ReadSignals, NoTimeout, kernelVars, vars

(* No timer is ever set for longer than 3 * TIMESLOT, and main looks at the *)
(* timers (190-193) only when it has handled the whole batch of epoll_wait. *)
THEOREM TypeCorrect == Spec => []TypeOK
<1>1. Inv => TypeOK
  BY DEF Inv
<1> QED
  BY <1>1, InitInv, NextInv, PTL DEF Spec

(* users[connfd].timer and timer->user_data (124-140), the two pointers     *)
(* that cb_func, del_timer and adjust_timer follow (155-183), stay in step  *)
(* for any number of connections: no deleted timer is reached.              *)
THEOREM TimersFound == Spec => []TimersMatch
BY Matching, InitInv, NextInv, PTL DEF Spec

(* tick() never closes a connection before its client has been silent for   *)
(* 3 * TIMESLOT, for any TIMESLOT, however the alarm's byte and the data    *)
(* are ordered in a batch.                                                  *)
THEOREM NoneClosedEarly == Spec => NoEarlyClose
<1>1. Inv /\ [Next]_vars =>
        [\A fd \in FDs :
           sock[fd].open /\ ~sock'[fd].open /\ Running' =>
               sock[fd].hup \/ idle[fd] >= IdleLimit]_vars
  BY ClosedBy
<1> QED
  BY <1>1, InitInv, NextInv, PTL DEF Spec, NoEarlyClose
=============================================================================
