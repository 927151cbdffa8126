------------------------------ MODULE EpollLoops ------------------------------
(***************************************************************************)
(* Three single-threaded loops on epoll_wait: chapter_09/02_epoll.c with   *)
(* level-triggered (lt) and edge-triggered (et) connections, and the       *)
(* TCP/UDP echo server chapter_09/06_echo_server.c, level-triggered.  In   *)
(* 02_epoll.c the listening socket is edge-triggered in both modes.        *)
(*                                                                         *)
(* A piece of data is what one recv takes.  An event is handled when       *)
(* epoll_wait returns it, but et's recv loop goes on while data arrives.   *)
(***************************************************************************)
EXTENDS Naturals

CONSTANTS FDs,        \* descriptors the kernel can hand out
          MaxPieces,  \* bound of the model: pieces and datagrams the clients send
          Room,       \* pieces that fit between the echo server and a client's reads
          NULL

LoopAssumption == NULL \notin FDs

VARIABLES
    mode,        \* "lt", "et" or "echo"
    conn,        \* open, unread, eof, edge (on epoll's ready list), out (echoed)
    backlog, listenEdge,
    udp,         \* datagrams that wait
    reading,     \* the descriptor that et is reading
    pieces,
    merged,      \* history: connections that arrived on the edge of another
    dropped      \* history: the echo server did not send what it had received

loopVars == <<mode, conn, backlog, listenEdge, udp, reading, pieces, merged, dropped>>

NoConn == [open |-> FALSE, unread |-> 0, eof |-> FALSE, edge |-> FALSE, out |-> 0]

LoopInit ==
    /\ mode \in {"lt", "et", "echo"}
    /\ conn = [fd \in FDs |-> NoConn] /\ backlog = 0 /\ listenEdge = FALSE /\ udp = 0
    /\ reading = NULL /\ pieces = 0 /\ merged = 0 /\ dropped = FALSE
-----------------------------------------------------------------------------
(* The clients (external)                                                   *)

Connect ==
    /\ backlog < 2 /\ backlog' = backlog + 1 /\ listenEdge' = TRUE
    /\ merged' = IF mode # "echo" /\ listenEdge THEN merged + 1 ELSE merged
    /\ UNCHANGED <<mode, conn, udp, reading, pieces, dropped>>

Data(fd) ==
    /\ conn[fd].open /\ ~conn[fd].eof /\ pieces < MaxPieces /\ pieces' = pieces + 1
    /\ conn' = [conn EXCEPT ![fd].unread = @ + 1, ![fd].edge = TRUE]
    /\ UNCHANGED <<mode, backlog, listenEdge, udp, reading, merged, dropped>>

Datagram ==
    /\ mode = "echo" /\ pieces < MaxPieces /\ pieces' = pieces + 1 /\ udp' = udp + 1
    /\ UNCHANGED <<mode, conn, backlog, listenEdge, reading, merged, dropped>>

Hangup(fd) ==
    /\ conn[fd].open /\ ~conn[fd].eof
    /\ conn' = [conn EXCEPT ![fd].eof = TRUE, ![fd].edge = TRUE]
    /\ UNCHANGED <<mode, backlog, listenEdge, udp, reading, pieces, merged, dropped>>

ReadEcho(fd) ==
    /\ conn[fd].out > 0 /\ conn' = [conn EXCEPT ![fd].out = @ - 1]
    /\ UNCHANGED <<mode, backlog, listenEdge, udp, reading, pieces, merged, dropped>>
-----------------------------------------------------------------------------
InWait == reading = NULL

(* One accept per event, whichever kind the event is.                       *)
AcceptOne(fd) ==
    /\ InWait /\ backlog > 0 /\ ~conn[fd].open
    /\ backlog' = backlog - 1 /\ listenEdge' = FALSE
    /\ conn' = [conn EXCEPT ![fd] = [NoConn EXCEPT !.open = TRUE]]
    /\ UNCHANGED <<mode, udp, reading, pieces, merged, dropped>>

LoopAccept(fd) == mode # "echo" /\ listenEdge /\ AcceptOne(fd)
EchoAccept(fd) == mode = "echo" /\ AcceptOne(fd)

(* lt: one recv for an event; the end of the stream, or an error, closes.   *)
Lt(fd) ==
    /\ mode = "lt" /\ InWait /\ conn[fd].open
    /\ \/ conn[fd].unread > 0 /\ conn' = [conn EXCEPT ![fd].unread = @ - 1]
       \/ conn[fd].unread = 0 /\ conn[fd].eof /\ conn' = [conn EXCEPT ![fd] = NoConn]
    /\ UNCHANGED <<mode, backlog, listenEdge, udp, reading, pieces, merged, dropped>>

EtEvent(fd) ==
    /\ mode = "et" /\ InWait /\ conn[fd].open /\ conn[fd].edge
    /\ conn' = [conn EXCEPT ![fd].edge = FALSE] /\ reading' = fd
    /\ UNCHANGED <<mode, backlog, listenEdge, udp, pieces, merged, dropped>>

(* et reads until recv fails.  At the end of the stream it closes and reads *)
(* on: that recv fails, for the descriptor is closed, and ends the loop.    *)
(* Mutant: one recv per event.                                              *)
EtRecvOnce ==
    /\ reading # NULL /\ reading' = NULL
    /\ conn' = IF conn[reading].unread > 0
               THEN [conn EXCEPT ![reading].unread = @ - 1]
               ELSE IF conn[reading].eof THEN [conn EXCEPT ![reading] = NoConn] ELSE conn
    /\ UNCHANGED <<mode, backlog, listenEdge, udp, pieces, merged, dropped>>
EtRecv ==
    /\ reading # NULL
    /\ \/ /\ conn[reading].unread > 0
          /\ conn' = [conn EXCEPT ![reading].unread = @ - 1] /\ UNCHANGED reading
       \/ /\ conn[reading].unread = 0 /\ conn[reading].eof
          /\ conn' = [conn EXCEPT ![reading] = NoConn] /\ UNCHANGED reading
       \/ /\ conn[reading].unread = 0 /\ ~conn[reading].eof
          /\ reading' = NULL /\ UNCHANGED conn
    /\ UNCHANGED <<mode, backlog, listenEdge, udp, pieces, merged, dropped>>

EchoTcp(fd) ==
    /\ mode = "echo" /\ InWait /\ conn[fd].open
    /\ \/ /\ conn[fd].unread > 0
          /\ conn' = [conn EXCEPT ![fd].unread = @ - 1,
                                  ![fd].out = IF @ < Room THEN @ + 1 ELSE @]
          /\ dropped' = (dropped \/ conn[fd].out >= Room)
       \/ /\ conn[fd].unread = 0 /\ conn[fd].eof
          /\ conn' = [conn EXCEPT ![fd] = NoConn] /\ UNCHANGED dropped
    /\ UNCHANGED <<mode, backlog, listenEdge, udp, reading, pieces, merged>>

EchoUdp ==
    /\ mode = "echo" /\ InWait /\ udp > 0 /\ udp' = udp - 1
    /\ UNCHANGED <<mode, conn, backlog, listenEdge, reading, pieces, merged, dropped>>

LoopNext ==
    \/ Connect \/ Datagram \/ EtRecv \/ EchoUdp
    \/ \E fd \in FDs : \/ Data(fd) \/ Hangup(fd) \/ ReadEcho(fd)
                       \/ LoopAccept(fd) \/ EchoAccept(fd)
                       \/ Lt(fd) \/ EtEvent(fd) \/ EchoTcp(fd)
-----------------------------------------------------------------------------
(* An edge comes once: when et waits in epoll_wait, every connection that   *)
(* has data or has ended is on the ready list (78-93); and no more          *)
(* connections wait for accept unnoticed than came on another's edge: one   *)
(* accept for an edge (46-50) leaves them behind for good.                  *)
NothingForgotten ==
    /\ \A fd \in FDs : mode = "et" /\ conn[fd].open /\ (conn[fd].unread > 0 \/ conn[fd].eof)
                         => conn[fd].edge \/ reading = fd
    /\ mode # "echo" => backlog <= merged \/ (listenEdge /\ backlog = merged + 1)

(* What the echo server receives on a connection it sends back (191-195).   *)
EchoesAll == ~dropped
=============================================================================
