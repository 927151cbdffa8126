------------------------------ MODULE MCSockets ------------------------------
(* The poll server and the epoll loops for TLC, one of them in a behaviour. *)
EXTENDS PollServer, TLC

CONSTANTS MaxPieces, Room

VARIABLES which,
          mode, conn, loopBacklog, loopEdge, udp, reading, pieces, merged, dropped

L == INSTANCE EpollLoops WITH backlog <- loopBacklog, listenEdge <- loopEdge

ASSUME SocketsAssumption == PollAssumption /\ L!LoopAssumption

loopVars == <<mode, conn, loopBacklog, loopEdge, udp, reading, pieces, merged, dropped>>
vars == <<which, pollVars, loopVars>>

(* The module that is not of this behaviour stays as it began.              *)
Init ==
    /\ which \in {"poll", "loop"} /\ PollInit /\ L!LoopInit
    /\ which = "poll" => mode = "lt"

Next ==
    /\ UNCHANGED which
    /\ \/ which = "poll" /\ PollNext /\ UNCHANGED loopVars
       \/ which = "loop" /\ L!LoopNext /\ UNCHANGED pollVars

Spec == Init /\ [][Next]_vars

Symmetry == Permutations(FDs)

(* EpollLoops: no data, end of stream or connection without an event.       *)
NothingForgotten == L!NothingForgotten

(* 06_echo_server.c:7: what is received is sent back.                       *)
EchoesAll == L!EchoesAll
=============================================================================
