--------------------------- MODULE MCEpollOneshot ---------------------------
(* EpollOneshot for TLC: two connections, two threads.                      *)
EXTENDS EpollOneshot
=============================================================================
