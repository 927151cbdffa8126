---------------------------- MODULE MCTimerServer ----------------------------
(* TimerServer for TLC: two descriptors and two timer objects.              *)
EXTENDS TimerServer
=============================================================================
