---------------------------- MODULE MCThreadPool ----------------------------
(* ThreadPool for TLC: two producers, two workers and a bound of one.       *)
EXTENDS ThreadPool
=============================================================================
