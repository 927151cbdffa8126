---------------------------- MODULE MCWebServer ----------------------------
(* WebServer for TLC: two descriptors, two workers.                         *)
EXTENDS WebServer
=============================================================================
