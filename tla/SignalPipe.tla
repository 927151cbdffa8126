------------------------------ MODULE SignalPipe ------------------------------
(***************************************************************************)
(* Signals as bytes in a pipe: sig_handler writes the number of the signal *)
(* into the pipe that the event loop reads.  A signal that is pending when *)
(* it is raised again is delivered once, so the bytes in the pipe may be   *)
(* fewer than the events.  Of adjacent "term" bytes one is kept: the       *)
(* second asks for what the first did.                                     *)
(***************************************************************************)
EXTENDS Integers, Sequences

SignalBytes == {"chld", "term"}

WithChld(s) ==
    {Append(s, "chld")} \cup (IF s # <<>> /\ s[Len(s)] = "chld" THEN {s} ELSE {})

WithTerm(s) ==
    IF s # <<>> /\ s[Len(s)] = "term" THEN s ELSE Append(s, "term")
=============================================================================
