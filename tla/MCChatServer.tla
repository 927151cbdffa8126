----------------------------- MODULE MCChatServer -----------------------------
(* The chat server for TLC.                                                 *)
EXTENDS ChatServer
=============================================================================
