----------------------------- MODULE MCProcess -----------------------------
(* A small instance of Process for TLC. *)
EXTENDS Process, MCPoller
=============================================================================
