------------------------------- MODULE MCPunch -------------------------------
(* A small instance of Punch for TLC. *)
EXTENDS Punch
=============================================================================
