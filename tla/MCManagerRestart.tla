-------------------------- MODULE MCManagerRestart --------------------------
(* ManagerRestart with the bounds of its configurations. *)
EXTENDS ManagerRestart
=============================================================================
