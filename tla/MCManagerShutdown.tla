------------------------- MODULE MCManagerShutdown -------------------------
(* ManagerShutdown with the bounds of its configurations. *)
EXTENDS ManagerShutdown
=============================================================================
