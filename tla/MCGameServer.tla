---------------------------- MODULE MCGameServer ----------------------------
(* GameServer with the bounds of its configurations. *)
EXTENDS GameServer
=============================================================================
