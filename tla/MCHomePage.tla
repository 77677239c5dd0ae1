----------------------------- MODULE MCHomePage -----------------------------
(* HomePage with the bounds of its configurations. *)
EXTENDS HomePage
=============================================================================
