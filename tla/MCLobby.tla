------------------------------ MODULE MCLobby ------------------------------
(* Lobby with users that TLC may exchange for one another, and one failure of *)
(* either kind. *)
EXTENDS Lobby

UserSymmetry == Permutations(User)

OneFailure == faults + dbFaults <= 1
=============================================================================
