---------------------------- MODULE MCFreeMatch ----------------------------
(* FreeMatch for TLC, up to the names of the players and of the addresses. *)
EXTENDS FreeMatch

Symmetry == Permutations(Players) \cup Permutations(Objects)
=============================================================================
