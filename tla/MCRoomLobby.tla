---------------------------- MODULE MCRoomLobby ----------------------------
(* RoomLobby for TLC, up to the names of the players and of the addresses. *)
EXTENDS RoomLobby, TLC

Symmetry == Permutations(Players) \cup Permutations(Objects)
=============================================================================
