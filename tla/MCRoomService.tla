--------------------------- MODULE MCRoomService ---------------------------
(***************************************************************************)
(* Instances of RoomService for TLC: a host and up to two others, and two  *)
(* request slots, which are interchangeable, as are the users who are not  *)
(* the host.                                                               *)
(***************************************************************************)
EXTENDS RoomService, TLC

MCSymmetry == Permutations(Requests) \cup Permutations(Users \ {Host})
=============================================================================
