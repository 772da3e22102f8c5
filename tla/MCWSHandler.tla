---------------------------- MODULE MCWSHandler ----------------------------
(***************************************************************************)
(* Instances of WSHandler for TLC: one room, its host with the sockets h1  *)
(* and h2, and Ann, a member, with the sockets a1 and a2.  Which of them   *)
(* connect, which events they send and which connections break is chosen   *)
(* by each configuration.                                                  *)
(***************************************************************************)
EXTENDS WSHandler

CONSTANTS h1, h2, a1, a2, host, ann, room

MCUserOf == [c \in Clients |-> IF c \in {h1, h2} THEN host ELSE ann]

MCRoomOf == [c \in Clients |-> room]

MCHostOf == [r \in Rooms |-> host]
=============================================================================
