------------------------------- MODULE MCChat -------------------------------
(***************************************************************************)
(* Instances of Chat for TLC: messages that are interchangeable, in two or *)
(* three seconds, and pages of one or two.                                 *)
(***************************************************************************)
EXTENDS Chat, TLC

MCSymmetry == Permutations(Messages)
=============================================================================
