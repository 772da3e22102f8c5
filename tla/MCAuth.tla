------------------------------- MODULE MCAuth -------------------------------
(***************************************************************************)
(* Instances of Auth for TLC.  The slots are interchangeable.              *)
(***************************************************************************)
EXTENDS Auth, TLC

MCSymmetry == Permutations(Requests)
=============================================================================
