------------------------------ MODULE MCMovies ------------------------------
(***************************************************************************)
(* Instances of Movies for TLC.  The slots are interchangeable.            *)
(***************************************************************************)
EXTENDS Movies, TLC

MCSymmetry == Permutations(Requests)
=============================================================================
