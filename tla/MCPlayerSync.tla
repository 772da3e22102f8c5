---------------------------- MODULE MCPlayerSync ----------------------------
(***************************************************************************)
(* Instances of PlayerSync for TLC.  The tabs of the host are              *)
(* interchangeable.                                                        *)
(***************************************************************************)
EXTENDS PlayerSync, TLC

MCSymmetry == Permutations(Hosts)
=============================================================================
