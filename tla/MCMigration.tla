---------------------------- MODULE MCMigration ----------------------------
(***************************************************************************)
(* Instances of Migration for TLC.  The processes are interchangeable.     *)
(***************************************************************************)
EXTENDS Migration, TLC

MCSymmetry == Permutations(Runners)
=============================================================================
