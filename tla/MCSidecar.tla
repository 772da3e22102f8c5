----------------------------- MODULE MCSidecar -----------------------------
(***************************************************************************)
(* Instances of Sidecar for TLC: two calls at once for one thread, and the *)
(* code's limits, 30 s for an attempt and 120 s for a call, in units of    *)
(* 15 s.                                                                   *)
(***************************************************************************)
EXTENDS Sidecar
=============================================================================
