--------------------------- MODULE MCStreamProxy ---------------------------
(***************************************************************************)
(* An instance of StreamProxy for TLC: a movie of three pieces, of which a *)
(* response carries two, and headers on both sides of each boundary.       *)
(***************************************************************************)
EXTENDS StreamProxy, TLC

MCHeader(form, first, last, n) ==
    [form |-> form, first |-> first, last |-> last, n |-> n, listed |-> {}]

MCHeaders ==
    {MCHeader(form, 0, 0, 0) : form \in {"blank", "unit", "malformed"}}
        \cup {[MCHeader("list", 0, 0, 0) EXCEPT !.listed = {0, 2}]}
        \cup {MCHeader("suffix", 0, 0, n) : n \in {-1, 0, 1, 4, 9}}
        \cup {MCHeader("from", first, 0, 0) : first \in {0, 2, 3, 9}}
        \cup {MCHeader("closed", first, last, 0) : first \in {1, 2}, last \in {-1, 1, 4, 9}}

MCSymmetry == Permutations(Tasks)
=============================================================================
