---------------------------- MODULE BoundedRange ----------------------------
(***************************************************************************)
(* parseBoundedRange of src/internal/handler/proxy_handler.go: which bytes *)
(* of a file of a given size one response carries.  Sizes are int64, and   *)
(* none comes near to overflow it; the numbers of a header are any.        *)
(***************************************************************************)
EXTENDS Integers

CONSTANTS
    MaxChunk,       \* externalCacheMaxChunkBytes: 4 MB in the code
    MaxInt          \* the largest int64

ASSUME MaxChunkAssumption ==
    /\ MaxChunk \in Nat \ {0}
    /\ MaxInt \in Nat

(* The forms of a Range header: blank; bytes=-n; bytes=first-;             *)
(* bytes=first-last; a list of ranges, which covers the bytes listed;      *)
(* another unit; and malformed, for what has no number where there should  *)
(* be one.  The header is split at its first "-": last and n may have a    *)
(* sign, of which a "+" is read as if it were not there.                   *)
Forms == {"blank", "suffix", "from", "closed", "list", "unit", "malformed"}

Header == [form : Forms, first : Nat, last : Int, n : Int, listed : SUBSET Nat]

Least(a, b) == IF a <= b THEN a ELSE b

Refused == [ok |-> FALSE, start |-> 0, end |-> 0]

\* Means something, and is refused all the same: by the prefix that is asked for, or by
\* ParseInt.
Unread(header) ==
    \/ header.form \in {"list", "unit"}
    \/ header.form = "suffix" /\ header.n > MaxInt
    \/ header.form \in {"from", "closed"} /\ header.first > MaxInt
    \/ header.form = "closed" /\ header.last > MaxInt

Refuses(header, size) ==
    \/ size <= 0
    \/ header.form = "malformed" \/ Unread(header)
    \/ header.form = "suffix" /\ header.n <= 0
    \/ header.form \in {"from", "closed"} /\ (header.first < 0 \/ header.first >= size)
    \/ header.form = "closed" /\ header.last < header.first

RangeStart(header, size) ==
    IF header.form = "suffix" THEN size - Least(header.n, size)
    ELSE IF header.form = "blank" THEN 0
    ELSE header.first

RangeEnd(header, size) ==
    IF header.form = "closed" THEN Least(header.last, size - 1) ELSE size - 1

\* Mutant: the end is capped from the front of the file.
ParseBoundedRange_CapFromZero(header, size) ==
    IF Refuses(header, size) THEN Refused
    ELSE [ok |-> TRUE, start |-> RangeStart(header, size),
          end |-> Least(RangeEnd(header, size), MaxChunk - 1)]

ParseBoundedRange(header, size) ==
    IF Refuses(header, size) THEN Refused
    ELSE LET start == RangeStart(header, size)
         IN  [ok |-> TRUE, start |-> start,
              end |-> Least(RangeEnd(header, size),
                            Least(size - 1, start + MaxChunk - 1))]

-----------------------------------------------------------------------------
(* What RFC 9110 (14.1.2, 14.2) selects, byte by byte, of numbers of any   *)
(* size.  It has a header of an unknown unit ignored, as if there was none, *)
(* and lets a server reject what is not well-formed.                       *)

Selects(header, size, b) ==
    CASE header.form \in {"blank", "unit"} -> TRUE
      [] header.form = "list" -> b \in header.listed
      [] header.form = "suffix" -> b >= size - header.n
      [] header.form = "from" -> b >= header.first
      [] header.form = "closed" -> header.first <= b /\ b <= header.last
      [] OTHER -> FALSE

Selected(header, size) == {b \in 0..(size - 1) : Selects(header, size, b)}

\* A reply carries the first bytes that the header selects, all of them or as
\* many as fit; it is refused when none is selected, or the code does not read the header.
Answers(reply, header, size) ==
    IF reply.ok
    THEN /\ reply.start \in Selected(header, size)
         /\ \A b \in Selected(header, size) : reply.start <= b
         /\ reply.start..reply.end \subseteq Selected(header, size)
         /\ reply.end - reply.start < MaxChunk
         /\ \/ \A b \in Selected(header, size) : b <= reply.end
            \/ reply.end - reply.start = MaxChunk - 1
    ELSE Selected(header, size) = {} \/ Unread(header)
=============================================================================
