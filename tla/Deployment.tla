----------------------------- MODULE Deployment -----------------------------
(***************************************************************************)
(* What the migration command promises about a database, with no           *)
(* processes, lock or connections: as if one deployer ran one migration    *)
(* after the other, in order, and wrote the row of each before the next.   *)
(* A database that had its schema before the table is adopted row by row,  *)
(* before anything is run.  Once something happened that the table cannot  *)
(* show, the rows still come in order and after their migrations.  To run  *)
(* a migration again leaves the schema as it is and is not seen here:      *)
(* NeverRunTwice of Migration is about that.                               *)
(***************************************************************************)
EXTENDS Naturals

CONSTANT
    Latest      \* the migrations are 1 .. Latest

VARIABLES
    rows,       \* the migrations that have a row
    adopted,    \* the rows that were written without running anything
    ran,        \* the migrations that are in the schema
    trusted     \* the table tells what is in the schema

vars == <<rows, adopted, ran, trusted>>

Migrations == 1..Latest

Init ==
    /\ rows = {}
    /\ adopted = {}
    /\ \E k \in 0..Latest : ran = 1..k
    /\ trusted = TRUE

\* i is the first migration without a row.
First(i) == i \in Migrations \ rows /\ 1..i - 1 \subseteq rows

Run(i) ==
    /\ trusted
    /\ First(i)
    /\ ran = rows
    /\ ran' = ran \cup {i}
    /\ UNCHANGED <<rows, adopted, trusted>>

Record(i) ==
    /\ First(i)
    /\ i \in ran
    /\ rows' = rows \cup {i}
    /\ UNCHANGED <<adopted, ran, trusted>>

Adopt(i) ==
    /\ First(i)
    /\ trusted => i \in ran /\ adopted = rows
    /\ rows' = rows \cup {i}
    /\ adopted' = adopted \cup {i}
    /\ UNCHANGED <<ran, trusted>>

\* From now on, or again, the schema gets ahead of the table.
Disturb ==
    /\ trusted' = FALSE
    /\ ran \subseteq ran'
    /\ UNCHANGED <<rows, adopted>>

Next == (\E i \in Migrations : Run(i) \/ Record(i) \/ Adopt(i)) \/ Disturb

Spec == Init /\ [][Next]_vars
=============================================================================
