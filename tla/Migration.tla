----------------------------- MODULE Migration -----------------------------
(***************************************************************************)
(* The migration command (src/cmd/migrate/main.go): processes that may run *)
(* at once and stop anywhere, the advisory lock, the schema, and the table *)
(* schema_migrations that tells them what was run.                         *)
(*                                                                         *)
(* The migrations are the numbers of their order; a process ships a prefix *)
(* of them.  A migration is statements that are committed one by one, so   *)
(* one that is cut short may be in the schema in part.  Checksums always   *)
(* agree here: a file that was edited only makes a process stop (Exit).    *)
(***************************************************************************)
EXTENDS Naturals

CONSTANTS
    Runners,        \* the processes that may run at once
    Latest,         \* the migrations are 1 .. Latest
    Rerunnable,     \* those that do not fail when they are run again
    NoRunner,       \* nobody has the lock
    MaxRuns,        \* bound: processes that are started
    MaxLost         \* bound: connections that are lost

ASSUME MigrationAssumption ==
    /\ Latest \in Nat
    /\ Rerunnable \subseteq 1..Latest
    /\ NoRunner \notin Runners
    /\ MaxRuns \in Nat
    /\ MaxLost \in Nat

VARIABLES
    schema,         \* what is in the schema of each migration
    hasTable,       \* schema_migrations exists
    recorded,       \* its rows
    lock,           \* whose connection has the advisory lock
    run,            \* what each process is doing
    runs, lost,     \* for the bounds
    baselined,      \* history: what was recorded without being run
    disturbed       \* history: the table cannot tell what is in the schema

vars == <<schema, hasTable, recorded, lock, run, runs, lost, baselined, disturbed>>

Migrations == 1..Latest

(* files: it ships 1 .. files; had: it found the table;                    *)
(* applied: the rows it loaded; next: the migration it has come to.        *)
Run == [pc : {"lock", "table", "ensure", "existing", "baseline", "load", "loop", "record"},
        files : 0..Latest, had : BOOLEAN,
        applied : SUBSET Migrations, next : 1..Latest + 1]

NotRunning == [pc |-> "stopped"]

At(r, pc) == run[r].pc = pc

To(r, pc) == run' = [run EXCEPT ![r].pc = pc]

\* The first k migrations may be there from before schema_migrations was introduced.
Init ==
    /\ \E k \in 0..Latest :
          schema = [i \in Migrations |-> IF i <= k THEN "full" ELSE "none"]
    /\ hasTable = FALSE
    /\ recorded = {}
    /\ lock = NoRunner
    /\ run = [r \in Runners |-> NotRunning]
    /\ runs = 0
    /\ lost = 0
    /\ baselined = {}
    /\ disturbed = FALSE

Start(r) ==
    /\ At(r, "stopped")
    /\ runs < MaxRuns
    /\ runs' = runs + 1
    /\ \E files \in 0..Latest :
          run' = [run EXCEPT ![r] =
             [pc |-> "lock", files |-> files, had |-> FALSE, applied |-> {}, next |-> 1]]
    /\ UNCHANGED <<schema, hasTable, recorded, lock, lost, baselined, disturbed>>

Present == {i \in Migrations : schema[i] # "none"}

\* MySQL frees the lock of a connection that is gone.
Stop(r) ==
    /\ run' = [run EXCEPT ![r] = NotRunning]
    /\ lock' = IF lock = r THEN NoRunner ELSE lock

\* log.Fatalf, after any statement that failed or timed out, or a crash.
Exit(r) ==
    /\ ~At(r, "stopped")
    /\ Stop(r)
    /\ disturbed' = (disturbed \/ At(r, "record")
                       \/ (run[r].pc \in {"existing", "baseline"} /\ Present # {}))
    /\ UNCHANGED <<schema, hasTable, recorded, runs, lost, baselined>>

\* The pool replaces a broken connection by another one: the process goes on
\* without the lock.
ConnectionLost(r) ==
    /\ lock = r
    /\ lost < MaxLost
    /\ lost' = lost + 1
    /\ lock' = NoRunner
    /\ disturbed' = TRUE
    /\ UNCHANGED <<schema, hasTable, recorded, run, runs, baselined>>

-----------------------------------------------------------------------------

\* Mutant: what GET_LOCK returns is not looked at.
AcquireLock_Unchecked(r) ==
    /\ At(r, "lock")
    /\ lock' = IF lock = NoRunner THEN r ELSE lock
    /\ To(r, "table")
    /\ UNCHANGED <<schema, hasTable, recorded, runs, lost, baselined, disturbed>>

\* It waits 60 seconds, and exits then (Exit).
AcquireLock(r) ==
    /\ At(r, "lock")
    /\ lock = NoRunner
    /\ lock' = r
    /\ To(r, "table")
    /\ UNCHANGED <<schema, hasTable, recorded, runs, lost, baselined, disturbed>>

TableExists(r) ==
    /\ At(r, "table")
    /\ run' = [run EXCEPT ![r] = [@ EXCEPT !.pc = "ensure", !.had = hasTable]]
    /\ UNCHANGED <<schema, hasTable, recorded, lock, runs, lost, baselined, disturbed>>

\* Without files there is nothing else to do.
EnsureTable(r) ==
    /\ At(r, "ensure")
    /\ hasTable' = TRUE
    /\ To(r, IF run[r].files = 0 THEN "loop" ELSE IF run[r].had THEN "load" ELSE "existing")
    /\ disturbed' = (disturbed \/ (run[r].files = 0 /\ recorded = {} /\ Present # {}))
    /\ UNCHANGED <<schema, recorded, lock, runs, lost, baselined>>

\* A schema without the table is taken to have all that the process ships.
HasExistingSchema(r) ==
    /\ At(r, "existing")
    /\ To(r, IF Present = {} THEN "load" ELSE "baseline")
    /\ disturbed' = (disturbed \/ (Present # {} /\ Present # 1..run[r].files))
    /\ UNCHANGED <<schema, hasTable, recorded, lock, runs, lost, baselined>>

Insert(r) ==
    /\ run[r].next <= run[r].files
    /\ run[r].next \notin recorded
    /\ recorded' = recorded \cup {run[r].next}

Baseline(r) ==
    /\ At(r, "baseline")
    /\ Insert(r)
    /\ baselined' = baselined \cup {run[r].next}
    /\ run' = [run EXCEPT ![r] = [@ EXCEPT !.next = run[r].next + 1]]
    /\ UNCHANGED <<schema, hasTable, lock, runs, lost, disturbed>>

Load(r) ==
    /\ At(r, "load")
    /\ run' = [run EXCEPT ![r] = [@ EXCEPT !.pc = "loop", !.applied = recorded]]
    /\ UNCHANGED <<schema, hasTable, recorded, lock, runs, lost, baselined, disturbed>>

Skip(r) ==
    /\ At(r, "loop")
    /\ run[r].next \in run[r].applied
    /\ run[r].next <= run[r].files
    /\ run' = [run EXCEPT ![r] = [@ EXCEPT !.next = run[r].next + 1]]
    /\ UNCHANGED <<schema, hasTable, recorded, lock, runs, lost, baselined, disturbed>>

\* The process has come to a migration that it is going to run.
Due(r) ==
    /\ At(r, "loop")
    /\ run[r].next \notin run[r].applied
    /\ run[r].next <= run[r].files

Runs(i) == schema[i] = "none" \/ i \in Rerunnable

\* Mutant: a migration that fails is only logged.
Apply_IgnoresError(r) ==
    /\ Due(r)
    /\ schema' \in {schema, [schema EXCEPT ![run[r].next] = "full"]}
    /\ To(r, "record")
    /\ UNCHANGED <<hasTable, recorded, lock, runs, lost, baselined, disturbed>>

\* Mutant: the row of a migration is left to the end of the run.
Apply_RowLater(r) ==
    /\ Due(r)
    /\ Runs(run[r].next)
    /\ schema' = [schema EXCEPT ![run[r].next] = "full"]
    /\ run' = [run EXCEPT ![r] = [@ EXCEPT !.next = run[r].next + 1]]
    /\ UNCHANGED <<hasTable, recorded, lock, runs, lost, baselined, disturbed>>

Apply(r) ==
    /\ Due(r)
    /\ Runs(run[r].next)
    /\ schema' = [schema EXCEPT ![run[r].next] = "full"]
    /\ To(r, "record")
    /\ UNCHANGED <<hasTable, recorded, lock, runs, lost, baselined, disturbed>>

\* A statement of it fails, or the process dies, after others have committed.
ApplyInPart(r) ==
    /\ Due(r)
    /\ Runs(run[r].next)
    /\ schema' = [schema EXCEPT ![run[r].next] = IF @ = "full" THEN @ ELSE "part"]
    /\ Stop(r)
    /\ disturbed' = TRUE
    /\ UNCHANGED <<hasTable, recorded, runs, lost, baselined>>

\* Mutant: a failed INSERT is only logged.
Record_IgnoresError(r) ==
    /\ At(r, "record")
    /\ recorded' \in {recorded, recorded \cup {run[r].next}}
    /\ run' = [run EXCEPT ![r] = [@ EXCEPT !.pc = "loop", !.next = run[r].next + 1]]
    /\ UNCHANGED <<schema, hasTable, lock, runs, lost, baselined, disturbed>>

Record(r) ==
    /\ At(r, "record")
    /\ Insert(r)
    /\ run' = [run EXCEPT ![r] = [@ EXCEPT !.pc = "loop", !.next = run[r].next + 1]]
    /\ UNCHANGED <<schema, hasTable, lock, runs, lost, baselined, disturbed>>

\* RELEASE_LOCK does nothing for a connection that has not got it.
Finish(r) ==
    /\ run[r].pc \in {"loop", "baseline"}
    /\ run[r].next > run[r].files
    /\ Stop(r)
    /\ UNCHANGED <<schema, hasTable, recorded, runs, lost, baselined, disturbed>>

-----------------------------------------------------------------------------

\* Past the bound on processes the system idles.
Deployed ==
    /\ runs = MaxRuns
    /\ \A r \in Runners : At(r, "stopped")
    /\ UNCHANGED vars

Step(r) ==
    \/ Start(r) \/ Exit(r) \/ ConnectionLost(r)
    \/ AcquireLock(r) \/ TableExists(r) \/ EnsureTable(r) \/ HasExistingSchema(r)
    \/ Baseline(r) \/ Load(r) \/ Skip(r) \/ Apply(r) \/ ApplyInPart(r) \/ Record(r)
    \/ Finish(r)

Next == (\E r \in Runners : Step(r)) \/ Deployed

Spec == Init /\ [][Next]_vars

-----------------------------------------------------------------------------
(* Properties.                                                             *)

\* There is a row only where there is a table, and it stems from a process that
\* shipped the migration.
TypeOK ==
    /\ schema \in [Migrations -> {"none", "part", "full"}]
    /\ hasTable \in BOOLEAN
    /\ recorded \subseteq IF hasTable THEN Migrations ELSE {}
    /\ lock \in Runners \cup {NoRunner}
    /\ run \in [Runners -> Run \cup {NotRunning}]
    /\ runs \in 0..MaxRuns
    /\ lost \in 0..MaxLost
    /\ baselined \subseteq recorded
    /\ disturbed \in BOOLEAN

\* The rows of the table are a prefix of the migrations, wherever processes of
\* different versions stop and even when two of them run at once: a process that
\* ships more goes on where another one stopped.
InOrder == \A i \in recorded : 1..i \subseteq recorded

\* A row is written after its migration has run to its end: a process that stops in
\* between repeats a migration and never leaves one out, with or without the lock.
RecordFollowsRun == \A i \in recorded \ baselined : schema[i] = "full"

\* Processes that run at once, or one after the other, never run a migration on a
\* schema that has it, unless something happened that the table does not show: a
\* process that stopped within a migration, between it and its row or within the
\* baseline, a lock that was lost, a baseline of another version's schema.
NeverRunTwice ==
    ~disturbed => \A r \in Runners : Due(r) => schema[run[r].next] = "none"

\* Whatever processes run, at once or one after the other, the database goes through
\* what one deployer would do to it: nothing is run before the row of the migration
\* before it is written, and nothing is taken over after something was run.
OneDeployer ==
    INSTANCE Deployment WITH rows <- recorded, adopted <- baselined,
                             ran <- Present, trusted <- ~disturbed

DeploymentSpec == OneDeployer!Spec

=============================================================================
