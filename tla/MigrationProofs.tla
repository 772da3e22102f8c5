-------------------------- MODULE MigrationProofs --------------------------
(***************************************************************************)
(* Proofs about Migration, for any processes, migrations and bounds: the   *)
(* rows are a prefix of the migrations and tell of what has run, whether   *)
(* or not the lock is held, as the schema and the table only grow and each *)
(* process moves on only past rows that it has seen or written.  That no   *)
(* migration is run twice is due to the lock.  From both follows that the  *)
(* processes together do what one deployer would (Deployment).             *)
(***************************************************************************)
EXTENDS Migration, TLAPS

(* What a process knows of the table and the schema.                       *)
Knows(q) ==
    /\ q.pc \in {"existing", "baseline", "load", "loop", "record"} => hasTable
    /\ q.pc \in {"lock", "table", "ensure", "existing", "load"} => q.next = 1
    /\ q.next <= q.files + 1
    /\ q.applied \subseteq recorded
    /\ 1..q.next - 1 \subseteq recorded
    /\ q.pc = "record" => q.next <= q.files /\ schema[q.next] = "full"

(* The inductive invariant.                                                *)
Inv ==
    /\ TypeOK
    /\ InOrder
    /\ RecordFollowsRun
    /\ \A r \in Runners : ~At(r, "stopped") => Knows(run[r])

(* The schema and the table only grow.                                     *)
Grows ==
    /\ hasTable => hasTable'
    /\ recorded \subseteq recorded'
    /\ \A i \in Migrations : schema[i] = "full" => schema'[i] = "full"

LEMMA Running ==
    ASSUME TypeOK, NEW r \in Runners, ~At(r, "stopped")
    PROVE  /\ run[r] \in Run
           /\ run[r].next \in 1..Latest + 1 /\ run[r].files \in 0..Latest
           /\ run[r].applied \subseteq Migrations
BY DEF TypeOK, At, NotRunning, Run

LEMMA StillKnown == ASSUME NEW q \in Run, Knows(q), Grows PROVE Knows(q)'
<1>1. q.pc = "record" => q.next \in Migrations
  BY MigrationAssumption DEF Run, Knows, Migrations
<1> QED
  BY <1>1 DEF Knows, Grows

(* A step of process r that leaves it at q.                                *)
LEMMA RunnerStep ==
    ASSUME Inv, NEW r \in Runners, NEW q \in Run \cup {NotRunning},
           run' = [run EXCEPT ![r] = q],
           q.pc # "stopped" => Knows(q)',
           Grows, InOrder', RecordFollowsRun',
           schema' \in [Migrations -> {"none", "part", "full"}],
           hasTable' \in BOOLEAN,
           recorded' \subseteq IF hasTable' THEN Migrations ELSE {},
           lock' \in Runners \cup {NoRunner},
           runs' \in 0..MaxRuns, lost' \in 0..MaxLost,
           baselined' \subseteq recorded', disturbed' \in BOOLEAN
    PROVE  Inv'
<1>1. /\ run' \in [Runners -> Run \cup {NotRunning}]
      /\ run'[r] = q
      /\ \A s \in Runners \ {r} : run'[s] = run[s]
  BY DEF Inv, TypeOK
<1>2. ASSUME NEW s \in Runners, run'[s].pc # "stopped"
      PROVE  Knows(run[s])'
  <2>1. CASE s = r
    BY <1>1, <1>2, <2>1 DEF Knows
  <2>2. CASE s # r
    <3>1. ~At(s, "stopped") /\ run'[s] = run[s]
      BY <1>1, <1>2, <2>2 DEF At
    <3>2. run[s] \in Run /\ Knows(run[s])
      BY <3>1, Running DEF Inv
    <3>3. PICK p \in Run : p = run[s]
      BY <3>2
    <3>4. Knows(p)'
      BY <3>2, <3>3, StillKnown DEF Knows
    <3> QED
      BY <3>1, <3>3, <3>4 DEF Knows
  <2> QED
    BY <2>1, <2>2
<1>3. TypeOK'
  BY <1>1 DEF TypeOK
<1> QED
  BY <1>2, <1>3 DEF Inv, At

(* What a step that leaves the schema and the table alone has to show.     *)
LEMMA QuietStep ==
    ASSUME Inv, NEW r \in Runners, NEW q \in Run \cup {NotRunning},
           run' = [run EXCEPT ![r] = q],
           q.pc # "stopped" => Knows(q),
           schema' = schema, recorded' = recorded,
           baselined' = baselined,
           hasTable' = hasTable, lock' \in Runners \cup {NoRunner},
           runs' \in 0..MaxRuns, lost' \in 0..MaxLost, disturbed' \in BOOLEAN
    PROVE  Inv'
<1>1. Grows /\ InOrder' /\ RecordFollowsRun'
  BY DEF Inv, Grows, InOrder, RecordFollowsRun
<1>2. q.pc # "stopped" => Knows(q)'
  BY DEF Knows
<1> QED
  BY <1>1, <1>2, RunnerStep DEF Inv, TypeOK

LEMMA Stopping ==
    ASSUME Inv, NEW r \in Runners, Stop(r)
    PROVE  /\ run' = [run EXCEPT ![r] = NotRunning]
           /\ NotRunning.pc = "stopped"
           /\ lock' \in Runners \cup {NoRunner}
BY DEF Inv, TypeOK, Stop, NotRunning

LEMMA StartInv == ASSUME Inv, NEW r \in Runners, Start(r) PROVE Inv'
<1>1. PICK files \in 0..Latest :
         run' = [run EXCEPT ![r] =
            [pc |-> "lock", files |-> files, had |-> FALSE, applied |-> {}, next |-> 1]]
  BY DEF Start
<1> DEFINE q == [pc |-> "lock", files |-> files, had |-> FALSE,
                 applied |-> {}, next |-> 1]
<1>2. q \in Run
  BY MigrationAssumption DEF Run
<1>3. Knows(q)
  BY DEF Knows
<1>4. runs' \in 0..MaxRuns
  BY MigrationAssumption DEF Start, Inv, TypeOK
<1> QED
  BY <1>1, <1>2, <1>3, <1>4, QuietStep DEF Start, Inv, TypeOK

LEMMA ExitInv == ASSUME Inv, NEW r \in Runners, Exit(r) PROVE Inv'
<1>1. disturbed' \in BOOLEAN
  BY DEF Exit
<1> QED
  BY <1>1, Stopping, QuietStep DEF Exit, Inv, TypeOK

LEMMA ConnectionLostInv == ASSUME Inv, NEW r \in Runners, ConnectionLost(r) PROVE Inv'
<1>1. lost' \in 0..MaxLost
  BY MigrationAssumption DEF ConnectionLost, Inv, TypeOK
<1>2. Grows /\ InOrder' /\ RecordFollowsRun'
  BY DEF ConnectionLost, Inv, Grows, InOrder, RecordFollowsRun
<1>3. TypeOK'
  BY <1>1 DEF ConnectionLost, Inv, TypeOK
<1> QED
  BY <1>2, <1>3 DEF ConnectionLost, Inv, At, Knows

LEMMA AcquireLockInv == ASSUME Inv, NEW r \in Runners, AcquireLock(r) PROVE Inv'
<1> DEFINE q == [run[r] EXCEPT !.pc = "table"]
<1>1. ~At(r, "stopped")
  BY DEF AcquireLock, At
<1>2. q \in Run /\ Knows(q)
  BY <1>1, Running DEF AcquireLock, Inv, Run, Knows, At
<1>3. run' = [run EXCEPT ![r] = q]
  BY DEF AcquireLock, To
<1> QED
  BY <1>2, <1>3, QuietStep DEF AcquireLock, Inv, TypeOK

LEMMA TableExistsInv == ASSUME Inv, NEW r \in Runners, TableExists(r) PROVE Inv'
<1> DEFINE q == [run[r] EXCEPT !.pc = "ensure", !.had = hasTable]
<1>1. ~At(r, "stopped")
  BY DEF TableExists, At
<1>2. q \in Run /\ Knows(q)
  BY <1>1, Running DEF TableExists, Inv, TypeOK, Run, Knows, At
<1>3. run' = [run EXCEPT ![r] = q]
  BY DEF TableExists
<1> QED
  BY <1>2, <1>3, QuietStep DEF TableExists, Inv, TypeOK

LEMMA EnsureTableInv == ASSUME Inv, NEW r \in Runners, EnsureTable(r) PROVE Inv'
<1>1. ~At(r, "stopped") /\ run[r] \in Run /\ Knows(run[r])
  BY Running DEF EnsureTable, At, Inv
<1>2. PICK pc \in {"loop", "load", "existing"} : To(r, pc)
  <2>1. CASE run[r].files = 0
    BY <2>1 DEF EnsureTable
  <2>2. CASE run[r].files # 0 /\ run[r].had
    BY <2>2 DEF EnsureTable
  <2>3. CASE run[r].files # 0 /\ ~run[r].had
    BY <2>3 DEF EnsureTable
  <2> QED
    BY <2>1, <2>2, <2>3
<1>3. PICK q \in Run : q = [run[r] EXCEPT !.pc = pc]
  BY <1>1 DEF Run
<1>4. Grows /\ InOrder' /\ RecordFollowsRun'
  BY DEF EnsureTable, Inv, Grows, InOrder, RecordFollowsRun
<1>5. Knows(q)'
  BY <1>1, <1>3 DEF Knows, EnsureTable, At, Run
<1>6. run' = [run EXCEPT ![r] = q]
  BY <1>2, <1>3 DEF To
<1>7. disturbed' \in BOOLEAN
  BY DEF EnsureTable
<1>8. recorded' \subseteq IF hasTable' THEN Migrations ELSE {}
  BY DEF EnsureTable, Inv, TypeOK
<1> QED
  BY <1>4, <1>5, <1>6, <1>7, <1>8, RunnerStep DEF EnsureTable, Inv, TypeOK

LEMMA HasExistingSchemaInv ==
    ASSUME Inv, NEW r \in Runners, HasExistingSchema(r) PROVE Inv'
<1> DEFINE pc == IF Present = {} THEN "load" ELSE "baseline"
           q == [run[r] EXCEPT !.pc = pc]
<1>1. ~At(r, "stopped")
  BY DEF HasExistingSchema, At
<1>2. q \in Run /\ Knows(q)
  BY <1>1, Running DEF HasExistingSchema, Inv, Run, Knows, At
<1>3. run' = [run EXCEPT ![r] = q]
  BY DEF HasExistingSchema, To
<1>4. disturbed' \in BOOLEAN
  BY DEF HasExistingSchema, Inv, TypeOK
<1> QED
  BY <1>2, <1>3, <1>4, QuietStep DEF HasExistingSchema, Inv, TypeOK

LEMMA LoadInv == ASSUME Inv, NEW r \in Runners, Load(r) PROVE Inv'
<1> DEFINE q == [run[r] EXCEPT !.pc = "loop", !.applied = recorded]
<1>1. ~At(r, "stopped")
  BY DEF Load, At
<1>2. q \in Run /\ Knows(q)
  BY <1>1, Running DEF Load, Inv, TypeOK, Run, Knows, At
<1>3. run' = [run EXCEPT ![r] = q]
  BY DEF Load
<1> QED
  BY <1>2, <1>3, QuietStep DEF Load, Inv, TypeOK

LEMMA SkipInv == ASSUME Inv, NEW r \in Runners, Skip(r) PROVE Inv'
<1> DEFINE q == [run[r] EXCEPT !.next = run[r].next + 1]
<1>1. ~At(r, "stopped") /\ run[r] \in Run /\ Knows(run[r])
  BY Running DEF Skip, At, Inv
<1>2. q \in Run
  BY <1>1, MigrationAssumption DEF Skip, Run
<1>3. run[r].next \in recorded
  BY <1>1 DEF Skip, Knows
<1>4. Knows(q)
  BY <1>1, <1>3, MigrationAssumption DEF Skip, Run, Knows, At
<1>5. run' = [run EXCEPT ![r] = q]
  BY DEF Skip
<1> QED
  BY <1>2, <1>4, <1>5, QuietStep DEF Skip, Inv, TypeOK

LEMMA ApplyInv == ASSUME Inv, NEW r \in Runners, Apply(r) PROVE Inv'
<1>1. ~At(r, "stopped") /\ run[r] \in Run /\ Knows(run[r])
  BY Running DEF Apply, Due, At, Inv
<1>2. run[r].next \in Migrations
  BY <1>1, MigrationAssumption DEF Apply, Due, Run, Migrations
<1>3. PICK q \in Run : q = [run[r] EXCEPT !.pc = "record"]
  BY <1>1 DEF Run
<1>4. schema' \in [Migrations -> {"none", "part", "full"}] /\ schema'[run[r].next] = "full"
  BY <1>2 DEF Apply, Inv, TypeOK
<1>5. Grows /\ InOrder' /\ RecordFollowsRun'
  BY <1>2 DEF Apply, Inv, TypeOK, Grows, InOrder, RecordFollowsRun
<1>6. Knows(q)'
  BY <1>3, <1>1, <1>4 DEF Apply, Due, Run, Knows, At
<1>7. run' = [run EXCEPT ![r] = q]
  BY <1>3 DEF Apply, To
<1> QED
  BY <1>2, <1>4, <1>5, <1>6, <1>7, RunnerStep DEF Apply, Inv, TypeOK

LEMMA ApplyInPartInv == ASSUME Inv, NEW r \in Runners, ApplyInPart(r) PROVE Inv'
<1>1. schema' \in [Migrations -> {"none", "part", "full"}]
  BY DEF ApplyInPart, Inv, TypeOK
<1>2. Grows /\ InOrder' /\ RecordFollowsRun'
  BY DEF ApplyInPart, Inv, TypeOK, Grows, InOrder, RecordFollowsRun
<1> QED
  BY <1>1, <1>2, Stopping, RunnerStep DEF ApplyInPart, Inv, TypeOK

(* A row that is written after all that come before it.                    *)
LEMMA InsertKeepsOrder ==
    ASSUME Inv, NEW r \in Runners, run[r] \in Run, Knows(run[r]), Insert(r)
    PROVE  /\ InOrder'
           /\ recorded' \subseteq Migrations
           /\ recorded \subseteq recorded'
           /\ 1..run[r].next \subseteq recorded'
           /\ run[r].next + 1 \in 1..Latest + 1
<1>1. run[r].next \in Migrations /\ run[r].next + 1 \in 1..Latest + 1
  BY MigrationAssumption DEF Insert, Run, Migrations
<1>2. recorded \subseteq Migrations
  BY DEF Inv, TypeOK
<1>3. 1..run[r].next \subseteq recorded'
  BY <1>1 DEF Knows, Insert, Migrations
<1>4. ASSUME NEW i \in recorded' PROVE 1..i \subseteq recorded'
  BY <1>3, <1>4 DEF Insert, Inv, InOrder
<1> QED
  BY <1>1, <1>2, <1>3, <1>4 DEF Insert, InOrder

LEMMA BaselineInv == ASSUME Inv, NEW r \in Runners, Baseline(r) PROVE Inv'
<1>1. ~At(r, "stopped") /\ run[r] \in Run /\ Knows(run[r])
  BY Running DEF Baseline, At, Inv
<1>2. Insert(r)
  BY DEF Baseline
<1>3. PICK q \in Run : q = [run[r] EXCEPT !.next = run[r].next + 1]
  BY <1>1, <1>2, InsertKeepsOrder DEF Run
<1>4. RecordFollowsRun' /\ baselined' \subseteq recorded'
  BY <1>2 DEF Baseline, Insert, Inv, TypeOK, RecordFollowsRun
<1>5. Grows /\ InOrder' /\ hasTable
  BY <1>1, <1>2, InsertKeepsOrder DEF Baseline, Grows, Knows, At
<1>6. Knows(q)'
  BY <1>3, <1>1, <1>2, <1>5, InsertKeepsOrder DEF Baseline, Insert, Run, Knows, At
<1>7. run' = [run EXCEPT ![r] = q]
  BY <1>3 DEF Baseline
<1>8. recorded' \subseteq IF hasTable' THEN Migrations ELSE {}
  BY <1>1, <1>2, <1>5, InsertKeepsOrder DEF Baseline
<1> QED
  BY <1>4, <1>5, <1>6, <1>7, <1>8, RunnerStep DEF Baseline, Inv, TypeOK

LEMMA RecordInv == ASSUME Inv, NEW r \in Runners, Record(r) PROVE Inv'
<1>1. ~At(r, "stopped") /\ run[r] \in Run /\ Knows(run[r])
  BY Running DEF Record, At, Inv
<1>2. Insert(r)
  BY DEF Record
<1>3. PICK q \in Run : q = [run[r] EXCEPT !.pc = "loop", !.next = run[r].next + 1]
  BY <1>1, <1>2, InsertKeepsOrder DEF Run
<1>4. RecordFollowsRun' /\ baselined' \subseteq recorded'
  BY <1>1, <1>2 DEF Record, Insert, Inv, TypeOK, RecordFollowsRun, Knows, At
<1>5. Grows /\ InOrder' /\ hasTable
  BY <1>1, <1>2, InsertKeepsOrder DEF Record, Grows, Knows, At
<1>6. Knows(q)'
  BY <1>3, <1>1, <1>2, <1>5, InsertKeepsOrder DEF Record, Insert, Run, Knows, At
<1>7. run' = [run EXCEPT ![r] = q]
  BY <1>3 DEF Record
<1>8. recorded' \subseteq IF hasTable' THEN Migrations ELSE {}
  BY <1>1, <1>2, <1>5, InsertKeepsOrder DEF Record
<1> QED
  BY <1>4, <1>5, <1>6, <1>7, <1>8, RunnerStep DEF Record, Inv, TypeOK

LEMMA FinishInv == ASSUME Inv, NEW r \in Runners, Finish(r) PROVE Inv'
BY Stopping, QuietStep DEF Finish, Inv, TypeOK

LEMMA InitInv == Init => Inv
<1> SUFFICES ASSUME Init PROVE Inv
  OBVIOUS
<1>1. /\ schema \in [Migrations -> {"none", "part", "full"}]
      /\ runs \in 0..MaxRuns /\ lost \in 0..MaxLost
  BY MigrationAssumption DEF Init
<1>2. hasTable \in BOOLEAN /\ disturbed \in BOOLEAN
  BY DEF Init
<1>3. TypeOK
  BY <1>1, <1>2 DEF Init, TypeOK
<1> QED
  BY <1>3 DEF Init, Inv, InOrder, RecordFollowsRun, At, NotRunning

LEMMA NextInv == ASSUME Inv, [Next]_vars PROVE Inv'
<1>1. CASE \E r \in Runners : Step(r)
  BY <1>1, StartInv, ExitInv, ConnectionLostInv, AcquireLockInv, TableExistsInv,
     EnsureTableInv, HasExistingSchemaInv, BaselineInv, LoadInv, SkipInv, ApplyInv,
     ApplyInPartInv, RecordInv, FinishInv DEF Step
<1>2. CASE UNCHANGED vars
  <2>1. TypeOK' /\ InOrder' /\ RecordFollowsRun'
    BY <1>2 DEF vars, Inv, TypeOK, InOrder, RecordFollowsRun
  <2> QED
    BY <1>2, <2>1 DEF vars, Inv, At, Knows
<1> QED
  BY <1>1, <1>2 DEF Next, Deployed

LEMMA Invariance == Spec => []Inv
BY InitInv, NextInv, PTL DEF Spec

(* The tables and the processes keep their types, and no row is written    *)
(* without a table.                                                        *)
THEOREM TypeCorrect == Spec => []TypeOK
<1>1. Inv => TypeOK
  BY DEF Inv
<1> QED
  BY <1>1, Invariance, PTL

(* The rows are a prefix of the migrations, whoever stops, and even when   *)
(* the lock is lost.                                                       *)
THEOREM RecordsInOrder == Spec => []InOrder
<1>1. Inv => InOrder
  BY DEF Inv
<1> QED
  BY <1>1, Invariance, PTL

(* A row that no baseline wrote stands for a migration that has run.       *)
THEOREM RecordsTellTheTruth == Spec => []RecordFollowsRun
<1>1. Inv => RecordFollowsRun
  BY DEF Inv
<1> QED
  BY <1>1, Invariance, PTL

-----------------------------------------------------------------------------
(* A migration is run once, as long as nothing happens that the table      *)
(* cannot show.  Here the argument is about the lock: whoever is past it   *)
(* holds it, so what it knows of the schema is still true when it acts.    *)

Inside(r) == run[r].pc \notin {"stopped", "lock"}

\* The table lists what is in the schema.
Told == Present \subseteq recorded

(* What holds for a process that has the lock.                             *)
Local(r) ==
    /\ Inside(r) <=> lock = r
    /\ run[r].pc \in {"table", "ensure"} /\ hasTable => Told
    /\ run[r].pc = "ensure" => run[r].had = hasTable
    /\ run[r].pc = "baseline" => Present \subseteq 1..run[r].files
    /\ run[r].pc \in {"load", "loop"} => Told
    /\ run[r].pc \in {"loop", "record"} /\ run[r].files # 0 =>
          recorded \subseteq run[r].applied \cup 1..run[r].next - 1
    /\ run[r].pc = "record" => Present \subseteq recorded \cup {run[r].next}

Calm ==
    /\ lock = NoRunner /\ hasTable => Told
    /\ \A r \in Runners : Local(r)

CalmInv == Inv /\ (~disturbed => Calm)

(* The others are outside while r has the lock, or nobody.                 *)
LEMMA Others ==
    ASSUME Calm, NEW r \in Runners, lock \in {r, NoRunner}, lock' \in {r, NoRunner},
           \A s \in Runners \ {r} : run'[s] = run[s]
    PROVE  \A s \in Runners \ {r} : Local(s)'
<1> SUFFICES ASSUME NEW s \in Runners \ {r} PROVE Local(s)'
  OBVIOUS
<1>1. run'[s].pc \in {"stopped", "lock"}
  BY MigrationAssumption DEF Calm, Local, Inside
<1>2. lock' # s
  BY MigrationAssumption
<1> QED
  BY <1>1, <1>2 DEF Local, Inside

LEMMA OnlyOne ==
    ASSUME TypeOK, NEW r \in Runners, NEW q, run' = [run EXCEPT ![r] = q]
    PROVE  /\ run'[r] = q
           /\ \A s \in Runners \ {r} : run'[s] = run[s]
BY DEF TypeOK

LEMMA StartCalm == ASSUME Inv, Calm, NEW r \in Runners, Start(r) PROVE Calm'
<1>1. /\ run'[r].pc = "lock"
      /\ \A s \in Runners \ {r} : run'[s] = run[s]
  BY DEF Start, Inv, TypeOK
<1>2. UNCHANGED <<schema, hasTable, recorded, lock>> /\ At(r, "stopped")
  BY DEF Start
<1>3. Present' = Present /\ Told' = Told
  BY <1>2 DEF Present, Told
<1>4. Local(r)'
  BY <1>1, <1>2 DEF Calm, Local, Inside, At
<1>5. ASSUME NEW s \in Runners \ {r} PROVE Local(s)'
  BY <1>1, <1>2, <1>3 DEF Calm, Local, Inside
<1> QED
  BY <1>2, <1>3, <1>4, <1>5 DEF Calm

LEMMA StopCalm ==
    ASSUME Inv, Calm, NEW r \in Runners, ~At(r, "stopped"), Stop(r),
           UNCHANGED <<schema, hasTable, recorded>>,
           Inside(r) /\ hasTable => Told
    PROVE  Calm'
<1>1. /\ run'[r].pc = "stopped"
      /\ \A s \in Runners \ {r} : run'[s] = run[s]
  BY OnlyOne, Stopping DEF Inv
<1>2. Present' = Present /\ Told' = Told
  BY DEF Present, Told
<1>3. Local(r)'
  BY <1>1, MigrationAssumption DEF Stop, Local, Inside
<1>4. ASSUME NEW s \in Runners \ {r} PROVE Local(s)'
  <2>1. lock' = s <=> lock = s
    BY MigrationAssumption DEF Stop
  <2> QED
    BY <1>1, <1>2, <2>1 DEF Calm, Local, Inside
<1>5. lock' = NoRunner /\ hasTable' => Told'
  BY <1>2 DEF Stop, Calm, Local
<1> QED
  BY <1>3, <1>4, <1>5 DEF Calm

LEMMA ExitCalm ==
    ASSUME Inv, Calm, NEW r \in Runners, Exit(r), ~disturbed' PROVE Calm'
<1>1. Inside(r) /\ hasTable => Told
  BY Running DEF Exit, At, Calm, Local, Inside, Told, Inv, Run
<1> QED
  BY <1>1, StopCalm DEF Exit

LEMMA FinishCalm == ASSUME Inv, Calm, NEW r \in Runners, Finish(r) PROVE Calm'
<1>1. ~At(r, "stopped")
  BY DEF Finish, At
<1>2. run[r] \in Run /\ Knows(run[r]) /\ Local(r)
  BY <1>1, Running DEF Inv, Calm
<1>3. CASE run[r].pc = "loop"
  BY <1>1, <1>2, <1>3, StopCalm DEF Finish, Local
<1>4. CASE run[r].pc = "baseline"
  <2>1. Told
    BY <1>2, <1>4 DEF Finish, Local, Told, Knows, Run
  <2> QED
    BY <1>1, <2>1, StopCalm DEF Finish
<1> QED
  BY <1>3, <1>4 DEF Finish

(* A step of the process that has the lock, and keeps it.                  *)
LEMMA HolderCalm ==
    ASSUME Inv, Calm, NEW r \in Runners, Inside(r), lock' = lock,
           NEW q, run' = [run EXCEPT ![r] = q], q.pc \notin {"stopped", "lock"},
           Local(r)'
    PROVE  Calm'
<1>1. lock = r
  BY DEF Calm, Local
<1>2. \A s \in Runners \ {r} : Local(s)'
  BY <1>1, Others, OnlyOne DEF Inv
<1> QED
  BY <1>1, <1>2, MigrationAssumption DEF Calm

LEMMA AcquireLockCalm ==
    ASSUME Inv, Calm, NEW r \in Runners, AcquireLock(r) PROVE Calm'
<1>1. PICK q : q = [run[r] EXCEPT !.pc = "table"]
  OBVIOUS
<1>2. run' = [run EXCEPT ![r] = q]
  BY <1>1 DEF AcquireLock, To
<1>3. run[r] \in Run
  BY Running DEF AcquireLock, At, Inv
<1>4. q.pc = "table" /\ run'[r] = q /\ \A s \in Runners \ {r} : run'[s] = run[s]
  BY <1>1, <1>2, <1>3, OnlyOne DEF Inv, Run
<1>5. \A s \in Runners \ {r} : Local(s)'
  BY <1>4, Others DEF AcquireLock
<1>6. Local(r)'
  BY <1>4 DEF AcquireLock, Calm, Local, Inside, Told, Present
<1> QED
  BY <1>5, <1>6, MigrationAssumption DEF AcquireLock, Calm

LEMMA TableExistsCalm ==
    ASSUME Inv, Calm, NEW r \in Runners, TableExists(r) PROVE Calm'
<1>1. PICK q : q = [run[r] EXCEPT !.pc = "ensure", !.had = hasTable]
  OBVIOUS
<1>2. run' = [run EXCEPT ![r] = q]
  BY <1>1 DEF TableExists
<1>3. run[r] \in Run
  BY Running DEF TableExists, At, Inv
<1>4. q.pc = "ensure" /\ q.had = hasTable /\ run'[r] = q
  BY <1>1, <1>2, <1>3, OnlyOne DEF Inv, Run
<1>5. Local(r)'
  BY <1>4 DEF TableExists, At, Calm, Local, Inside, Told, Present
<1> QED
  BY <1>2, <1>4, <1>5, HolderCalm DEF TableExists, At, Inside

LEMMA EnsureTableCalm ==
    ASSUME Inv, Calm, NEW r \in Runners, EnsureTable(r), ~disturbed' PROVE Calm'
<1>1. /\ run[r] \in Run /\ run[r].pc = "ensure" /\ Knows(run[r]) /\ Local(r)
  BY Running DEF EnsureTable, At, Inv, Calm
<1>2. PICK pc \in {"loop", "load", "existing"} :
         /\ To(r, pc)
         /\ pc = "loop" <=> run[r].files = 0
         /\ pc = "load" => run[r].had
  <2>1. CASE run[r].files = 0
    BY <2>1 DEF EnsureTable
  <2>2. CASE run[r].files # 0 /\ run[r].had
    BY <2>2 DEF EnsureTable
  <2>3. CASE run[r].files # 0 /\ ~run[r].had
    BY <2>3 DEF EnsureTable
  <2> QED
    BY <2>1, <2>2, <2>3
<1>3. PICK q \in Run : q = [run[r] EXCEPT !.pc = pc]
  BY <1>1 DEF Run
<1>4. run' = [run EXCEPT ![r] = q]
  BY <1>2, <1>3 DEF To
<1>5. q.pc = pc /\ q.files = run[r].files /\ run'[r] = q
  BY <1>1, <1>3, <1>4, OnlyOne DEF Inv, Run
<1>6. ASSUME pc \in {"load", "loop"} PROVE Told'
  <2>1. CASE hasTable
    BY <1>1, <2>1 DEF Local, Told, EnsureTable, Present
  <2>2. CASE ~hasTable
    <3>1. recorded = {} /\ ~run[r].had
      BY <1>1, <2>2 DEF Inv, TypeOK, Local
    <3>2. run[r].files = 0
      BY <1>2, <1>6, <3>1
    <3>3. Present = {}
      BY <3>1, <3>2 DEF EnsureTable
    <3> QED
      BY <3>3 DEF Told, Present, EnsureTable
  <2> QED
    BY <2>1, <2>2
<1>7. Local(r)'
  BY <1>1, <1>2, <1>5, <1>6 DEF Local, Inside, EnsureTable
<1> QED
  BY <1>1, <1>4, <1>5, <1>7, HolderCalm DEF EnsureTable, Inside

LEMMA HasExistingSchemaCalm ==
    ASSUME Inv, Calm, NEW r \in Runners, HasExistingSchema(r), ~disturbed' PROVE Calm'
<1>1. /\ run[r] \in Run /\ run[r].pc = "existing" /\ Local(r)
  BY Running DEF HasExistingSchema, At, Inv, Calm
<1>2. PICK pc \in {"load", "baseline"} :
         /\ To(r, pc)
         /\ pc = "load" => Present = {}
         /\ pc = "baseline" => Present # {}
  <2>1. CASE Present = {}
    BY <2>1 DEF HasExistingSchema
  <2>2. CASE Present # {}
    BY <2>2 DEF HasExistingSchema
  <2> QED
    BY <2>1, <2>2
<1>3. PICK q \in Run : q = [run[r] EXCEPT !.pc = pc]
  BY <1>1 DEF Run
<1>4. run' = [run EXCEPT ![r] = q]
  BY <1>2, <1>3 DEF To
<1>5. q.pc = pc /\ q.files = run[r].files /\ run'[r] = q
  BY <1>1, <1>3, <1>4, OnlyOne DEF Inv, Run
<1>6. Present' = Present /\ (Present # {} => Present = 1..run[r].files)
  BY DEF HasExistingSchema, Present
<1>7. Local(r)'
  BY <1>1, <1>2, <1>5, <1>6 DEF Local, Inside, HasExistingSchema, Told
<1> QED
  BY <1>1, <1>4, <1>5, <1>7, HolderCalm DEF HasExistingSchema, Inside

LEMMA BaselineCalm == ASSUME Inv, Calm, NEW r \in Runners, Baseline(r) PROVE Calm'
<1>1. /\ run[r] \in Run /\ run[r].pc = "baseline" /\ Local(r)
  BY Running DEF Baseline, At, Inv, Calm
<1>2. PICK q : q = [run[r] EXCEPT !.next = run[r].next + 1]
  OBVIOUS
<1>3. run' = [run EXCEPT ![r] = q]
  BY <1>2 DEF Baseline
<1>4. q.pc = "baseline" /\ q.files = run[r].files /\ run'[r] = q
  BY <1>1, <1>2, <1>3, OnlyOne DEF Inv, Run
<1>5. Local(r)'
  BY <1>1, <1>4 DEF Local, Inside, Baseline, Present
<1> QED
  BY <1>1, <1>3, <1>4, <1>5, HolderCalm DEF Baseline, Inside

LEMMA LoadCalm == ASSUME Inv, Calm, NEW r \in Runners, Load(r) PROVE Calm'
<1>1. /\ run[r] \in Run /\ run[r].pc = "load" /\ Local(r)
  BY Running DEF Load, At, Inv, Calm
<1>2. PICK q : q = [run[r] EXCEPT !.pc = "loop", !.applied = recorded]
  OBVIOUS
<1>3. run' = [run EXCEPT ![r] = q]
  BY <1>2 DEF Load
<1>4. q.pc = "loop" /\ q.applied = recorded /\ run'[r] = q
  BY <1>1, <1>2, <1>3, OnlyOne DEF Inv, Run
<1>5. Local(r)'
  BY <1>1, <1>4 DEF Local, Inside, Load, Present, Told
<1> QED
  BY <1>1, <1>3, <1>4, <1>5, HolderCalm DEF Load, Inside

LEMMA SkipCalm == ASSUME Inv, Calm, NEW r \in Runners, Skip(r) PROVE Calm'
<1>1. /\ run[r] \in Run /\ run[r].pc = "loop" /\ Local(r)
  BY Running DEF Skip, At, Inv, Calm
<1>2. PICK q : q = [run[r] EXCEPT !.next = run[r].next + 1]
  OBVIOUS
<1>3. run' = [run EXCEPT ![r] = q]
  BY <1>2 DEF Skip
<1>4. /\ q.pc = "loop" /\ q.applied = run[r].applied /\ q.files = run[r].files
      /\ q.next = run[r].next + 1 /\ run'[r] = q
  BY <1>1, <1>2, <1>3, OnlyOne DEF Inv, Run
<1>5. 1..run[r].next - 1 \subseteq 1..q.next - 1
  BY <1>1, <1>4, MigrationAssumption DEF Run
<1>6. Local(r)'
  BY <1>1, <1>4, <1>5 DEF Local, Inside, Skip, Present, Told
<1> QED
  BY <1>1, <1>3, <1>4, <1>6, HolderCalm DEF Skip, Inside

LEMMA ApplyCalm == ASSUME Inv, Calm, NEW r \in Runners, Apply(r) PROVE Calm'
<1>1. /\ run[r] \in Run /\ run[r].pc = "loop" /\ Local(r)
  BY Running DEF Apply, Due, At, Inv, Calm
<1>2. PICK q : q = [run[r] EXCEPT !.pc = "record"]
  OBVIOUS
<1>3. run' = [run EXCEPT ![r] = q]
  BY <1>2 DEF Apply, To
<1>4. /\ q.pc = "record" /\ q.applied = run[r].applied /\ q.files = run[r].files
      /\ q.next = run[r].next /\ run'[r] = q
  BY <1>1, <1>2, <1>3, OnlyOne DEF Inv, Run
<1>5. Present' \subseteq Present \cup {run[r].next}
  BY DEF Apply, Present, Inv, TypeOK
<1>6. Local(r)'
  BY <1>1, <1>4, <1>5 DEF Local, Inside, Apply, Told
<1> QED
  BY <1>1, <1>3, <1>4, <1>6, HolderCalm DEF Apply, Inside

LEMMA RecordCalm == ASSUME Inv, Calm, NEW r \in Runners, Record(r) PROVE Calm'
<1>1. /\ run[r] \in Run /\ run[r].pc = "record" /\ Local(r) /\ run[r].files # 0
  BY Running, MigrationAssumption DEF Record, Insert, At, Inv, Calm, Run
<1>2. PICK q : q = [run[r] EXCEPT !.pc = "loop", !.next = run[r].next + 1]
  OBVIOUS
<1>3. run' = [run EXCEPT ![r] = q]
  BY <1>2 DEF Record
<1>4. /\ q.pc = "loop" /\ q.applied = run[r].applied /\ q.files = run[r].files
      /\ q.next = run[r].next + 1 /\ run'[r] = q
  BY <1>1, <1>2, <1>3, OnlyOne DEF Inv, Run
<1>5. (1..run[r].next - 1) \cup {run[r].next} \subseteq 1..q.next - 1
  BY <1>1, <1>4, MigrationAssumption DEF Run
<1>6. Told'
  BY <1>1 DEF Local, Record, Insert, Present, Told
<1>7. recorded' \subseteq q.applied \cup 1..q.next - 1
  BY <1>1, <1>4, <1>5 DEF Local, Record, Insert
<1>8. Local(r)'
  BY <1>1, <1>4, <1>6, <1>7 DEF Local, Inside, Record
<1> QED
  BY <1>1, <1>3, <1>4, <1>8, HolderCalm DEF Record, Inside

LEMMA NextCalm == ASSUME CalmInv, [Next]_vars PROVE CalmInv'
<1>1. Inv'
  BY NextInv DEF CalmInv
<1>2. SUFFICES ASSUME ~disturbed' PROVE Calm'
  BY <1>1 DEF CalmInv
<1>3. CASE \E r \in Runners : Step(r)
  <2>1. PICK r \in Runners : Step(r)
    BY <1>3
  <2>2. ~ConnectionLost(r) /\ ~ApplyInPart(r)
    BY <1>2 DEF ConnectionLost, ApplyInPart
  <2>3. ~disturbed
    BY <1>2, <2>1, <2>2 DEF Step, Start, Exit, AcquireLock, TableExists, EnsureTable,
       HasExistingSchema, Baseline, Load, Skip, Apply, Record, Finish
  <2>4. Inv /\ Calm
    BY <2>3 DEF CalmInv
  <2> QED
    BY <1>2, <2>1, <2>2, <2>4, StartCalm, ExitCalm, AcquireLockCalm, TableExistsCalm,
       EnsureTableCalm, HasExistingSchemaCalm, BaselineCalm, LoadCalm, SkipCalm,
       ApplyCalm, RecordCalm, FinishCalm DEF Step
<1>4. CASE UNCHANGED vars
  BY <1>2, <1>4 DEF vars, CalmInv, Calm, Local, Inside, Told, Present
<1> QED
  BY <1>3, <1>4 DEF Next, Deployed

LEMMA InitCalm == Init => CalmInv
<1> SUFFICES ASSUME Init PROVE CalmInv
  OBVIOUS
<1>1. Calm
  BY MigrationAssumption DEF Init, Calm, Local, Inside, NotRunning
<1> QED
  BY <1>1, InitInv DEF CalmInv, Init

(* No process comes to run a migration that the schema has already, in     *)
(* whole or in part, while the lock is kept and nobody stops half way.     *)
THEOREM RunOnce == Spec => []NeverRunTwice
<1>1. CalmInv => NeverRunTwice
  <2> SUFFICES ASSUME CalmInv, ~disturbed, NEW r \in Runners, Due(r)
               PROVE  schema[run[r].next] = "none"
    BY DEF NeverRunTwice
  <2>1. /\ run[r] \in Run /\ run[r].pc = "loop" /\ Local(r) /\ run[r].files # 0
    BY Running, MigrationAssumption DEF CalmInv, Inv, Calm, Due, At, Run
  <2>2. run[r].next \notin recorded
    BY <2>1, MigrationAssumption DEF Local, Due, Run
  <2>3. run[r].next \notin Present /\ run[r].next \in Migrations
    BY <2>1, <2>2, MigrationAssumption DEF Local, Told, Due, Run, Migrations
  <2> QED
    BY <2>3 DEF Present
<1> QED
  BY <1>1, InitCalm, NextCalm, PTL DEF Spec

-----------------------------------------------------------------------------
(* The processes implement one deployer.  What that needs beyond Calm: the *)
(* rows are of migrations in the schema, and a process that takes over a   *)
(* schema has found all that it ships, and all rows are its own.           *)

TakesOver(r) ==
    /\ At(r, "existing") => recorded = {}
    /\ At(r, "baseline") => Present = 1..run[r].files /\ recorded = baselined

Faithful ==
    /\ recorded \subseteq Present
    /\ \A r \in Runners : TakesOver(r)

FaithfulInv == CalmInv /\ (~disturbed => Faithful)

LEMMA Alone ==
    ASSUME Calm, NEW r \in Runners, Inside(r), NEW s \in Runners \ {r}
    PROVE  ~At(s, "existing") /\ ~At(s, "baseline")
BY DEF Calm, Local, Inside, At

(* A step of one process, which has the lock where it changes anything     *)
(* that the others' knowledge is of.                                       *)
LEMMA FaithfulStep ==
    ASSUME Calm, Faithful, NEW r \in Runners,
           \A s \in Runners \ {r} : run'[s] = run[s],
           UNCHANGED <<schema, recorded, baselined>> \/ Inside(r),
           recorded' \subseteq Present',
           TakesOver(r)'
    PROVE  Faithful'
<1>1. ASSUME NEW s \in Runners \ {r} PROVE TakesOver(s)'
  <2>1. CASE UNCHANGED <<schema, recorded, baselined>>
    BY <2>1 DEF Faithful, TakesOver, At, Present
  <2>2. CASE Inside(r)
    BY <2>2, Alone DEF TakesOver, At
  <2> QED
    BY <2>1, <2>2
<1> QED
  BY <1>1 DEF Faithful

(* A step that writes nothing, and takes nothing over.                     *)
LEMMA FaithfulIdle ==
    ASSUME Inv, Calm, Faithful, NEW r \in Runners,
           NEW q, run' = [run EXCEPT ![r] = q], q.pc \notin {"existing", "baseline"},
           UNCHANGED <<schema, recorded, baselined>>
    PROVE  Faithful'
<1>1. run'[r] = q /\ \A s \in Runners \ {r} : run'[s] = run[s]
  BY OnlyOne DEF Inv
<1>2. recorded' \subseteq Present' /\ TakesOver(r)'
  BY <1>1 DEF Faithful, Present, TakesOver, At
<1> QED
  BY <1>1, <1>2, FaithfulStep

LEMMA IdleFaithful ==
    ASSUME Inv, Calm, Faithful, NEW r \in Runners,
           \/ Start(r) \/ Exit(r) \/ AcquireLock(r) \/ TableExists(r)
           \/ Load(r) \/ Skip(r) \/ Finish(r)
    PROVE  Faithful'
<1>1. UNCHANGED <<schema, recorded, baselined>>
  BY DEF Start, Exit, AcquireLock, TableExists, Load, Skip, Finish
<1>2. CASE Start(r)
  <2>1. PICK files \in 0..Latest :
           run' = [run EXCEPT ![r] =
              [pc |-> "lock", files |-> files, had |-> FALSE, applied |-> {}, next |-> 1]]
    BY <1>2 DEF Start
  <2> QED
    BY <1>1, <2>1, FaithfulIdle
<1>3. CASE Exit(r) \/ Finish(r)
  <2>1. Stop(r)
    BY <1>3 DEF Exit, Finish
  <2> QED
    BY <1>1, <2>1, FaithfulIdle, Stopping
<1>4. ASSUME NEW q, run' = [run EXCEPT ![r] = q], q.pc \in {"table", "ensure", "loop"}
      PROVE  Faithful'
  BY <1>1, <1>4, FaithfulIdle
<1>5. CASE AcquireLock(r) \/ TableExists(r) \/ Load(r) \/ Skip(r)
  <2>1. run[r] \in Run
    BY <1>5, Running DEF AcquireLock, TableExists, Load, Skip, At, Inv
  <2>2. CASE AcquireLock(r)
    <3>1. PICK q : q = [run[r] EXCEPT !.pc = "table"]
      OBVIOUS
    <3>2. q.pc = "table" /\ run' = [run EXCEPT ![r] = q]
      BY <2>1, <2>2, <3>1 DEF AcquireLock, To, Run
    <3> QED
      BY <1>4, <3>2
  <2>3. CASE TableExists(r)
    <3>1. PICK q : q = [run[r] EXCEPT !.pc = "ensure", !.had = hasTable]
      OBVIOUS
    <3>2. q.pc = "ensure" /\ run' = [run EXCEPT ![r] = q]
      BY <2>1, <2>3, <3>1 DEF TableExists, Run
    <3> QED
      BY <1>4, <3>2
  <2>4. CASE Load(r)
    <3>1. PICK q : q = [run[r] EXCEPT !.pc = "loop", !.applied = recorded]
      OBVIOUS
    <3>2. q.pc = "loop" /\ run' = [run EXCEPT ![r] = q]
      BY <2>1, <2>4, <3>1 DEF Load, Run
    <3> QED
      BY <1>4, <3>2
  <2>5. CASE Skip(r)
    <3>1. PICK q : q = [run[r] EXCEPT !.next = run[r].next + 1]
      OBVIOUS
    <3>2. q.pc = "loop" /\ run' = [run EXCEPT ![r] = q]
      BY <2>1, <2>5, <3>1 DEF Skip, At, Run
    <3> QED
      BY <1>4, <3>2
  <2> QED
    BY <1>5, <2>2, <2>3, <2>4, <2>5
<1> QED
  BY <1>2, <1>3, <1>5

(* A process takes a schema over only where there was no table, so no row. *)
LEMMA TakeOverFaithful ==
    ASSUME Inv, Calm, Faithful, NEW r \in Runners, ~disturbed',
           EnsureTable(r) \/ HasExistingSchema(r)
    PROVE  Faithful'
<1>1. UNCHANGED <<schema, recorded, baselined>>
  BY DEF EnsureTable, HasExistingSchema
<1>2. run[r] \in Run /\ Local(r)
  BY Running DEF EnsureTable, HasExistingSchema, At, Inv, Calm
<1>3. PICK pc \in {"loop", "load", "existing", "baseline"} :
         /\ To(r, pc)
         /\ pc = "existing" => EnsureTable(r) /\ ~run[r].had
         /\ pc = "baseline" => HasExistingSchema(r) /\ Present # {}
  <2>1. CASE EnsureTable(r) /\ run[r].files = 0
    BY <2>1 DEF EnsureTable
  <2>2. CASE EnsureTable(r) /\ run[r].files # 0 /\ run[r].had
    BY <2>2 DEF EnsureTable
  <2>3. CASE EnsureTable(r) /\ run[r].files # 0 /\ ~run[r].had
    BY <2>3 DEF EnsureTable
  <2>4. CASE HasExistingSchema(r) /\ Present = {}
    BY <2>4 DEF HasExistingSchema
  <2>5. CASE HasExistingSchema(r) /\ Present # {}
    BY <2>5 DEF HasExistingSchema
  <2> QED
    BY <2>1, <2>2, <2>3, <2>4, <2>5
<1>4. PICK q \in Run : q = [run[r] EXCEPT !.pc = pc]
  BY <1>2 DEF Run
<1>5. /\ q.pc = pc /\ q.files = run[r].files
      /\ run'[r] = q /\ \A s \in Runners \ {r} : run'[s] = run[s]
  BY <1>2, <1>3, <1>4, OnlyOne DEF Inv, Run, To
<1>6. pc = "existing" => recorded = {}
  BY <1>2, <1>3 DEF EnsureTable, At, Local, Inv, TypeOK
<1>7. pc = "baseline" => Present = 1..run[r].files /\ recorded = baselined
  BY <1>3 DEF HasExistingSchema, Faithful, TakesOver, Inv, TypeOK
<1>8. Present' = Present
  BY <1>1 DEF Present
<1>9. TakesOver(r)' /\ recorded' \subseteq Present'
  BY <1>1, <1>5, <1>6, <1>7, <1>8 DEF TakesOver, At, Faithful
<1> QED
  BY <1>1, <1>5, <1>9, FaithfulStep

LEMMA WriteFaithful ==
    ASSUME Inv, Calm, Faithful, NEW r \in Runners, Baseline(r) \/ Apply(r) \/ Record(r)
    PROVE  Faithful'
<1>1. run[r] \in Run /\ Knows(run[r]) /\ Inside(r)
  BY Running DEF Baseline, Apply, Due, Record, At, Inv, Inside
<1>2. CASE Baseline(r)
  <2>1. PICK q : q = [run[r] EXCEPT !.next = run[r].next + 1]
    OBVIOUS
  <2>2. q.pc = "baseline" /\ q.files = run[r].files /\ run' = [run EXCEPT ![r] = q]
    BY <1>1, <1>2, <2>1 DEF Baseline, At, Run
  <2>3. run'[r] = q /\ \A s \in Runners \ {r} : run'[s] = run[s]
    BY <2>2, OnlyOne DEF Inv
  <2>4. Present' = Present /\ Present = 1..run[r].files /\ recorded = baselined
    BY <1>2 DEF Baseline, Present, Faithful, TakesOver
  <2>5. recorded' = recorded \cup {run[r].next} /\ baselined' = recorded'
    BY <1>2, <2>4 DEF Baseline, Insert
  <2>6. run[r].next \in 1..run[r].files
    BY <1>1, <1>2, MigrationAssumption DEF Baseline, Insert, Run
  <2>7. recorded' \subseteq Present' /\ TakesOver(r)'
    BY <2>2, <2>3, <2>4, <2>5, <2>6 DEF Faithful, TakesOver, At
  <2> QED
    BY <1>1, <2>3, <2>7, FaithfulStep
<1>3. CASE Apply(r)
  <2>1. PICK q : q = [run[r] EXCEPT !.pc = "record"]
    OBVIOUS
  <2>2. q.pc = "record" /\ run' = [run EXCEPT ![r] = q]
    BY <1>1, <1>3, <2>1 DEF Apply, To, Run
  <2>3. run'[r] = q /\ \A s \in Runners \ {r} : run'[s] = run[s]
    BY <2>2, OnlyOne DEF Inv
  <2>4. Present \subseteq Present' /\ recorded' = recorded
    BY <1>3 DEF Apply, Present, Inv, TypeOK
  <2>5. recorded' \subseteq Present' /\ TakesOver(r)'
    BY <2>2, <2>3, <2>4 DEF Faithful, TakesOver, At
  <2> QED
    BY <1>1, <2>3, <2>5, FaithfulStep
<1>4. CASE Record(r)
  <2>1. PICK q : q = [run[r] EXCEPT !.pc = "loop", !.next = run[r].next + 1]
    OBVIOUS
  <2>2. q.pc = "loop" /\ run' = [run EXCEPT ![r] = q]
    BY <1>1, <1>4, <2>1 DEF Record, Run
  <2>3. run'[r] = q /\ \A s \in Runners \ {r} : run'[s] = run[s]
    BY <2>2, OnlyOne DEF Inv
  <2>4. run[r].next \in Migrations /\ schema[run[r].next] = "full"
    BY <1>1, <1>4, InsertKeepsOrder, MigrationAssumption
    DEF Record, At, Knows, Insert, Run, Migrations
  <2>5. recorded' = recorded \cup {run[r].next} /\ Present' = Present
    BY <1>4 DEF Record, Insert, Present
  <2>6. recorded' \subseteq Present' /\ TakesOver(r)'
    BY <2>2, <2>3, <2>4, <2>5 DEF Faithful, TakesOver, At, Present
  <2> QED
    BY <1>1, <2>3, <2>6, FaithfulStep
<1> QED
  BY <1>2, <1>3, <1>4

LEMMA NextFaithful == ASSUME FaithfulInv, [Next]_vars PROVE FaithfulInv'
<1>1. CalmInv'
  BY NextCalm DEF FaithfulInv
<1>2. SUFFICES ASSUME ~disturbed' PROVE Faithful'
  BY <1>1 DEF FaithfulInv
<1>3. CASE \E r \in Runners : Step(r)
  <2>1. PICK r \in Runners : Step(r)
    BY <1>3
  <2>2. ~ConnectionLost(r) /\ ~ApplyInPart(r)
    BY <1>2 DEF ConnectionLost, ApplyInPart
  <2>3. ~disturbed
    BY <1>2, <2>1, <2>2 DEF Step, Start, Exit, AcquireLock, TableExists, EnsureTable,
       HasExistingSchema, Baseline, Load, Skip, Apply, Record, Finish
  <2>4. Inv /\ Calm /\ Faithful
    BY <2>3 DEF FaithfulInv, CalmInv
  <2> QED
    BY <1>2, <2>1, <2>2, <2>4, IdleFaithful, TakeOverFaithful, WriteFaithful DEF Step
<1>4. CASE UNCHANGED vars
  BY <1>2, <1>4 DEF vars, FaithfulInv, Faithful, TakesOver, At, Present
<1> QED
  BY <1>3, <1>4 DEF Next, Deployed

LEMMA InitFaithful == Init => FaithfulInv
BY InitCalm DEF Init, FaithfulInv, Faithful, TakesOver, At, NotRunning

(* The row that a process writes is of the first migration without one.    *)
LEMMA InsertsFirst ==
    ASSUME Inv, NEW r \in Runners, ~At(r, "stopped"), Insert(r)
    PROVE  run[r].next \in Migrations /\ OneDeployer!First(run[r].next)
<1>1. run[r] \in Run /\ Knows(run[r])
  BY Running DEF Inv
<1>2. run[r].next \in Migrations
  BY <1>1, MigrationAssumption DEF Insert, Run, Migrations
<1> QED
  BY <1>1, <1>2 DEF Knows, Insert, OneDeployer!First, OneDeployer!Migrations, Migrations

(* The schema gets ahead of the table only one migration at a time.        *)
LEMMA ApplyImplements ==
    ASSUME FaithfulInv, NEW r \in Runners, Apply(r)
    PROVE  OneDeployer!Next \/ UNCHANGED <<recorded, baselined, Present, disturbed>>
<1> DEFINE i == run[r].next
<1>1. /\ run[r] \in Run /\ Knows(run[r]) /\ run[r].pc = "loop" /\ run[r].files # 0
  BY Running, MigrationAssumption DEF Apply, Due, At, FaithfulInv, CalmInv, Inv, Run
<1>2. i \in Migrations
  BY <1>1, MigrationAssumption DEF Apply, Due, Run, Migrations
<1>3. Present' = Present \cup {i} /\ UNCHANGED <<recorded, baselined, disturbed>>
  BY <1>2 DEF Apply, Present, FaithfulInv, CalmInv, Inv, TypeOK
<1>4. CASE disturbed
  <2>1. OneDeployer!Disturb
    BY <1>3, <1>4 DEF OneDeployer!Disturb
  <2> QED
    BY <2>1 DEF OneDeployer!Next
<1>5. CASE ~disturbed
  <2>1. Local(r) /\ Faithful
    BY <1>5 DEF FaithfulInv, CalmInv, Calm
  <2>2. i \notin recorded
    BY <1>1, <2>1, MigrationAssumption DEF Local, Apply, Due, Run
  <2>3. recorded = Present
    BY <1>1, <2>1 DEF Local, Told, Faithful
  <2>4. OneDeployer!First(i)
    BY <1>1, <1>2, <2>2 DEF Knows, OneDeployer!First, OneDeployer!Migrations, Migrations
  <2>5. OneDeployer!Run(i)
    BY <1>3, <1>5, <2>3, <2>4 DEF OneDeployer!Run
  <2> QED
    BY <1>2, <2>5 DEF OneDeployer!Next, OneDeployer!Migrations, Migrations
<1> QED
  BY <1>4, <1>5

LEMMA StepImplements ==
    ASSUME FaithfulInv, [Next]_vars
    PROVE  OneDeployer!Next \/ UNCHANGED <<recorded, baselined, Present, disturbed>>
<1>1. CASE UNCHANGED vars
  BY <1>1 DEF vars, Present
<1>2. ASSUME NEW r \in Runners, Step(r)
      PROVE  OneDeployer!Next \/ UNCHANGED <<recorded, baselined, Present, disturbed>>
  <2>1. CASE \/ Start(r) \/ AcquireLock(r) \/ TableExists(r) \/ Load(r) \/ Skip(r)
             \/ Finish(r)
    BY <2>1 DEF Start, AcquireLock, TableExists, Load, Skip, Finish, Present
  <2>2. CASE Exit(r) \/ ConnectionLost(r) \/ EnsureTable(r) \/ HasExistingSchema(r)
    <3>1. UNCHANGED <<schema, recorded, baselined>> /\ disturbed' \in BOOLEAN
          /\ (disturbed => disturbed')
      BY <2>2 DEF Exit, ConnectionLost, EnsureTable, HasExistingSchema, FaithfulInv,
         CalmInv, Inv, TypeOK
    <3>2. Present' = Present
      BY <3>1 DEF Present
    <3>3. CASE disturbed' = disturbed
      BY <3>1, <3>2, <3>3
    <3>4. CASE disturbed' # disturbed
      <4>1. disturbed' = TRUE
        BY <3>1, <3>4 DEF FaithfulInv, CalmInv, Inv, TypeOK
      <4>2. OneDeployer!Disturb
        BY <3>1, <3>2, <4>1 DEF OneDeployer!Disturb
      <4> QED
        BY <4>2 DEF OneDeployer!Next
    <3> QED
      BY <3>3, <3>4
  <2>3. CASE ApplyInPart(r)
    <3>1. Present \subseteq Present' /\ UNCHANGED <<recorded, baselined>> /\ disturbed'
      BY <2>3 DEF ApplyInPart, Present, FaithfulInv, CalmInv, Inv, TypeOK
    <3>2. OneDeployer!Disturb
      BY <2>3, <3>1 DEF ApplyInPart, OneDeployer!Disturb
    <3> QED
      BY <3>2 DEF OneDeployer!Next
  <2>4. CASE Apply(r)
    BY <2>4, ApplyImplements
  <2>5. CASE Baseline(r)
    <3> DEFINE i == run[r].next
    <3>1. i \in Migrations /\ OneDeployer!First(i)
      BY <2>5, InsertsFirst DEF Baseline, At, FaithfulInv, CalmInv
    <3>2. /\ recorded' = recorded \cup {i} /\ baselined' = baselined \cup {i}
          /\ Present' = Present /\ disturbed' = disturbed
      BY <2>5 DEF Baseline, Insert, Present
    <3>3. ~disturbed => i \in Present /\ baselined = recorded
      <4>1. Faithful' => i \in Present
        BY <3>2 DEF Faithful
      <4>2. ~disturbed => Faithful' /\ Faithful
        BY <1>2, <3>2, NextFaithful DEF FaithfulInv, Next
      <4> QED
        BY <2>5, <4>1, <4>2 DEF Faithful, TakesOver, Baseline
    <3>4. OneDeployer!Adopt(i)
      BY <3>1, <3>2, <3>3 DEF OneDeployer!Adopt
    <3> QED
      BY <3>1, <3>4 DEF OneDeployer!Next, OneDeployer!Migrations, Migrations
  <2>6. CASE Record(r)
    <3> DEFINE i == run[r].next
    <3>1. i \in Migrations /\ OneDeployer!First(i)
      BY <2>6, InsertsFirst DEF Record, At, FaithfulInv, CalmInv
    <3>2. schema[i] = "full"
      BY <2>6 DEF Record, At, FaithfulInv, CalmInv, Inv, Knows
    <3>3. /\ recorded' = recorded \cup {i} /\ baselined' = baselined
          /\ Present' = Present /\ disturbed' = disturbed /\ i \in Present
      BY <2>6, <3>1, <3>2 DEF Record, Insert, Present
    <3>4. OneDeployer!Record(i)
      BY <3>1, <3>3 DEF OneDeployer!Record
    <3> QED
      BY <3>1, <3>4 DEF OneDeployer!Next, OneDeployer!Migrations, Migrations
  <2> QED
    BY <1>2, <2>1, <2>2, <2>3, <2>4, <2>5, <2>6 DEF Step
<1> QED
  BY <1>1, <1>2 DEF Next, Deployed

(* Any number of processes, with their lock, their stops and their losses, *)
(* do to the database what one deployer would (cmd/migrate/main.go, run):  *)
(* rows in order, each after its migration, and nothing run ahead of them. *)
THEOREM ActsAsOneDeployer == Spec => DeploymentSpec
<1>1. Init => OneDeployer!Init
  <2> SUFFICES ASSUME Init PROVE OneDeployer!Init
    OBVIOUS
  <2>1. PICK k \in 0..Latest :
           schema = [i \in Migrations |-> IF i <= k THEN "full" ELSE "none"]
    BY DEF Init
  <2>2. Present = 1..k
    BY <2>1, MigrationAssumption DEF Present, Migrations
  <2> QED
    BY <2>2 DEF Init, OneDeployer!Init
<1>2. FaithfulInv /\ [Next]_vars => [OneDeployer!Next]_(OneDeployer!vars)
  BY StepImplements DEF OneDeployer!vars
<1> QED
  BY <1>1, <1>2, InitFaithful, NextFaithful, PTL DEF Spec, DeploymentSpec, OneDeployer!Spec
=============================================================================
