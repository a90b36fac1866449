-------------------------- MODULE Operations_proofs --------------------------
(***************************************************************************)
(* Proofs about Operations, for any services, instances, migrations and    *)
(* bounds.  Part 1 is about the schema: what Processes promises holds      *)
(* beside backups and restores as well.  Part 2 is about the service rows  *)
(* and the restore guard that reads them.                                  *)
(***************************************************************************)
EXTENDS Operations, TLAPS

-----------------------------------------------------------------------------
(* Part 1: starts and migrations *)

\* How far a process has come with the migrations: never past the next one.
Reached ==
    \A p \in Instances :
      IF proc[p].pc \in {"starting", "migrating"}
      THEN proc[p].next <= schema.version + 1
      ELSE proc[p].next = 1

\* A database with data waits for its copy with no migration under way.
CopiedFirst ==
    uncopied => /\ schema.version > 0
                /\ \A p \in Instances : proc[p].pc \notin {"starting", "migrating"}

ProcInv == ProcessesTypeOK /\ MigratedInOrder /\ RunsOnLatest /\ Reached /\ CopiedFirst

\* The rows become other rows of the type: a restore.
RowsReplaced ==
    /\ UNCHANGED <<schema, uncopied, proc>>
    /\ rows' \in [Services -> Row]
    /\ \A s \in Services : rows'[s].owner # NoInstance => ServiceOf[rows'[s].owner] = s

\* The invariant holds of a new database and of an older one.
LEMMA ProcInitInv == ProcessesInit => ProcInv
  <1> SUFFICES ASSUME ProcessesInit PROVE ProcInv
    OBVIOUS
  <1>1. PICK version \in 0..Latest :
           /\ schema = [version |-> version,
                        times |-> [v \in 1..Latest |-> IF v <= version THEN 1 ELSE 0]]
           /\ uncopied = (version \in 1..(Latest - 1))
    BY DEF ProcessesInit
  <1>2. schema \in Schema /\ uncopied \in BOOLEAN /\ MigratedInOrder
    BY <1>1, ProcessesAssumption DEF Schema, MigratedInOrder
  <1>3. proc \in [Instances -> Process] /\ \A p \in Instances : proc[p].pc = "off" /\ proc[p].next = 1
    BY ProcessesAssumption DEF ProcessesInit, Off, Process
  <1>4. rows \in [Services -> Row] /\ \A s \in Services : rows[s].owner = NoInstance
    BY DEF ProcessesInit, NoRow, Row
  <1>5. CopiedFirst
    <2>1. uncopied => version \in 1..(Latest - 1)
      BY <1>1, Zenon
    <2>2. schema.version = version
      BY <1>1
    <2>3. QED
      BY <1>3, <2>1, <2>2 DEF CopiedFirst
  <1>6. QED
    BY <1>2, <1>3, <1>4, <1>5 DEF ProcInv, ProcessesTypeOK, RunsOnLatest, Runs, Reached

\* A row of the starting process.
LEMMA TakeRowType ==
  ASSUME ProcessesTypeOK, NEW p \in Instances, TakeRow(p)
  PROVE  /\ rows' \in [Services -> Row]
         /\ \A s \in Services : rows'[s].owner # NoInstance => ServiceOf[rows'[s].owner] = s
         /\ rows'[ServiceOf[p]] = [owner |-> p, beat |-> "fresh"]
         /\ \A s \in Services \ {ServiceOf[p]} : rows'[s] = rows[s]
  <1>1. ServiceOf[p] \in Services
    BY ProcessesAssumption
  <1>2. [owner |-> p, beat |-> "fresh"] \in Row
    BY DEF Row
  <1>3. QED
    BY <1>1, <1>2 DEF TakeRow, ProcessesTypeOK

\* Each step of a process keeps the invariant, and leaves a schema alone whose
\* data has no copy.
LEMMA ApplyMigrationInv ==
  ASSUME ProcInv, NEW p \in Instances, ApplyMigration(p)
  PROVE  ProcInv' /\ (uncopied => schema' = schema)
  <1> DEFINE v == proc[p].next
  <1>1. /\ v \in 1..Latest /\ v <= schema.version + 1 /\ schema.version \in 0..Latest
        /\ schema \in Schema /\ Latest \in Nat /\ ~uncopied
        /\ proc[p].pc \in {"starting", "migrating"}
    BY ProcessesAssumption
       DEF ProcInv, ProcessesTypeOK, Process, Schema, Reached, CopiedFirst, ApplyMigration
  <1>2. /\ proc' = [proc EXCEPT ![p].next = v + 1] /\ uncopied' = uncopied /\ rows' = rows
    BY DEF ApplyMigration
  <1>3. /\ proc' \in [Instances -> Process]
        /\ \A q \in Instances : proc'[q].pc = proc[q].pc
        /\ proc'[p].next = v + 1
        /\ \A q \in Instances \ {p} : proc'[q] = proc[q]
    BY <1>1, <1>2 DEF ProcInv, ProcessesTypeOK, Process
  <1>4. /\ schema' \in Schema /\ schema.version <= schema'.version /\ v <= schema'.version
        /\ MigratedInOrder'
    <2>1. CASE Pending(p)
      <3>1. v = schema.version + 1
        BY <1>1, <2>1 DEF Pending
      <3> DEFINE counted == [schema.times EXCEPT ![v] = @ + 1]
      <3>2. counted \in [1..Latest -> Nat] /\ \A w \in 1..Latest :
               counted[w] = IF w = v THEN schema.times[w] + 1 ELSE schema.times[w]
        BY <1>1 DEF Schema
      <3>3. schema' = [version |-> v, times |-> counted]
        BY <1>1, <2>1, <3>1 DEF ApplyMigration
      <3> HIDE DEF counted
      <3>4. schema' \in Schema /\ schema'.version = v /\ schema'.times = counted
        BY <1>1, <3>2, <3>3 DEF Schema
      <3>5. ASSUME NEW w \in 1..Latest
            PROVE  schema'.times[w] = IF w <= schema'.version THEN 1 ELSE 0
        <4>1. schema.times[w] = IF w <= schema.version THEN 1 ELSE 0
          BY DEF ProcInv, MigratedInOrder
        <4>2. QED
          BY <1>1, <3>1, <3>2, <3>4, <4>1
      <3>6. QED
        BY <1>1, <3>1, <3>4, <3>5 DEF MigratedInOrder
    <2>2. CASE ~Pending(p)
      BY <1>1, <2>2 DEF Pending, ApplyMigration, ProcInv, MigratedInOrder
    <2>3. QED
      BY <2>1, <2>2
  <1>5. Reached'
    <2>1. ASSUME NEW q \in Instances
          PROVE  IF proc'[q].pc \in {"starting", "migrating"}
                 THEN proc'[q].next <= schema'.version + 1
                 ELSE proc'[q].next = 1
      <3>1. CASE q = p
        BY <1>1, <1>3, <1>4, <3>1 DEF Schema
      <3>2. CASE q # p
        <4>1. /\ proc'[q] = proc[q] /\ proc[q].next \in Nat
              /\ IF proc[q].pc \in {"starting", "migrating"}
                 THEN proc[q].next <= schema.version + 1
                 ELSE proc[q].next = 1
          BY <1>3, <3>2 DEF ProcInv, Reached, ProcessesTypeOK, Process
        <4>2. schema'.version \in Nat /\ schema.version \in Nat
          BY <1>1, <1>4 DEF Schema
        <4>3. QED
          BY <1>4, <4>1, <4>2
      <3>3. QED
        BY <3>1, <3>2
    <2>2. QED
      BY <2>1 DEF Reached
  <1>6. RunsOnLatest'
    <2>1. schema'.version \in 0..Latest
      BY <1>4 DEF Schema
    <2>2. ASSUME NEW q \in Instances, Runs(q)' PROVE schema'.version = Latest
      <3>1. schema.version = Latest
        BY <1>3, <2>2 DEF Runs, ProcInv, RunsOnLatest
      <3>2. QED
        BY <1>1, <1>4, <2>1, <3>1
    <2>3. QED
      BY <2>2 DEF RunsOnLatest
  <1>7. QED
    BY <1>1, <1>2, <1>3, <1>4, <1>5, <1>6 DEF ProcInv, ProcessesTypeOK, CopiedFirst

\* Every step of a process keeps the invariant, and no migration precedes the copy.
LEMMA ProcessesStepInv ==
  ASSUME ProcInv, ProcessesNext
  PROVE  ProcInv' /\ (uncopied => schema' = schema)
  <1>0. /\ proc \in [Instances -> Process] /\ schema \in Schema /\ Latest \in Nat \ {0}
        /\ \A p \in Instances : /\ proc[p].pc \in {"off", "starting", "migrating", "running"}
                                /\ proc[p].next \in 1..(Latest + 1)
        /\ schema.version \in 0..Latest
    BY ProcessesAssumption DEF ProcInv, ProcessesTypeOK, Process, Schema
  <1> DEFINE Kept == UNCHANGED <<schema, uncopied>>
             Others(p) == \A q \in Instances \ {p} : proc'[q] = proc[q]
  <1>1. ASSUME NEW p \in Instances, Boot(p)
        PROVE  ProcInv' /\ (uncopied => schema' = schema)
    <2>1. CASE Uninitialized
      <3>1. /\ proc' \in [Instances -> Process] /\ Others(p) /\ Kept /\ rows' = rows
            /\ proc'[p].pc = "starting" /\ proc'[p].next = 1
        BY <1>0, <1>1, <2>1 DEF Boot, Process, ProcInv, Reached
      <3>2. ~uncopied
        BY <2>1 DEF ProcInv, CopiedFirst, Uninitialized
      <3>3. QED
        BY <1>0, <3>1, <3>2
           DEF ProcInv, ProcessesTypeOK, MigratedInOrder, RunsOnLatest, Runs, Reached, CopiedFirst
    <2>2. CASE ~Uninitialized
      <3>1. /\ proc' \in [Instances -> Process] /\ Others(p) /\ Kept /\ TakeRow(p)
            /\ proc'[p].pc = "running" /\ proc'[p].next = 1 /\ schema.version = Latest
        BY <1>0, <1>1, <2>2 DEF Boot, Process, UpToDate, ProcInv, Reached
      <3>2. ProcessesTypeOK'
        BY <3>1, TakeRowType DEF ProcInv, ProcessesTypeOK
      <3>3. QED
        BY <1>0, <3>1, <3>2
           DEF ProcInv, MigratedInOrder, RunsOnLatest, Runs, Reached, CopiedFirst
    <2>3. QED
      BY <2>1, <2>2
  <1>2. ASSUME NEW p \in Instances, Migrate(p)
        PROVE  ProcInv' /\ (uncopied => schema' = schema)
    <2>1. /\ proc' \in [Instances -> Process] /\ Others(p) /\ rows' = rows /\ schema' = schema
          /\ proc'[p].pc = "migrating" /\ proc'[p].next = 1
      BY <1>0, <1>2 DEF Migrate, Process, ProcInv, Reached
    <2>2. uncopied' \in BOOLEAN /\ ~uncopied'
      BY <1>2, Zenon DEF Migrate
    <2>3. CopiedFirst'
      BY <2>2 DEF CopiedFirst
    <2>4. ProcessesTypeOK' /\ MigratedInOrder'
      BY <2>1, <2>2 DEF ProcInv, ProcessesTypeOK, MigratedInOrder
    <2>5. RunsOnLatest' /\ Reached'
      BY <1>0, <2>1 DEF ProcInv, RunsOnLatest, Runs, Reached
    <2>6. QED
      BY <2>1, <2>3, <2>4, <2>5 DEF ProcInv
  <1>3. ASSUME NEW p \in Instances, ApplyMigration(p)
        PROVE  ProcInv' /\ (uncopied => schema' = schema)
    BY <1>3, ApplyMigrationInv
  <1>4. ASSUME NEW p \in Instances, EndMigrations(p)
        PROVE  ProcInv' /\ (uncopied => schema' = schema)
    <2>1. schema.version = Latest
      BY <1>0, <1>4 DEF EndMigrations, ProcInv, Reached
    <2>2. /\ proc' \in [Instances -> Process] /\ Others(p) /\ Kept
          /\ proc'[p].pc \in {"running", "off"} /\ proc'[p].next = 1
      BY <1>0, <1>4 DEF EndMigrations, Process, Off
    <2>3. ProcessesTypeOK'
      BY <1>4, <2>2, TakeRowType DEF EndMigrations, ProcInv, ProcessesTypeOK
    <2>4. QED
      BY <1>0, <2>1, <2>2, <2>3
         DEF ProcInv, MigratedInOrder, RunsOnLatest, Runs, Reached, CopiedFirst
  <1>5. ASSUME NEW p \in Instances, Stop(p) \/ Kill(p)
        PROVE  ProcInv' /\ (uncopied => schema' = schema)
    <2>1. /\ proc' \in [Instances -> Process] /\ Others(p) /\ Kept
          /\ proc'[p].pc = "off" /\ proc'[p].next = 1
      BY <1>0, <1>5 DEF Stop, Kill, Process, Off
    <2>2. /\ rows' \in [Services -> Row]
          /\ \A s \in Services : rows'[s].owner = rows[s].owner
      BY <1>5 DEF Stop, Kill, ProcInv, ProcessesTypeOK, Row
    <2>3. QED
      BY <1>0, <2>1, <2>2
         DEF ProcInv, ProcessesTypeOK, MigratedInOrder, RunsOnLatest, Runs, Reached, CopiedFirst
  <1>6. ASSUME UNCHANGED <<schema, uncopied, proc>>, rows' \in [Services -> Row],
               \A t \in Services : rows'[t].owner = rows[t].owner
        PROVE  ProcInv' /\ (uncopied => schema' = schema)
    BY <1>6
       DEF ProcInv, ProcessesTypeOK, MigratedInOrder, RunsOnLatest, Runs, Reached, CopiedFirst
  <1>7. ASSUME NEW p \in Instances, Beat(p)
        PROVE  ProcInv' /\ (uncopied => schema' = schema)
    <2> DEFINE beat == IF rows[ServiceOf[p]].beat = "stopped" THEN "stopped" ELSE "fresh"
    <2>1. ServiceOf[p] \in Services /\ rows \in [Services -> Row]
      BY ProcessesAssumption DEF ProcInv, ProcessesTypeOK
    <2>2. rows' = [rows EXCEPT ![ServiceOf[p]].beat = beat] /\ beat \in {"stopped", "fresh"}
      BY <1>7, <2>1 DEF Beat, Row
    <2> HIDE DEF beat
    <2>3. rows' \in [Services -> Row] /\ \A t \in Services : rows'[t].owner = rows[t].owner
      BY <2>1, <2>2 DEF Row
    <2>4. QED
      BY <1>6, <1>7, <2>3 DEF Beat
  <1>8. ASSUME NEW s \in Services, BeatAges(s)
        PROVE  ProcInv' /\ (uncopied => schema' = schema)
    <2>1. rows' \in [Services -> Row] /\ \A t \in Services : rows'[t].owner = rows[t].owner
      BY <1>8 DEF BeatAges, ProcInv, ProcessesTypeOK, Row
    <2>2. QED
      BY <1>6, <1>8, <2>1 DEF BeatAges
  <1>9. QED
    BY <1>1, <1>2, <1>3, <1>4, <1>5, <1>7, <1>8 DEF ProcessesNext, StartStep

\* A restored table of rows disturbs neither schema nor processes.
LEMMA RowsReplacedInv ==
  ASSUME ProcInv, RowsReplaced
  PROVE  ProcInv' /\ (uncopied => schema' = schema)
  BY DEF RowsReplaced, ProcInv, ProcessesTypeOK, MigratedInOrder, RunsOnLatest, Runs, Reached,
         CopiedFirst

\* The end of a maintenance round ends at most its process.
LEMMA EndsRound == ASSUME NEW p \in Maintainers, RoundOver(p)
                   PROVE  ProcessesNext \/ UNCHANGED processVars
  BY DEF RoundOver, ProcessesNext, Maintainers

\* To the processes, every step of Operations is a step of theirs, a restored
\* table of rows, or none.
LEMMA StepOfProcesses ==
  ASSUME ProcInv, Next
  PROVE  ProcessesNext \/ RowsReplaced \/ UNCHANGED processVars
  <1>1. CASE ProcessStep
    BY <1>1 DEF ProcessStep, ProcessesNext, StartProcess, StopProcess, KillProcess
  <1>2. ASSUME NEW p \in Maintainers,
               \/ BeginRound(p) \/ RecordRound(p) \/ FailRound(p)
               \/ ListVictims(p) \/ Unlink(p) \/ DeleteRecord(p)
        PROVE  ProcessesNext \/ UNCHANGED processVars
    BY <1>2, EndsRound
       DEF BeginRound, RecordRound, FailRound, ListVictims, Unlink, DeleteRecord, NextKind
  <1>3. CASE \/ CliBackup \/ CliRecord \/ FailCli \/ BeginRestore \/ SafetyCopy \/ SafetyRecord
             \/ CheckRestored \/ NextDay \/ \E i \in Items : Write(i)
    BY <1>3 DEF CliBackup, CliRecord, FailCli, BeginRestore, SafetyCopy, SafetyRecord,
                CheckRestored, NextDay, Write
  <1>4. CASE Overwrite \/ RollBack
    <2>1. rows' \in HeldRows /\ UNCHANGED <<schema, uncopied, proc>>
      BY <1>4 DEF Overwrite, RollBack, Become
    <2>2. QED
      BY <2>1 DEF HeldRows, RowsReplaced, NoRow
  <1>5. CASE EndRestore
    <2>1. \A s \in Services : [rows[s] EXCEPT !.beat = "stopped"] \in Row
      BY DEF ProcInv, ProcessesTypeOK, Row
    <2>2. rows' \in [Services -> Row] /\ \A s \in Services : rows'[s].owner = rows[s].owner
      BY <1>5, <2>1 DEF EndRestore, ProcInv, ProcessesTypeOK, Row
    <2>3. QED
      BY <1>5, <2>2 DEF EndRestore, RowsReplaced, ProcInv, ProcessesTypeOK
  <1>6. QED
    BY <1>1, <1>2, <1>3, <1>4, <1>5 DEF Next, BackupStep

\* Every step of Operations keeps the invariant of the processes.
LEMMA ProcInductive == ProcInv /\ [Next]_vars => ProcInv' /\ (uncopied => schema' = schema)
  <1> SUFFICES ASSUME ProcInv, [Next]_vars PROVE ProcInv' /\ (uncopied => schema' = schema)
    OBVIOUS
  <1>1. CASE UNCHANGED processVars
    BY <1>1 DEF processVars, ProcInv, ProcessesTypeOK, MigratedInOrder, RunsOnLatest, Runs,
                Reached, CopiedFirst
  <1>2. ProcessesNext \/ RowsReplaced \/ UNCHANGED processVars
    BY StepOfProcesses DEF vars
  <1>3. QED
    BY <1>1, <1>2, ProcessesStepInv, RowsReplacedInv

\* Every migration is applied once and in order, however many processes start,
\* migrate and are killed, on any version of the schema.
THEOREM Migrations == Spec => []MigratedInOrder
  <1>1. Init => ProcInv
    BY ProcInitInv DEF Init
  <1>2. ProcInv => MigratedInOrder
    BY DEF ProcInv
  <1>3. QED
    BY <1>1, <1>2, ProcInductive, PTL DEF Spec

\* No process runs on an older schema than its own.
THEOREM LatestOnly == Spec => []RunsOnLatest
  <1>1. Init => ProcInv
    BY ProcInitInv DEF Init
  <1>2. ProcInv => RunsOnLatest
    BY DEF ProcInv
  <1>3. QED
    BY <1>1, <1>2, ProcInductive, PTL DEF Spec

\* A database that came with data is not migrated before it is copied.
THEOREM CopyBeforeUpgrade == Spec => UpgradeHasCopy
  <1>1. Init => ProcInv
    BY ProcInitInv DEF Init
  <1>2. ProcInv /\ [Next]_vars => [uncopied => schema' = schema]_processVars
    BY ProcInductive
  <1>3. QED
    BY <1>1, <1>2, ProcInductive, PTL DEF Spec, UpgradeHasCopy

-----------------------------------------------------------------------------
(* Part 2: service rows and the restore guard *)

\* What each process does about backups is a record of five fields.
Shaped(r) == DOMAIN r = {"pc", "kind", "file", "source", "victims"}

WorkShape ==
    /\ work = [a \in Actors |-> work[a]]
    /\ \A a \in Actors : Shaped(work[a])

\* Until a restore, the row of a running process is not stopped, and a process
\* that beats in time is not taken for gone.
SeenIsFresh ==
    restores = 0 =>
      \A p \in Instances, s \in Services :
        Runs(p) /\ rows[s].owner = p =>
          /\ rows[s].beat # "stopped"
          /\ s \notin Drowsy => rows[s].beat = "fresh"

\* How far a restore is, and what it may rely on until it has overwritten the
\* database: nothing it could see runs.
RestoreInv ==
    /\ restores \in Nat
    /\ restores = 0 => work[Cli].source = 0
    /\ work[Cli].pc = "idle" => work[Cli].source = 0
    /\ work[Cli].pc \in {"begun", "safe", "overwritten", "checked"} => work[Cli].source # 0
    /\ restores = 1 /\ Restoring /\ work[Cli].pc \in {"begun", "copied", "safe"} =>
         \A s \in Services : ~RunsSeen(s)

GuardInv == ProcInv /\ WorkShape /\ SeenIsFresh /\ RestoreInv

\* The operator's command is an actor and no maintenance process.
LEMMA CliActor == Cli \in Actors /\ Maintainers \subseteq Actors /\ Cli \notin Maintainers /\ Cli \notin Instances
  BY OperationsAssumption DEF Actors, Maintainers

\* Work at rest has the five fields and no source.
LEMMA RestShaped == Shaped(Rest) /\ Rest.source = 0 /\ Rest.pc = "idle"
  BY DEF Shaped, Rest

\* A step of a process: as far as the rows tell, only what starts comes to run.
LEMMA SeenStep ==
  ASSUME ProcInv, SeenIsFresh, restores' = restores, ProcessesNext
  PROVE  SeenIsFresh'
  <1>0. /\ proc \in [Instances -> Process] /\ rows \in [Services -> Row]
        /\ \A s \in Services : rows[s].owner # NoInstance => ServiceOf[rows[s].owner] = s
        /\ NoInstance \notin Instances /\ ServiceOf \in [Instances -> Services]
    BY ProcessesAssumption DEF ProcInv, ProcessesTypeOK
  <1> SUFFICES ASSUME restores = 0
               PROVE  \A q \in Instances, s \in Services :
                        Runs(q)' /\ rows'[s].owner = q =>
                          /\ rows'[s].beat # "stopped"
                          /\ s \notin Drowsy => rows'[s].beat = "fresh"
    BY DEF SeenIsFresh
  <1>1. \A q \in Instances, s \in Services :
          Runs(q) /\ rows[s].owner = q =>
            /\ rows[s].beat # "stopped"
            /\ s \notin Drowsy => rows[s].beat = "fresh"
    BY DEF SeenIsFresh
  <1>2. ASSUME NEW p \in Instances, TakeRow(p), \A q \in Instances \ {p} : proc'[q] = proc[q],
               NEW q \in Instances, NEW s \in Services, Runs(q)', rows'[s].owner = q
        PROVE  rows'[s].beat # "stopped" /\ (s \notin Drowsy => rows'[s].beat = "fresh")
    <2>1. CASE s = ServiceOf[p]
      <3>1. rows'[ServiceOf[p]] = [owner |-> p, beat |-> "fresh"]
        BY <1>2, TakeRowType DEF ProcInv
      <3>2. rows'[s].beat = "fresh"
        BY <2>1, <3>1
      <3>3. QED
        BY <3>2
    <2>2. CASE s # ServiceOf[p]
      <3>1. rows'[s] = rows[s]
        BY <1>2, <2>2, TakeRowType DEF ProcInv
      <3>2. q # p
        BY <1>0, <1>2, <2>2, <3>1
      <3>3. QED
        BY <1>1, <1>2, <3>1, <3>2 DEF Runs
    <2>3. QED
      BY <2>1, <2>2
  <1>3. ASSUME rows' = rows, \A q \in Instances : Runs(q)' => Runs(q)
        PROVE  \A q \in Instances, s \in Services :
                 Runs(q)' /\ rows'[s].owner = q =>
                   rows'[s].beat # "stopped" /\ (s \notin Drowsy => rows'[s].beat = "fresh")
    BY <1>1, <1>3
  <1>4. ASSUME NEW p \in Instances, Boot(p)
        PROVE  \A q \in Instances, s \in Services :
                 Runs(q)' /\ rows'[s].owner = q =>
                   rows'[s].beat # "stopped" /\ (s \notin Drowsy => rows'[s].beat = "fresh")
    <2>1. CASE Uninitialized
      <3>1. rows' = rows /\ \A q \in Instances : Runs(q)' => Runs(q)
        <4>1. rows' = rows /\ proc' = [proc EXCEPT ![p].pc = "starting"]
          BY <1>4, <2>1 DEF Boot
        <4>2. QED
          BY <1>0, <4>1 DEF Runs, Process
      <3>2. QED
        BY <1>3, <3>1
    <2>2. CASE ~Uninitialized
      <3>1. TakeRow(p) /\ \A q \in Instances \ {p} : proc'[q] = proc[q]
        BY <1>0, <1>4, <2>2 DEF Boot
      <3>2. QED
        BY <1>2, <3>1
    <2>3. QED
      BY <2>1, <2>2
  <1>5. ASSUME NEW p \in Instances, Migrate(p) \/ ApplyMigration(p) \/ Kill(p)
        PROVE  rows' = rows /\ \A q \in Instances : Runs(q)' => Runs(q)
    BY <1>0, <1>5 DEF Migrate, ApplyMigration, Kill, Runs, Process, Off
  <1>6. ASSUME NEW p \in Instances, EndMigrations(p)
        PROVE  \A q \in Instances, s \in Services :
                 Runs(q)' /\ rows'[s].owner = q =>
                   rows'[s].beat # "stopped" /\ (s \notin Drowsy => rows'[s].beat = "fresh")
    <2>1. CASE proc[p].pc = "starting"
      <3>1. TakeRow(p) /\ \A q \in Instances \ {p} : proc'[q] = proc[q]
        BY <1>0, <1>6, <2>1 DEF EndMigrations
      <3>2. QED
        BY <1>2, <3>1
    <2>2. CASE proc[p].pc = "migrating"
      <3>1. rows' = rows /\ proc' = [proc EXCEPT ![p] = Off]
        BY <1>6, <2>2 DEF EndMigrations
      <3>2. \A q \in Instances : Runs(q)' => Runs(q)
        BY <1>0, <3>1 DEF Runs, Off
      <3>3. QED
        BY <1>3, <3>1, <3>2
    <2>3. QED
      BY <1>6, <2>1, <2>2 DEF EndMigrations
  <1>7. ASSUME NEW p \in Instances, Beat(p), NEW q \in Instances, NEW s \in Services,
               Runs(q)', rows'[s].owner = q
        PROVE  rows'[s].beat # "stopped" /\ (s \notin Drowsy => rows'[s].beat = "fresh")
    <2>1. /\ Runs(p) /\ rows[ServiceOf[p]].owner = p /\ ServiceOf[p] \in Services /\ proc' = proc
          /\ rows[ServiceOf[p]].beat # "stopped"
      BY <1>0, <1>1, <1>7 DEF Beat, OwnsRow
    <2>2. rows' = [rows EXCEPT ![ServiceOf[p]].beat = "fresh"]
      BY <1>0, <1>7, <2>1 DEF Beat
    <2>3. CASE s = ServiceOf[p]
      BY <1>0, <2>1, <2>2, <2>3 DEF Row
    <2>4. CASE s # ServiceOf[p]
      <3>1. rows'[s] = rows[s] /\ Runs(q)
        BY <1>0, <1>7, <2>1, <2>2, <2>4 DEF Runs
      <3>2. QED
        BY <1>1, <1>7, <3>1
    <2>5. QED
      BY <2>3, <2>4
  <1>8. ASSUME NEW p \in Instances, Stop(p), NEW q \in Instances, NEW s \in Services,
               Runs(q)', rows'[s].owner = q
        PROVE  rows'[s].beat # "stopped" /\ (s \notin Drowsy => rows'[s].beat = "fresh")
    <2>1. q # p /\ Runs(q)
      BY <1>0, <1>8 DEF Stop, Runs, Off
    <2>2. rows'[s] = rows[s] \/ rows'[s].owner = p
      BY <1>0, <1>8 DEF Stop, OwnsRow, Row
    <2>3. QED
      BY <1>1, <1>8, <2>1, <2>2
  <1>9. ASSUME NEW t \in Services, BeatAges(t), NEW q \in Instances, NEW s \in Services,
               Runs(q)', rows'[s].owner = q
        PROVE  rows'[s].beat # "stopped" /\ (s \notin Drowsy => rows'[s].beat = "fresh")
    <2>1. Runs(q) /\ rows[s].owner = q
      BY <1>0, <1>9 DEF BeatAges, Runs, Row
    <2>2. CASE s = t
      <3>1. s \in Drowsy
        BY <1>9, <2>1, <2>2 DEF BeatAges, RunsSeen
      <3>2. rows'[s].beat = "old"
        BY <1>0, <1>9, <2>2 DEF BeatAges, Row
      <3>3. QED
        BY <3>1, <3>2
    <2>3. CASE s # t
      BY <1>0, <1>1, <1>9, <2>1, <2>3 DEF BeatAges
    <2>4. QED
      BY <2>2, <2>3
  <1>10. QED
    BY <1>3, <1>4, <1>5, <1>6, <1>7, <1>8, <1>9 DEF ProcessesNext, StartStep

\* Nothing that a row names comes to run but by a start.
LEMMA UnseenStep ==
  ASSUME ProcInv, \/ UNCHANGED processVars
                  \/ \E p \in Instances : Stop(p) \/ Kill(p) \/ Beat(p)
                  \/ \E s \in Services : BeatAges(s)
  PROVE  \A s \in Services : RunsSeen(s)' => RunsSeen(s)
  <1>0. proc \in [Instances -> Process] /\ rows \in [Services -> Row]
    BY DEF ProcInv, ProcessesTypeOK
  <1>1. CASE UNCHANGED processVars
    BY <1>1 DEF processVars, RunsSeen, Runs
  <1>2. ASSUME NEW p \in Instances, Stop(p) \/ Kill(p)
        PROVE  \A s \in Services : RunsSeen(s)' => RunsSeen(s)
    <2>1. \A q \in Instances : Runs(q)' => Runs(q)
      BY <1>0, <1>2 DEF Stop, Kill, Runs, Off
    <2>2. \A s \in Services : rows'[s].owner = rows[s].owner
      BY <1>0, <1>2 DEF Stop, Kill, Row
    <2>3. QED
      BY <2>1, <2>2 DEF RunsSeen
  <1>3. ASSUME NEW t \in Services, BeatAges(t) PROVE \A s \in Services : RunsSeen(s)' => RunsSeen(s)
    <2>1. proc' = proc /\ \A s \in Services : rows'[s].owner = rows[s].owner
      BY <1>0, <1>3 DEF BeatAges, Row
    <2>2. QED
      BY <2>1 DEF RunsSeen, Runs
  <1>4. ASSUME NEW p \in Instances, Beat(p) PROVE \A s \in Services : RunsSeen(s)' => RunsSeen(s)
    <2>1. proc' = proc /\ \A s \in Services : rows'[s].owner = rows[s].owner
      BY <1>0, <1>4 DEF Beat, Row
    <2>2. QED
      BY <2>1 DEF RunsSeen, Runs
  <1>5. QED
    BY <1>1, <1>2, <1>3, <1>4

\* The end of a round, or of its process, is nothing to the CLI.
LEMMA RoundOverInv ==
  ASSUME GuardInv, NEW p \in Maintainers, RoundOver(p), restores' = restores
  PROVE  /\ WorkShape' /\ SeenIsFresh' /\ work'[Cli] = work[Cli]
         /\ \A s \in Services : RunsSeen(s)' => RunsSeen(s)
  <1>1. WorkShape' /\ work'[Cli] = work[Cli]
    BY CliActor, RestShaped DEF RoundOver, GuardInv, WorkShape, Actors, Maintainers
  <1>2. (\E q \in Instances : Stop(q)) \/ UNCHANGED processVars
    BY DEF RoundOver, Maintainers
  <1>3. SeenIsFresh'
    <2>1. CASE UNCHANGED processVars
      BY <2>1 DEF GuardInv, SeenIsFresh, processVars, Runs
    <2>2. CASE \E q \in Instances : Stop(q)
      BY <2>2, SeenStep DEF GuardInv, ProcessesNext
    <2>3. QED
      BY <1>2, <2>1, <2>2
  <1>4. QED
    BY <1>1, <1>2, <1>3, UnseenStep DEF GuardInv

\* The invariant holds to begin with.
LEMMA GuardInit == Init => GuardInv
  <1> SUFFICES ASSUME Init PROVE GuardInv
    OBVIOUS
  <1>1. ProcInv
    BY ProcInitInv DEF Init
  <1>2. WorkShape /\ work[Cli] = Rest
    BY CliActor, RestShaped DEF Init, WorkShape
  <1>3. SeenIsFresh
    BY DEF Init, SeenIsFresh, ProcessesInit, Off, Runs
  <1>4. RestoreInv
    BY <1>2, RestShaped DEF Init, RestoreInv, Restoring
  <1>5. QED
    BY <1>1, <1>2, <1>3, <1>4 DEF GuardInv

\* A step that leaves the CLI's work alone and brings nothing to run that can
\* be seen keeps what a restore relies on.
LEMMA SameRestore ==
  ASSUME RestoreInv, restores' = restores, work'[Cli] = work[Cli],
         Restoring => \A s \in Services : RunsSeen(s)' => RunsSeen(s)
  PROVE  RestoreInv'
  BY DEF RestoreInv, Restoring

\* A step of a process brings nothing to run behind the guard's back.
LEMMA ProcessStepGuard ==
  ASSUME GuardInv, ProcessStep
  PROVE  WorkShape' /\ SeenIsFresh' /\ RestoreInv'
  <1>1. ProcessesNext /\ restores' = restores
    BY DEF ProcessStep, ProcessesNext, StartProcess, StopProcess, KillProcess
  <1>2. SeenIsFresh'
    BY <1>1, SeenStep DEF GuardInv
  <1>3. WorkShape' /\ work'[Cli] = work[Cli]
    <2>1. CASE UNCHANGED work
      BY <2>1 DEF GuardInv, WorkShape
    <2>2. ASSUME NEW p \in Instances, KillProcess(p) PROVE WorkShape' /\ work'[Cli] = work[Cli]
      BY <2>2, CliActor, RestShaped DEF KillProcess, GuardInv, WorkShape
    <2>3. QED
      BY <2>1, <2>2 DEF ProcessStep, StartProcess, StopProcess
  <1>4. Restoring => \A s \in Services : RunsSeen(s)' => RunsSeen(s)
    <2>1. Restoring => \/ \E p \in Instances : Stop(p) \/ Kill(p) \/ Beat(p)
                       \/ \E s \in Services : BeatAges(s)
      BY DEF ProcessStep, StartProcess, StopProcess, KillProcess
    <2>2. QED
      BY <2>1, UnseenStep DEF GuardInv
  <1>5. QED
    BY <1>1, <1>2, <1>3, <1>4, SameRestore DEF GuardInv

\* Nor does a step of maintenance.
LEMMA MaintenanceGuard ==
  ASSUME GuardInv, NEW p \in Maintainers,
         \/ BeginRound(p) \/ RecordRound(p) \/ FailRound(p)
         \/ ListVictims(p) \/ Unlink(p) \/ DeleteRecord(p)
  PROVE  WorkShape' /\ SeenIsFresh' /\ RestoreInv'
  <1>0. restores' = restores /\ p \in Actors /\ p # Cli
    BY CliActor
       DEF BeginRound, RecordRound, RecordBackup, FailRound, ListVictims, Unlink, DeleteRecord
  <1>1. ASSUME UNCHANGED processVars, WorkShape', work'[Cli] = work[Cli]
        PROVE  WorkShape' /\ SeenIsFresh' /\ RestoreInv'
    <2>1. SeenIsFresh'
      BY <1>0, <1>1 DEF GuardInv, SeenIsFresh, processVars, Runs
    <2>2. QED
      BY <1>0, <1>1, <2>1, UnseenStep, SameRestore DEF GuardInv
  <1>2. ASSUME RoundOver(p) PROVE WorkShape' /\ SeenIsFresh' /\ RestoreInv'
    BY <1>0, <1>2, RoundOverInv, SameRestore DEF GuardInv
  <1>3. ASSUME NEW r, Shaped(r), work' = [work EXCEPT ![p] = r]
        PROVE  WorkShape' /\ work'[Cli] = work[Cli]
    BY <1>0, <1>3, CliActor DEF GuardInv, WorkShape, Actors, Maintainers
  <1>4. CASE BeginRound(p)
    <2>1. work' = [work EXCEPT ![p].pc = "copied", ![p].file = Len(files) + 1]
      BY <1>4 DEF BeginRound, CopyTo
    <2>2. WorkShape' /\ work'[Cli] = work[Cli]
      BY <1>0, <2>1, CliActor DEF GuardInv, WorkShape, Shaped, Actors, Maintainers
    <2>3. QED
      BY <1>1, <1>4, <2>2 DEF BeginRound
  <1>5. CASE RecordRound(p)
    <2>1. Shaped([Rest EXCEPT !.pc = "prune"])
      BY DEF Shaped, Rest
    <2>2. QED
      BY <1>1, <1>2, <1>3, <1>5, <2>1 DEF RecordRound
  <1>6. CASE FailRound(p)
    BY <1>2, <1>6 DEF FailRound
  <1>7. ASSUME NextKind(p) PROVE WorkShape' /\ SeenIsFresh' /\ RestoreInv'
    <2>1. Shaped([Rest EXCEPT !.pc = "prune", !.kind = "monthly"])
      BY DEF Shaped, Rest
    <2>2. QED
      BY <1>1, <1>2, <1>3, <1>7, <2>1 DEF NextKind
  <1>8. CASE ListVictims(p) \/ Unlink(p) \/ DeleteRecord(p)
    <2>1. ASSUME NEW v, work' = [work EXCEPT ![p].pc = "pruning", ![p].victims = v]
          PROVE  WorkShape' /\ work'[Cli] = work[Cli]
      BY <1>0, <2>1, CliActor DEF GuardInv, WorkShape, Shaped, Actors, Maintainers
    <2>2. ASSUME NEW f, work' = [work EXCEPT ![p].pc = "unlinked", ![p].file = f]
          PROVE  WorkShape' /\ work'[Cli] = work[Cli]
      BY <1>0, <2>2, CliActor DEF GuardInv, WorkShape, Shaped, Actors, Maintainers
    <2>3. CASE ListVictims(p)
      BY <1>1, <1>7, <2>1, <2>3 DEF ListVictims
    <2>4. CASE Unlink(p)
      BY <1>1, <2>2, <2>4 DEF Unlink
    <2>5. CASE DeleteRecord(p)
      BY <1>1, <1>7, <2>1, <2>5 DEF DeleteRecord
    <2>6. QED
      BY <1>8, <2>3, <2>4, <2>5
  <1>9. QED
    BY <1>4, <1>5, <1>6, <1>8

\* The command's steps keep the restore's stages in order.
LEMMA CliGuard ==
  ASSUME GuardInv,
         \/ CliBackup \/ CliRecord \/ FailCli \/ BeginRestore \/ SafetyCopy \/ SafetyRecord
         \/ Overwrite \/ CheckRestored \/ RollBack \/ EndRestore
  PROVE  WorkShape' /\ SeenIsFresh' /\ RestoreInv'
  <1>0. /\ Cli \in Actors /\ Shaped(work[Cli]) /\ restores \in Nat
        /\ work = [a \in Actors |-> work[a]]
    BY CliActor DEF GuardInv, WorkShape, RestoreInv
  \* The CLI at rest relies on nothing.
  <1>1. ASSUME work' = [work EXCEPT ![Cli] = Rest], restores' = restores
        PROVE  WorkShape' /\ RestoreInv'
    <2>1. WorkShape' /\ work'[Cli] = Rest
      BY <1>0, <1>1, CliActor, RestShaped DEF GuardInv, WorkShape, Actors, Maintainers
    <2>2. QED
      BY <1>0, <1>1, <2>1, RestShaped DEF RestoreInv, Restoring, Rest
  <1>2. ASSUME UNCHANGED processVars, restores' = restores PROVE SeenIsFresh'
    BY <1>2 DEF GuardInv, SeenIsFresh, processVars, Runs
  <1>3. ASSUME UNCHANGED processVars PROVE \A s \in Services : RunsSeen(s)' => RunsSeen(s)
    BY <1>3, UnseenStep DEF GuardInv
  \* A step from pc to pc with the source as it was.
  <1>4. ASSUME UNCHANGED processVars, restores' = restores, WorkShape',
               work'[Cli].source = work[Cli].source,
               \/ work[Cli].pc = "idle" /\ work'[Cli].pc = "copied"
               \/ work[Cli].pc = "begun" /\ work'[Cli].pc = "copied"
               \/ work[Cli].pc = "copied" /\ work'[Cli].pc = "safe" /\ Restoring
               \/ work[Cli].pc = "overwritten" /\ work'[Cli].pc = "checked"
        PROVE  WorkShape' /\ SeenIsFresh' /\ RestoreInv'
    BY <1>2, <1>3, <1>4 DEF GuardInv, RestoreInv, Restoring
  <1>5. ASSUME NEW kind, CopyTo(Cli, kind)
        PROVE  /\ WorkShape' /\ work'[Cli].source = work[Cli].source /\ work'[Cli].pc = "copied"
    BY <1>0, <1>5, CliActor DEF CopyTo, GuardInv, WorkShape, Shaped, Actors, Maintainers
  <1>6. CASE CliBackup
    <2>1. PICK kind \in CliKinds : CopyTo(Cli, kind)
      BY <1>6 DEF CliBackup
    <2>2. QED
      BY <1>4, <1>5, <1>6, <2>1 DEF CliBackup, Idle
  <1>7. CASE SafetyCopy
    <2>1. CopyTo(Cli, "pre_restore")
      BY <1>7 DEF SafetyCopy
    <2>2. QED
      BY <1>4, <1>5, <1>7, <2>1 DEF SafetyCopy
  <1>8. CASE CliRecord \/ FailCli
    BY <1>1, <1>2, <1>8 DEF CliRecord, FailCli, RecordBackup
  <1>9. CASE BeginRestore
    <2>1. PICK f \in 1..Len(files) : work' = [work EXCEPT ![Cli].pc = "begun", ![Cli].source = f]
      BY <1>9 DEF BeginRestore
    <2>2. WorkShape' /\ work'[Cli].pc = "begun" /\ work'[Cli].source = f
      BY <1>0, <2>1, CliActor DEF GuardInv, WorkShape, Shaped, Actors, Maintainers
    <2>3. restores' = restores + 1 /\ UNCHANGED processVars
      BY <1>9 DEF BeginRestore
    <2>4. restores = 0 => \A s \in Services : ~RunsSeen(s)
      BY <1>9 DEF BeginRestore, Active, GuardInv, SeenIsFresh, RunsSeen
    <2>5. f # 0
      BY <2>1
    <2>6. RestoreInv'
      <3>1. restores' \in Nat /\ restores' # 0 /\ (restores' = 1 => restores = 0)
        BY <1>0, <2>3
      <3>2. QED
        BY <1>3, <2>2, <2>3, <2>4, <2>5, <3>1 DEF RestoreInv, Restoring
    <2>7. SeenIsFresh'
      BY <1>0, <2>3 DEF SeenIsFresh
    <2>8. QED
      BY <2>2, <2>6, <2>7
  <1>10. CASE SafetyRecord
    <2>1. UNCHANGED processVars /\ restores' = restores /\ work[Cli].pc = "copied" /\ Restoring
      BY <1>10 DEF SafetyRecord, RecordBackup
    <2>2. CASE MayOverwrite
      <3>1. work' = [work EXCEPT ![Cli] = [@ EXCEPT !.pc = "safe"]]
        BY <1>10, <2>2 DEF SafetyRecord
      <3>2. WorkShape' /\ work'[Cli].pc = "safe" /\ work'[Cli].source = work[Cli].source
        BY <1>0, <3>1, CliActor DEF GuardInv, WorkShape, Shaped, Actors, Maintainers
      <3>3. QED
        BY <1>4, <2>1, <3>2
    <2>3. CASE ~MayOverwrite
      <3>1. work' = [work EXCEPT ![Cli] = Rest]
        BY <1>10, <2>3 DEF SafetyRecord
      <3>2. QED
        BY <1>1, <1>2, <2>1, <3>1
    <2>4. QED
      BY <2>2, <2>3
  <1>11. CASE CheckRestored
    <2>1. WorkShape' /\ work'[Cli].pc = "checked" /\ work'[Cli].source = work[Cli].source
      BY <1>0, <1>11, CliActor DEF CheckRestored, GuardInv, WorkShape, Shaped, Actors, Maintainers
    <2>2. QED
      BY <1>4, <1>11, <2>1 DEF CheckRestored
  \* Once a restore has begun there has been one.
  <1>12. ASSUME work[Cli].pc \in {"safe", "overwritten", "checked"}, restores' = restores
         PROVE  SeenIsFresh'
    BY <1>12 DEF GuardInv, RestoreInv, SeenIsFresh
  <1>13. CASE Overwrite
    <2>1. /\ work[Cli].pc = "safe" /\ restores' = restores
          /\ work' = [work EXCEPT ![Cli].pc = "overwritten"]
      BY <1>13 DEF Overwrite
    <2>2. WorkShape' /\ work'[Cli].pc = "overwritten" /\ work'[Cli].source = work[Cli].source
      BY <1>0, <2>1, CliActor DEF GuardInv, WorkShape, Shaped, Actors, Maintainers
    <2>3. RestoreInv'
      BY <2>1, <2>2 DEF GuardInv, RestoreInv, Restoring
    <2>4. QED
      BY <1>12, <2>1, <2>2, <2>3
  <1>14. CASE RollBack \/ EndRestore
    BY <1>1, <1>12, <1>14 DEF RollBack, EndRestore
  <1>15. QED
    BY <1>6, <1>7, <1>8, <1>9, <1>10, <1>11, <1>13, <1>14

\* Every step keeps the invariant.
LEMMA GuardInductive == GuardInv /\ [Next]_vars => GuardInv'
  <1> SUFFICES ASSUME GuardInv, [Next]_vars PROVE GuardInv'
    OBVIOUS
  <1>1. ProcInv'
    BY ProcInductive DEF GuardInv
  <1>2. ASSUME UNCHANGED <<processVars, work, restores>>
        PROVE  WorkShape' /\ SeenIsFresh' /\ RestoreInv'
    BY <1>2, UnseenStep DEF GuardInv, WorkShape, SeenIsFresh, RestoreInv, Restoring, RunsSeen, Runs, processVars
  <1>3. CASE BackupStep
    <2>1. CASE NextDay \/ \E i \in Items : Write(i)
      BY <1>1, <1>2, <2>1 DEF NextDay, Write, GuardInv
    <2>2. QED
      BY <1>1, <1>3, <2>1, MaintenanceGuard, CliGuard DEF BackupStep, GuardInv
  <1>4. CASE ProcessStep
    BY <1>1, <1>4, ProcessStepGuard DEF GuardInv
  <1>5. CASE UNCHANGED vars
    BY <1>1, <1>2, <1>5 DEF vars, GuardInv
  <1>6. QED
    BY <1>3, <1>4, <1>5 DEF Next

\* The first restore replaces the database only while no service runs that a
\* row names and that beats in time, whatever instances start, take rows over,
\* stop, are killed or fall silent before it.
THEOREM GuardedRestore == Spec => []RestoreIsOffline
  <1>1. GuardInv => RestoreIsOffline
    BY DEF GuardInv, RestoreInv, RestoreIsOffline, Restoring
  <1>2. QED
    BY GuardInit, GuardInductive, <1>1, PTL DEF Spec

\* An instance that has its service's row is never shown as stopped while it
\* runs, whichever others come and go.
THEOREM OwnersShown == Spec => []OwnerNotStopped
  <1>1. GuardInv => OwnerNotStopped
    BY ProcessesAssumption DEF GuardInv, SeenIsFresh, OwnerNotStopped, OwnsRow
  <1>2. QED
    BY GuardInit, GuardInductive, <1>1, PTL DEF Spec
=============================================================================
