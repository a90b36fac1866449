------------------------------ MODULE Operations ------------------------------
(***************************************************************************)
(* Backups, retention and restore (operations.py) beside the processes of  *)
(* Processes.  The maintenance service, further "maintenance --once" and   *)
(* the operator's CLI copy the database, record what they copied and prune *)
(* old copies; a restore puts a copy in the database's place.  Files and   *)
(* database are apart: every step below is one change of one of them, and  *)
(* a process may be killed, or fail, after any.                            *)
(***************************************************************************)
EXTENDS Processes, Sequences

CONSTANTS
    Once,           \* maintenance instances started with --once
    Cli,            \* the operator's backup and restore commands
    Items,          \* what the database holds: rows of the other tables
    Keep,           \* verified backups kept, by kind
    CliKinds,       \* the kinds "backup create" is asked for
    MonthOf,        \* the month of each day
    MaxDay, MaxFiles, MaxFailures, MaxRestores    \* bounds

Days == 1..MaxDay
ScheduledKinds == {"daily", "monthly"}
Kinds == {"manual", "daily", "monthly", "pre_restore"}

ASSUME OperationsAssumption ==
    /\ Once \subseteq {p \in Instances : ServiceOf[p] = "maintenance"}
    /\ Cli \notin Instances
    /\ Keep \in [ScheduledKinds -> Nat \ {0}]
    /\ CliKinds \subseteq {"manual", "daily", "monthly"}
    /\ MaxDay \in Nat \ {0} /\ MonthOf \in [Days -> Nat]
    /\ MaxFiles \in Nat /\ MaxFailures \in Nat /\ MaxRestores \in Nat

VARIABLES
    items,          \* the database: its other rows
    sound,          \* the database: whether integrity_check is "ok"
    records,        \* the database: backup_records, as the files they name
    files,          \* the backup directory, in the order the files were made
    work,           \* what each process does about backups
    day,            \* the calendar, in the backups' time zone
    written,        \* ghost: every item ever written
    failures,       \* bound: copies that came out broken
    restores        \* bound: restores begun

vars == <<processVars, items, sound, records, files, work, day, written, failures, restores>>

-----------------------------------------------------------------------------
(* Records and files *)

Maintainers == {p \in Instances : ServiceOf[p] = "maintenance"}
Actors == Maintainers \cup {Cli}

\* What a copy holds of the tables.  (Which service rows it holds is left open.)
Snapshot == [items: SUBSET Items, records: SUBSET Nat]
Tables == [items |-> items, records |-> records]

NoSnapshot == [items |-> {}, records |-> {}]

\* A file, with what its record says of it: its kind, whether it was verified
\* (ok) and, once it is recorded, created_at as a rank in its kind and as a day.
File == [kind: Kinds, snapshot: Snapshot, ok: BOOLEAN, present: BOOLEAN,
         created: Nat, day: Days \cup {0}]
NewFile(kind, snapshot, ok) ==
    [kind |-> kind, snapshot |-> snapshot, ok |-> ok, present |-> TRUE, created |-> 0, day |-> 0]

\* What a copy from file f brings: of a removed one, an empty database.
Content(f) == IF files[f].present THEN files[f].snapshot ELSE NoSnapshot
Restorable(f) == files[f].present /\ files[f].ok

\* A maintenance round: copied, then for each kind "prune" (list what goes),
\* "pruning", "unlinked".  A restore: begun, copied, safe, overwritten, checked.
Work == [pc: {"idle", "copied", "prune", "pruning", "unlinked",
              "begun", "safe", "overwritten", "checked"},
         kind: ScheduledKinds, file: Nat, source: Nat, victims: SUBSET Nat]

Rest == [pc |-> "idle", kind |-> "daily", file |-> 0, source |-> 0, victims |-> {}]

Idle(a) == work[a].pc = "idle"
Restoring == work[Cli].source # 0

Recorded(kind) == {f \in records : files[f].kind = kind}
Verified(kind) == {f \in Recorded(kind) : files[f].ok}

\* Mutant of Ranked: failed backups count among those kept.
RankedWithFailed(kind) == Recorded(kind)

\* What retention ranks, the newest first: all but the first Keep go.
Ranked(kind) == Verified(kind)

Newer(f, set) == {g \in set : files[g].created > files[f].created}

Prunable(kind) ==
    {f \in Ranked(kind) : Cardinality(Newer(f, Ranked(kind))) >= Keep[kind]}

\* Whatever came of it, the newest record of the kind stands for its period.
Due(kind) ==
    \A f \in Recorded(kind) : Newer(f, Recorded(kind)) = {} =>
      IF kind = "monthly" THEN MonthOf[files[f].day] # MonthOf[day] ELSE files[f].day # day

KindDue == IF Due("monthly") THEN "monthly" ELSE "daily"

-----------------------------------------------------------------------------
(* create_backup *)

\* A copy comes out broken, or not.
Breaks(broken) ==
    /\ broken => failures < MaxFailures
    /\ failures' = failures + (IF broken THEN 1 ELSE 0)

\* The copy, by SQLite's backup, and its verification: of a sound database it
\* may still come out broken.
CopyTo(a, kind) ==
    /\ Len(files) < MaxFiles
    /\ \E ok \in {sound, FALSE} :
         /\ Breaks(ok # sound)
         /\ files' = Append(files, NewFile(kind, Tables, ok))
    /\ work' = [work EXCEPT ![a].pc = "copied", ![a].file = Len(files) + 1]
    /\ UNCHANGED <<items, sound, records, day, written>>

\* Mutant of RecordOf: the number of the file to come.
RecordOfNext(a) == Len(files) + 1

RecordOf(a) == work[a].file

\* The next created_at of a kind, as a rank.
NextCreated(kind) == Cardinality({f \in DOMAIN files : files[f].kind = kind /\ files[f].day # 0}) + 1

\* The record, in the database as it is by now, with the time of writing it.
\* (The code reads the clock just before it asks for the write lock.)
RecordBackup(a) ==
    LET f == work[a].file
    IN  /\ work[a].pc = "copied"
        /\ records' = records \cup {RecordOf(a)}
        /\ files' = [files EXCEPT ![f].created = NextCreated(files[f].kind), ![f].day = day]
        /\ UNCHANGED <<items, sound, day, written, failures, restores>>

\* The end of a maintenance round; with --once, of the process as well.
RoundOver(p) ==
    /\ work' = [work EXCEPT ![p] = Rest]
    /\ IF p \in Once THEN Stop(p) ELSE UNCHANGED processVars

-----------------------------------------------------------------------------
(* run_maintenance *)

BeginRound(p) ==
    /\ p \in Maintainers /\ Runs(p) /\ Idle(p)
    /\ p \in Once \/ Due(KindDue)
    /\ CopyTo(p, KindDue)
    /\ UNCHANGED <<processVars, restores>>

\* A failed verification raises, and there is no retention.
RecordRound(p) ==
    /\ p \in Maintainers
    /\ RecordBackup(p)
    /\ IF files[work[p].file].ok
       THEN /\ work' = [work EXCEPT ![p] = [Rest EXCEPT !.pc = "prune"]]
            /\ UNCHANGED processVars
       ELSE RoundOver(p)

\* An exception (the encrypted export, the disk, a swallowed signal).
FailRound(p) ==
    /\ p \in Maintainers /\ ~Idle(p)
    /\ RoundOver(p)
    /\ UNCHANGED <<items, sound, records, files, day, written, failures, restores>>

\* apply_retention: first the daily backups, then the monthly.
NextKind(p) ==
    IF work[p].kind = "daily"
    THEN /\ work' = [work EXCEPT ![p] = [Rest EXCEPT !.pc = "prune", !.kind = "monthly"]]
         /\ UNCHANGED processVars
    ELSE RoundOver(p)

ListVictims(p) ==
    /\ work[p].pc = "prune"
    /\ IF Prunable(work[p].kind) = {} THEN NextKind(p)
       ELSE /\ work' = [work EXCEPT ![p].pc = "pruning",
                                   ![p].victims = Prunable(work[p].kind)]
            /\ UNCHANGED processVars
    /\ UNCHANGED <<items, sound, records, files, day, written, failures, restores>>

Unlink(p) ==
    /\ work[p].pc = "pruning"
    /\ \E f \in work[p].victims :
         /\ files' = [files EXCEPT ![f].present = FALSE]
         /\ work' = [work EXCEPT ![p].pc = "unlinked", ![p].file = f]
    /\ UNCHANGED <<processVars, items, sound, records, day, written, failures, restores>>

DeleteRecord(p) ==
    /\ work[p].pc = "unlinked"
    /\ records' = records \ {work[p].file}
    /\ IF work[p].victims = {work[p].file} THEN NextKind(p)
       ELSE /\ work' = [work EXCEPT ![p].pc = "pruning", ![p].victims = @ \ {work[p].file}]
            /\ UNCHANGED processVars
    /\ UNCHANGED <<items, sound, files, day, written, failures, restores>>

-----------------------------------------------------------------------------
(* The CLI *)

\* "backup create".  (On an older schema it fails for want of the table.)
CliBackup ==
    /\ Idle(Cli) /\ schema.version = Latest
    /\ \E kind \in CliKinds : CopyTo(Cli, kind)
    /\ UNCHANGED <<processVars, restores>>

CliRecord ==
    /\ ~Restoring
    /\ RecordBackup(Cli)
    /\ work' = [work EXCEPT ![Cli] = Rest]
    /\ UNCHANGED processVars

\* Mutant of Active: the comparison with the cutoff turned round.
ActiveWhenOld(s) == rows[s].beat = "old"

\* Started, not stopped and heard of in the last 60 seconds.
Active(s) == rows[s].beat = "fresh"

\* The guard and the verification of the source; refused, nothing changes.
BeginRestore ==
    /\ Idle(Cli) /\ restores < MaxRestores /\ schema.version = Latest
    /\ \A s \in Services : ~Active(s)
    /\ \E f \in 1..Len(files) :
         /\ Restorable(f)
         /\ work' = [work EXCEPT ![Cli].pc = "begun", ![Cli].source = f]
    /\ restores' = restores + 1
    /\ UNCHANGED <<processVars, items, sound, records, files, day, written, failures>>

SafetyCopy ==
    /\ work[Cli].pc = "begun"
    /\ CopyTo(Cli, "pre_restore")
    /\ UNCHANGED <<processVars, restores>>

\* Mutant of MayOverwrite: the safety copy's verification is not waited for.
MayOverwriteAnyway == TRUE

\* create_backup raises when its copy is broken.
MayOverwrite == files[work[Cli].file].ok

SafetyRecord ==
    /\ Restoring
    /\ RecordBackup(Cli)
    /\ work' = [work EXCEPT ![Cli] = IF MayOverwrite THEN [@ EXCEPT !.pc = "safe"] ELSE Rest]
    /\ UNCHANGED processVars

\* The tables become those of a copy, made at any time.
HeldRows == {held \in [Services -> Row] :
               \A s \in Services :
                 \/ held[s] = NoRow
                 \/ held[s].owner # NoInstance /\ ServiceOf[held[s].owner] = s}
Become(snapshot) ==
    /\ items' = snapshot.items
    /\ records' = snapshot.records
    /\ rows' \in HeldRows

Overwrite ==
    /\ work[Cli].pc = "safe"
    /\ Become(Content(work[Cli].source))
    /\ \E ok \in {Restorable(work[Cli].source), FALSE} :
         /\ sound' = ok
         /\ Breaks(ok # Restorable(work[Cli].source))
    /\ work' = [work EXCEPT ![Cli].pc = "overwritten"]
    /\ UNCHANGED <<schema, uncopied, proc, files, day, written, restores>>

\* verify_backup of the database as it now is.
CheckRestored ==
    /\ work[Cli].pc = "overwritten" /\ sound
    /\ work' = [work EXCEPT ![Cli].pc = "checked"]
    /\ UNCHANGED <<processVars, items, sound, records, files, day, written, failures, restores>>

\* Mutant of RollbackFile: the copy that has just failed.
RollbackToSource == work[Cli].source

RollbackFile == work[Cli].file

RollBack ==
    /\ work[Cli].pc = "overwritten" /\ ~sound
    /\ Become(Content(RollbackFile))
    /\ sound' = Restorable(RollbackFile)
    /\ work' = [work EXCEPT ![Cli] = Rest]
    /\ UNCHANGED <<schema, uncopied, proc, files, day, written, failures, restores>>

\* Every service is marked stopped.  (restored_at is set on the record of
\* the source's file, which was made after the copy and so is not in it.)
EndRestore ==
    /\ work[Cli].pc = "checked"
    /\ rows' = [s \in Services |->
                  IF rows[s].owner = NoInstance THEN rows[s] ELSE [rows[s] EXCEPT !.beat = "stopped"]]
    /\ work' = [work EXCEPT ![Cli] = Rest]
    /\ UNCHANGED <<schema, uncopied, proc, items, sound, records, files, day, written,
                   failures, restores>>

\* An exception or a kill at any point.
FailCli ==
    /\ ~Idle(Cli)
    /\ work' = [work EXCEPT ![Cli] = Rest]
    /\ UNCHANGED <<processVars, items, sound, records, files, day, written, failures, restores>>

-----------------------------------------------------------------------------
(* The rest of the system *)

\* A worker, poller, dashboard or import writes to the database.
Write(i) ==
    /\ sound /\ schema.version = Latest /\ ~Restoring
    /\ i \notin written
    /\ items' = items \cup {i}
    /\ written' = written \cup {i}
    /\ UNCHANGED <<processVars, sound, records, files, work, day, failures, restores>>

NextDay ==
    /\ day < MaxDay
    /\ day' = day + 1
    /\ UNCHANGED <<processVars, items, sound, records, files, work, written, failures, restores>>

\* Processes do as in Processes.  Operators keep to DEPLOYMENT.md: nothing is
\* started while a restore runs.  A maintenance process stops in its sleep
\* between rounds, and is killed anywhere.
StartProcess(p) == ~Restoring /\ StartStep(p) /\ UNCHANGED work

StopProcess(p) == (p \in Maintainers => Idle(p)) /\ Stop(p) /\ UNCHANGED work

KillProcess(p) ==
    /\ Kill(p)
    /\ work' = [a \in Actors |-> IF a = p THEN Rest ELSE work[a]]

ProcessStep ==
    /\ \/ \E p \in Instances :
            StartProcess(p) \/ (Beat(p) /\ UNCHANGED work) \/ StopProcess(p) \/ KillProcess(p)
       \/ \E s \in Services : BeatAges(s) /\ UNCHANGED work
    /\ UNCHANGED <<items, sound, records, files, day, written, failures, restores>>

-----------------------------------------------------------------------------
(* Specification *)

Init ==
    /\ ProcessesInit
    /\ items = {} /\ sound = TRUE /\ records = {}
    /\ files = <<>>
    /\ work = [a \in Actors |-> Rest]
    /\ day = 1
    /\ written = {}
    /\ failures = 0 /\ restores = 0

\* Nothing below is done while a process applies migrations: what it has left
\* to do when the schema is the latest changes nothing.
Settled == \A p \in Instances : proc[p].pc \in {"off", "running"}

BackupStep ==
    \/ \E p \in Maintainers :
         \/ BeginRound(p) \/ RecordRound(p) \/ FailRound(p)
         \/ ListVictims(p) \/ Unlink(p) \/ DeleteRecord(p)
    \/ CliBackup \/ CliRecord \/ FailCli
    \/ BeginRestore \/ SafetyCopy \/ SafetyRecord
    \/ Overwrite \/ CheckRestored \/ RollBack \/ EndRestore
    \/ \E i \in Items : Write(i)
    \/ NextDay

Next == ProcessStep \/ (Settled /\ BackupStep)

Spec == Init /\ [][Next]_vars

-----------------------------------------------------------------------------
(* Properties *)

Stamped(set) == \A f \in set : files[f].day # 0

\* The type invariant.  Records, those in copies too, name files that were made
\* and stamped before, and a copy holds nothing that was not written before it.
OperationsTypeOK ==
    /\ ProcessesTypeOK
    /\ items \subseteq written /\ written \subseteq Items
    /\ sound \in BOOLEAN
    /\ files \in Seq(File)
    /\ records \subseteq DOMAIN files /\ Stamped(records)
    /\ work \in [Actors -> Work]
    /\ day \in Days
    /\ failures \in 0..MaxFailures /\ restores \in 0..MaxRestores
    /\ \A f \in DOMAIN files :
         /\ files[f].day <= day
         /\ files[f].snapshot.items \subseteq written
         /\ files[f].snapshot.records \subseteq 1..(f - 1) /\ Stamped(files[f].snapshot.records)

\* Until a restore brings older records back, the newest Keep verified backups
\* of each kind on record have their files, whatever rounds and commands run
\* beside one another, wherever pruning was cut short and whatever failed.
KeptBackupsExist ==
    restores = 0 =>
      \A kind \in ScheduledKinds :
        \A f \in Verified(kind) :
          Cardinality(Newer(f, Verified(kind))) < Keep[kind] => files[f].present

\* Nothing written outside a restore is ever lost: it is in a sound database
\* or in a sound file, at every point of a restore and after it, rolled back,
\* failed or killed wherever it was.
NothingLost ==
    written \subseteq (IF sound THEN items ELSE {})
                       \cup UNION {files[f].snapshot.items : f \in {g \in DOMAIN files : Restorable(g)}}

\* "Restore is offline and guarded": when the (first) restore is about to
\* replace the database, no service runs that a row names, unless it is one
\* whose beats may be 60 seconds apart.
RestoreIsOffline ==
    work[Cli].pc = "safe" /\ restores = 1 => \A s \in Services : ~RunsSeen(s)

\* Until a restore, a process that a row names and that runs is not marked as
\* stopped, whichever other instance of its service comes and goes.
OwnerNotStopped ==
    restores = 0 =>
      \A p \in Instances : Runs(p) /\ OwnsRow(p) => rows[ServiceOf[p]].beat # "stopped"

\* A (first) restore that is not cut short leaves the copy's items and every
\* service marked stopped, or, when the safety copy or the restored database
\* fails its verification, everything that was there before.
RestoreOutcome ==
    restores = 1 /\ Restoring /\ Idle(Cli)' /\ ~FailCli =>
      IF work[Cli].pc = "checked"
      THEN /\ items' = files[work[Cli].source].snapshot.items
           /\ \A s \in Services : rows'[s].owner # NoInstance => rows'[s].beat = "stopped"
      ELSE items' = written

RestoreEnds == [][RestoreOutcome]_vars

=============================================================================
