----------------------------- MODULE Backups_proofs -----------------------------
(***************************************************************************)
(* Proofs about the backups of Operations, for any processes, retention    *)
(* and bounds.  Part 1: types, and what the steps do to files and records. *)
(* Part 2: retention removes only what it may.  Part 3: what a restore     *)
(* keeps and how it ends.                                                  *)
(***************************************************************************)
EXTENDS Operations_proofs, SequenceTheorems, FiniteSetTheorems

-----------------------------------------------------------------------------
(* Part 1: the steps, by what they do to the tables and to the directory *)

dataVars == <<items, sound, records, files, day, written, failures, restores>>

\* A process that has given up what it did, or is about to list what may go.
Fresh == {Rest, [Rest EXCEPT !.pc = "prune"], [Rest EXCEPT !.pc = "prune", !.kind = "monthly"]}

\* Work that is given up or begun anew refers to nothing.
LEMMA FreshWork ==
  ASSUME NEW r \in Fresh
  PROVE  /\ r \in Work /\ r.pc \in {"idle", "prune"}
         /\ r.file = 0 /\ r.source = 0 /\ r.victims = {}
  <1>1. Rest \in Work
    BY DEF Rest, Work, ScheduledKinds
  <1>2. CASE r = Rest
    BY <1>1, <1>2 DEF Rest
  <1>3. CASE r = [Rest EXCEPT !.pc = "prune"]
    BY <1>1, <1>3 DEF Rest, Work
  <1>4. CASE r = [Rest EXCEPT !.pc = "prune", !.kind = "monthly"]
    BY <1>1, <1>4 DEF Rest, Work, ScheduledKinds
  <1>5. QED
    BY <1>2, <1>3, <1>4 DEF Fresh

Drops(a) == \E r \in Fresh : work' = [work EXCEPT ![a] = r]

\* Nothing but somebody's work changes, and that is given up.
Quiet == UNCHANGED dataVars /\ (UNCHANGED work \/ \E a \in Actors : Drops(a))

Copies(a, kind) ==
    /\ CopyTo(a, kind) /\ restores' = restores
    /\ \/ Idle(a) /\ kind # "pre_restore" /\ (a = Cli \/ a \in Maintainers)
       \/ a = Cli /\ work[Cli].pc = "begun" /\ kind = "pre_restore"

Records(a) ==
    /\ RecordBackup(a)
    /\ \/ Drops(a)
       \/ /\ a = Cli /\ Restoring /\ MayOverwrite
          /\ work' = [work EXCEPT ![Cli] = [@ EXCEPT !.pc = "safe"]]

Lists(p) ==
    /\ work[p].pc = "prune" /\ UNCHANGED dataVars
    /\ work' = [work EXCEPT ![p].pc = "pruning", ![p].victims = Prunable(work[p].kind)]

\* Every step is one of these.
LEMMA BackupCases ==
  ASSUME WorkShape, [Next]_vars
  PROVE  \/ Quiet
         \/ \E a \in Actors, kind \in Kinds : Copies(a, kind)
         \/ \E a \in Actors : Records(a)
         \/ \E p \in Maintainers : Lists(p) \/ Unlink(p) \/ DeleteRecord(p)
         \/ BeginRestore \/ Overwrite \/ CheckRestored \/ RollBack
         \/ (\E i \in Items : Write(i)) \/ NextDay
  <1>0. Rest \in Fresh /\ work = [a \in Actors |-> work[a]]
    BY DEF Fresh, WorkShape
  <1>1. ASSUME NEW p \in Maintainers, RoundOver(p) \/ NextKind(p) PROVE Drops(p)
    BY <1>1 DEF RoundOver, NextKind, Drops, Fresh
  <1>2. ASSUME NEW p \in Maintainers,
               \/ BeginRound(p) \/ RecordRound(p) \/ FailRound(p)
               \/ ListVictims(p) \/ Unlink(p) \/ DeleteRecord(p)
        PROVE  \/ Quiet \/ \E a \in Actors, kind \in Kinds : Copies(a, kind)
               \/ \E a \in Actors : Records(a)
               \/ Lists(p) \/ Unlink(p) \/ DeleteRecord(p)
    <2>1. p \in Actors
      BY CliActor
    <2>2. CASE BeginRound(p)
      <3>1. KindDue \in Kinds /\ KindDue # "pre_restore"
        BY DEF KindDue, Kinds
      <3>2. Copies(p, KindDue)
        BY <2>2, <3>1 DEF BeginRound, Copies
      <3>3. QED
        BY <2>1, <3>1, <3>2
    <2>3. CASE RecordRound(p)
      <3>1. Drops(p)
        BY <1>1, <2>3 DEF RecordRound, Drops, Fresh
      <3>2. QED
        BY <2>1, <2>3, <3>1 DEF RecordRound, Records
    <2>4. CASE FailRound(p)
      BY <1>1, <2>1, <2>4 DEF FailRound, Quiet, dataVars
    <2>5. CASE ListVictims(p)
      BY <1>1, <2>1, <2>5 DEF ListVictims, Quiet, Lists, dataVars
    <2>6. QED
      BY <1>2, <2>2, <2>3, <2>4, <2>5
  <1>3. CASE CliBackup \/ SafetyCopy
    <2>1. PICK kind \in Kinds : Copies(Cli, kind)
      BY <1>3, OperationsAssumption DEF CliBackup, SafetyCopy, Copies, Kinds
    <2>2. QED
      BY <2>1, CliActor
  <1>4. CASE CliRecord \/ SafetyRecord
    <2>1. RecordBackup(Cli)
      BY <1>4 DEF CliRecord, SafetyRecord
    <2>2. CASE CliRecord
      BY <1>0, <2>1, <2>2, CliActor DEF CliRecord, Records, Drops
    <2>3. CASE SafetyRecord
      <3>1. CASE MayOverwrite
        BY <2>1, <2>3, <3>1, CliActor DEF SafetyRecord, Records
      <3>2. CASE ~MayOverwrite
        <4>1. work' = [work EXCEPT ![Cli] = Rest]
          BY <2>3, <3>2 DEF SafetyRecord
        <4>2. QED
          BY <1>0, <2>1, <4>1, CliActor DEF Records, Drops
      <3>3. QED
        BY <3>1, <3>2
    <2>4. QED
      BY <1>4, <2>2, <2>3
  <1>5. CASE FailCli \/ EndRestore
    BY <1>0, <1>5, CliActor DEF FailCli, EndRestore, Quiet, Drops, dataVars
  <1>6. CASE ProcessStep
    <2>1. UNCHANGED dataVars
      BY <1>6 DEF ProcessStep, dataVars
    <2>2. CASE UNCHANGED work
      BY <2>1, <2>2 DEF Quiet
    <2>3. CASE \E p \in Instances : KillProcess(p)
      <3>1. PICK p \in Instances : KillProcess(p)
        BY <2>3
      <3>2. CASE p \in Actors
        <4>1. work' = [work EXCEPT ![p] = Rest]
          BY <1>0, <3>1, <3>2 DEF KillProcess
        <4>2. QED
          BY <1>0, <2>1, <3>2, <4>1 DEF Quiet, Drops
      <3>3. CASE p \notin Actors
        BY <1>0, <2>1, <3>1, <3>3 DEF KillProcess, Quiet
      <3>4. QED
        BY <3>2, <3>3
    <2>4. QED
      BY <1>6, <2>2, <2>3 DEF ProcessStep, StartProcess, StopProcess
  <1>7. CASE UNCHANGED vars
    BY <1>7 DEF vars, Quiet, dataVars
  <1>8. QED
    BY <1>2, <1>3, <1>4, <1>5, <1>6, <1>7 DEF Next, BackupStep

-----------------------------------------------------------------------------
(* The directory *)

\* The directory is a finite sequence of files.
LEMMA Directory ==
  ASSUME files \in Seq(File)
  PROVE  /\ Len(files) \in Nat /\ DOMAIN files = 1..Len(files) /\ IsFiniteSet(DOMAIN files)
         /\ \A f \in DOMAIN files : files[f] \in File
  BY LenProperties, ElementOfSeq, FS_Interval

\* A copy adds one file and leaves the others alone.
LEMMA CopyAdds ==
  ASSUME files \in Seq(File), items \subseteq Items, records \subseteq DOMAIN files,
         sound \in BOOLEAN, NEW a, NEW kind \in Kinds, CopyTo(a, kind)
  PROVE  \E ok \in BOOLEAN :
           /\ ok => sound
           /\ files' \in Seq(File) /\ DOMAIN files' = 1..(Len(files) + 1)
           /\ \A f \in DOMAIN files : files'[f] = files[f]
           /\ files'[Len(files) + 1] = NewFile(kind, Tables, ok)
  <1>1. PICK ok \in {sound, FALSE} : files' = Append(files, NewFile(kind, Tables, ok))
    BY DEF CopyTo
  <1>2. NewFile(kind, Tables, ok) \in File
    <2>1. Tables \in Snapshot
      BY Directory DEF Tables, Snapshot
    <2>2. QED
      BY <1>1, <2>1 DEF NewFile, File
  <1>3. /\ files' \in Seq(File) /\ Len(files') = Len(files) + 1
        /\ \A f \in 1..Len(files) : files'[f] = files[f]
        /\ files'[Len(files) + 1] = NewFile(kind, Tables, ok)
    BY <1>1, <1>2, AppendProperties
  <1>4. DOMAIN files = 1..Len(files) /\ DOMAIN files' = 1..Len(files')
    BY <1>3, LenProperties
  <1>5. QED
    BY <1>1, <1>3, <1>4

\* A change of one file.
LEMMA FileChanges ==
  ASSUME files \in Seq(File), NEW f \in DOMAIN files, NEW e \in File,
         files' = [files EXCEPT ![f] = e]
  PROVE  /\ files' \in Seq(File) /\ DOMAIN files' = DOMAIN files
         /\ files'[f] = e
         /\ \A g \in DOMAIN files : g # f => files'[g] = files[g]
  BY Directory, ExceptSeq

\* Recording a copy gives its file a time and changes nothing else.
LEMMA RecordStamps ==
  ASSUME files \in Seq(File), day \in Days, NEW a, work[a].file \in DOMAIN files, RecordBackup(a)
  PROVE  LET f == work[a].file
         IN  /\ files' \in Seq(File) /\ DOMAIN files' = DOMAIN files
             /\ files'[f] = [files[f] EXCEPT !.created = NextCreated(files[f].kind), !.day = day]
             /\ \A g \in DOMAIN files : g # f => files'[g] = files[g]
  <1> DEFINE f == work[a].file
             e == [files[f] EXCEPT !.created = NextCreated(files[f].kind), !.day = day]
  <1>1. files[f] \in File
    BY Directory
  <1>2. NextCreated(files[f].kind) \in Nat
    <2> DEFINE stamped == {g \in DOMAIN files : files[g].kind = files[f].kind /\ files[g].day # 0}
    <2>1. IsFiniteSet(stamped)
      BY Directory, FS_Subset
    <2>2. Cardinality(stamped) \in Nat
      BY <2>1, FS_CardinalityType
    <2>3. QED
      BY <2>2 DEF NextCreated
  <1>3. e \in File
    BY <1>1, <1>2 DEF File
  <1>4. files' = [files EXCEPT ![f] = e]
    BY <1>1 DEF RecordBackup, File
  <1>5. QED
    BY <1>3, <1>4, FileChanges

\* Unlinking changes nothing of a file but that it is there.
LEMMA UnlinkRemoves ==
  ASSUME files \in Seq(File), NEW f \in DOMAIN files, files' = [files EXCEPT ![f].present = FALSE]
  PROVE  /\ files' \in Seq(File) /\ DOMAIN files' = DOMAIN files
         /\ files'[f] = [files[f] EXCEPT !.present = FALSE]
         /\ \A g \in DOMAIN files : g # f => files'[g] = files[g]
  <1> DEFINE e == [files[f] EXCEPT !.present = FALSE]
  <1>1. e \in File
    BY Directory DEF File
  <1>2. files' = [files EXCEPT ![f] = e]
    BY Directory DEF File
  <1>3. QED
    BY <1>1, <1>2, FileChanges

-----------------------------------------------------------------------------
(* The types, with what work relies on *)

DataOK ==
    /\ items \subseteq written /\ written \subseteq Items
    /\ sound \in BOOLEAN
    /\ work \in [Actors -> Work]
    /\ day \in Days
    /\ failures \in 0..MaxFailures /\ restores \in 0..MaxRestores

FilesOK ==
    /\ files \in Seq(File)
    /\ \A f \in DOMAIN files :
         /\ files[f].day <= day
         /\ files[f].snapshot.items \subseteq written
         /\ files[f].snapshot.records \subseteq 1..(f - 1) /\ Stamped(files[f].snapshot.records)

RecordsOK == records \subseteq DOMAIN files /\ Stamped(records)

\* What retention may remove: it has been recorded and is of a scheduled kind.
Removable == {f \in DOMAIN files : files[f].kind \in ScheduledKinds /\ files[f].day # 0}

\* What an actor's work refers to was made; a copy it has yet to record is
\* there and was never recorded, so nobody can be about to remove it.
Ref(a) ==
    /\ work[a].pc = "copied" =>
         /\ work[a].file \in DOMAIN files
         /\ files[work[a].file].present /\ files[work[a].file].day = 0
    /\ work[a].pc \in {"safe", "overwritten"} =>
         work[a].file \in DOMAIN files /\ files[work[a].file].day # 0
    /\ work[a].source # 0 => work[a].source \in DOMAIN files
    /\ work[a].victims \subseteq Removable
    /\ work[a].pc = "unlinked" => work[a].file \in work[a].victims

\* No two copies are one file.
Apart ==
    \A a, b \in Actors :
      a # b /\ work[a].pc = "copied" /\ work[b].pc = "copied" => work[a].file # work[b].file

Refs == Apart /\ \A a \in Actors : Ref(a)

DirectoryInv == DataOK /\ FilesOK /\ RecordsOK /\ Refs

\* What stays of a file whatever is done: all but whether it is present, and
\* its time once it has one.
Lasts ==
    /\ files' \in Seq(File) /\ DOMAIN files \subseteq DOMAIN files'
    /\ \A f \in DOMAIN files :
         /\ files'[f].kind = files[f].kind /\ files'[f].ok = files[f].ok
         /\ files'[f].snapshot = files[f].snapshot
         /\ files'[f].day \in {files[f].day, day}
         /\ files[f].day # 0 => files'[f].day = files[f].day /\ files'[f].created = files[f].created

\* Every step leaves of each file what Lasts says.
LEMMA FilesLast ==
  ASSUME DirectoryInv, WorkShape, [Next]_vars
  PROVE  Lasts
  <1>0. files \in Seq(File) /\ \A a \in Actors : Ref(a)
    BY DEF DirectoryInv, FilesOK, Refs
  <1>1. ASSUME UNCHANGED files PROVE Lasts
    BY <1>0, <1>1 DEF Lasts
  <1>2. ASSUME NEW a \in Actors, NEW kind \in Kinds, Copies(a, kind) PROVE Lasts
    <2>1. items \subseteq Items /\ records \subseteq DOMAIN files /\ sound \in BOOLEAN
      BY DEF DirectoryInv, DataOK, RecordsOK
    <2>2. /\ files' \in Seq(File) /\ DOMAIN files' = 1..(Len(files) + 1)
          /\ \A f \in DOMAIN files : files'[f] = files[f]
      BY <1>0, <1>2, <2>1, CopyAdds DEF Copies
    <2>3. QED
      BY <1>0, <2>2, Directory DEF Lasts
  <1>3. ASSUME NEW a \in Actors, Records(a) PROVE Lasts
    <2> DEFINE f == work[a].file
    <2>1. f \in DOMAIN files /\ files[f].day = 0 /\ RecordBackup(a)
      BY <1>0, <1>3 DEF Records, RecordBackup, Ref
    <2>2. files[f] \in File /\ day \in Days
      BY <1>0, <2>1, Directory DEF DirectoryInv, DataOK
    <2>3. /\ files' \in Seq(File) /\ DOMAIN files' = DOMAIN files
          /\ files'[f] = [files[f] EXCEPT !.created = NextCreated(files[f].kind), !.day = day]
          /\ \A g \in DOMAIN files : g # f => files'[g] = files[g]
      BY <1>0, <2>1, <2>2, RecordStamps
    <2>4. QED
      BY <2>1, <2>2, <2>3 DEF Lasts, File
  <1>4. ASSUME NEW p \in Maintainers, Unlink(p) PROVE Lasts
    <2>1. PICK f \in work[p].victims : files' = [files EXCEPT ![f].present = FALSE]
      BY <1>4 DEF Unlink
    <2>2. f \in DOMAIN files
      BY <1>0, <2>1, CliActor DEF Ref, Removable
    <2>3. files[f] \in File
      BY <1>0, <2>2, Directory
    <2>4. QED
      BY <1>0, <2>1, <2>2, <2>3, UnlinkRemoves DEF Lasts, File
  <1>5. QED
    BY <1>1, <1>2, <1>3, <1>4, BackupCases
       DEF Quiet, dataVars, Lists, DeleteRecord, BeginRestore, Overwrite, CheckRestored, RollBack, Write, NextDay

\* What was stamped stays so; what an unchanged work refers to stays right.
LEMMA StaysStamped ==
  ASSUME Lasts, NEW set, set \subseteq DOMAIN files, Stamped(set)
  PROVE  Stamped(set)'
  BY DEF Lasts, Stamped

\* What may be removed may be removed ever after.
LEMMA RemovableLasts == ASSUME Lasts PROVE Removable \subseteq Removable'
  BY DEF Lasts, Removable

\* An actor that does nothing keeps what it relies on.
LEMMA RefLasts ==
  ASSUME Lasts, NEW a, Ref(a), work'[a] = work[a],
         work[a].pc = "copied" => files'[work[a].file] = files[work[a].file]
  PROVE  Ref(a)'
  BY RemovableLasts DEF Lasts, Ref

\* An actor that has given up relies on nothing.
LEMMA RefOfFresh ==
  ASSUME NEW a, work'[a] \in Fresh
  PROVE  Ref(a)'
  BY FreshWork DEF Ref

\* What a copy brings was written and recorded before.
LEMMA ContentOK ==
  ASSUME DirectoryInv, NEW f \in DOMAIN files
  PROVE  /\ Content(f).items \subseteq written
         /\ Content(f).records \subseteq DOMAIN files /\ Stamped(Content(f).records)
  <1>1. DOMAIN files = 1..Len(files) /\ Len(files) \in Nat
    BY Directory DEF DirectoryInv, FilesOK
  <1>2. /\ files[f].snapshot.items \subseteq written
        /\ files[f].snapshot.records \subseteq 1..(f - 1) /\ Stamped(files[f].snapshot.records)
    BY DEF DirectoryInv, FilesOK
  <1>3. 1..(f - 1) \subseteq DOMAIN files
    BY <1>1
  <1>4. CASE files[f].present
    BY <1>2, <1>3, <1>4 DEF Content
  <1>5. CASE ~files[f].present
    BY <1>5 DEF Content, NoSnapshot, Stamped
  <1>6. QED
    BY <1>4, <1>5

\* The broken copies stay within their bound.
LEMMA BreaksWithin ==
  ASSUME failures \in 0..MaxFailures, NEW broken \in BOOLEAN, Breaks(broken)
  PROVE  failures' \in 0..MaxFailures
  BY OperationsAssumption DEF Breaks

\* The work of the actors after a step.
LEMMA WorkType ==
  ASSUME DirectoryInv, WorkShape, [Next]_vars
  PROVE  work' \in [Actors -> Work]
  <1>0. /\ work \in [Actors -> Work] /\ files \in Seq(File)
        /\ Cli \in Actors /\ Maintainers \subseteq Actors
    BY CliActor DEF DirectoryInv, DataOK, FilesOK
  <1>1. ASSUME NEW a \in Actors, Drops(a) PROVE work' \in [Actors -> Work]
    BY <1>0, <1>1, FreshWork DEF Drops
  <1>2. ASSUME NEW a \in Actors, NEW kind \in Kinds, Copies(a, kind)
        PROVE  work' \in [Actors -> Work]
    <2> DEFINE r == [work[a] EXCEPT !.pc = "copied", !.file = Len(files) + 1]
    <2>0. Len(files) + 1 \in Nat /\ work[a] \in Work
      BY <1>0, Directory
    <2>1. r \in Work
      BY <2>0 DEF Work
    <2>2. work' = [work EXCEPT ![a] = r]
      BY <1>2 DEF Copies, CopyTo
    <2>3. QED
      BY <1>0, <2>1, <2>2
  <1>3. ASSUME NEW a \in Actors, Records(a) PROVE work' \in [Actors -> Work]
    BY <1>0, <1>1, <1>3 DEF Records, Work
  <1>4. ASSUME NEW p \in Maintainers, Lists(p) \/ Unlink(p) \/ DeleteRecord(p)
        PROVE  work' \in [Actors -> Work]
    <2>1. p \in Actors /\ work[p].victims \subseteq DOMAIN files
      BY <1>0, <1>4 DEF DirectoryInv, Refs, Ref, Removable
    <2>2. DOMAIN files \subseteq Nat
      BY <1>0, Directory
    <2>3. CASE Lists(p)
      <3>1. Prunable(work[p].kind) \subseteq records
        BY DEF Prunable, Ranked, Verified, Recorded
      <3>2. Prunable(work[p].kind) \subseteq Nat
        BY <2>2, <3>1 DEF DirectoryInv, RecordsOK
      <3>3. QED
        BY <1>0, <2>1, <2>3, <3>2 DEF Lists, Work
    <2>4. CASE Unlink(p)
      <3>1. PICK f \in work[p].victims :
              work' = [work EXCEPT ![p].pc = "unlinked", ![p].file = f]
        BY <2>4 DEF Unlink
      <3> DEFINE r == [work[p] EXCEPT !.pc = "unlinked", !.file = f]
      <3>2. f \in Nat
        BY <2>1, <2>2, <3>1
      <3>3. r \in Work
        BY <1>0, <2>1, <3>2 DEF Work
      <3>4. work' = [work EXCEPT ![p] = r]
        BY <3>1
      <3>5. QED
        BY <1>0, <2>1, <3>3, <3>4
    <2>5. CASE DeleteRecord(p)
      <3>1. CASE NextKind(p)
        BY <1>1, <2>1, <3>1 DEF NextKind, RoundOver, Drops, Fresh
      <3>2. CASE ~NextKind(p)
        <4> DEFINE r == [work[p] EXCEPT !.pc = "pruning", !.victims = @ \ {work[p].file}]
        <4>1. r \in Work
          BY <1>0, <2>1 DEF Work
        <4>2. work' = [work EXCEPT ![p].pc = "pruning", ![p].victims = @ \ {work[p].file}]
          BY <2>5, <3>2 DEF DeleteRecord
        <4>3. work' = [work EXCEPT ![p] = r]
          BY <4>2
        <4>4. QED
          BY <1>0, <2>1, <4>1, <4>3
      <3>3. QED
        BY <3>1, <3>2
    <2>6. QED
      BY <1>4, <2>3, <2>4, <2>5
  <1>5. CASE BeginRestore
    <2>1. PICK f \in 1..Len(files) : work' = [work EXCEPT ![Cli].pc = "begun", ![Cli].source = f]
      BY <1>5 DEF BeginRestore
    <2> DEFINE r == [work[Cli] EXCEPT !.pc = "begun", !.source = f]
    <2>0. f \in Nat /\ work[Cli] \in Work
      BY <1>0, <2>1, Directory
    <2>2. r \in Work
      BY <2>0 DEF Work
    <2>3. work' = [work EXCEPT ![Cli] = r]
      BY <2>1
    <2>4. QED
      BY <1>0, <2>2, <2>3
  <1>6. CASE Overwrite \/ CheckRestored
    BY <1>0, <1>6 DEF Overwrite, CheckRestored, Work
  <1>7. CASE RollBack
    BY <1>0, <1>1, <1>7 DEF RollBack, Drops, Fresh
  <1>8. CASE Quiet \/ NextDay \/ \E i \in Items : Write(i)
    BY <1>0, <1>1, <1>8 DEF Quiet, NextDay, Write
  <1>9. QED
    BY <1>2, <1>3, <1>4, <1>5, <1>6, <1>7, <1>8, BackupCases

\* Every step keeps the types of the tables and the bounds.
LEMMA DataStep ==
  ASSUME DirectoryInv, WorkShape, RestoreInv, [Next]_vars
  PROVE  DataOK'
  <1>0. /\ items \subseteq written /\ written \subseteq Items /\ sound \in BOOLEAN
        /\ day \in Days /\ failures \in 0..MaxFailures /\ restores \in 0..MaxRestores
        /\ \A a \in Actors : Ref(a)
    BY DEF DirectoryInv, DataOK, Refs
  <1>1. work' \in [Actors -> Work]
    BY WorkType
  <1> SUFFICES /\ items' \subseteq written' /\ written' \subseteq Items /\ sound' \in BOOLEAN
               /\ day' \in Days /\ failures' \in 0..MaxFailures /\ restores' \in 0..MaxRestores
    BY <1>1 DEF DataOK
  <1>2. ASSUME UNCHANGED <<items, written, sound, day, failures, restores>>
        PROVE  /\ items' \subseteq written' /\ written' \subseteq Items /\ sound' \in BOOLEAN
               /\ day' \in Days /\ failures' \in 0..MaxFailures /\ restores' \in 0..MaxRestores
    BY <1>0, <1>2
  <1>3. ASSUME NEW a \in Actors, NEW kind \in Kinds, Copies(a, kind)
        PROVE  /\ failures' \in 0..MaxFailures
               /\ UNCHANGED <<items, written, sound, day, restores>>
    BY <1>0, <1>3, BreaksWithin DEF Copies, CopyTo
  <1>4. CASE Overwrite
    <2>1. work[Cli].pc = "safe" /\ work[Cli].source \in DOMAIN files
      BY <1>0, <1>4, CliActor DEF Overwrite, RestoreInv, Ref
    <2>2. items' = Content(work[Cli].source).items /\ UNCHANGED <<day, written, restores>>
      BY <1>4 DEF Overwrite, Become
    <2>3. PICK ok \in {Restorable(work[Cli].source), FALSE} :
            sound' = ok /\ Breaks(ok # Restorable(work[Cli].source))
      BY <1>4 DEF Overwrite
    <2>4. ok \in BOOLEAN /\ Restorable(work[Cli].source) \in BOOLEAN
      <3>1. files[work[Cli].source] \in File
        BY <2>1, Directory DEF DirectoryInv, FilesOK
      <3>2. QED
        BY <3>1 DEF Restorable, File
    <2>5. failures' \in 0..MaxFailures
      BY <1>0, <2>3, <2>4, BreaksWithin
    <2>6. QED
      BY <1>0, <2>1, <2>2, <2>3, <2>4, <2>5, ContentOK
  <1>5. CASE RollBack
    <2>1. work[Cli].file \in DOMAIN files
      BY <1>0, <1>5, CliActor DEF RollBack, Ref
    <2>2. /\ items' = Content(work[Cli].file).items /\ sound' = Restorable(work[Cli].file)
          /\ UNCHANGED <<day, written, failures, restores>>
      BY <1>5 DEF RollBack, Become, RollbackFile
    <2>3. sound' \in BOOLEAN
      <3>1. files[work[Cli].file] \in File
        BY <2>1, Directory DEF DirectoryInv, FilesOK
      <3>2. QED
        BY <2>2, <3>1 DEF Restorable, File
    <2>4. QED
      BY <1>0, <2>1, <2>2, <2>3, ContentOK
  <1>6. CASE BeginRestore
    BY <1>0, <1>6, OperationsAssumption DEF BeginRestore
  <1>7. ASSUME NEW i \in Items, Write(i)
        PROVE  /\ items' \subseteq written' /\ written' \subseteq Items
               /\ UNCHANGED <<sound, day, failures, restores>>
    BY <1>0, <1>7 DEF Write
  <1>8. CASE NextDay
    BY <1>0, <1>8, OperationsAssumption DEF NextDay, Days
  <1>9. CASE Quiet \/ CheckRestored \/ \E p \in Maintainers : Lists(p) \/ Unlink(p) \/ DeleteRecord(p)
    BY <1>2, <1>9 DEF Quiet, dataVars, CheckRestored, Lists, Unlink, DeleteRecord
  <1>10. CASE \E a \in Actors : Records(a)
    BY <1>2, <1>10 DEF Records, RecordBackup
  <1>11. QED
    BY <1>0, <1>3, <1>4, <1>5, <1>6, <1>7, <1>8, <1>9, <1>10, BackupCases

\* The calendar does not go back.
LEMMA DayGrows == ASSUME [Next]_vars, day \in Days, WorkShape PROVE day' >= day
  <1>1. day' = day \/ NextDay
    BY BackupCases DEF Quiet, dataVars, Copies, CopyTo, Records, RecordBackup, Lists, Unlink,
       DeleteRecord, BeginRestore, Overwrite, CheckRestored, RollBack, Write
  <1>2. day \in Nat
    BY OperationsAssumption DEF Days
  <1>3. QED
    BY <1>1, <1>2 DEF NextDay

\* What was written has been written.
LEMMA WrittenGrows == ASSUME [Next]_vars, WorkShape PROVE written \subseteq written'
  BY BackupCases DEF Quiet, dataVars, Copies, CopyTo, Records, RecordBackup, Lists, Unlink, DeleteRecord,
     BeginRestore, Overwrite, CheckRestored, RollBack, Write, NextDay

\* Every step keeps files that hold only what was written and recorded before them.
LEMMA FilesStep ==
  ASSUME DirectoryInv, WorkShape, [Next]_vars
  PROVE  FilesOK'
  <1>0. /\ files \in Seq(File) /\ day \in Days /\ items \subseteq written /\ written \subseteq Items
        /\ sound \in BOOLEAN /\ records \subseteq DOMAIN files /\ Stamped(records)
        /\ \A f \in DOMAIN files :
             /\ files[f].day <= day
             /\ files[f].snapshot.items \subseteq written
             /\ files[f].snapshot.records \subseteq 1..(f - 1)
             /\ Stamped(files[f].snapshot.records)
    BY DEF DirectoryInv, DataOK, FilesOK, RecordsOK
  <1>1. Lasts /\ day' >= day /\ written \subseteq written' /\ day \in Nat /\ day' \in Nat
    <2>1. day \in Nat
      BY <1>0, OperationsAssumption DEF Days
    <2>2. day' \in {day, day + 1}
      BY BackupCases DEF Quiet, dataVars, Copies, CopyTo, Records, RecordBackup, Lists, Unlink,
         DeleteRecord, BeginRestore, Overwrite, CheckRestored, RollBack, Write, NextDay
    <2>3. QED
      BY <1>0, <2>1, <2>2, FilesLast, DayGrows, WrittenGrows
  <1>2. DOMAIN files = 1..Len(files) /\ Len(files) \in Nat /\ \A f \in DOMAIN files : files[f] \in File
    BY <1>0, Directory
  \* A file there was.
  <1>3. ASSUME NEW f \in DOMAIN files
        PROVE  /\ files'[f].day <= day'
               /\ files'[f].snapshot.items \subseteq written'
               /\ files'[f].snapshot.records \subseteq 1..(f - 1)
               /\ \A g \in files'[f].snapshot.records : files'[g].day # 0
    <2>1. files[f].day \in Nat
      BY <1>2, OperationsAssumption DEF File, Days
    <2>2. files'[f].day <= day'
      BY <1>0, <1>1, <2>1 DEF Lasts
    <2>3. files'[f].snapshot = files[f].snapshot
      BY <1>1 DEF Lasts
    <2>4. files[f].snapshot.records \subseteq DOMAIN files
      BY <1>0, <1>2
    <2>5. \A g \in files[f].snapshot.records : files'[g].day # 0
      BY <1>0, <1>1, <2>4 DEF Lasts, Stamped
    <2>6. QED
      BY <1>0, <1>1, <2>2, <2>3, <2>5
  \* A file just made.
  <1>4. ASSUME NEW f \in DOMAIN files' \ DOMAIN files
        PROVE  /\ files'[f].day <= day'
               /\ files'[f].snapshot.items \subseteq written'
               /\ files'[f].snapshot.records \subseteq 1..(f - 1)
               /\ \A g \in files'[f].snapshot.records : files'[g].day # 0
    <2>1. PICK a \in Actors, kind \in Kinds : Copies(a, kind)
      <3>1. UNCHANGED files => FALSE
        OBVIOUS
      <3>2. ASSUME NEW a \in Actors, Records(a) PROVE FALSE
        BY <1>0, <3>2, RecordStamps DEF Records, RecordBackup, DirectoryInv, Refs, Ref
      <3>3. ASSUME NEW p \in Maintainers, Unlink(p) PROVE FALSE
        BY <1>0, <3>3, UnlinkRemoves, CliActor DEF Unlink, DirectoryInv, Refs, Ref, Removable
      <3>4. QED
        BY <3>1, <3>2, <3>3, BackupCases
           DEF Quiet, dataVars, Lists, DeleteRecord, BeginRestore, Overwrite, CheckRestored, RollBack, Write, NextDay
    <2>2. PICK ok \in BOOLEAN :
            /\ DOMAIN files' = 1..(Len(files) + 1)
            /\ files'[Len(files) + 1] = NewFile(kind, Tables, ok)
      BY <1>0, <2>1, CopyAdds DEF Copies
    <2>3. f = Len(files) + 1
      BY <1>2, <2>2
    <2>4. /\ files'[f].day = 0 /\ files'[f].snapshot.items = items
          /\ files'[f].snapshot.records = records
      BY <2>2, <2>3 DEF NewFile, Tables
    <2>5. records \subseteq 1..(f - 1)
      BY <1>0, <1>2, <2>3
    <2>6. \A g \in records : files'[g].day # 0
      BY <1>0, <1>1 DEF Lasts, Stamped
    <2>7. QED
      <3>1. files'[f].day <= day'
        BY <1>1, <2>4
      <3>2. QED
        BY <1>0, <1>1, <2>4, <2>5, <2>6, <3>1
  <1>5. QED
    BY <1>1, <1>3, <1>4 DEF FilesOK, Lasts, Stamped

\* Every step keeps records that name files made and stamped.
LEMMA RecordsStep ==
  ASSUME DirectoryInv, WorkShape, RestoreInv, [Next]_vars
  PROVE  RecordsOK'
  <1>0. /\ Lasts /\ records \subseteq DOMAIN files /\ Stamped(records) /\ day \in Days
        /\ files \in Seq(File) /\ \A a \in Actors : Ref(a)
    BY FilesLast DEF DirectoryInv, RecordsOK, DataOK, FilesOK, Refs
  <1>1. ASSUME NEW set, set \subseteq DOMAIN files, Stamped(set)
        PROVE  set \subseteq DOMAIN files' /\ \A f \in set : files'[f].day # 0
    BY <1>0, <1>1 DEF Lasts, Stamped
  <1>2. CASE records' \subseteq records
    <2>1. records \subseteq DOMAIN files' /\ \A f \in records : files'[f].day # 0
      BY <1>0, <1>1
    <2>2. QED
      BY <1>2, <2>1 DEF RecordsOK, Stamped
  <1>3. ASSUME NEW a \in Actors, Records(a) PROVE RecordsOK'
    <2> DEFINE f == work[a].file
    <2>1. f \in DOMAIN files /\ records' = records \cup {f} /\ RecordBackup(a)
      BY <1>0, <1>3 DEF Records, RecordBackup, RecordOf, Ref
    <2>2. files'[f].day = day
      <3>1. files'[f] = [files[f] EXCEPT !.created = NextCreated(files[f].kind), !.day = day]
        BY <1>0, <2>1, RecordStamps
      <3>2. files[f] \in File
        BY <1>0, <2>1, Directory
      <3>3. QED
        BY <3>1, <3>2 DEF File
    <2>3. day # 0
      BY <1>0 DEF Days
    <2>4. records \subseteq DOMAIN files' /\ \A g \in records : files'[g].day # 0
      BY <1>0, <1>1
    <2>5. f \in DOMAIN files'
      BY <1>0, <2>1 DEF Lasts
    <2>6. QED
      BY <2>1, <2>2, <2>3, <2>4, <2>5 DEF RecordsOK, Stamped
  <1>4. ASSUME NEW f \in DOMAIN files, records' = Content(f).records PROVE RecordsOK'
    <2>1. Content(f).records \subseteq DOMAIN files /\ Stamped(Content(f).records)
      BY ContentOK
    <2>2. /\ Content(f).records \subseteq DOMAIN files'
          /\ \A g \in Content(f).records : files'[g].day # 0
      BY <1>1, <2>1
    <2>3. QED
      BY <1>4, <2>2 DEF RecordsOK, Stamped
  <1>5. CASE Overwrite \/ RollBack
    <2>1. CASE Overwrite
      <3>1. work[Cli].source \in DOMAIN files
        BY <1>0, <2>1, CliActor DEF Overwrite, RestoreInv, Ref
      <3>2. QED
        BY <1>4, <2>1, <3>1 DEF Overwrite, Become
    <2>2. CASE RollBack
      <3>1. work[Cli].file \in DOMAIN files
        BY <1>0, <2>2, CliActor DEF RollBack, Ref
      <3>2. QED
        BY <1>4, <2>2, <3>1 DEF RollBack, Become, RollbackFile
    <2>3. QED
      BY <1>5, <2>1, <2>2
  <1>6. QED
    BY <1>2, <1>3, <1>5, BackupCases
       DEF Quiet, dataVars, Copies, CopyTo, Lists, Unlink, DeleteRecord, BeginRestore, CheckRestored, Write, NextDay

\* A copy still to be recorded is left alone by everybody else.
LEMMA PendingStays ==
  ASSUME DirectoryInv, WorkShape, [Next]_vars, NEW b \in Actors,
         work[b].pc = "copied", work'[b] = work[b]
  PROVE  files'[work[b].file] = files[work[b].file]
  <1>0. /\ files \in Seq(File) /\ \A a \in Actors : Ref(a)
        /\ items \subseteq Items /\ records \subseteq DOMAIN files /\ sound \in BOOLEAN
        /\ day \in Days
    BY DEF DirectoryInv, FilesOK, Refs, DataOK, RecordsOK
  <1>1. work[b].file \in DOMAIN files /\ files[work[b].file].day = 0
    BY <1>0 DEF Ref
  <1>2. ASSUME NEW a \in Actors, NEW kind \in Kinds, Copies(a, kind)
        PROVE  files'[work[b].file] = files[work[b].file]
    BY <1>0, <1>1, <1>2, CopyAdds DEF Copies
  <1>3. ASSUME NEW a \in Actors, Records(a)
        PROVE  files'[work[b].file] = files[work[b].file]
    <2>1. work[a].pc = "copied" /\ RecordBackup(a)
      BY <1>3 DEF Records, RecordBackup
    <2>2. work'[a].pc # "copied"
      <3>1. CASE Drops(a)
        BY <3>1, FreshWork DEF Drops, WorkShape
      <3>2. CASE work' = [work EXCEPT ![Cli] = [@ EXCEPT !.pc = "safe"]] /\ a = Cli
        BY <3>2, CliActor DEF WorkShape, Shaped
      <3>3. QED
        BY <1>3, <3>1, <3>2 DEF Records
    <2>3. a # b /\ work[a].file # work[b].file
      BY <2>1, <2>2 DEF DirectoryInv, Refs, Apart
    <2>4. work[a].file \in DOMAIN files
      BY <1>0, <2>1 DEF Ref
    <2>5. QED
      BY <1>0, <1>1, <2>1, <2>3, <2>4, RecordStamps
  <1>4. ASSUME NEW p \in Maintainers, Unlink(p)
        PROVE  files'[work[b].file] = files[work[b].file]
    <2>1. PICK f \in work[p].victims : files' = [files EXCEPT ![f].present = FALSE]
      BY <1>4 DEF Unlink
    <2>2. f \in DOMAIN files /\ files[f].day # 0
      BY <1>0, <2>1, CliActor DEF Ref, Removable
    <2>3. QED
      BY <1>0, <1>1, <2>1, <2>2, UnlinkRemoves
  <1>5. QED
    BY <1>2, <1>3, <1>4, BackupCases
       DEF Quiet, dataVars, Lists, DeleteRecord, BeginRestore, Overwrite, CheckRestored, RollBack, Write, NextDay

\* A step changes what one actor does, if any.
LEMMA OneMoves ==
  ASSUME DirectoryInv, WorkShape, RestoreInv, [Next]_vars
  PROVE  \E a \in Actors :
           /\ \A b \in Actors \ {a} : work'[b] = work[b]
           /\ \/ work'[a] = work[a]
              \/ Ref(a)' /\ (work'[a].pc = "copied" => work'[a].file \notin DOMAIN files)
  <1> DEFINE Moves(a) ==
        /\ \A b \in Actors \ {a} : work'[b] = work[b]
        /\ \/ work'[a] = work[a]
           \/ Ref(a)' /\ (work'[a].pc = "copied" => work'[a].file \notin DOMAIN files)
  <1> SUFFICES \E a \in Actors : Moves(a)
    OBVIOUS
  <1>0. /\ Lasts /\ files \in Seq(File) /\ \A a \in Actors : Ref(a)
        /\ items \subseteq Items /\ records \subseteq DOMAIN files /\ sound \in BOOLEAN
        /\ Cli \in Actors /\ Maintainers \subseteq Actors /\ Cli \notin Maintainers
        /\ day \in Days
        /\ work = [a \in Actors |-> work[a]] /\ \A a \in Actors : Shaped(work[a])
        /\ DOMAIN files = 1..Len(files) /\ Len(files) \in Nat
    BY FilesLast, CliActor, Directory DEF DirectoryInv, FilesOK, Refs, DataOK, RecordsOK, WorkShape
  <1>1. ASSUME NEW a \in Actors, Drops(a) PROVE Moves(a)
    <2>1. work'[a] \in Fresh /\ \A b \in Actors \ {a} : work'[b] = work[b]
      BY <1>0, <1>1 DEF Drops
    <2>2. work'[a].pc # "copied"
      BY <2>1, FreshWork
    <2>3. QED
      BY <2>1, <2>2, RefOfFresh
  <1>2. CASE UNCHANGED work
    BY <1>0, <1>2
  <1>3. ASSUME NEW a \in Actors, NEW kind \in Kinds, Copies(a, kind) PROVE Moves(a)
    <2> DEFINE n == Len(files) + 1
    <2>1. PICK ok \in BOOLEAN : DOMAIN files' = 1..n /\ files'[n] = NewFile(kind, Tables, ok)
      BY <1>0, <1>3, CopyAdds DEF Copies
    <2>2. work' = [work EXCEPT ![a].pc = "copied", ![a].file = n]
      BY <1>3 DEF Copies, CopyTo
    <2>3. /\ \A b \in Actors \ {a} : work'[b] = work[b]
          /\ work'[a].pc = "copied" /\ work'[a].file = n
          /\ work'[a].source = work[a].source /\ work'[a].victims = work[a].victims
      BY <1>0, <2>2 DEF Shaped
    <2>4. n \in DOMAIN files' /\ files'[n].present /\ files'[n].day = 0 /\ n \notin DOMAIN files
      BY <1>0, <2>1 DEF NewFile
    <2>5. Ref(a)'
      BY <1>0, <2>3, <2>4, RemovableLasts DEF Ref, Lasts
    <2>6. QED
      BY <2>3, <2>4, <2>5
  <1>4. ASSUME NEW a \in Actors, Records(a) PROVE Moves(a)
    <2>1. CASE Drops(a)
      BY <1>1, <2>1
    <2>2. CASE a = Cli /\ work' = [work EXCEPT ![Cli] = [@ EXCEPT !.pc = "safe"]]
      <3> DEFINE f == work[a].file
      <3>1. RecordBackup(a) /\ f \in DOMAIN files /\ Ref(a)
        BY <1>0, <1>4 DEF Records, RecordBackup, Ref
      <3>2. /\ \A b \in Actors \ {a} : work'[b] = work[b]
            /\ work'[a].pc = "safe" /\ work'[a].file = f
            /\ work'[a].source = work[a].source /\ work'[a].victims = work[a].victims
        BY <1>0, <2>2 DEF Shaped
      <3>3. f \in DOMAIN files' /\ files'[f].day # 0
        <4>1. files'[f] = [files[f] EXCEPT !.created = NextCreated(files[f].kind), !.day = day]
          BY <1>0, <3>1, RecordStamps
        <4>2. files[f] \in File
          BY <1>0, <3>1, Directory
        <4>3. files'[f].day = day /\ day # 0
          BY <1>0, <4>1, <4>2 DEF File, Days
        <4>4. QED
          BY <1>0, <3>1, <4>3 DEF Lasts
      <3>4. Ref(a)'
        BY <1>0, <3>1, <3>2, <3>3, RemovableLasts DEF Ref, Lasts
      <3>5. QED
        BY <3>2, <3>4
    <2>3. QED
      BY <1>4, <2>1, <2>2 DEF Records
  <1>5. ASSUME NEW p \in Maintainers, Lists(p) \/ Unlink(p) \/ DeleteRecord(p) PROVE Moves(p)
    <2>0. p \in Actors /\ Ref(p)
      BY <1>0
    <2>1. CASE Lists(p)
      <3> DEFINE gone == Prunable(work[p].kind)
      <3>1. work' = [work EXCEPT ![p].pc = "pruning", ![p].victims = gone]
        BY <2>1 DEF Lists
      <3>2. /\ \A b \in Actors \ {p} : work'[b] = work[b]
            /\ work'[p].pc = "pruning" /\ work'[p].victims = gone
            /\ work'[p].source = work[p].source
        BY <1>0, <2>0, <3>1 DEF Shaped
      <3>3. gone \subseteq Removable
        <4>1. work[p].kind \in ScheduledKinds
          BY <2>0 DEF DirectoryInv, DataOK, Work
        <4>2. QED
          BY <1>0, <4>1 DEF Prunable, Ranked, Verified, Recorded, Removable, DirectoryInv, RecordsOK, Stamped
      <3>4. Ref(p)'
        BY <1>0, <2>0, <3>2, <3>3, RemovableLasts DEF Ref, Lasts
      <3>5. QED
        BY <3>2, <3>4
    <2>2. CASE Unlink(p)
      <3>1. PICK f \in work[p].victims :
              work' = [work EXCEPT ![p].pc = "unlinked", ![p].file = f]
        BY <2>2 DEF Unlink
      <3>2. /\ \A b \in Actors \ {p} : work'[b] = work[b]
            /\ work'[p].pc = "unlinked" /\ work'[p].victims = work[p].victims
            /\ work'[p].source = work[p].source /\ work'[p].file = f
        BY <1>0, <2>0, <3>1 DEF Shaped
      <3>3. Ref(p)'
        BY <1>0, <2>0, <3>1, <3>2, RemovableLasts DEF Ref, Lasts
      <3>4. QED
        BY <3>2, <3>3
    <2>3. CASE DeleteRecord(p)
      <3>1. CASE NextKind(p)
        BY <1>1, <2>0, <3>1 DEF NextKind, RoundOver, Drops, Fresh
      <3>2. CASE ~NextKind(p)
        <4>1. work' = [work EXCEPT ![p].pc = "pruning", ![p].victims = @ \ {work[p].file}]
          BY <2>3, <3>2 DEF DeleteRecord
        <4>2. /\ \A b \in Actors \ {p} : work'[b] = work[b]
              /\ work'[p].pc = "pruning" /\ work'[p].victims \subseteq work[p].victims
              /\ work'[p].source = work[p].source
          BY <1>0, <2>0, <4>1 DEF Shaped
        <4>3. Ref(p)'
          BY <1>0, <2>0, <4>2, RemovableLasts DEF Ref, Lasts
        <4>4. QED
          BY <4>2, <4>3
      <3>3. QED
        BY <3>1, <3>2
    <2>4. QED
      BY <1>5, <2>1, <2>2, <2>3
  <1>6. CASE BeginRestore
    <2>1. PICK f \in 1..Len(files) : work' = [work EXCEPT ![Cli].pc = "begun", ![Cli].source = f]
      BY <1>6 DEF BeginRestore
    <2>2. /\ \A b \in Actors \ {Cli} : work'[b] = work[b]
          /\ work'[Cli].pc = "begun" /\ work'[Cli].victims = work[Cli].victims
          /\ work'[Cli].source = f
      BY <1>0, <2>1 DEF Shaped
    <2>3. Ref(Cli)'
      BY <1>0, <2>2, RemovableLasts DEF Ref, Lasts
    <2>4. QED
      BY <1>0, <2>2, <2>3
  <1>7. CASE Overwrite \/ CheckRestored
    <2>1. PICK pc \in {"overwritten", "checked"} :
            /\ work' = [work EXCEPT ![Cli].pc = pc]
            /\ pc = "overwritten" => work[Cli].pc = "safe"
      BY <1>7 DEF Overwrite, CheckRestored
    <2>2. /\ \A b \in Actors \ {Cli} : work'[b] = work[b]
          /\ work'[Cli].pc = pc /\ work'[Cli].victims = work[Cli].victims
          /\ work'[Cli].source = work[Cli].source /\ work'[Cli].file = work[Cli].file
      BY <1>0, <2>1 DEF Shaped
    <2>3. Ref(Cli)'
      <3>1. Ref(Cli)
        BY <1>0
      <3>2. /\ work[Cli].source # 0 => work[Cli].source \in DOMAIN files'
            /\ work[Cli].victims \subseteq Removable'
        BY <1>0, <3>1, RemovableLasts DEF Ref, Lasts
      <3>3. CASE pc = "overwritten"
        <4>1. work[Cli].file \in DOMAIN files' /\ files'[work[Cli].file].day # 0
          BY <1>0, <2>1, <3>1, <3>3 DEF Ref, Lasts
        <4>2. QED
          BY <2>2, <3>2, <3>3, <4>1 DEF Ref
      <3>4. CASE pc = "checked"
        BY <2>2, <3>2, <3>4 DEF Ref
      <3>5. QED
        BY <3>3, <3>4
    <2>4. QED
      BY <1>0, <2>1, <2>2, <2>3
  <1>8. CASE RollBack
    BY <1>0, <1>1, <1>8 DEF RollBack, Drops, Fresh
  <1>9. QED
    BY <1>0, <1>1, <1>2, <1>3, <1>4, <1>5, <1>6, <1>7, <1>8, BackupCases DEF Quiet, Write, NextDay

\* Every step keeps what the actors rely on.
LEMMA RefsStep ==
  ASSUME DirectoryInv, WorkShape, RestoreInv, [Next]_vars
  PROVE  Refs'
  <1>0. Lasts /\ Apart /\ \A a \in Actors : Ref(a)
    BY FilesLast DEF DirectoryInv, Refs
  <1>1. PICK a \in Actors :
          /\ \A b \in Actors \ {a} : work'[b] = work[b]
          /\ \/ work'[a] = work[a]
             \/ Ref(a)' /\ (work'[a].pc = "copied" => work'[a].file \notin DOMAIN files)
    BY OneMoves
  <1>2. ASSUME NEW b \in Actors, work'[b] = work[b] PROVE Ref(b)'
    BY <1>0, <1>2, RefLasts, PendingStays
  <1>3. \A b \in Actors : Ref(b)'
    BY <1>1, <1>2
  <1>4. Apart'
    <2>1. ASSUME NEW b \in Actors, NEW c \in Actors, b # c,
                 work'[b].pc = "copied", work'[c].pc = "copied"
          PROVE  work'[b].file # work'[c].file
      <3>1. ASSUME NEW d \in Actors, work'[d].pc = "copied", work'[d] = work[d]
            PROVE  work'[d].file \in DOMAIN files
        BY <1>0, <3>1 DEF Ref
      <3>2. QED
        BY <1>0, <1>1, <2>1, <3>1 DEF Apart
    <2>2. QED
      BY <2>1 DEF Apart
  <1>5. QED
    BY <1>3, <1>4 DEF Refs

BackupInv == GuardInv /\ DirectoryInv

\* The invariant holds to begin with.
LEMMA BackupInit == Init => BackupInv
  <1> SUFFICES ASSUME Init PROVE BackupInv
    OBVIOUS
  <1>1. GuardInv
    BY GuardInit
  <1>2. DataOK
    BY FreshWork, OperationsAssumption DEF Init, DataOK, Fresh, Days
  <1>3. FilesOK /\ RecordsOK
    BY EmptySeq, LenProperties DEF Init, FilesOK, RecordsOK, Stamped
  <1>4. Refs
    BY DEF Init, Refs, Apart, Ref, Rest
  <1>5. QED
    BY <1>1, <1>2, <1>3, <1>4 DEF BackupInv, DirectoryInv

\* Every step keeps the invariant.
LEMMA BackupInductive == BackupInv /\ [Next]_vars => BackupInv'
  <1> SUFFICES ASSUME BackupInv, [Next]_vars PROVE BackupInv'
    OBVIOUS
  <1>1. GuardInv'
    BY GuardInductive DEF BackupInv
  <1>2. WorkShape /\ RestoreInv /\ DirectoryInv
    BY DEF BackupInv, GuardInv
  <1>3. DirectoryInv'
    BY <1>2, DataStep, FilesStep, RecordsStep, RefsStep DEF DirectoryInv
  <1>4. QED
    BY <1>1, <1>3 DEF BackupInv

\* Whatever is copied, recorded, pruned, killed or restored, records name files
\* that were made and stamped, in the database and in every copy of it, and no
\* copy holds what was not written before it.
THEOREM BackupTypes == Spec => []OperationsTypeOK
  <1>1. BackupInv => OperationsTypeOK
    BY DEF BackupInv, GuardInv, ProcInv, DirectoryInv, DataOK, FilesOK, RecordsOK, OperationsTypeOK
  <1>2. QED
    BY BackupInit, BackupInductive, <1>1, PTL DEF Spec

-----------------------------------------------------------------------------
(* Part 2: retention *)

\* As many verified backups of its kind as are kept are newer than it.
Outranked(f) ==
    /\ files[f].kind \in ScheduledKinds /\ files[f].ok
    /\ Cardinality(Newer(f, Verified(files[f].kind))) >= Keep[files[f].kind]

\* What is on record and has no file, or is to go, has been outranked.
RetentionInv ==
    restores = 0 =>
      /\ \A f \in records : ~files[f].present => Outranked(f)
      /\ \A a \in Actors : \A f \in work[a].victims \cap records : Outranked(f)

\* The backups that are newer than a given one can be counted.
LEMMA NewerFinite ==
  ASSUME files \in Seq(File), records \subseteq DOMAIN files, NEW f, NEW kind
  PROVE  /\ IsFiniteSet(Newer(f, Verified(kind)))
         /\ Cardinality(Newer(f, Verified(kind))) \in Nat
  <1>1. Newer(f, Verified(kind)) \subseteq DOMAIN files
    BY DEF Newer, Verified, Recorded
  <1>2. QED
    BY <1>1, Directory, FS_Subset, FS_CardinalityType

\* It is enough that so many of those newer stay on record.
LEMMA StaysOutranked ==
  ASSUME Lasts, records \subseteq DOMAIN files, Stamped(records), RecordsOK',
         NEW f \in DOMAIN files, files[f].day # 0,
         files[f].kind \in ScheduledKinds, files[f].ok,
         NEW T, T \subseteq Newer(f, Verified(files[f].kind)), T \subseteq records',
         Cardinality(T) >= Keep[files[f].kind]
  PROVE  Outranked(f)'
  <1> DEFINE kind == files[f].kind
             above == {g \in records' : /\ files'[g].kind = kind /\ files'[g].ok
                                        /\ files'[g].created > files'[f].created}
  <1>1. files'[f].kind = kind /\ files'[f].ok /\ files'[f].created = files[f].created
    BY DEF Lasts
  <1>2. Newer(f, Verified(files[f].kind))' = above
    BY <1>1 DEF Newer, Verified, Recorded
  <1>3. T \subseteq above
    BY <1>1 DEF Newer, Verified, Recorded, Lasts, Stamped
  <1>4. IsFiniteSet(above) /\ Cardinality(above) \in Nat
    <2>1. files' \in Seq(File) /\ above \subseteq 1..Len(files') /\ Len(files') \in Nat
      BY LenProperties DEF Lasts, RecordsOK
    <2>2. IsFiniteSet(1..Len(files'))
      BY <2>1, FS_Interval
    <2>3. QED
      BY <2>1, <2>2, FS_Subset, FS_CardinalityType
  <1>5. Cardinality(T) <= Cardinality(above) /\ Cardinality(T) \in Nat
    BY <1>3, <1>4, FS_Subset, FS_CardinalityType
  <1>6. Keep[kind] \in Nat
    BY OperationsAssumption
  <1>7. Cardinality(above) >= Keep[kind]
    BY <1>4, <1>5, <1>6
  <1>8. QED
    BY <1>1, <1>2, <1>7 DEF Outranked

\* Only a listing adds to what is to go.
LEMMA VictimsShrink ==
  ASSUME WorkShape, NEW b \in Actors,
         \/ Quiet \/ CheckRestored \/ NextDay \/ \E i \in Items : Write(i)
         \/ \E a \in Actors, kind \in Kinds : Copies(a, kind)
         \/ \E a \in Actors : Records(a)
         \/ \E p \in Maintainers : Unlink(p) \/ DeleteRecord(p)
  PROVE  work'[b].victims \subseteq work[b].victims
  <1>0. /\ work = [a \in Actors |-> work[a]] /\ \A a \in Actors : Shaped(work[a])
        /\ Cli \in Actors /\ Maintainers \subseteq Actors
    BY CliActor DEF WorkShape
  <1>1. ASSUME NEW a \in Actors, Drops(a) PROVE work'[b].victims \subseteq work[b].victims
    BY <1>0, <1>1, FreshWork DEF Drops
  <1>2. ASSUME NEW a \in Actors, NEW kind \in Kinds, Copies(a, kind)
        PROVE  work'[b].victims \subseteq work[b].victims
    BY <1>0, <1>2 DEF Copies, CopyTo, Shaped
  <1>3. ASSUME NEW a \in Actors, Records(a) PROVE work'[b].victims \subseteq work[b].victims
    BY <1>0, <1>1, <1>3 DEF Records, Shaped
  <1>4. ASSUME NEW p \in Maintainers, Unlink(p) PROVE work'[b].victims \subseteq work[b].victims
    BY <1>0, <1>4 DEF Unlink, Shaped
  <1>5. ASSUME NEW p \in Maintainers, DeleteRecord(p)
        PROVE  work'[b].victims \subseteq work[b].victims
    <2>1. CASE NextKind(p)
      BY <1>0, <1>1, <2>1 DEF NextKind, RoundOver, Drops, Fresh
    <2>2. CASE ~NextKind(p)
      BY <1>0, <1>5, <2>2 DEF DeleteRecord, Shaped
    <2>3. QED
      BY <2>1, <2>2
  <1>6. CASE CheckRestored
    BY <1>0, <1>6 DEF CheckRestored, Shaped
  <1>7. CASE Quiet \/ NextDay \/ \E i \in Items : Write(i)
    BY <1>1, <1>7 DEF Quiet, NextDay, Write
  <1>8. QED
    BY <1>2, <1>3, <1>4, <1>5, <1>6, <1>7

\* Every step up to a restore keeps what is outranked so.
LEMMA RetentionStep ==
  ASSUME BackupInv, RetentionInv, [Next]_vars, BackupInv'
  PROVE  RetentionInv'
  <1>0. /\ WorkShape /\ DirectoryInv /\ RestoreInv /\ Lasts /\ files \in Seq(File)
        /\ records \subseteq DOMAIN files /\ Stamped(records) /\ RecordsOK'
        /\ \A a \in Actors : Ref(a)
        /\ Cli \in Actors /\ Maintainers \subseteq Actors
    BY FilesLast, CliActor DEF BackupInv, GuardInv, DirectoryInv, FilesOK, RecordsOK, Refs
  <1> SUFFICES ASSUME restores' = 0
               PROVE  /\ \A f \in records' : ~files'[f].present => Outranked(f)'
                      /\ \A a \in Actors : \A f \in work'[a].victims \cap records' : Outranked(f)'
    BY DEF RetentionInv
  <1>1. restores = 0 /\ ~BeginRestore /\ ~Overwrite /\ ~RollBack
    <2>1. restores = 0 /\ ~BeginRestore
      <3>1. restores \in Nat /\ (BeginRestore => restores' = restores + 1)
        BY <1>0 DEF RestoreInv, BeginRestore
      <3>2. ~BeginRestore => restores' = restores
        BY <1>0, BackupCases DEF Quiet, dataVars, Copies, Records, RecordBackup, Lists, Unlink,
           DeleteRecord, Overwrite, CheckRestored, RollBack, Write, NextDay
      <3>3. QED
        BY <3>1, <3>2
    <2>2. QED
      BY <1>0, <2>1 DEF RestoreInv, Overwrite, RollBack
  <1>2. /\ \A f \in records : ~files[f].present => Outranked(f)
        /\ \A a \in Actors : \A f \in work[a].victims \cap records : Outranked(f)
    BY <1>1 DEF RetentionInv
  \* Nothing that is on record leaves it.
  <1>3. ASSUME records \subseteq records', NEW f \in records, Outranked(f) PROVE Outranked(f)'
    <2> DEFINE T == Newer(f, Verified(files[f].kind))
    <2>1. f \in DOMAIN files /\ files[f].day # 0
      BY <1>0 DEF Stamped
    <2>2. T \subseteq records'
      BY <1>3 DEF Newer, Verified, Recorded
    <2>3. Cardinality(T) >= Keep[files[f].kind] /\ files[f].kind \in ScheduledKinds /\ files[f].ok
      BY <1>3 DEF Outranked
    <2>4. QED
      BY <1>0, <2>1, <2>2, <2>3, StaysOutranked
  <1>4. ASSUME records' = records, \A f \in records : files'[f].present = files[f].present,
               \A a \in Actors : work'[a].victims \subseteq work[a].victims
        PROVE  /\ \A f \in records' : ~files'[f].present => Outranked(f)'
               /\ \A a \in Actors : \A f \in work'[a].victims \cap records' : Outranked(f)'
    BY <1>2, <1>3, <1>4
  <1>5. ASSUME NEW a \in Actors, NEW kind \in Kinds, Copies(a, kind)
        PROVE  /\ \A f \in records' : ~files'[f].present => Outranked(f)'
               /\ \A b \in Actors : \A f \in work'[b].victims \cap records' : Outranked(f)'
    <2>1. items \subseteq Items /\ sound \in BOOLEAN
      BY <1>0 DEF DirectoryInv, DataOK
    <2>2. \A f \in DOMAIN files : files'[f] = files[f]
      BY <1>0, <1>5, <2>1, CopyAdds DEF Copies
    <2>3. records' = records
      BY <1>5 DEF Copies, CopyTo
    <2>4. \A b \in Actors : work'[b].victims \subseteq work[b].victims
      BY <1>0, <1>5, VictimsShrink
    <2>5. QED
      BY <1>0, <1>4, <2>2, <2>3, <2>4
  <1>6. ASSUME NEW a \in Actors, Records(a)
        PROVE  /\ \A f \in records' : ~files'[f].present => Outranked(f)'
               /\ \A b \in Actors : \A f \in work'[b].victims \cap records' : Outranked(f)'
    <2> DEFINE n == work[a].file
    <2>1. /\ RecordBackup(a) /\ records' = records \cup {n}
          /\ n \in DOMAIN files /\ files[n].present /\ files[n].day = 0
      BY <1>0, <1>6 DEF Records, RecordBackup, RecordOf, Ref
    <2>2. /\ \A f \in DOMAIN files : f # n => files'[f] = files[f]
          /\ files'[n].present
      <3>1. /\ files'[n] = [files[n] EXCEPT !.created = NextCreated(files[n].kind), !.day = day]
            /\ \A f \in DOMAIN files : f # n => files'[f] = files[f]
        BY <1>0, <2>1, RecordStamps DEF DirectoryInv, DataOK
      <3>2. files[n] \in File
        BY <1>0, <2>1, Directory
      <3>3. QED
        BY <2>1, <3>1, <3>2 DEF File
    <2>3. \A b \in Actors : work'[b].victims \subseteq work[b].victims
      BY <1>0, <1>6, VictimsShrink
    <2>4. \A b \in Actors : n \notin work'[b].victims
      BY <1>0, <2>1, <2>3 DEF Ref, Removable
    <2>5. QED
      BY <1>0, <1>2, <1>3, <2>1, <2>2, <2>3, <2>4
  <1>7. ASSUME NEW p \in Maintainers, Lists(p)
        PROVE  /\ \A f \in records' : ~files'[f].present => Outranked(f)'
               /\ \A b \in Actors : \A f \in work'[b].victims \cap records' : Outranked(f)'
    <2>1. records' = records /\ files' = files /\ work[p].kind \in ScheduledKinds
      BY <1>0, <1>7 DEF Lists, dataVars, DirectoryInv, DataOK, Work
    <2>2. /\ work'[p].victims = Prunable(work[p].kind)
          /\ \A b \in Actors \ {p} : work'[b] = work[b]
      BY <1>0, <1>7 DEF Lists, WorkShape, Shaped
    <2>3. \A f \in Prunable(work[p].kind) : f \in records /\ Outranked(f)
      BY <2>1 DEF Prunable, Ranked, Outranked, Verified, Recorded
    <2>4. QED
      BY <1>0, <1>2, <1>3, <2>1, <2>2, <2>3
  <1>8. ASSUME NEW p \in Maintainers, Unlink(p)
        PROVE  /\ \A f \in records' : ~files'[f].present => Outranked(f)'
               /\ \A b \in Actors : \A f \in work'[b].victims \cap records' : Outranked(f)'
    <2>1. PICK x \in work[p].victims : files' = [files EXCEPT ![x].present = FALSE]
      BY <1>8 DEF Unlink
    <2>2. x \in DOMAIN files
      BY <1>0, <2>1 DEF Ref, Removable
    <2>3. \A f \in DOMAIN files : f # x => files'[f] = files[f]
      BY <1>0, <2>1, <2>2, UnlinkRemoves
    <2>4. records' = records /\ \A b \in Actors : work'[b].victims \subseteq work[b].victims
      BY <1>0, <1>8, VictimsShrink DEF Unlink
    <2>5. QED
      BY <1>0, <1>2, <1>3, <2>1, <2>3, <2>4
  \* What goes has itself been outranked: those above it are above what it was above.
  <1>9. ASSUME NEW p \in Maintainers, DeleteRecord(p)
        PROVE  /\ \A f \in records' : ~files'[f].present => Outranked(f)'
               /\ \A b \in Actors : \A f \in work'[b].victims \cap records' : Outranked(f)'
    <2> DEFINE x == work[p].file
    <2>1. /\ x \in work[p].victims /\ records' = records \ {x} /\ files' = files
          /\ x \in DOMAIN files
      BY <1>0, <1>9 DEF DeleteRecord, Ref, Removable
    <2>2. \A b \in Actors : work'[b].victims \subseteq work[b].victims
      BY <1>0, <1>9, VictimsShrink
    <2>3. ASSUME NEW f \in records', Outranked(f) PROVE Outranked(f)'
      <3> DEFINE kind == files[f].kind
                 above == Newer(f, Verified(kind))
      <3>1. /\ f \in DOMAIN files /\ files[f].day # 0
            /\ kind \in ScheduledKinds /\ files[f].ok /\ Cardinality(above) >= Keep[kind]
        BY <1>0, <2>1, <2>3 DEF Stamped, Outranked
      <3>2. CASE x \notin above
        <4>1. above \subseteq records'
          BY <2>1, <3>2 DEF Newer, Verified, Recorded
        <4>2. QED
          BY <1>0, <3>1, <4>1, StaysOutranked
      <3>3. CASE x \in above
        <4> DEFINE T == Newer(x, Verified(files[x].kind))
        <4>1. x \in records /\ files[x].kind = kind /\ files[x].created > files[f].created
          BY <3>3 DEF Newer, Verified, Recorded
        <4>2. Cardinality(T) >= Keep[kind]
          BY <1>0, <1>2, <2>1, <4>1 DEF Outranked
        <4>3. T \subseteq above /\ T \subseteq records'
          <5>1. ASSUME NEW g \in T PROVE g \in above /\ g \in records'
            <6>1. g \in Verified(kind) /\ files[g].created > files[x].created /\ g \in records
              BY <4>1 DEF Newer, Verified, Recorded
            <6>2. /\ files[g].created \in Nat /\ files[x].created \in Nat
                  /\ files[f].created \in Nat
              BY <1>0, <2>1, <3>1, <6>1, Directory DEF File
            <6>3. files[g].created > files[f].created /\ g # x
              BY <4>1, <6>1, <6>2
            <6>4. QED
              BY <2>1, <6>1, <6>3 DEF Newer
          <5>2. QED
            BY <5>1
        <4>4. QED
          BY <1>0, <3>1, <4>2, <4>3, StaysOutranked
      <3>4. QED
        BY <3>2, <3>3
    <2>4. QED
      BY <1>2, <2>1, <2>2, <2>3
  <1>10. CASE Quiet \/ CheckRestored \/ NextDay \/ \E i \in Items : Write(i)
    <2>1. records' = records /\ files' = files
      BY <1>10 DEF Quiet, dataVars, CheckRestored, NextDay, Write
    <2>2. \A b \in Actors : work'[b].victims \subseteq work[b].victims
      BY <1>0, <1>10, VictimsShrink
    <2>3. QED
      BY <1>4, <2>1, <2>2
  <1>11. QED
    BY <1>0, <1>1, <1>5, <1>6, <1>7, <1>8, <1>9, <1>10, BackupCases

\* Of each scheduled kind, the newest Keep verified backups on record have
\* their files until a restore brings other records: whatever rounds and
\* commands list, unlink and delete beside one another, each by a listing that
\* may be old, and wherever they are cut short.
THEOREM KeptBackups == Spec => []KeptBackupsExist
  <1>1. Init => RetentionInv
    BY DEF Init, RetentionInv
  <1>2. BackupInv /\ RetentionInv => KeptBackupsExist
    <2> SUFFICES ASSUME BackupInv, RetentionInv, restores = 0,
                        NEW kind \in ScheduledKinds, NEW f \in Verified(kind),
                        Cardinality(Newer(f, Verified(kind))) < Keep[kind]
                 PROVE  files[f].present
      BY DEF KeptBackupsExist
    <2>1. f \in records /\ files[f].kind = kind
      BY DEF Verified, Recorded
    <2>2. Cardinality(Newer(f, Verified(kind))) \in Nat /\ Keep[kind] \in Nat
      BY NewerFinite, OperationsAssumption DEF BackupInv, DirectoryInv, FilesOK, RecordsOK
    <2>3. ~Outranked(f)
      BY <2>1, <2>2 DEF Outranked
    <2>4. QED
      BY <2>1, <2>3 DEF RetentionInv
  <1>3. (BackupInv /\ RetentionInv) /\ [Next]_vars => (BackupInv /\ RetentionInv)'
    BY BackupInductive, RetentionStep
  <1>4. QED
    BY BackupInit, <1>1, <1>2, <1>3, PTL DEF Spec

-----------------------------------------------------------------------------
(* Part 3: restore *)

\* The safety copies: nothing removes them.
Safe == {f \in DOMAIN files : files[f].kind = "pre_restore" /\ Restorable(f)}

\* Every item is in the sound database or in a sound safety copy.
Covered == written \subseteq (IF sound THEN items ELSE {}) \cup UNION {files[f].snapshot.items : f \in Safe}

\* From its safety copy until it overwrites the database a restore holds a copy
\* of the items there are, and goes on only with a sound one.
SafetyHeld ==
    /\ Restoring /\ work[Cli].pc \in {"copied", "safe"} =>
         /\ files[work[Cli].file].kind = "pre_restore"
         /\ files[work[Cli].file].present
         /\ files[work[Cli].file].snapshot.items = items
    /\ work[Cli].pc \in {"safe", "overwritten"} => work[Cli].file \in Safe

\* How the items of a first restore relate to what it copies and to what was
\* written, which nothing else writes meanwhile.
Progress ==
    /\ restores = 0 => items = written
    /\ restores = 1 /\ Restoring =>
         /\ work[Cli].pc \in {"begun", "copied", "safe"} => items = written
         /\ work[Cli].pc = "overwritten" =>
              /\ files[work[Cli].file].snapshot.items = written
              /\ sound => items = files[work[Cli].source].snapshot.items
         /\ work[Cli].pc = "checked" => items = files[work[Cli].source].snapshot.items

LossInv == Covered /\ SafetyHeld /\ Progress

\* No step removes or changes a sound safety copy.
LEMMA SafeLasts ==
  ASSUME BackupInv, [Next]_vars
  PROVE  Safe \subseteq Safe' /\ \A f \in Safe : files'[f].snapshot = files[f].snapshot
  <1>0. /\ Lasts /\ files \in Seq(File) /\ WorkShape /\ \A a \in Actors : Ref(a)
        /\ items \subseteq Items /\ records \subseteq DOMAIN files /\ sound \in BOOLEAN
        /\ day \in Days /\ DirectoryInv
    BY FilesLast DEF BackupInv, GuardInv, DirectoryInv, FilesOK, DataOK, RecordsOK, Refs
  <1>1. ASSUME NEW f \in Safe, files'[f].present = files[f].present PROVE f \in Safe'
    BY <1>0, <1>1 DEF Lasts, Safe, Restorable
  <1>2. ASSUME NEW f \in Safe PROVE files'[f].present = files[f].present
    <2>0. f \in DOMAIN files /\ files[f].kind = "pre_restore"
      BY DEF Safe
    <2>1. ASSUME NEW a \in Actors, NEW kind \in Kinds, Copies(a, kind)
          PROVE  files'[f].present = files[f].present
      BY <1>0, <2>0, <2>1, CopyAdds DEF Copies
    <2>2. ASSUME NEW a \in Actors, Records(a) PROVE files'[f].present = files[f].present
      <3> DEFINE n == work[a].file
      <3>1. n \in DOMAIN files /\ RecordBackup(a) /\ files[n] \in File
        BY <1>0, <2>2, Directory DEF Records, RecordBackup, Ref
      <3>2. /\ files'[n] = [files[n] EXCEPT !.created = NextCreated(files[n].kind), !.day = day]
            /\ \A g \in DOMAIN files : g # n => files'[g] = files[g]
        BY <1>0, <3>1, RecordStamps
      <3>3. QED
        BY <2>0, <3>1, <3>2 DEF File
    <2>3. ASSUME NEW p \in Maintainers, Unlink(p) PROVE files'[f].present = files[f].present
      <3>1. PICK x \in work[p].victims : files' = [files EXCEPT ![x].present = FALSE]
        BY <2>3 DEF Unlink
      <3>2. x \in DOMAIN files /\ files[x].kind \in ScheduledKinds
        BY <1>0, <3>1, CliActor DEF Ref, Removable
      <3>3. x # f
        BY <2>0, <3>2 DEF ScheduledKinds
      <3>4. QED
        BY <1>0, <2>0, <3>1, <3>2, <3>3, UnlinkRemoves
    <2>4. QED
      BY <1>0, <2>1, <2>2, <2>3, BackupCases
         DEF Quiet, dataVars, Lists, DeleteRecord, BeginRestore, Overwrite, CheckRestored, RollBack, Write, NextDay
  <1>3. QED
    BY <1>0, <1>1, <1>2 DEF Lasts, Safe

\* Nothing is lost as long as what was covered stays in the database or in a
\* safety copy.
LEMMA CoveredStep ==
  ASSUME BackupInv, Covered, SafetyHeld, [Next]_vars
  PROVE  Covered'
  <1>0. /\ Safe \subseteq Safe' /\ (\A f \in Safe : files'[f].snapshot = files[f].snapshot)
        /\ WorkShape /\ RestoreInv /\ Cli \in Actors
    BY SafeLasts, CliActor DEF BackupInv, GuardInv
  <1> DEFINE copies == UNION {files[f].snapshot.items : f \in Safe}
             copiesNow == UNION {files'[f].snapshot.items : f \in Safe'}
  <1>1. copies \subseteq copiesNow
    BY <1>0
  <1>2. written \subseteq (IF sound THEN items ELSE {}) \cup copies
    BY DEF Covered
  <1>3. ASSUME written' = written, items' = items, sound' = sound PROVE Covered'
    BY <1>1, <1>2, <1>3 DEF Covered
  <1>4. ASSUME NEW f \in Safe PROVE files[f].snapshot.items \subseteq copiesNow
    BY <1>1, <1>4
  <1>5. CASE Overwrite
    <2>1. work[Cli].pc = "safe" /\ Restoring /\ written' = written
      BY <1>0, <1>5 DEF Overwrite, RestoreInv, Restoring
    <2>2. work[Cli].file \in Safe /\ files[work[Cli].file].snapshot.items = items
      BY <2>1 DEF SafetyHeld
    <2>3. items \subseteq copiesNow
      BY <1>4, <2>2
    <2>4. written \subseteq copiesNow
      BY <1>1, <1>2, <2>3
    <2>5. QED
      BY <2>1, <2>4 DEF Covered
  <1>6. CASE RollBack
    <2>1. ~sound /\ written' = written
      BY <1>6 DEF RollBack
    <2>2. written \subseteq copiesNow
      BY <1>1, <1>2, <2>1
    <2>3. QED
      BY <2>1, <2>2 DEF Covered
  <1>7. ASSUME NEW i \in Items, Write(i) PROVE Covered'
    <2>1. sound /\ sound' = sound /\ written' = written \cup {i} /\ items' = items \cup {i}
      BY <1>7 DEF Write
    <2>2. written' \subseteq items' \cup copiesNow
      BY <1>1, <1>2, <2>1
    <2>3. QED
      BY <2>1, <2>2 DEF Covered
  <1>8. QED
    BY <1>0, <1>3, <1>5, <1>6, <1>7, BackupCases
       DEF Quiet, dataVars, Copies, CopyTo, Records, RecordBackup, Lists, Unlink, DeleteRecord,
           BeginRestore, CheckRestored, NextDay

\* A step that leaves the restore and the tables alone.
LEMMA RestoreWaits ==
  ASSUME BackupInv, SafetyHeld, Progress, [Next]_vars,
         work'[Cli] = work[Cli], UNCHANGED <<items, sound, written, restores>>
  PROVE  SafetyHeld' /\ Progress'
  <1> DEFINE c == work[Cli]
  <1>0. /\ Safe \subseteq Safe' /\ (\A f \in Safe : files'[f].snapshot = files[f].snapshot)
        /\ WorkShape /\ RestoreInv /\ Cli \in Actors /\ DirectoryInv /\ Lasts /\ Ref(Cli)
    BY SafeLasts, FilesLast, CliActor DEF BackupInv, GuardInv, DirectoryInv, Refs
  <1>1. c.pc = "copied" => /\ c.file \in DOMAIN files
                           /\ files'[c.file] = files[c.file]
    BY <1>0, PendingStays DEF Ref
  <1>2. SafetyHeld'
    BY <1>0, <1>1 DEF SafetyHeld, Restoring, Safe, Restorable
  <1>3. Restoring => files'[c.source].snapshot = files[c.source].snapshot
    BY <1>0 DEF Ref, Lasts, Restoring
  <1>4. c.pc = "overwritten" => files'[c.file].snapshot = files[c.file].snapshot
    BY <1>0 DEF SafetyHeld
  <1>5. Progress'
    BY <1>3, <1>4 DEF Progress, Restoring
  <1>6. QED
    BY <1>2, <1>5

\* A command that is over, or has not begun its restore, owes nothing.
LEMMA RestoreOver ==
  ASSUME BackupInv, Progress, ~Restoring', work'[Cli].pc \notin {"safe", "overwritten"},
         restores' = restores, UNCHANGED <<items, written>> \/ restores # 0
  PROVE  SafetyHeld' /\ Progress'
  BY DEF SafetyHeld, Progress, Restoring

\* Every step keeps what a restore holds at its stage.
LEMMA RestoreStep ==
  ASSUME BackupInv, SafetyHeld, Progress, [Next]_vars, BackupInv'
  PROVE  SafetyHeld' /\ Progress'
  <1> DEFINE c == work[Cli]
  <1>0. /\ Safe \subseteq Safe' /\ (\A f \in Safe : files'[f].snapshot = files[f].snapshot)
        /\ RestoreInv /\ Lasts /\ Ref(Cli) /\ files \in Seq(File) /\ day \in Days
        /\ items \subseteq Items /\ records \subseteq DOMAIN files /\ sound \in BOOLEAN
        /\ Cli \in Actors /\ Maintainers \subseteq Actors /\ Cli \notin Maintainers
        /\ work = [a \in Actors |-> work[a]] /\ \A a \in Actors : Shaped(work[a])
    BY SafeLasts, FilesLast, CliActor
       DEF BackupInv, GuardInv, DirectoryInv, DataOK, RecordsOK, FilesOK, Refs, WorkShape
  <1>1. ASSUME NEW a \in Actors, Drops(a), UNCHANGED <<items, sound, written, restores>>
        PROVE  SafetyHeld' /\ Progress'
    <2>1. CASE a = Cli
      <3>1. work'[Cli] \in Fresh
        BY <1>0, <1>1, <2>1 DEF Drops
      <3>2. ~Restoring' /\ work'[Cli].pc \notin {"safe", "overwritten"}
        BY <3>1, FreshWork DEF Restoring
      <3>3. QED
        BY <1>1, <3>2, RestoreOver
    <2>2. CASE a # Cli
      <3>1. work'[Cli] = work[Cli]
        BY <1>0, <1>1, <2>2 DEF Drops
      <3>2. QED
        BY <1>1, <3>1, RestoreWaits
    <2>3. QED
      BY <2>1, <2>2
  <1>2. CASE Quiet
    BY <1>1, <1>2, RestoreWaits DEF Quiet, dataVars
  <1>3. ASSUME NEW a \in Actors, NEW kind \in Kinds, Copies(a, kind)
        PROVE  SafetyHeld' /\ Progress'
    <2> DEFINE n == Len(files) + 1
    <2>1. /\ work' = [work EXCEPT ![a].pc = "copied", ![a].file = n]
          /\ UNCHANGED <<items, sound, written, restores>>
      BY <1>3 DEF Copies, CopyTo
    <2>2. CASE a # Cli
      BY <1>0, <2>1, <2>2, RestoreWaits
    <2>3. CASE a = Cli
      <3>1. work'[Cli].pc = "copied" /\ work'[Cli].file = n /\ work'[Cli].source = c.source
        BY <1>0, <2>1, <2>3 DEF Shaped
      <3>2. CASE Idle(Cli)
        <4>1. ~Restoring'
          BY <1>0, <3>1, <3>2 DEF RestoreInv, Idle, Restoring
        <4>2. QED
          BY <2>1, <3>1, <4>1, RestoreOver
      <3>3. CASE c.pc = "begun" /\ kind = "pre_restore"
        <4>1. PICK ok \in BOOLEAN : files'[n] = NewFile(kind, Tables, ok)
          BY <1>0, <1>3, CopyAdds DEF Copies
        <4>2. /\ files'[n].kind = "pre_restore" /\ files'[n].present
              /\ files'[n].snapshot.items = items
          BY <3>3, <4>1 DEF NewFile, Tables
        <4>3. SafetyHeld'
          BY <2>1, <3>1, <4>2 DEF SafetyHeld
        <4>4. Progress'
          BY <2>1, <3>1, <3>3 DEF Progress, Restoring
        <4>5. QED
          BY <4>3, <4>4
      <3>4. QED
        BY <1>3, <2>3, <3>2, <3>3 DEF Copies
    <2>4. QED
      BY <2>2, <2>3
  <1>4. ASSUME NEW a \in Actors, Records(a) PROVE SafetyHeld' /\ Progress'
    <2>1. RecordBackup(a) /\ UNCHANGED <<items, sound, written, restores>>
      BY <1>4 DEF Records, RecordBackup
    <2>2. CASE Drops(a)
      BY <1>1, <2>1, <2>2
    <2>3. CASE /\ a = Cli /\ Restoring /\ MayOverwrite
               /\ work' = [work EXCEPT ![Cli] = [@ EXCEPT !.pc = "safe"]]
      <3>1. /\ c.pc = "copied" /\ c.file \in DOMAIN files /\ files[c.file].ok
            /\ files[c.file].kind = "pre_restore" /\ files[c.file].present
            /\ files[c.file].snapshot.items = items
        BY <1>0, <2>1, <2>3 DEF RecordBackup, Ref, MayOverwrite, SafetyHeld
      <3>2. c.file \in Safe
        BY <3>1 DEF Safe, Restorable
      <3>3. work'[Cli].pc = "safe" /\ work'[Cli].file = c.file /\ work'[Cli].source = c.source
        BY <1>0, <2>3 DEF Shaped
      <3>4. SafetyHeld'
        BY <1>0, <2>1, <3>1, <3>2, <3>3 DEF SafetyHeld, Safe, Restorable
      <3>5. Progress'
        BY <2>1, <3>1, <3>3 DEF Progress, Restoring
      <3>6. QED
        BY <3>4, <3>5
    <2>4. QED
      BY <1>4, <2>2, <2>3 DEF Records
  <1>5. ASSUME NEW p \in Maintainers, Lists(p) \/ Unlink(p) \/ DeleteRecord(p)
        PROVE  SafetyHeld' /\ Progress'
    <2>1. UNCHANGED <<items, sound, written, restores>>
      BY <1>5 DEF Lists, dataVars, Unlink, DeleteRecord
    <2>2. work'[Cli] = work[Cli]
      BY <1>0, <1>5 DEF Lists, Unlink, DeleteRecord, NextKind, RoundOver
    <2>3. QED
      BY <2>1, <2>2, RestoreWaits
  <1>6. CASE BeginRestore
    <2>1. PICK f \in 1..Len(files) : work' = [work EXCEPT ![Cli].pc = "begun", ![Cli].source = f]
      BY <1>6 DEF BeginRestore
    <2>2. work'[Cli].pc = "begun"
      BY <1>0, <2>1 DEF Shaped
    <2>3. restores \in Nat /\ restores' = restores + 1 /\ UNCHANGED <<items, written>>
      BY <1>0, <1>6 DEF BeginRestore, RestoreInv
    <2>4. restores' # 0 /\ (restores' = 1 => restores = 0)
      BY <2>3
    <2>5. QED
      BY <2>2, <2>3, <2>4 DEF SafetyHeld, Progress
  <1>7. CASE Overwrite
    <2>1. /\ c.pc = "safe" /\ Restoring /\ c.source \in DOMAIN files
          /\ UNCHANGED <<files, written, restores>>
      BY <1>0, <1>7 DEF Overwrite, RestoreInv, Ref, Restoring
    <2>2. work' = [work EXCEPT ![Cli].pc = "overwritten"]
      BY <1>7 DEF Overwrite
    <2>3. work'[Cli].pc = "overwritten" /\ work'[Cli].file = c.file /\ work'[Cli].source = c.source
      BY <1>0, <2>2 DEF Shaped
    <2>4. items' = Content(c.source).items /\ (sound' => Restorable(c.source))
      <3>1. sound' = Restorable(c.source) \/ sound' = FALSE
        BY <1>7 DEF Overwrite
      <3>2. items' = Content(c.source).items
        BY <1>7 DEF Overwrite, Become
      <3>3. QED
        BY <3>1, <3>2
    <2>5. sound' => items' = files[c.source].snapshot.items
      BY <2>4 DEF Content, Restorable
    <2>6. c.file \in Safe' /\ files'[c.file].snapshot.items = items
      BY <1>0, <2>1 DEF SafetyHeld
    <2>7. SafetyHeld'
      BY <2>3, <2>6 DEF SafetyHeld
    <2>8. Progress'
      BY <1>0, <2>1, <2>3, <2>5, <2>6 DEF Progress, Restoring, RestoreInv
    <2>9. QED
      BY <2>7, <2>8
  <1>8. CASE CheckRestored
    <2>1. /\ c.pc = "overwritten" /\ sound /\ Restoring
          /\ UNCHANGED <<files, items, written, restores>>
      BY <1>0, <1>8 DEF CheckRestored, RestoreInv, Restoring
    <2>2. work' = [work EXCEPT ![Cli].pc = "checked"]
      BY <1>8 DEF CheckRestored
    <2>3. work'[Cli].pc = "checked" /\ work'[Cli].source = c.source
      BY <1>0, <2>2 DEF Shaped
    <2>4. QED
      BY <2>1, <2>3 DEF SafetyHeld, Progress, Restoring
  <1>9. CASE RollBack
    <2>1. restores # 0 /\ restores' = restores /\ work'[Cli] = Rest
      BY <1>0, <1>9 DEF RollBack, RestoreInv
    <2>2. ~Restoring' /\ work'[Cli].pc = "idle"
      BY <2>1 DEF Rest, Restoring
    <2>3. QED
      BY <2>1, <2>2, RestoreOver
  <1>10. ASSUME NEW i \in Items, Write(i) PROVE SafetyHeld' /\ Progress'
    <2>1. /\ ~Restoring /\ work' = work /\ restores' = restores
          /\ items' = items \cup {i} /\ written' = written \cup {i}
      BY <1>10 DEF Write
    <2>2. c.pc \notin {"safe", "overwritten"}
      BY <1>0, <2>1 DEF RestoreInv, Restoring
    <2>3. QED
      BY <2>1, <2>2 DEF SafetyHeld, Progress, Restoring
  <1>11. CASE NextDay
    BY <1>11, RestoreWaits DEF NextDay
  <1>12. QED
    BY <1>0, <1>2, <1>3, <1>4, <1>5, <1>6, <1>7, <1>8, <1>9, <1>10, <1>11, BackupCases DEF WorkShape

\* With nothing written nothing is lost.
LEMMA LossInit == Init => LossInv
  <1> SUFFICES ASSUME Init PROVE LossInv
    OBVIOUS
  <1>1. work[Cli] = Rest
    BY CliActor DEF Init
  <1>2. QED
    BY <1>1 DEF Init, LossInv, Covered, SafetyHeld, Progress, Restoring, Rest

\* Every step keeps everything covered.
LEMMA LossInductive == (BackupInv /\ LossInv) /\ [Next]_vars => (BackupInv /\ LossInv)'
  BY BackupInductive, CoveredStep, RestoreStep DEF LossInv

\* Whatever was ever written, outside restores, is in the database while that is
\* sound, or in a verified file that is there.
THEOREM NothingIsLost == Spec => []NothingLost
  <1>1. LossInv => NothingLost
    BY DEF LossInv, Covered, NothingLost, Safe
  <1>2. QED
    BY BackupInit, LossInit, LossInductive, <1>1, PTL DEF Spec

\* How a restore that is not cut short comes to its end.
LEMMA RestoreEnd ==
  ASSUME BackupInv, LossInv, [Next]_vars
  PROVE  RestoreOutcome
  <1> DEFINE c == work[Cli]
  <1> SUFFICES ASSUME restores = 1, Restoring, Idle(Cli)', ~FailCli
               PROVE  IF c.pc = "checked"
                      THEN /\ items' = files[c.source].snapshot.items
                           /\ \A s \in Services :
                                rows'[s].owner # NoInstance => rows'[s].beat = "stopped"
                      ELSE items' = written
    BY DEF RestoreOutcome
  <1>0. /\ Cli \in Actors /\ Maintainers \subseteq Actors /\ Cli \notin Maintainers
        /\ Cli \notin Instances /\ c.pc # "idle" /\ work'[Cli].pc = "idle"
        /\ work = [a \in Actors |-> work[a]] /\ Shaped(c)
        /\ rows \in [Services -> Row]
    BY CliActor DEF BackupInv, GuardInv, WorkShape, RestoreInv, Restoring, Idle, ProcInv, ProcessesTypeOK
  <1>1. CASE SafetyRecord
    <2>1. c.pc = "copied" /\ items' = items
      BY <1>1 DEF SafetyRecord, RecordBackup
    <2>2. QED
      BY <2>1 DEF LossInv, Progress
  <1>2. CASE RollBack
    <2>1. /\ c.pc = "overwritten" /\ c.file \in Safe
          /\ files[c.file].snapshot.items = written
      BY <1>2 DEF RollBack, LossInv, SafetyHeld, Progress
    <2>2. items' = Content(c.file).items
      BY <1>2 DEF RollBack, Become, RollbackFile
    <2>3. QED
      BY <2>1, <2>2 DEF Content, Safe, Restorable
  <1>3. CASE EndRestore
    <2>1. c.pc = "checked" /\ items' = items
      BY <1>3 DEF EndRestore
    <2>2. items' = files[c.source].snapshot.items
      BY <2>1 DEF LossInv, Progress
    <2>3. \A s \in Services : rows'[s].owner # NoInstance => rows'[s].beat = "stopped"
      BY <1>0, <1>3 DEF EndRestore, Row
    <2>4. QED
      BY <2>1, <2>2, <2>3
  \* Nothing else ends it.
  <1>4. CASE work'[Cli] = c
    BY <1>0, <1>4
  <1>5. CASE ProcessStep
    <2>1. work'[Cli] = c
      BY <1>0, <1>5 DEF ProcessStep, StartProcess, StopProcess, KillProcess
    <2>2. QED
      BY <1>4, <2>1
  <1>6. ASSUME NEW p \in Maintainers,
               \/ BeginRound(p) \/ RecordRound(p) \/ FailRound(p)
               \/ ListVictims(p) \/ Unlink(p) \/ DeleteRecord(p)
        PROVE  work'[Cli] = c
    BY <1>0, <1>6 DEF BeginRound, CopyTo, RecordRound, FailRound, ListVictims, Unlink, DeleteRecord,
       NextKind, RoundOver
  <1>7. CASE CliBackup \/ BeginRestore \/ CliRecord
    BY <1>0, <1>7 DEF CliBackup, BeginRestore, CliRecord, Idle
  <1>8. CASE SafetyCopy \/ Overwrite \/ CheckRestored
    BY <1>0, <1>8 DEF SafetyCopy, CopyTo, Overwrite, CheckRestored, Shaped
  <1>9. CASE NextDay \/ (\E i \in Items : Write(i)) \/ UNCHANGED vars
    BY <1>4, <1>9 DEF NextDay, Write, vars
  <1>10. QED
    BY <1>1, <1>2, <1>3, <1>4, <1>5, <1>6, <1>7, <1>8, <1>9 DEF Next, BackupStep

\* A first restore that no exception and no kill cuts short leaves the copy's
\* items with every service marked stopped or, when the safety copy or what it
\* restored fails its verification, all that was ever written.
THEOREM RestoreLeaves == Spec => RestoreEnds
  <1>1. (BackupInv /\ LossInv) /\ [Next]_vars => [RestoreOutcome]_vars
    BY RestoreEnd
  <1>2. QED
    BY BackupInit, LossInit, LossInductive, <1>1, PTL DEF Spec, RestoreEnds

=============================================================================
