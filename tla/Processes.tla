------------------------------- MODULE Processes -------------------------------
(***************************************************************************)
(* How processes come up and go: the schema they find (db.py), the start   *)
(* of a service, the migrate command (cli.py) and the service_status rows  *)
(* that tell an operator which service runs (operations.py).  Each         *)
(* migration and each write of a row is one transaction; a process may be  *)
(* killed between any two.                                                 *)
(*                                                                         *)
(* A process that is signalled stops its row; the signal that an "except   *)
(* Exception" swallows (gmail_connector.py, operations.py) is the error of *)
(* a heartbeat, and the process goes on until it is killed.                *)
(***************************************************************************)
EXTENDS Naturals, FiniteSets

CONSTANTS
    Services,       \* service_status.service
    Instances,      \* processes: service:host:pid
    NoInstance,     \* owner of a row that does not exist
    ServiceOf,      \* the service of each instance
    Drowsy,         \* services that may beat less than once in 60 seconds
    Latest          \* latest_version()

ASSUME ProcessesAssumption ==
    /\ ServiceOf \in [Instances -> Services]
    /\ NoInstance \notin Instances
    /\ Drowsy \subseteq Services
    /\ Latest \in Nat \ {0}

VARIABLES
    schema,         \* table schema_migrations
    uncopied,       \* whether the database came with data of an older schema
                    \* and no pre-migration copy has been made of it
    proc,           \* what each process is doing
    rows            \* table service_status

processVars == <<schema, uncopied, proc, rows>>

-----------------------------------------------------------------------------
(* State *)

\* The highest version recorded, and how often each migration was applied.
Schema == [version: 0..Latest, times: [1..Latest -> Nat]]

\* A process that applies migrations has reached the next one.
Process == [pc: {"off", "starting", "migrating", "running"}, next: 1..(Latest + 1)]

Off == [pc |-> "off", next |-> 1]

\* A beat is old when the restore guard, 60 seconds wide, lets it pass.
Row == [owner: Instances \cup {NoInstance}, beat: {"fresh", "old", "stopped"}]

NoRow == [owner |-> NoInstance, beat |-> "old"]

Runs(p) == proc[p].pc = "running"

\* The process a row names as running, which beats often enough to be seen.
RunsSeen(s) ==
    /\ s \notin Drowsy
    /\ \E p \in Instances : rows[s].owner = p /\ Runs(p)

-----------------------------------------------------------------------------
(* Starting *)

\* Mutant of Uninitialized: a start brings any older database up to date.
Outdated == schema.version < Latest

Uninitialized == schema.version = 0

\* Mutant of UpToDate: any schema will do.
Initialized == schema.version > 0

UpToDate == schema.version = Latest

\* start_service: the row is the new process's, whoever had it.
TakeRow(p) ==
    rows' = [rows EXCEPT ![ServiceOf[p]] = [owner |-> p, beat |-> "fresh"]]

\* _prepare's look at the schema, outside any transaction; a start on an older
\* schema is refused and changes nothing.
Boot(p) ==
    /\ proc[p].pc = "off"
    /\ \/ /\ Uninitialized
          /\ proc' = [proc EXCEPT ![p].pc = "starting"]
          /\ UNCHANGED rows
       \/ /\ ~Uninitialized /\ UpToDate
          /\ proc' = [proc EXCEPT ![p].pc = "running"]
          /\ TakeRow(p)
    /\ UNCHANGED <<schema, uncopied>>

\* The migrate command, when there is something to migrate: first a copy.
Migrate(p) ==
    /\ proc[p].pc = "off"
    /\ schema.version < Latest
    /\ uncopied' = FALSE
    /\ proc' = [proc EXCEPT ![p].pc = "migrating"]
    /\ UNCHANGED <<schema, rows>>

\* Mutant of Pending: the version is not read again under the lock.
PendingUnchecked(p) == TRUE

Pending(p) == proc[p].next > schema.version

\* One turn of initialize's loop.
ApplyMigration(p) ==
    LET v == proc[p].next
    IN  /\ proc[p].pc \in {"starting", "migrating"}
        /\ v <= Latest
        /\ schema' = IF Pending(p)
                     THEN [version |-> IF v > schema.version THEN v ELSE schema.version,
                           times |-> [schema.times EXCEPT ![v] = @ + 1]]
                     ELSE schema
        /\ proc' = [proc EXCEPT ![p].next = v + 1]
        /\ UNCHANGED <<uncopied, rows>>

\* The loop ends: the service starts, the command returns.
EndMigrations(p) ==
    /\ proc[p].next = Latest + 1
    /\ \/ /\ proc[p].pc = "starting"
          /\ proc' = [proc EXCEPT ![p] = [pc |-> "running", next |-> 1]]
          /\ TakeRow(p)
       \/ /\ proc[p].pc = "migrating"
          /\ proc' = [proc EXCEPT ![p] = Off]
          /\ UNCHANGED rows
    /\ UNCHANGED <<schema, uncopied>>

-----------------------------------------------------------------------------
(* Running and stopping *)

\* Mutant of OwnsRow: the row of the service, whoever has it.
HasRow(p) == rows[ServiceOf[p]].owner # NoInstance

OwnsRow(p) == rows[ServiceOf[p]].owner = p

\* heartbeat: only of the process's own row, and a stopped row stays stopped.
Beat(p) ==
    /\ Runs(p)
    /\ OwnsRow(p)
    /\ rows' = [rows EXCEPT ![ServiceOf[p]].beat = IF @ = "stopped" THEN @ ELSE "fresh"]
    /\ UNCHANGED <<schema, uncopied, proc>>

\* stop_service and the process's end: --once is done, or a signal.
Stop(p) ==
    /\ Runs(p)
    /\ proc' = [proc EXCEPT ![p] = Off]
    /\ rows' = IF OwnsRow(p)
               THEN [rows EXCEPT ![ServiceOf[p]].beat = "stopped"]
               ELSE rows
    /\ UNCHANGED <<schema, uncopied>>

Kill(p) ==
    /\ proc[p].pc # "off"
    /\ proc' = [proc EXCEPT ![p] = Off]
    /\ UNCHANGED <<schema, uncopied, rows>>

\* More than 60 seconds pass since the beat.
BeatAges(s) ==
    /\ rows[s].beat = "fresh"
    /\ ~RunsSeen(s)
    /\ rows' = [rows EXCEPT ![s].beat = "old"]
    /\ UNCHANGED <<schema, uncopied, proc>>

-----------------------------------------------------------------------------
(* Specification *)

\* A new database, or an older one that is kept.
ProcessesInit ==
    /\ \E version \in 0..Latest :
         /\ schema = [version |-> version,
                      times |-> [v \in 1..Latest |-> IF v <= version THEN 1 ELSE 0]]
         /\ uncopied = (version \in 1..(Latest - 1))
    /\ proc = [p \in Instances |-> Off]
    /\ rows = [s \in Services |-> NoRow]

StartStep(p) == Boot(p) \/ Migrate(p) \/ ApplyMigration(p) \/ EndMigrations(p)

ProcessesNext ==
    \/ \E p \in Instances : StartStep(p) \/ Beat(p) \/ Stop(p) \/ Kill(p)
    \/ \E s \in Services : BeatAges(s)

ProcessesSpec == ProcessesInit /\ [][ProcessesNext]_processVars

-----------------------------------------------------------------------------
(* Properties *)

\* The type invariant.  A row is of an instance of its service.
ProcessesTypeOK ==
    /\ schema \in Schema
    /\ uncopied \in BOOLEAN
    /\ proc \in [Instances -> Process]
    /\ rows \in [Services -> Row]
    /\ \A s \in Services :
         rows[s].owner # NoInstance => ServiceOf[rows[s].owner] = s

\* Each migration is applied once and none is left out, however many processes
\* find the same version and set out to apply what follows it.
MigratedInOrder ==
    \A v \in 1..Latest : schema.times[v] = IF v <= schema.version THEN 1 ELSE 0

\* "Runtime processes refuse pending migrations": what runs, runs on the latest
\* schema, also while another process is half through the first migrations.
RunsOnLatest == \A p \in Instances : Runs(p) => schema.version = Latest

\* A database that came with data is migrated only after a copy of it was
\* made; a start of a service never migrates it.
UpgradeHasCopy == [][uncopied => schema' = schema]_processVars
=============================================================================
