# Verification of the RRPP bridge

This directory holds TLA+ models of `src/rrpp_bridge`, the TLC configurations that
check them and TLAPS proofs about them. RRPP bridge takes messages from a local
simulator and from Gmail, stores each as an event with a job in SQLite, lets workers
turn jobs into actions that policy decides on and a network-free sink "executes", and
shows everything in a dashboard where a human reviews drafts and escalations.

## Inventory

| Component | State it keeps | Operations | What makes it hard | What makes it correct |
| --- | --- | --- | --- | --- |
| Durable queue (`queue.py`) | tables `jobs`, `events` | `enqueue`, `claim_next`, `fail`, `recover_stale`, `retry`, `dismiss` | several worker processes, leases, crashes, retries with backoff, operators | a conversation is served by one worker at a time, attempts are bounded, settled jobs stay settled, every accepted message settles |
| Worker and executor (`executor.py`, worker loop of `cli.py`) | the claimed row, held in memory | `run_once`: recover, claim, generate, execute, complete or fail | each step is a transaction of its own; signals are exceptions | one action per job, completion only after a recorded execution |
| Action executor (`action_executor.py`) | `action_executions`, `actions.state` | `execute`, `decide_execution` | idempotency key looked up before the transaction | an action is executed at most once and never beyond policy and mode |
| Agent and policy (`agent.py`, `policy.py`) | none | `generate_action`, `decide` | - | unknown actions are blocked, nothing is executed without the policy's leave |
| Workspace (`workspace.py`) | `conversations`, `action_reviews`, `draft_revisions`, `venues`, `venue_routes` | conversation, review, venue and route operations, the paged list | written by ingestion, workers and operators, read across requests | a conversation waits for review exactly as its reviews say, stays with its venue, and is found in the list |
| Runtime mode (`runtime.py`) | `runtime_settings` | `initialize_mode`, `get_mode`, `set_mode` | read and used in different transactions | executions respect the mode |
| Gmail connector (`gmail_connector.py`, `adapters/gmail.py`) | `connector_state` (history cursor) | initial and incremental sync, `poll_once`, poll loop | remote history that expires, partial failures, restarts | the cursor never passes a message that is not stored, unless history that expired hid it |
| Operations (`operations.py`) | `service_status`, `backup_records`, backup files | heartbeats, backup, retention, restore, maintenance loop | file system and database change apart; several processes | restore only while offline and with nothing lost, the newest verified backups kept |
| Database (`db.py`, `sql/`) | `schema_migrations` | `transaction`, `initialize`, `prepare_runtime` | concurrent first start, killed migrations | each migration once, nothing runs on an older schema |
| CLI, dashboard, local adapter, configuration, audit, deployment files | sessions, audit rows | entry points, HTTP handlers | - | they call the operations above |

The components share one SQLite file. Every write is a `BEGIN IMMEDIATE` transaction
(`db.py`), so writes are serial, and what interleaves are transactions of different
processes: workers, the Gmail poller, maintenance, the web process, CLI commands. There
are no in-process threads and no messages between processes other than rows.

## Modules

| Module | Models | Reads on |
| --- | --- | --- |
| `SerialWork` | the abstract promise of the queue: messages are started, finished, given up, parked, revived, dropped | - |
| `JobQueue` | `queue.py` and the worker loop: rows, leases, worker memory, crashes, operators | refers to `SerialWork` |
| `JobQueue_proofs` | the theorems about `JobQueue` | `JobQueue`, `TLAPS` |
| `Executor` | the pipeline: `JobQueue` composed with actions, reviews, conversations and the mode | `JobQueue` |
| `GmailConnector` | the poller and its cursor | - |
| `Workspace` | venues, routes, assignment, the conversation list page by page | - |
| `Processes` | starts, migrations and service rows of processes | - |
| `Operations` | backups, retention, maintenance and restore, composed with `Processes` | `Processes` |
| `Executor_proofs` | the theorems about `Executor` | `Executor`, `JobQueue_proofs` |
| `GmailConnector_proofs`, `Workspace_proofs` | the theorems about these | the module, `TLAPS` |
| `Operations_proofs` | the theorems about the schema, the service rows and the restore guard | `Operations`, `TLAPS` |
| `Backups_proofs` | the theorems about backups, retention and restore | `Operations_proofs` |
| `MCJobQueue`, `MCExecutor`, `MCWorkspace`, `MCOperations` | small instances for TLC | the module |

Definitions marked "Mutant of" in the modules are deliberate mistakes that no action
uses. Each stands for a plausible bug; with it in place of the definition that follows
it, the property named in `PROJECT.json` fails, which shows that the property and the
instance can tell the difference.

### JobQueue

`job[m]`, `event[m]` and `created[m]` are the rows of message `m`; a message is its
`(channel, external_message_id)`, and `WorkKey[m]` its conversation. `worker[w]` is
what a worker process remembers between transactions:

| `worker[w].pc` | `run_once` |
| --- | --- |
| `idle` | before `recover_stale` |
| `recovered` | between `recover_stale` and `claim_next` |
| `stamped` | `claim_next` has read the clock (`queue.py:65`), the write lock not yet taken |
| `claimed` | the claim has committed, the row not yet read back (`queue.py:81`) |
| `running` | inside the `try` |
| `finished` | the completion has committed, `run_once` not yet returned |

Each queue method is one action, and so is each of the worker's transactions, but for
`claim_next`, which is two. `Fail` and
`Complete` write the row by its id only, as the code does; that they hit the right row is
what has to be shown.

Time is abstract: a lease is running or expired, and `LeaseExpires` and `BackoffElapses` may
happen at any time. What is past is one of `Instants`, the milliseconds a clock shows. Every
method calls `utc_now()` before `BEGIN IMMEDIATE`, which may wait for the lock, so that
stamps may commit in another order than they were taken:

* `Enqueue`, `Retry` and recovery write any instant, later or earlier than what other rows hold
  (a retried or recovered row's not before its own `created_at`).
* `claim_next` compares its stamp with the rows, so reading the clock is a step of its own
  (`ReadClock`), and `Due` compares `available_at` with that stamp. What was retried, recovered
  or ingested while the claim waited for the lock may be ahead of it, and is passed over.
* `recover_stale` compares its stamp with the leases. A lease that ends between that stamp and
  the lock is one that ends after the step, which no other process can tell apart.

Assumed is that clocks do not step back. The `available_at` of a dead letter, which nobody
reads, is left out (`NotYet`).

Two next-state relations separate what the design assumes from what the code can do:

* `QueueNext`, fail-stop: workers crash at any point, but one that is alive finishes within
  its lease, and no signal arrives between a completion's commit and the return.
* `StallNext` adds `LeaseOverrun` and `ShutdownAfterCommit`: everything the code can do.

### Executor

`Executor` extends `JobQueue` and adds to its steps what else they write. `actions[m]` is
the sequence of the actions of a job with their decision, review and execution;
`conversation`, `mode` are the rows; `hand[w]` is what `run_once` carries from step to
step. `run_once` becomes `FindAction`, `GenerateAction`, `ReadMode`, `FindExecution`,
`Execute`, `CompleteJob` or `AbandonJob`, because each is a read or a transaction of its
own and other processes act in between. The dashboard's handlers are `EditReview`,
`TransitionReview`, `SetConversationStatus`, `SetMode`, and the queue's `Retry` and
`Dismiss`. The initial state is an empty database or one migrated from milestone 1, where
a waiting job may already have an action with outcome `allowed` - the only way to an
execution, since today's policy sends drafts and escalations to a human. `Spec` is
fail-stop, `OverrunSpec` everything.

### GmailConnector

Messages are numbered by arrival, and the number of the newest is the mailbox's history
id. Arrival, deletion and the loss of old history belong to Gmail and are external.
`poll[p]` is the memory of a poll; `cursor` and `accepted` are durable. `floor` is a ghost:
up to it messages may have been passed over legitimately, by an inbox page read on the
first poll or after history expired. Page boundaries of the history are arbitrary. It is
assumed that the last page reaches the newest message and reports its history id.
`Refused` are messages that `normalize` raises for: such a message ends the poll (`Refuse`),
and since the cursor does not move, every later poll ends at the same place; the messages
behind it wait for as long as it is in the history. That is what the code does, and
`EveryMailArrives` states it as its condition. `KeptSpec` is a mailbox from which no message
is erased, `GmailSpec` any mailbox.

### Workspace

`venues`, `routes` and `conversations` are the tables, `events` the messages ingested;
`conversations[c].last` is `last_message_at` as a rank. `Ingest` is what `enqueue` and its
`ensure_conversation` do to them: the venue by `RouteVenue`, the status, the newest time.
The other handlers are the forms of the dashboard, one transaction each; what reviews do to
a conversation's status is `Executor`'s subject and here any change (`SetReviewStatus`).

`reader` is a walk through the list, which the dashboard does not store: the link to the
next page carries the id of the last row shown. `OpenList` is the first page; a further one
is `LocateCursor`, which looks up where that conversation stands by now, and `ListPage`,
which reads what is behind that place, two queries with other transactions in between.
`reader.shown` and `reader.steady` are ghosts: what the walk has shown, and what has
matched its filter at one place since it began. A page is any set of `PageSize` rows that
come before the rest, in the order of the list.

### Processes

`schema` is `schema_migrations` with a count of how often each migration ran; `proc[p]` is
what a process does, `rows[s]` the row of its service. `Boot` is `_prepare` of `cli.py`: an
empty database is migrated step by step, an older one refused, and on the latest the process
takes its service's row. `Migrate` is the command, which copies the database first;
`uncopied` is true while a database that came with data has no such copy. `ApplyMigration`
is one turn of the loop of `initialize`, a transaction of its own: the version is read again
under the lock. `Beat`, `Stop` write a row only where the process owns it. A beat is "old"
when the restore guard's 60 seconds have passed. A process that is alive is assumed to beat
in time (`BeatAges` asks for it), except of the services in `Drowsy`, whose interval may be
longer: a Gmail poller set to poll less than once a minute.

### Operations

`items` stands for the rows of all other tables, `sound` for what `integrity_check` says,
`records` for the table `backup_records`, as the set of the files it names, and `files` for
the backup directory in the order the files were made. They are apart: a step changes one
file, or the database, and only `RecordBackup` notes in `files` what the new record says.
What a record says of its file never changes, so it is kept with the file: `kind`, `ok`
(verified), `day` and `created`, the rank of `created_at` in its kind; 0 before the file is
recorded. A snapshot then holds which files were on record when it was taken. Retention
ranks by `created` (`Newer`), as `ORDER BY created_at DESC` does. `utc_now()` is read just
before the write lock is asked for; in the model it is one step with the insertion, and two
backups of a kind are taken to have different times. `work[a]` is how far a maintenance process or the
operator's command is:

| `work[a].pc` | code |
| --- | --- |
| `copied` | the file is made and verified, not yet on record (`create_backup`) |
| `prune` | before a kind is ranked (`apply_retention`) |
| `pruning`, `unlinked` | files of the ranking are going; one is gone, its record is not |
| `begun` | the guard and the source's verification are passed (`restore_backup`) |
| `safe` | the safety copy is verified and on record |
| `overwritten`, `checked` | the source is copied over the database; it verified |

A kill (`KillProcess`, `FailCli`) or an exception (`FailRound`, `FailCli`) may come after any
step. What service rows a restored copy holds is left open (`HeldRows`). `Write` is any
other writer. `Settled` is a reduction: nothing else is done while a process applies
migrations; what it has left to do once another has finished changes nothing.
The operator is assumed to keep to DEPLOYMENT.md: nothing is started and nothing else
writes while a restore runs.

## Runs

| Run | Question | Result |
| --- | --- | --- |
| `queue_failstop` | is the queue safe when workers may crash but not outlive leases? | holds; also implements `SerialWork` |
| `queue_live` | does every accepted message settle? | holds under fairness |
| `queue_stall` | what survives lease overruns and late signals? | one processing row per conversation, rows that agree, and older related jobs first if they were due by then |
| `stalled_worker` | are conversations serial then? | no: the lease is never renewed or checked |
| `dead_letter` | are dead letters final then? | no: a late completion overwrites one |
| `pipeline` | one action per job, status of conversations, modes | holds |
| `pipeline_overrun` | what survives two workers on one job? | executions, decisions and closed reviews are written once; modes and completion in order |
| `approval_lost` | does an action show what the reviewer decided? | no: an approval before the execution step is overwritten |
| `gmail` | is every message stored behind the cursor, and does it come? | holds, two pollers, expiring history, a message that is refused |
| `gmail_missing` | also when messages are erased? | no: a 404 for a message is taken for expired history |
| `workspace` | do assignments stay, and does a walk through a moving list miss anything? | they stay; it misses nothing that stood still |
| `operations` | what do migrations, backups, retention and restore guarantee when anything is killed? | each migration once, kept backups exist, nothing is lost, restore is offline |

Bounds. `queue_failstop` uses three messages, two of one conversation (contention and
independence). All queue runs have two workers (a third adds only another competitor for the
same row), `MaxAttempts = 2` (a retry and a last attempt) and at most two disturbances,
counted over crashes, overruns, late signals and operators' retries; a lease that expires
after a crash is not counted. `queue_live`, `queue_stall`, `stalled_worker` and `dead_letter` use two messages
of one conversation, the last three with up to three disturbances. `queue_live` and
`queue_stall` have three `Instants`: a row's `created_at`, a claim's stamp, and a retry after
that stamp. The other queue runs have two, enough for a row that is ahead of a stamp, and
`pipeline`, `pipeline_overrun` and `approval_lost` one, under which whatever is past is due and
rows are of one age, so that related ones are claimed in either order. `pipeline` has two messages of one conversation, the first migrated,
one disturbance, and the modes shadow and canary; `pipeline_overrun` one migrated message,
two workers, the modes canary and live, and drafts of at most two versions (`MaxVersion`).
One disturbance is enough for the race: one overrun puts two workers on a job. `gmail` has
four arrivals (`MaxMail`), the last of them refused, and inbox pages of two (`BatchSize`), so
that a page passes messages over and may hold the refused one beside another; `gmail_missing`
three arrivals and pages of one. Both have one poll cut short (`MaxAborts`). `workspace` has
three conversations, two of them equally old so that the id decides, four messages, one of
which comes late or with an older time than its conversation's first, pages of one row, so
that each walk has up to three requests, two venues competing for one route, and two filters,
one that every conversation matches and one that operators move conversations out of and into.
`operations` has the maintenance service with a second instance started with `--once`, so that
rows are taken over and rounds overlap, two migrations (one before and one after a restart),
one item, one verified backup kept of each kind, two days of one month (a monthly and a daily
backup), and at most three files (`MaxFiles`), one broken copy (`MaxFailures`) and one restore
(`MaxRestores`), 4.2 million states. Three files are enough for two rounds and a command, so that pruning removes one,
and for a restore's source, its safety copy and one more. Workers and venues are symmetric;
messages are not, because `WorkKey` tells them apart, and symmetry is not used where
liveness is checked.

Fairness. `queue_live` assumes that each worker keeps taking steps (the worker loop of
`cli.py` never ends by itself and compose restarts it), that a lease nobody holds expires
and that a backoff elapses: both are the passage of time. Operators owe nothing, crashes
and retries are finite in number. `gmail` assumes that the poll loop keeps running and
finitely many polls are cut short; arrivals and the expiry of history owe nothing.

## Proofs

`JobQueue_proofs` proves, for every set of messages, conversations and workers and every
`MaxAttempts > 0` (`QueueAssumption`):

* of `StallSpec`: `TypeCorrect`, `Serialized` (one processing row per conversation) and
  `Agreement` (rows agree). `OneProcessingPerConversation` is inductive with `TypeOK`, because only `Claim`
  makes a row processing and it looks at all related rows first. `RowsAgree` is inductive too:
  every handler changes state, lease, owner and event together.
  Also `DueFirst`: a claim passes over an older related job only if that was not due when the
  younger one was ingested. It rests on `CreatedFirst`, that a row is never available before it
  was created: the claimed row was then created, and what was due by that time is due, at the
  claim's own stamp, whatever was written since that stamp was taken.
* of `QueueSpec`: `Ownership`, `Exclusion`, `BoundedAttempts`, the action properties
  `TerminalDeadLetters`, `DoneForGood`, and `Refinement`, that the queue
  implements `SerialWork` under the mapping `Stage`, `Tries`, `On`.

The inductive invariant is `FailStopInv`: types, one processing row, agreement,
`HolderOwnsRow`, `AttemptsBounded` and `AttemptsCounted`. Its heart is `HolderOwnsRow`: a worker in the middle
of a job still owns its row, under a running lease. It is preserved because recovery takes
only expired leases and nobody's lease expires under a holder - the very assumption that
`StallNext` drops. Given it, the unchecked writes of `fail` and of the completion hit a
processing row of the worker's own, from which exclusion, finality and the refinement
follow. `AttemptsBounded` alone is not inductive: it needs that a waiting job has an attempt
left (`AttemptsCounted`) and that the count `fail` decides on is the row's.

`Executor_proofs` proves, for any messages, conversations, workers, canaries, backlog and
bounds (`QueueAssumption`, `ExecutorAssumption`):

* of `Spec`: `PipelineSerialWork`. `PipelineStepsQueue` shows that every step of the pipeline
  is a step of the queue or leaves it alone; so `Spec` implies `QueueSpec`, and what
  `JobQueue_proofs` shows of the queue, the implementation of `SerialWork` included, holds of
  the pipeline.
* of `OverrunSpec`, everything the code can do: `PipelineTypeCorrect`, `CompletedHasExecution`,
  `ExecutionPermitted`, `ReviewsArePending`, `FinalRecords` and `StickyReviews`. The inductive
  invariant is `PipelineInv`. It adds to the properties `HandsOn`, what a worker carries from
  one transaction to the next (the action it carries is one of its job's, and before it
  completes the job an execution of that job is on record), and `AllPermitted`, what a row of `actions` may
  say. It does not say who owns the job: two workers on one job keep it, because rows of
  `actions` are only added, an execution is written only where there is none, and
  with it the mode it was decided under.
* of `Spec`: `SingleAction`. It does need the queue: nothing in the table keeps two workers
  from adding an action, so that a worker about to add one finds none (`Unplanned`) only
  because `ConversationExclusive` gives the job to it alone.

`GmailConnector_proofs` proves, for any number of pollers, batch size, refused messages and
bounds (`GmailAssumption`):

* of `GmailSpec`: `GmailTypes`, that nothing a poller holds lies beyond the mailbox.
* of `KeptSpec`: `CursorCovered`. `CursorCovers` is not inductive, because a poller is about
  to replace the cursor by what it holds. `KeptInv` adds `PollCovers` for every poller: what lies
  between its floor and the history id it is going to store is an event, still to do, or, while it reads the
  history, behind the cursor it began with. Events are never removed, so that
  pollers do not disturb one another, although the cursor may step back.

`Workspace_proofs` proves, for any messages, conversations, venues, page size and filters
(`WorkspaceAssumption`), `WorkspaceTypes`, `NewestLast`, `CompleteWalk` and
`StableAssignments`. `WorkspaceInv` adds to the three invariants that a conversation without
messages counts from zero, and `WalkInv`: what is steady and not yet shown comes, in the
list's order, after the cursor's conversation where that one stands now. It is preserved because a
conversation moves only up: `HandleTimes` shows that only a message changes a place in the list,
and only to an earlier one. The link
holds because the order is total and a finite page has a last row (`LastRow`).

`Operations_proofs` proves, for any services, instances, migrations and bounds
(`ProcessesAssumption`, `OperationsAssumption`), of `Spec`:

* `Migrations`, `LatestOnly`, `CopyBeforeUpgrade`. `ProcInv` adds `Reached`, that no process
  is more than one migration past the schema - without it a process might skip one - and
  `CopiedFirst`. `StepOfProcesses` shows that every step of `Operations` is one of
  `Processes`, leaves its variables alone, or replaces the rows only (a restore), so that the
  argument is made once.
* `GuardedRestore`, `OwnersShown`. `GuardInv` adds `SeenIsFresh`: until a restore, the row of
  a process that beats in time is fresh, which is what the guard reads; and `RestoreInv`:
  once the guard is passed, nothing the guard would see comes to run, since nothing is started.

`Backups_proofs` proves, from the same assumptions and of the same `Spec`, with any number of
maintenance processes, days, files, failures and restores. `BackupCases` first sorts the steps
by what they do to the tables and the directory: a step of a process, a failure, a kill and an
end are all one case.

* `BackupTypes`. `BackupInv` adds to the types and to `GuardInv` what work relies on (`Refs`):
  what is to be removed has been recorded and is of a scheduled kind, and a copy that waits
  for its record is there, unrecorded and nobody else's - so no pruning can reach it.
* `KeptBackups`. `RetentionInv`: what is on record without its file, or is on record and on
  somebody's list, is `Outranked` - as many verified backups as are kept are newer. A list may be
  old: the step that needs the argument is another process's deletion of a record that was
  among the newer ones. It was itself outranked, and those above it are above what it was
  above (`StaysOutranked`). How `created` is chosen plays no part in the proof.
* `NothingIsLost`, `RestoreLeaves`. `NothingLost` is not inductive: the file that saves an item
  might be pruned. `LossInv` strengthens it to safety copies, which nothing removes (`Covered`),
  and adds what a restore holds at each of its steps: `SafetyHeld`, that its safety copy has the
  items there are until it overwrites them and is sound from then on, and `Progress`, how the
  items relate to what was written and to the copy restored. `RestoreEnds` follows step by step.

Every invariant and every safety or action property of the passing runs is thus stated by a
theorem. Only model-checked is liveness (`AcceptedSettles`, `EveryMailArrives`), since the
prover has no support for fairness and `ENABLED`. The refuting runs need no proof.

## Where code and documents disagree

1. ARCHITECTURE.md: related conversations serialize. A worker slower than its lease keeps
   working next to its successor (`stalled_worker`).
2. ARCHITECTURE.md: dead letters are terminal until an operator acts. A late completion
   turns one into a completed job (`dead_letter`).
3. PROJECT_BRIEF.md: approval marks a draft prepared. When the approval falls between the
   action's creation and its execution, the action goes back to `pending_review`
   (`approval_lost`).
4. DECISIONS.md: the Gmail cursor is persisted only after all discovered messages are
   stored. A 404 for one erased message makes the poller skip others (`gmail_missing`).

## Behaviour worth knowing

Found while modelling; no document says otherwise, so no run refutes them.

* A job that is retried, recovered or ingested while a claim waits for the write lock may be
  later than the claim's stamp. That claim does not see it, and a younger job of the same
  conversation may be taken first, even ahead of one that has not been tried yet.
  `DueNotOvertaken` is the order that remains.
* A message that `normalize` refuses stops the Gmail poller at its place for as long as it is
  in the history; those behind it wait.
* A damaged database cannot be restored from a good backup by the command: its own safety
  copy fails verification and the restore gives up.
* A backup that failed verification stands for its day: `_backup_due` looks at any record.
* `worker --once` or `maintenance --once` beside the service takes over the service's row.
  The service runs on, but its heartbeats match no row, and when the other ends the service
  is shown as stopped.
  `OwnerNotStopped` holds of the instance that has the row.
* The restore guard cannot see the web process, which has no row, nor a poller that sleeps
  longer than its 60 seconds. DEPLOYMENT.md has the operator stop everything first.
* After a restore, rows and records are those of the copy. A service that was running when
  it was made has a row again, marked stopped; records may name files that are gone. So
  `KeptBackupsExist`, `OwnerNotStopped` and `RestoreIsOffline` speak of the time up to the
  first restore.

## Not modelled

Text, MIME, HTML, SQL details, audit rows (written in the same transactions and read by no
handler), sessions and CSRF of the dashboard and its other pages, OAuth, configuration,
deployment, the encryption of exports (its failure is an exception of the round), the error
and detail columns of service rows, `restored_at`, and processing rows from before leases
(migration 2), which only a worker of a release that is not in the repository could leave.
A work key is taken to name one conversation: keys of the two channels do not meet.

## Plan

Done: `SerialWork`, `JobQueue`, `Executor`, `GmailConnector`, `Workspace`, `Processes`,
`Operations`, and proofs of all the safety properties their runs check. What is left:

1. The safety half of liveness: that a job which is not settled always has a step ahead of it
   that fairness brings about, stated without `ENABLED`, for the queue and for the poller.
2. `Operations` beside an abstract specification of an archive (what is written stays
   retrievable until it is replaced on purpose), as `JobQueue` is beside `SerialWork`.
