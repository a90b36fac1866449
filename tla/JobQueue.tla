------------------------------- MODULE JobQueue -------------------------------
(***************************************************************************)
(* The durable job queue of rrpp_bridge/queue.py and the worker loop that  *)
(* drives it (executor.py, cli.py): jobs and events are rows of SQLite,    *)
(* every queue method is one BEGIN IMMEDIATE transaction and so one step,  *)
(* and each worker is a process that remembers, between steps, the moment  *)
(* it read the clock and then the row it claimed.                          *)
(*                                                                         *)
(* Time is abstract.  A lease runs until LeaseExpires or LeaseOverrun, a   *)
(* retry backs off until BackoffElapses; both may happen at any moment, so *)
(* the model covers every length of lease and of backoff.  What is past is *)
(* a millisecond of Instants.  Every method reads the clock before it asks *)
(* for the write lock, so stamps may commit in another order than they     *)
(* were taken: a row's stamps are any instants, and only a claim, which    *)
(* compares the stamp it took with the rows, has a step for reading it.    *)
(*                                                                         *)
(* Definitions marked "Mutant of" are wrong on purpose: no action uses     *)
(* them, and with one in the place of the definition after it, a property  *)
(* below must fail.                                                        *)
(***************************************************************************)
EXTENDS Naturals, FiniteSets

CONSTANTS
    Messages,         \* external identities: (channel, external_message_id)
    Conversations,    \* values of jobs.work_key
    WorkKey,          \* the conversation of each message
    Workers,          \* worker processes
    NoWorker, NoJob,  \* NULL in jobs.worker_id; no job in a worker's hands
    MaxAttempts,      \* settings.max_attempts
    Backlog,          \* messages a migrated database brings, waiting
    Instants,         \* the milliseconds that clocks show, counted from 1
    MaxDisturbances   \* crashes, overruns, signals and retries in a behaviour

ASSUME QueueAssumption ==
    /\ WorkKey \in [Messages -> Conversations]
    /\ NoWorker \notin Workers
    /\ NoJob \notin Messages
    /\ MaxAttempts \in Nat \ {0}
    /\ Backlog \subseteq Messages
    /\ Instants \subseteq Nat \ {0} /\ 1 \in Instants
    /\ MaxDisturbances \in Nat

VARIABLES
    job,          \* table jobs, by message
    event,        \* events.status, by message
    created,      \* jobs.created_at
    worker,       \* what each worker process holds in memory
    disturbances  \* how much of the bound MaxDisturbances is used

queueVars == <<job, event, created, worker, disturbances>>

-----------------------------------------------------------------------------
(* The rows.  "absent" stands for no row. *)

JobStates == {"absent", "queued", "processing", "completed", "dead_letter", "dismissed"}
EventStates == {"absent", "queued", "retrying", "processed", "failed", "dismissed"}

\* No instant: a time ahead of every clock, or one that nobody reads.
NotYet == 0

\* available_at is an instant or ahead; lease_expires_at is NULL, ahead or past.
JobRow == [state: JobStates, attempts: Nat, available: Instants \cup {NotYet},
           lease: {"none", "running", "expired"}, owner: Workers \cup {NoWorker}]

NoRow == [state |-> "absent", attempts |-> 0, available |-> NotYet,
          lease |-> "none", owner |-> NoWorker]

\* Accepted or retried at t: no attempt yet.
FreshRow(t) == [state |-> "queued", attempts |-> 0, available |-> t,
                lease |-> "none", owner |-> NoWorker]

Ingested(m) == job[m].state # "absent"
Settled(m) == job[m].state \in {"completed", "dead_letter", "dismissed"}
Related(m, n) == WorkKey[m] = WorkKey[n]

\* The process memory: claim_next's timestamp until the claim commits
\* ("stamped"); then the claimed row, which is read again after the commit
\* ("claimed"), and that copy's attempt count is what a failure decides on.
Memory ==
    [pc: {"idle", "recovered"}, stamp: {NotYet}, job: {NoJob}, attempts: {0}]
    \cup [pc: {"stamped"}, stamp: Instants, job: {NoJob}, attempts: {0}]
    \cup [pc: {"claimed", "running", "finished"}, stamp: {NotYet}, job: Messages,
          attempts: Nat]

Idle == [pc |-> "idle", stamp |-> NotYet, job |-> NoJob, attempts |-> 0]

Holds(w) == worker[w].pc \in {"claimed", "running"}
Held(m) == \E w \in Workers : Holds(w) /\ worker[w].job = m

-----------------------------------------------------------------------------
(* Ingestion *)

\* One stamp, taken before the lock, for created_at and available_at: an
\* ingester that waits for the lock commits an earlier one than the rows it
\* finds.  A message already ingested violates UNIQUE(channel,
\* external_message_id): the transaction rolls back and nothing but the audit
\* log changes.
Enqueue(m) ==
    /\ ~Ingested(m)
    /\ \E t \in Instants : /\ job' = [job EXCEPT ![m] = FreshRow(t)]
                           /\ created' = [created EXCEPT ![m] = t]
    /\ event' = [event EXCEPT ![m] = "queued"]
    /\ UNCHANGED <<worker, disturbances>>

-----------------------------------------------------------------------------
(* The end of an attempt: retry later, or give up for good *)

\* Nobody reads the available_at of a dead letter.
Released(row, exhausted, available) ==
    [row EXCEPT !.state = IF exhausted THEN "dead_letter" ELSE "queued",
                !.available = IF exhausted THEN NotYet ELSE available,
                !.lease = "none", !.owner = NoWorker]

\* Mutant of EndedEvent: the job's new state, which no event has.
EndedJob(exhausted) == IF exhausted THEN "dead_letter" ELSE "queued"

EndedEvent(exhausted) == IF exhausted THEN "failed" ELSE "retrying"

\* Mutant of Exhausted: one attempt too many.
ExhaustedLate(attempts) == attempts > MaxAttempts

Exhausted(attempts) == attempts >= MaxAttempts

\* Mutants of Stale: leases not looked at; jobs without attempts left behind.
StaleAnyLease(m) == job[m].state = "processing"
StaleRetryable(m) ==
    job[m].state = "processing" /\ job[m].lease = "expired" /\ ~Exhausted(job[m].attempts)

Stale(m) == job[m].state = "processing" /\ job[m].lease = "expired"

\* A lease that ends between the stamp and the lock is one that ends after
\* this step: nobody else can tell.
RecoverRows ==
    /\ \E t \in Instants :
        /\ \A m \in Messages : Stale(m) => created[m] <= t
        /\ job' = [m \in Messages |->
                     IF Stale(m)
                     THEN Released(job[m], Exhausted(job[m].attempts), t)
                     ELSE job[m]]
    /\ event' = [m \in Messages |->
                   IF Stale(m) THEN EndedEvent(Exhausted(job[m].attempts))
                   ELSE event[m]]
    /\ UNCHANGED created

-----------------------------------------------------------------------------
(* The worker loop: recover, read the clock, claim, read the claim, work,    *)
(* settle, return                                                            *)

RecoverStale(w) ==
    /\ worker[w].pc = "idle"
    /\ RecoverRows
    /\ worker' = [worker EXCEPT ![w].pc = "recovered"]
    /\ UNCHANGED disturbances

\* The clock does not step back: whatever is in the rows by now, and whatever
\* a worker read before, is past.
ReadClock(w) ==
    /\ worker[w].pc = "recovered"
    /\ \E t \in Instants :
        /\ \A m \in Messages : created[m] <= t /\ job[m].available <= t
        /\ \A v \in Workers : worker[v].stamp <= t
        /\ worker' = [worker EXCEPT ![w].pc = "stamped", ![w].stamp = t]
    /\ UNCHANGED <<job, event, created, disturbances>>

\* available_at <= timestamp, the moment before the lock was asked for: a row
\* that was retried, recovered or ingested since may be ahead of it.
Due(w, m) ==
    /\ job[m].state = "queued"
    /\ job[m].available # NotYet /\ job[m].available <= worker[w].stamp

\* Mutant of Claimable: no look at the conversation's other jobs.
ClaimableInParallel(w, m) == Due(w, m)

Claimable(w, m) ==
    /\ Due(w, m)
    /\ \A n \in Messages : Related(m, n) => job[n].state # "processing"

\* Mutant of Oldest: ORDER BY created_at DESC.
Youngest(w, m) == \A n \in Messages : Claimable(w, n) => created[n] <= created[m]

Oldest(w, m) == \A n \in Messages : Claimable(w, n) => created[m] <= created[n]

Claim(w, m) ==
    /\ worker[w].pc = "stamped"
    /\ Claimable(w, m)
    /\ Oldest(w, m)
    /\ job' = [job EXCEPT ![m].state = "processing", ![m].attempts = @ + 1,
                          ![m].lease = "running", ![m].owner = w]
    /\ worker' = [worker EXCEPT ![w] = [Idle EXCEPT !.pc = "claimed", !.job = m]]
    /\ UNCHANGED <<event, created, disturbances>>

ClaimNothing(w) ==
    /\ worker[w].pc = "stamped"
    /\ \A m \in Messages : ~Claimable(w, m)
    /\ worker' = [worker EXCEPT ![w] = Idle]
    /\ UNCHANGED <<job, event, created, disturbances>>

\* The SELECT after the commit: whatever the row holds by then.
ReadClaim(w) ==
    /\ worker[w].pc = "claimed"
    /\ worker' = [worker EXCEPT ![w].pc = "running",
                                ![w].attempts = job[worker[w].job].attempts]
    /\ UNCHANGED <<job, event, created, disturbances>>

\* fail() and the completion name the row by id and nothing else: they write
\* it whatever its state, lease and owner are by now.
FailJob(w) ==
    LET m == worker[w].job
        exhausted == Exhausted(worker[w].attempts)
    IN  /\ job' = [job EXCEPT ![m] = Released(@, exhausted, NotYet)]
        /\ event' = [event EXCEPT ![m] = EndedEvent(exhausted)]
        /\ worker' = [worker EXCEPT ![w] = Idle]
        /\ UNCHANGED created

Fail(w) ==
    /\ worker[w].pc = "running"
    /\ FailJob(w)
    /\ UNCHANGED disturbances

Complete(w) ==
    LET m == worker[w].job
    IN  /\ worker[w].pc = "running"
        /\ job' = [job EXCEPT ![m].state = "completed", ![m].lease = "none",
                              ![m].owner = NoWorker]
        /\ event' = [event EXCEPT ![m] = "processed"]
        /\ worker' = [worker EXCEPT ![w].pc = "finished"]
        /\ UNCHANGED <<created, disturbances>>

Return(w) ==
    /\ worker[w].pc = "finished"
    /\ worker' = [worker EXCEPT ![w] = Idle]
    /\ UNCHANGED <<job, event, created, disturbances>>

WorkerStep(w) ==
    \/ RecoverStale(w)
    \/ ReadClock(w)
    \/ \E m \in Messages : Claim(w, m)
    \/ ClaimNothing(w)
    \/ ReadClaim(w)
    \/ Fail(w)
    \/ Complete(w)
    \/ Return(w)

-----------------------------------------------------------------------------
(* Operators: the dashboard's retry and dismiss, the CLI's recover-stale *)

Disturb ==
    /\ disturbances < MaxDisturbances
    /\ disturbances' = disturbances + 1

\* Mutant of Retry: the old attempts still count.
RetryKeepingAttempts(m) ==
    /\ job[m].state = "dead_letter"
    /\ \E t \in Instants :
        /\ created[m] <= t
        /\ job' = [job EXCEPT ![m] = [FreshRow(t) EXCEPT !.attempts = job[m].attempts]]
    /\ event' = [event EXCEPT ![m] = "queued"]
    /\ Disturb
    /\ UNCHANGED <<created, worker>>

Retry(m) ==
    /\ job[m].state = "dead_letter"
    /\ \E t \in Instants : /\ created[m] <= t
                           /\ job' = [job EXCEPT ![m] = FreshRow(t)]
    /\ event' = [event EXCEPT ![m] = "queued"]
    /\ Disturb
    /\ UNCHANGED <<created, worker>>

\* Mutants of Dismiss: any settled job; the job without its event.
DismissSettled(m) ==
    /\ Settled(m)
    /\ job' = [job EXCEPT ![m].state = "dismissed"]
    /\ event' = [event EXCEPT ![m] = "dismissed"]
    /\ UNCHANGED <<created, worker, disturbances>>
DismissJobOnly(m) ==
    /\ job[m].state = "dead_letter"
    /\ job' = [job EXCEPT ![m].state = "dismissed"]
    /\ UNCHANGED <<event, created, worker, disturbances>>

Dismiss(m) ==
    /\ job[m].state = "dead_letter"
    /\ job' = [job EXCEPT ![m].state = "dismissed"]
    /\ event' = [event EXCEPT ![m] = "dismissed"]
    /\ UNCHANGED <<created, worker, disturbances>>

OperatorRecover == RecoverRows /\ UNCHANGED <<worker, disturbances>>

-----------------------------------------------------------------------------
(* Time and failure *)

BackoffElapses(m) ==
    /\ job[m].state = "queued" /\ job[m].available = NotYet
    /\ \E t \in Instants : /\ created[m] <= t
                           /\ job' = [job EXCEPT ![m].available = t]
    /\ UNCHANGED <<event, created, worker, disturbances>>

\* A killed process forgets its claim; a supervisor starts it again.
Crash(w) ==
    /\ worker[w].pc # "idle"
    /\ worker' = [worker EXCEPT ![w] = Idle]
    /\ Disturb
    /\ UNCHANGED <<job, event, created>>

ExpireLease(m) ==
    /\ job[m].lease = "running"
    /\ job' = [job EXCEPT ![m].lease = "expired"]
    /\ UNCHANGED <<event, created, worker>>

LeaseExpires(m) == ~Held(m) /\ ExpireLease(m) /\ UNCHANGED disturbances

\* The worker is alive but slower than its lease: nothing renews a lease.
LeaseOverrun(m) == Held(m) /\ ExpireLease(m) /\ Disturb

\* SIGTERM between the commit of a completion and the return from run_once:
\* GracefulShutdown is an Exception, so run_once's handler fails the job.
ShutdownAfterCommit(w) ==
    /\ worker[w].pc = "finished"
    /\ FailJob(w)
    /\ Disturb

-----------------------------------------------------------------------------
(* Specifications *)

QueueInit ==
    /\ job = [m \in Messages |-> IF m \in Backlog THEN FreshRow(1) ELSE NoRow]
    /\ event = [m \in Messages |-> IF m \in Backlog THEN "queued" ELSE "absent"]
    /\ created = [m \in Messages |-> IF m \in Backlog THEN 1 ELSE NotYet]
    /\ worker = [w \in Workers |-> Idle]
    /\ disturbances = 0

\* No worker outlives its lease and no signal hits a finished job.
QueueNext ==
    \/ \E m \in Messages :
          Enqueue(m) \/ Retry(m) \/ Dismiss(m) \/ BackoffElapses(m) \/ LeaseExpires(m)
    \/ \E w \in Workers : WorkerStep(w) \/ Crash(w)
    \/ OperatorRecover

\* Everything the code can do.
StallNext ==
    \/ QueueNext
    \/ \E m \in Messages : LeaseOverrun(m)
    \/ \E w \in Workers : ShutdownAfterCommit(w)

\* The service manager restarts a stopped worker and the clock moves on.
QueueFairness ==
    /\ \A w \in Workers : WF_queueVars(WorkerStep(w))
    /\ \A m \in Messages : WF_queueVars(LeaseExpires(m)) /\ WF_queueVars(BackoffElapses(m))

QueueSpec == QueueInit /\ [][QueueNext]_queueVars
FairQueueSpec == QueueSpec /\ QueueFairness
StallSpec == QueueInit /\ [][StallNext]_queueVars
-----------------------------------------------------------------------------
(* Invariants *)

\* Every variable has its type.
TypeOK ==
    /\ job \in [Messages -> JobRow]
    /\ event \in [Messages -> EventStates]
    /\ created \in [Messages -> Instants \cup {NotYet}]
    /\ worker \in [Workers -> Memory]
    /\ disturbances \in 0..MaxDisturbances

\* claim_next's NOT EXISTS guard: no two rows of a conversation are ever
\* 'processing', even when workers outlive their leases.
OneProcessingPerConversation ==
    \A m, n \in Messages :
        /\ job[m].state = "processing" /\ job[n].state = "processing"
        /\ Related(m, n)
        => m = n

\* The rows of jobs and events tell one story whichever handlers interleave:
\* the event's status follows the job's state, and a row carries a lease and
\* an owner exactly while it is 'processing'.
EventsOf(state) ==
    CASE state \in {"queued", "processing"} -> {"queued", "retrying"}
      [] state = "completed" -> {"processed"}
      [] state = "dead_letter" -> {"failed"}
      [] OTHER -> {state}

RowsAgree ==
    \A m \in Messages :
        /\ event[m] \in EventsOf(job[m].state)
        /\ job[m].lease # "none" <=> job[m].state = "processing"
        /\ job[m].owner # NoWorker <=> job[m].state = "processing"

\* A worker that holds a job owns its row under a running lease and remembers
\* the row's attempts: what "fail" and the completion rely on unchecked.
HolderOwnsRow ==
    \A w \in Workers : Holds(w) =>
        /\ job[worker[w].job].state = "processing"
        /\ job[worker[w].job].lease = "running"
        /\ job[worker[w].job].owner = w
        /\ worker[w].pc = "running" => worker[w].attempts = job[worker[w].job].attempts

\* "Related conversations serialize" (ARCHITECTURE.md): no two workers hold
\* jobs of one conversation.
ConversationExclusive ==
    \A v, w \in Workers :
        v # w /\ Holds(v) /\ Holds(w) => ~Related(worker[v].job, worker[w].job)

\* "Bound retries" (ARCHITECTURE.md): no job starts more than MaxAttempts
\* times between two operators' retries.
AttemptsBounded == \A m \in Messages : job[m].attempts <= MaxAttempts

\* A job that waits has attempts left, and does not back off if it has them
\* all; a job in process has used one.
AttemptsCounted ==
    \A m \in Messages :
        /\ job[m].state = "queued" =>
             /\ job[m].attempts < MaxAttempts
             /\ job[m].attempts = 0 => job[m].available # NotYet
        /\ job[m].state = "processing" => job[m].attempts > 0

-----------------------------------------------------------------------------
(* Action properties *)

\* "a terminal dead-letter state.  Operators may retry or dismiss terminal
\* jobs" (ARCHITECTURE.md): a dead letter leaves its state only to
\* 'dismissed', or to 'queued' with its attempts afresh.
DeadLetterIsFinal ==
    [][\A m \in Messages : job[m].state = "dead_letter" =>
         \/ job'[m].state \in {"dead_letter", "dismissed"}
         \/ job'[m].state = "queued" /\ job'[m].attempts = 0]_queueVars

\* A completed or dismissed job is never touched again: no late failure,
\* recovery or claim brings it back.
DoneIsFinal ==
    [][\A m \in Messages : job[m].state \in {"completed", "dismissed"} =>
         job'[m] = job[m] /\ event'[m] = event[m]]_queueVars

\* A message that was due before a younger one of its conversation was even
\* stamped is not overtaken by it, however long either claim or ingester
\* waited for the lock.  (One that backs off, or is retried after the claim
\* read the clock, may be overtaken: claim_next does not see it.)
DueNotOvertaken ==
    [][\A m, n \in Messages :
         /\ Related(m, n) /\ created[m] < created[n]
         /\ job[m].state = "queued"
         /\ job[m].available # NotYet /\ job[m].available <= created[n]
         => ~(job[n].state = "queued" /\ job'[n].state = "processing")]_queueVars

-----------------------------------------------------------------------------
(* Liveness and the abstract queue *)

\* With finitely many crashes and retries every accepted message reaches a
\* settled state and stays in it: none waits or processes for ever.
AcceptedSettles == \A m \in Messages : Ingested(m) ~> []Settled(m)

StageOf(state) ==
    CASE state \in {"queued", "processing"} -> "open"
      [] state = "completed" -> "done"
      [] state = "dead_letter" -> "parked"
      [] state = "dismissed" -> "dropped"
      [] OTHER -> "absent"

Stage == [m \in Messages |-> StageOf(job[m].state)]
Tries == [m \in Messages |-> job[m].attempts]
On == [w \in Workers |-> IF Holds(w) THEN worker[w].job ELSE NoJob]

Abstract == INSTANCE SerialWork WITH stage <- Stage, tries <- Tries, on <- On

\* The rows, leases and worker memories together keep the promise of
\* SerialWork.
ImplementsSerialWork == Abstract!SerialSpec
=============================================================================
