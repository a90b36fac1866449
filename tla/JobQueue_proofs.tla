--------------------------- MODULE JobQueue_proofs ---------------------------
(***************************************************************************)
(* Proofs about JobQueue for every value of its constants.                 *)
(*                                                                         *)
(* Part 1 holds of everything the code can do (StallSpec): types, the      *)
(* NOT EXISTS guard, the agreement of the rows, the order of claims.       *)
(* Part 2 is about QueueSpec, where no worker outlives its lease: workers  *)
(* own the rows they hold, and from this follow exclusion, bounded         *)
(* attempts and final states.                                              *)
(***************************************************************************)
EXTENDS JobQueue, TLAPS

-----------------------------------------------------------------------------
(* Part 1: StallSpec *)

\* A job has at least one attempt.
LEMMA MaxAttemptsType == MaxAttempts \in Nat /\ MaxAttempts > 0
  BY QueueAssumption

\* Instants are positive numbers, the first of them 1; NotYet is none of them.
LEMMA InstantsType == Instants \subseteq Nat /\ NotYet = 0 /\ NotYet \notin Instants /\ 1 \in Instants
  BY QueueAssumption DEF NotYet

\* A row accepted or retried: waiting, no attempt yet.
LEMMA FreshRowType ==
  ASSUME NEW t \in Instants
  PROVE  FreshRow(t) \in JobRow
  BY DEF FreshRow, JobRow, JobStates

\* The initial rows, statuses and memories have their types.
LEMMA InitTypeOK == QueueInit => TypeOK
  <1>1. NoRow \in JobRow
    BY DEF NoRow, JobRow, JobStates
  <1>2. Idle \in Memory
    BY DEF Idle, Memory
  <1>3. QED
    BY <1>1, <1>2, FreshRowType, InstantsType, QueueAssumption
       DEF QueueInit, TypeOK, EventStates

\* Released changes four columns and keeps the attempts.
LEMMA ReleasedRow ==
  ASSUME NEW row \in JobRow, NEW exhausted \in BOOLEAN, NEW available \in Instants \cup {NotYet}
  PROVE  /\ Released(row, exhausted, available) \in JobRow
         /\ Released(row, exhausted, available).attempts = row.attempts
         /\ exhausted => Released(row, exhausted, available).available = NotYet
         /\ ~exhausted => Released(row, exhausted, available).available = available
         /\ Released(row, exhausted, available).lease = "none"
         /\ Released(row, exhausted, available).owner = NoWorker
         /\ exhausted => Released(row, exhausted, available).state = "dead_letter"
         /\ ~exhausted => Released(row, exhausted, available).state = "queued"
  BY DEF Released, JobRow, JobStates

\* What RecoverRows writes is a row and a status.
LEMMA RecoveredTypes ==
  ASSUME TypeOK, RecoverRows
  PROVE  job' \in [Messages -> JobRow] /\ event' \in [Messages -> EventStates]
  <1>1. ASSUME NEW m \in Messages, NEW t \in Instants
        PROVE  /\ Released(job[m], job[m].attempts >= MaxAttempts, t) \in JobRow
               /\ EndedEvent(job[m].attempts >= MaxAttempts) \in EventStates
    <2> DEFINE exhausted == job[m].attempts >= MaxAttempts
    <2>1. job[m] \in JobRow /\ exhausted \in BOOLEAN
      BY DEF TypeOK
    <2> HIDE DEF exhausted
    <2>2. Released(job[m], exhausted, t) \in JobRow
      BY <2>1, ReleasedRow
    <2>3. EndedEvent(exhausted) \in EventStates
      BY DEF EndedEvent, EventStates
    <2>4. QED
      BY <2>2, <2>3 DEF exhausted
  <1>2. QED
    BY <1>1 DEF TypeOK, RecoverRows, Exhausted

\* A worker's failure writes a row, a status and an idle memory.
LEMMA FailedTypes ==
  ASSUME TypeOK, NEW w \in Workers, FailJob(w)
  PROVE  /\ job' \in [Messages -> JobRow]
         /\ event' \in [Messages -> EventStates]
         /\ worker' \in [Workers -> Memory]
         /\ created' \in [Messages -> Instants \cup {NotYet}]
  <1> DEFINE m == worker[w].job
             exhausted == worker[w].attempts >= MaxAttempts
  <1>1. exhausted \in BOOLEAN
    OBVIOUS
  <1>2. job' = [job EXCEPT ![m] = Released(job[m], exhausted, NotYet)]
    BY DEF FailJob, Exhausted
  <1>3. job' \in [Messages -> JobRow]
    <2>1. CASE m \in Messages
      <3>1. Released(job[m], exhausted, NotYet) \in JobRow
        BY <1>1, <2>1, ReleasedRow DEF TypeOK
      <3>2. QED
        BY <1>2, <3>1 DEF TypeOK
    <2>2. CASE m \notin Messages
      BY <1>2, <2>2 DEF TypeOK
    <2>3. QED
      BY <2>1, <2>2
  <1>4. event' \in [Messages -> EventStates]
    BY DEF TypeOK, FailJob, Exhausted, EndedEvent, EventStates
  <1>5. worker' \in [Workers -> Memory] /\ created' \in [Messages -> Instants \cup {NotYet}]
    BY DEF TypeOK, FailJob, Exhausted, Memory, Idle
  <1>6. QED
    BY <1>3, <1>4, <1>5

\* The disturbances stay within their bound.
LEMMA DisturbType ==
  ASSUME disturbances \in 0..MaxDisturbances, Disturb
  PROVE  disturbances' \in 0..MaxDisturbances
  BY QueueAssumption DEF Disturb

\* Every step keeps the types: one step of the proof for each handler.
LEMMA StepTypeOK == TypeOK /\ [StallNext]_queueVars => TypeOK'
  <1> SUFFICES ASSUME TypeOK, [StallNext]_queueVars PROVE TypeOK'
    OBVIOUS
  <1> USE QueueAssumption DEF TypeOK
  <1>1. ASSUME NEW m \in Messages, Enqueue(m) PROVE TypeOK'
    BY <1>1, FreshRowType DEF Enqueue, EventStates
  <1>2. ASSUME NEW m \in Messages, Retry(m) PROVE TypeOK'
    BY <1>2, FreshRowType DEF Retry, Disturb, EventStates
  <1>3. ASSUME NEW m \in Messages, Dismiss(m) PROVE TypeOK'
    BY <1>3 DEF Dismiss, JobRow, JobStates, EventStates
  <1>4. ASSUME NEW m \in Messages, BackoffElapses(m) PROVE TypeOK'
    BY <1>4 DEF BackoffElapses, JobRow, JobStates
  <1>5. ASSUME NEW m \in Messages, LeaseExpires(m) PROVE TypeOK'
    BY <1>5 DEF LeaseExpires, ExpireLease, JobRow, JobStates
  <1>6. ASSUME NEW m \in Messages, LeaseOverrun(m) PROVE TypeOK'
    BY <1>6, DisturbType DEF LeaseOverrun, ExpireLease, JobRow, JobStates
  <1>7. ASSUME NEW w \in Workers, RecoverStale(w) PROVE TypeOK'
    BY <1>7, RecoveredTypes DEF RecoverStale, RecoverRows, Exhausted, Memory
  <1>8. ASSUME NEW w \in Workers, NEW m \in Messages, Claim(w, m) PROVE TypeOK'
    BY <1>8 DEF Claim, JobRow, JobStates, Memory, Idle
  <1>9. ASSUME NEW w \in Workers, ClaimNothing(w) PROVE TypeOK'
    BY <1>9 DEF ClaimNothing, Memory, Idle
  <1>10. ASSUME NEW w \in Workers, ReadClaim(w) PROVE TypeOK'
    <2>1. worker[w] \in [pc: {"claimed", "running", "finished"}, stamp: {NotYet}, job: Messages,
                         attempts: Nat]
      BY <1>10 DEF ReadClaim, Memory
    <2>2. [worker[w] EXCEPT !.pc = "running", !.attempts = job[worker[w].job].attempts] \in Memory
      BY <2>1 DEF Memory, JobRow
    <2>3. QED
      BY <1>10, <2>2 DEF ReadClaim
  <1>11. ASSUME NEW w \in Workers, Fail(w) PROVE TypeOK'
    BY <1>11, FailedTypes DEF Fail
  <1>12. ASSUME NEW w \in Workers, Complete(w) PROVE TypeOK'
    <2>1. job' \in [Messages -> JobRow]
      <3> DEFINE n == worker[w].job
      <3>1. job' = [job EXCEPT ![n] = [job[n] EXCEPT !.state = "completed", !.lease = "none",
                                                     !.owner = NoWorker]]
        BY <1>12 DEF Complete
      <3>2. ASSUME NEW row \in JobRow
            PROVE  [row EXCEPT !.state = "completed", !.lease = "none", !.owner = NoWorker] \in JobRow
        BY DEF JobRow, JobStates
      <3>3. QED
        BY <3>1, <3>2
    <2>2. event' \in [Messages -> EventStates] /\ worker' \in [Workers -> Memory]
      BY <1>12 DEF Complete, EventStates, Memory
    <2>3. QED
      BY <1>12, <2>1, <2>2 DEF Complete
  <1>13. ASSUME NEW w \in Workers, Return(w) PROVE TypeOK'
    BY <1>13 DEF Return, Memory, Idle
  <1>14. ASSUME NEW w \in Workers, Crash(w) PROVE TypeOK'
    BY <1>14, DisturbType DEF Crash, Memory, Idle
  <1>15. ASSUME NEW w \in Workers, ShutdownAfterCommit(w) PROVE TypeOK'
    BY <1>15, FailedTypes, DisturbType DEF ShutdownAfterCommit
  <1>16. ASSUME OperatorRecover PROVE TypeOK'
    BY <1>16, RecoveredTypes DEF OperatorRecover, RecoverRows, Exhausted
  <1>17. CASE UNCHANGED queueVars
    BY <1>17 DEF queueVars
  <1>18. ASSUME NEW w \in Workers, ReadClock(w) PROVE TypeOK'
    <2>1. PICK t \in Instants : worker' = [worker EXCEPT ![w] = [@ EXCEPT !.pc = "stamped", !.stamp = t]]
      BY <1>18 DEF ReadClock
    <2>2. worker[w] \in [pc: {"idle", "recovered"}, stamp: {NotYet}, job: {NoJob}, attempts: {0}]
      BY <1>18 DEF ReadClock, Memory
    <2>3. [worker[w] EXCEPT !.pc = "stamped", !.stamp = t]
            \in [pc: {"stamped"}, stamp: Instants, job: {NoJob}, attempts: {0}]
      BY <2>2
    <2>4. worker' \in [Workers -> Memory]
      BY <2>1, <2>3 DEF Memory
    <2>5. QED
      BY <1>18, <2>4 DEF ReadClock
  <1>19. QED
    BY <1>1, <1>2, <1>3, <1>4, <1>5, <1>6, <1>7, <1>8, <1>9, <1>10, <1>11,
       <1>12, <1>13, <1>14, <1>15, <1>16, <1>17, <1>18
       DEF StallNext, QueueNext, WorkerStep

\* Every variable keeps its type, whatever the workers and the clock do.
THEOREM TypeCorrect == StallSpec => []TypeOK
  <1>1. QueueInit => TypeOK
    BY InitTypeOK
  <1>2. TypeOK /\ [StallNext]_queueVars => TypeOK'
    BY StepTypeOK
  <1>3. QED
    BY <1>1, <1>2, PTL DEF StallSpec

-----------------------------------------------------------------------------
(* The guard of claim_next.  Only Claim makes a row 'processing', and every  *)
(* other step makes at most fewer rows so.                                   *)

\* RecoverRows leaves a row as it is or releases it.
LEMMA RecoveredRow ==
  ASSUME TypeOK, RecoverRows, NEW m \in Messages
  PROVE  \/ job'[m] = job[m] /\ event'[m] = event[m] /\ ~Stale(m)
         \/ /\ Stale(m)
            /\ job'[m].attempts = job[m].attempts
            /\ job'[m].lease = "none" /\ job'[m].owner = NoWorker
            /\ \/ /\ job[m].attempts >= MaxAttempts
                  /\ job'[m].state = "dead_letter" /\ event'[m] = "failed"
                  /\ job'[m].available = NotYet
               \/ /\ ~(job[m].attempts >= MaxAttempts)
                  /\ job'[m].state = "queued" /\ event'[m] = "retrying"
                  /\ job'[m].available \in Instants /\ created[m] <= job'[m].available
  <1> DEFINE exhausted == job[m].attempts >= MaxAttempts
  <1>1. job[m] \in JobRow /\ exhausted \in BOOLEAN
    BY DEF TypeOK
  <1>2. PICK t \in Instants :
          /\ Stale(m) => created[m] <= t
          /\ job'[m] = IF Stale(m) THEN Released(job[m], exhausted, t) ELSE job[m]
    BY DEF RecoverRows, Exhausted
  <1>3. event'[m] = IF Stale(m) THEN EndedEvent(exhausted) ELSE event[m]
    BY DEF RecoverRows, Exhausted
  <1> HIDE DEF exhausted
  <1>4. CASE Stale(m)
    <2>1. /\ job'[m] = Released(job[m], exhausted, t) /\ event'[m] = EndedEvent(exhausted)
          /\ created[m] <= t
      BY <1>2, <1>3, <1>4
    <2>2. /\ job'[m].attempts = job[m].attempts
          /\ job'[m].lease = "none" /\ job'[m].owner = NoWorker
          /\ exhausted => job'[m].state = "dead_letter" /\ job'[m].available = NotYet
          /\ ~exhausted => job'[m].state = "queued" /\ job'[m].available = t
      BY <1>1, <2>1, ReleasedRow
    <2>3. /\ exhausted => event'[m] = "failed"
          /\ ~exhausted => event'[m] = "retrying"
      BY <2>1 DEF EndedEvent
    <2>4. QED
      BY <1>4, <2>1, <2>2, <2>3 DEF exhausted
  <1>5. CASE ~Stale(m)
    BY <1>2, <1>3, <1>5
  <1>6. QED
    BY <1>4, <1>5

\* A worker's failure touches the row it holds, and releases it.
LEMMA FailedRow ==
  ASSUME TypeOK, NEW w \in Workers, FailJob(w), NEW m \in Messages
  PROVE  \/ job'[m] = job[m] /\ event'[m] = event[m] /\ m # worker[w].job
         \/ /\ m = worker[w].job
            /\ job'[m].attempts = job[m].attempts
            /\ job'[m].available = NotYet
            /\ job'[m].lease = "none" /\ job'[m].owner = NoWorker
            /\ \/ /\ worker[w].attempts >= MaxAttempts
                  /\ job'[m].state = "dead_letter" /\ event'[m] = "failed"
               \/ /\ ~(worker[w].attempts >= MaxAttempts)
                  /\ job'[m].state = "queued" /\ event'[m] = "retrying"
  <1> DEFINE exhausted == worker[w].attempts >= MaxAttempts
             n == worker[w].job
  <1>1. job[m] \in JobRow /\ exhausted \in BOOLEAN
    BY DEF TypeOK
  <1>2. job' = [job EXCEPT ![n] = Released(job[n], exhausted, NotYet)]
    BY DEF FailJob, Exhausted
  <1>3. event' = [event EXCEPT ![n] = EndedEvent(exhausted)]
    BY DEF FailJob, Exhausted
  <1> HIDE DEF exhausted, n
  <1>4. CASE m = n
    <2>1. job'[m] = Released(job[m], exhausted, NotYet) /\ event'[m] = EndedEvent(exhausted)
      BY <1>2, <1>3, <1>4 DEF TypeOK
    <2>2. /\ job'[m].attempts = job[m].attempts /\ job'[m].available = NotYet
          /\ job'[m].lease = "none" /\ job'[m].owner = NoWorker
          /\ exhausted => job'[m].state = "dead_letter"
          /\ ~exhausted => job'[m].state = "queued"
      BY <1>1, <2>1, ReleasedRow
    <2>3. /\ exhausted => event'[m] = "failed"
          /\ ~exhausted => event'[m] = "retrying"
      BY <2>1 DEF EndedEvent
    <2>4. QED
      BY <1>4, <2>2, <2>3 DEF exhausted, n
  <1>5. CASE m # n
    BY <1>2, <1>3, <1>5 DEF TypeOK, n
  <1>6. QED
    BY <1>4, <1>5

\* Apart from Claim, no step turns another row into a 'processing' one.
LEMMA StepOneProcessing ==
  TypeOK /\ OneProcessingPerConversation /\ [StallNext]_queueVars
    => OneProcessingPerConversation'
  <1> SUFFICES ASSUME TypeOK, OneProcessingPerConversation, [StallNext]_queueVars
               PROVE  OneProcessingPerConversation'
    OBVIOUS
  <1> DEFINE NoneStarts == \A m \in Messages :
                             job'[m].state = "processing" => job[m].state = "processing"
  <1>1. NoneStarts => OneProcessingPerConversation'
    BY DEF OneProcessingPerConversation, Related
  <1>2. ASSUME NEW w \in Workers, NEW m \in Messages, Claim(w, m)
        PROVE  OneProcessingPerConversation'
    <2>1. /\ \A n \in Messages : n # m => job'[n].state = job[n].state
          /\ \A n \in Messages : Related(m, n) => job[n].state # "processing"
      BY <1>2 DEF Claim, Claimable, Due, TypeOK, JobRow
    <2>2. \A n \in Messages : Related(n, m) => Related(m, n)
      BY DEF Related
    <2>3. QED
      BY <2>1, <2>2 DEF OneProcessingPerConversation, Related
  <1>3. ASSUME NEW m \in Messages,
               Enqueue(m) \/ Retry(m) \/ Dismiss(m) \/ BackoffElapses(m)
                 \/ LeaseExpires(m) \/ LeaseOverrun(m)
        PROVE  NoneStarts
    BY <1>3 DEF Enqueue, Retry, Dismiss, BackoffElapses, LeaseExpires, LeaseOverrun,
                ExpireLease, FreshRow, TypeOK, JobRow
  <1>4. ASSUME RecoverRows PROVE NoneStarts
    BY <1>4, RecoveredRow
  <1>5. ASSUME NEW w \in Workers, FailJob(w) PROVE NoneStarts
    BY <1>5, FailedRow
  <1>6. ASSUME NEW w \in Workers, Complete(w) PROVE NoneStarts
    BY <1>6 DEF Complete, TypeOK, JobRow
  <1>7. ASSUME UNCHANGED job PROVE NoneStarts
    BY <1>7
  <1> HIDE DEF NoneStarts
  <1>8. QED
    BY <1>1, <1>2, <1>3, <1>4, <1>5, <1>6, <1>7
       DEF StallNext, QueueNext, WorkerStep, RecoverStale, ReadClock, ClaimNothing, ReadClaim,
           Fail, Return, OperatorRecover, Crash, ShutdownAfterCommit, queueVars

\* No two jobs of a conversation are ever 'processing' together.
THEOREM Serialized == StallSpec => []OneProcessingPerConversation
  <1>1. QueueInit => OneProcessingPerConversation
    BY DEF QueueInit, OneProcessingPerConversation, NoRow, FreshRow
  <1>2. QED
    BY <1>1, TypeCorrect, StepOneProcessing, PTL DEF StallSpec

-----------------------------------------------------------------------------
(* The columns of a row and the status of its event change together. *)

\* Every handler changes the columns of a row and its event together.
LEMMA StepRowsAgree ==
  TypeOK /\ RowsAgree /\ [StallNext]_queueVars => RowsAgree'
  <1> SUFFICES ASSUME TypeOK, RowsAgree, [StallNext]_queueVars, NEW m \in Messages
               PROVE  /\ event'[m] \in EventsOf(job'[m].state)
                      /\ job'[m].lease # "none" <=> job'[m].state = "processing"
                      /\ job'[m].owner # NoWorker <=> job'[m].state = "processing"
    BY DEF RowsAgree
  <1> DEFINE Agrees == /\ event'[m] \in EventsOf(job'[m].state)
                       /\ job'[m].lease # "none" <=> job'[m].state = "processing"
                       /\ job'[m].owner # NoWorker <=> job'[m].state = "processing"
  <1>1. /\ event[m] \in EventsOf(job[m].state)
        /\ job[m].lease # "none" <=> job[m].state = "processing"
        /\ job[m].owner # NoWorker <=> job[m].state = "processing"
        /\ job[m] \in JobRow
    BY DEF RowsAgree, TypeOK
  <1>2. ASSUME job'[m] = job[m], event'[m] = event[m] PROVE Agrees
    BY <1>1, <1>2
  <1>3. ASSUME NEW n \in Messages, Enqueue(n) \/ Retry(n) \/ Dismiss(n)
        PROVE  Agrees
    BY <1>1, <1>3 DEF Enqueue, Retry, Dismiss, FreshRow, EventsOf, TypeOK, JobRow, JobStates
  <1>4. ASSUME NEW n \in Messages,
               BackoffElapses(n) \/ LeaseExpires(n) \/ LeaseOverrun(n)
        PROVE  Agrees
    BY <1>1, <1>4 DEF BackoffElapses, LeaseExpires, LeaseOverrun, ExpireLease, EventsOf,
                      TypeOK, JobRow, JobStates
  <1>5. ASSUME NEW w \in Workers, NEW n \in Messages, Claim(w, n) PROVE Agrees
    BY <1>1, <1>5, QueueAssumption
       DEF Claim, Claimable, Due, EventsOf, TypeOK, JobRow, JobStates
  <1>6. ASSUME NEW w \in Workers, Complete(w) PROVE Agrees
    BY <1>1, <1>6 DEF Complete, EventsOf, TypeOK, JobRow, JobStates
  <1>7. ASSUME RecoverRows PROVE Agrees
    BY <1>2, <1>7, RecoveredRow DEF EventsOf
  <1>8. ASSUME NEW w \in Workers, FailJob(w) PROVE Agrees
    BY <1>2, <1>8, FailedRow DEF EventsOf
  <1>9. ASSUME UNCHANGED <<job, event>> PROVE Agrees
    BY <1>2, <1>9
  <1> HIDE DEF Agrees
  <1>10. Agrees
    BY <1>3, <1>4, <1>5, <1>6, <1>7, <1>8, <1>9
       DEF StallNext, QueueNext, WorkerStep, RecoverStale, ReadClock, ClaimNothing, ReadClaim,
           Fail, Return, OperatorRecover, Crash, ShutdownAfterCommit, queueVars
  <1>11. QED
    BY <1>10 DEF Agrees

\* Job rows, leases, owners and event statuses agree in every state.
THEOREM Agreement == StallSpec => []RowsAgree
  <1>1. QueueInit => RowsAgree
    BY DEF QueueInit, RowsAgree, NoRow, FreshRow, EventsOf
  <1>2. QED
    BY <1>1, TypeCorrect, StepRowsAgree, PTL DEF StallSpec

-----------------------------------------------------------------------------
(* The order of claims.  A claim takes a row only if its available_at, and so *)
(* its created_at, is not after the worker's stamp; whatever was due by that  *)
(* created_at is therefore due too, and competes as the older one.            *)

\* No job is available before it was created.
CreatedFirst == \A m \in Messages : job[m].available # NotYet => created[m] <= job[m].available

\* Stamps are written together or later ones over earlier ones.
LEMMA StepCreatedFirst ==
  TypeOK /\ CreatedFirst /\ [StallNext]_queueVars => CreatedFirst'
  <1> SUFFICES ASSUME TypeOK, CreatedFirst, [StallNext]_queueVars, NEW m \in Messages,
                      job'[m].available # NotYet
               PROVE  created'[m] <= job'[m].available
    BY DEF CreatedFirst
  <1> DEFINE Kept == job'[m].available # NotYet => created'[m] <= job'[m].available
  <1>1. ASSUME job'[m].available = job[m].available, created'[m] = created[m] PROVE Kept
    BY <1>1 DEF CreatedFirst
  <1>2. ASSUME NEW n \in Messages, Enqueue(n) PROVE Kept
    <2>1. PICK t \in Instants : /\ job' = [job EXCEPT ![n] = FreshRow(t)]
                               /\ created' = [created EXCEPT ![n] = t]
      BY <1>2 DEF Enqueue
    <2>2. CASE n = m
      BY <2>1, <2>2, InstantsType DEF FreshRow, TypeOK
    <2>3. CASE n # m
      BY <1>1, <2>1, <2>3 DEF TypeOK
    <2>4. QED
      BY <2>2, <2>3
  <1>3. ASSUME NEW n \in Messages, Retry(n) \/ BackoffElapses(n) PROVE Kept
    <2>1. PICK t \in Instants :
            /\ created[n] <= t /\ created' = created
            /\ job' = [job EXCEPT ![n] = FreshRow(t)] \/ job' = [job EXCEPT ![n].available = t]
      BY <1>3 DEF Retry, BackoffElapses
    <2>2. CASE n = m
      BY <2>1, <2>2 DEF FreshRow, TypeOK, JobRow
    <2>3. CASE n # m
      BY <1>1, <2>1, <2>3 DEF TypeOK
    <2>4. QED
      BY <2>2, <2>3
  <1>4. ASSUME NEW n \in Messages, Dismiss(n) \/ LeaseExpires(n) \/ LeaseOverrun(n) PROVE Kept
    BY <1>1, <1>4 DEF Dismiss, LeaseExpires, LeaseOverrun, ExpireLease, TypeOK, JobRow
  <1>5. ASSUME RecoverRows PROVE Kept
    BY <1>1, <1>5, RecoveredRow DEF RecoverRows
  <1>6. ASSUME NEW w \in Workers, FailJob(w) PROVE Kept
    BY <1>1, <1>6, FailedRow DEF FailJob
  <1>7. ASSUME NEW w \in Workers, NEW n \in Messages, Claim(w, n) PROVE Kept
    BY <1>1, <1>7 DEF Claim, TypeOK, JobRow
  <1>8. ASSUME NEW w \in Workers, Complete(w) PROVE Kept
    BY <1>1, <1>8 DEF Complete, TypeOK, JobRow
  <1>9. ASSUME UNCHANGED <<job, created>> PROVE Kept
    BY <1>1, <1>9
  <1> HIDE DEF Kept
  <1>10. Kept
    BY <1>2, <1>3, <1>4, <1>5, <1>6, <1>7, <1>8, <1>9
       DEF StallNext, QueueNext, WorkerStep, RecoverStale, ReadClock, ClaimNothing, ReadClaim,
           Fail, Return, OperatorRecover, Crash, ShutdownAfterCommit, queueVars
  <1>11. QED
    BY <1>10 DEF Kept

\* A message due before a younger one of its conversation was stamped is not
\* overtaken by it, however stale the stamp of the claim is.
THEOREM DueFirst == StallSpec => DueNotOvertaken
  <1> DEFINE A == \A m, n \in Messages :
                    /\ Related(m, n) /\ created[m] < created[n]
                    /\ job[m].state = "queued"
                    /\ job[m].available # NotYet /\ job[m].available <= created[n]
                    => ~(job[n].state = "queued" /\ job'[n].state = "processing")
  <1>1. QueueInit => CreatedFirst
    BY InstantsType DEF QueueInit, CreatedFirst, FreshRow, NoRow
  <1>2. TypeOK /\ CreatedFirst /\ [StallNext]_queueVars => [A]_queueVars
    <2> SUFFICES ASSUME TypeOK, CreatedFirst, StallNext, NEW m \in Messages, NEW n \in Messages,
                        Related(m, n), created[m] < created[n],
                        job[m].state = "queued",
                        job[m].available # NotYet, job[m].available <= created[n],
                        job[n].state = "queued", job'[n].state = "processing"
                 PROVE  FALSE
      OBVIOUS
    <2>1. ASSUME NEW w \in Workers, NEW x \in Messages, Claim(w, x) PROVE FALSE
      <3>1. x = n
        BY <2>1 DEF Claim, TypeOK
      <3>2. /\ Due(w, n) /\ worker[w].pc = "stamped"
            /\ \A y \in Messages : Related(n, y) => job[y].state # "processing"
        BY <2>1, <3>1 DEF Claim, Claimable
      <3>3. /\ job[m].available \in Nat /\ created[m] \in Nat /\ created[n] \in Nat
            /\ job[n].available \in Nat /\ worker[w].stamp \in Nat
        <4>1. job[m] \in JobRow /\ job[n] \in JobRow /\ worker[w] \in Memory
          BY DEF TypeOK
        <4>2. worker[w].stamp \in Instants \cup {NotYet}
          BY <4>1 DEF Memory
        <4>3. created[m] \in Instants \cup {NotYet} /\ created[n] \in Instants \cup {NotYet}
          BY DEF TypeOK
        <4>4. /\ job[m].available \in Instants \cup {NotYet}
              /\ job[n].available \in Instants \cup {NotYet}
          BY <4>1 DEF JobRow
        <4>5. Instants \cup {NotYet} \subseteq Nat
          BY InstantsType
        <4>6. QED
          BY <4>2, <4>3, <4>4, <4>5
      <3>4. job[m].available <= worker[w].stamp
        BY <3>2, <3>3 DEF CreatedFirst, Due
      <3>5. Claimable(w, m)
        BY <3>2, <3>4 DEF Claimable, Due, Related
      <3>6. created[n] <= created[m]
        BY <2>1, <3>1, <3>5 DEF Claim, Oldest
      <3>7. QED
        BY <3>3, <3>6
    <2>2. ASSUME NEW x \in Messages,
                 Enqueue(x) \/ Retry(x) \/ Dismiss(x) \/ BackoffElapses(x) \/ LeaseExpires(x)
                   \/ LeaseOverrun(x)
          PROVE  FALSE
      BY <2>2 DEF Enqueue, Retry, Dismiss, BackoffElapses, LeaseExpires, LeaseOverrun,
                  ExpireLease, FreshRow, TypeOK, JobRow
    <2>3. ASSUME RecoverRows PROVE FALSE
      BY <2>3, RecoveredRow
    <2>4. ASSUME NEW w \in Workers, FailJob(w) PROVE FALSE
      BY <2>4, FailedRow
    <2>5. ASSUME NEW w \in Workers, Complete(w) PROVE FALSE
      BY <2>5 DEF Complete, TypeOK, JobRow
    <2>6. ASSUME UNCHANGED job PROVE FALSE
      BY <2>6
    <2>7. QED
      BY <2>1, <2>2, <2>3, <2>4, <2>5, <2>6
         DEF StallNext, QueueNext, WorkerStep, RecoverStale, ReadClock, ClaimNothing, ReadClaim,
             Fail, Return, OperatorRecover, Crash, ShutdownAfterCommit
  <1>3. QED
    BY <1>1, <1>2, TypeCorrect, StepCreatedFirst, PTL DEF StallSpec, DueNotOvertaken

-----------------------------------------------------------------------------
(* Part 2: QueueSpec *)

\* The inductive invariant.
FailStopInv ==
    /\ TypeOK
    /\ OneProcessingPerConversation
    /\ RowsAgree
    /\ HolderOwnsRow
    /\ AttemptsBounded
    /\ AttemptsCounted

\* The fail-stop queue is a case of the whole one.
LEMMA QueueIsStall == [QueueNext]_queueVars => [StallNext]_queueVars
  BY DEF StallNext

\* A holder's row is 'processing' under a running lease and no one else's.
LEMMA HeldRow ==
  ASSUME TypeOK, HolderOwnsRow, NEW v \in Workers, Holds(v)
  PROVE  /\ worker[v].job \in Messages
         /\ job[worker[v].job].state = "processing"
         /\ job[worker[v].job].lease = "running"
         /\ job[worker[v].job].owner = v
         /\ worker[v].pc = "running" => worker[v].attempts = job[worker[v].job].attempts
  BY DEF TypeOK, HolderOwnsRow, Holds, Memory

\* A step of another worker, the clock or an operator leaves a held row alone.
LEMMA StepHolderOwnsRow ==
  TypeOK /\ HolderOwnsRow /\ [QueueNext]_queueVars => HolderOwnsRow'
  <1> SUFFICES ASSUME TypeOK, HolderOwnsRow, [QueueNext]_queueVars,
                      NEW v \in Workers, Holds(v)'
               PROVE  /\ job'[worker'[v].job].state = "processing"
                      /\ job'[worker'[v].job].lease = "running"
                      /\ job'[worker'[v].job].owner = v
                      /\ worker'[v].pc = "running" =>
                           worker'[v].attempts = job'[worker'[v].job].attempts
    BY DEF HolderOwnsRow
  <1> DEFINE Owns == /\ job'[worker'[v].job].state = "processing"
                     /\ job'[worker'[v].job].lease = "running"
                     /\ job'[worker'[v].job].owner = v
                     /\ worker'[v].pc = "running" =>
                          worker'[v].attempts = job'[worker'[v].job].attempts
  <1>1. ASSUME worker'[v] = worker[v], job'[worker[v].job] = job[worker[v].job]
        PROVE  Owns
    BY <1>1, HeldRow DEF Holds
  <1>2. ASSUME NEW m \in Messages,
               Enqueue(m) \/ Retry(m) \/ Dismiss(m) \/ BackoffElapses(m) \/ LeaseExpires(m)
        PROVE  Owns
    <2>1. worker' = worker /\ Holds(v)
      BY <1>2 DEF Enqueue, Retry, Dismiss, BackoffElapses, LeaseExpires, ExpireLease, Holds
    <2>2. m # worker[v].job
      BY <1>2, <2>1, HeldRow
         DEF Enqueue, Retry, Dismiss, BackoffElapses, LeaseExpires, Ingested, Held
    <2>3. job'[worker[v].job] = job[worker[v].job]
      BY <1>2, <2>1, <2>2, HeldRow
         DEF Enqueue, Retry, Dismiss, BackoffElapses, LeaseExpires, ExpireLease, TypeOK
    <2>4. QED
      BY <1>1, <2>1, <2>3
  <1>3. ASSUME RecoverRows, worker'[v] = worker[v] PROVE Owns
    BY <1>1, <1>3, HeldRow, RecoveredRow DEF Holds, Stale
  <1>4. ASSUME NEW w \in Workers, RecoverStale(w) PROVE Owns
    <2>1. v # w
      BY <1>4 DEF RecoverStale, Holds, TypeOK, Memory
    <2>2. QED
      BY <1>3, <1>4, <2>1 DEF RecoverStale, TypeOK
  <1>5. ASSUME NEW w \in Workers, NEW m \in Messages, Claim(w, m) PROVE Owns
    <2>1. CASE v = w
      BY <1>5, <2>1 DEF Claim, Idle, TypeOK, JobRow
    <2>2. CASE v # w
      <3>1. worker'[v] = worker[v] /\ Holds(v)
        BY <1>5, <2>2 DEF Claim, Holds, TypeOK
      <3>2. m # worker[v].job
        BY <1>5, <3>1, HeldRow DEF Claim, Claimable, Due
      <3>3. QED
        BY <1>1, <1>5, <3>1, <3>2, HeldRow DEF Claim, TypeOK
    <2>3. QED
      BY <2>1, <2>2
  <1>6. ASSUME NEW w \in Workers, ReadClaim(w) PROVE Owns
    <2>1. CASE v = w
      <3>1. Holds(v) /\ job' = job /\ worker'[v].job = worker[v].job
        BY <1>6, <2>1 DEF ReadClaim, Holds, TypeOK, Memory
      <3>2. worker'[v].attempts = job[worker[v].job].attempts
        BY <1>6, <2>1 DEF ReadClaim, TypeOK, Memory
      <3>3. QED
        BY <3>1, <3>2, HeldRow
    <2>2. CASE v # w
      BY <1>1, <1>6, <2>2 DEF ReadClaim, TypeOK
    <2>3. QED
      BY <2>1, <2>2
  <1>7. ASSUME NEW w \in Workers, Fail(w) \/ Complete(w) PROVE Owns
    <2>1. v # w
      BY <1>7 DEF Fail, FailJob, Exhausted, Complete, Holds, Idle, TypeOK, Memory
    <2>2. Holds(w) /\ Holds(v) /\ worker'[v] = worker[v]
      BY <1>7, <2>1 DEF Fail, FailJob, Exhausted, Complete, Holds, TypeOK
    <2>3. worker[v].job # worker[w].job
      BY <2>1, <2>2, HeldRow
    <2>4. job'[worker[v].job] = job[worker[v].job]
      BY <1>7, <2>2, <2>3, HeldRow DEF Fail, FailJob, Exhausted, Complete, TypeOK
    <2>5. QED
      BY <1>1, <2>2, <2>4
  <1>8. ASSUME NEW w \in Workers, ReadClock(w) \/ ClaimNothing(w) \/ Return(w) \/ Crash(w)
        PROVE  Owns
    <2>1. v # w
      BY <1>8 DEF ReadClock, ClaimNothing, Return, Crash, Holds, Idle, TypeOK, Memory
    <2>2. QED
      BY <1>1, <1>8, <2>1 DEF ReadClock, ClaimNothing, Return, Crash, TypeOK
  <1>9. ASSUME UNCHANGED queueVars PROVE Owns
    BY <1>1, <1>9 DEF queueVars
  <1>10. ASSUME OperatorRecover PROVE Owns
    BY <1>3, <1>10 DEF OperatorRecover
  <1> HIDE DEF Owns
  <1>11. Owns
    BY <1>2, <1>4, <1>5, <1>6, <1>7, <1>8, <1>9, <1>10 DEF QueueNext, WorkerStep
  <1>12. QED
    BY <1>11 DEF Owns

\* Attempts grow in Claim only, where one is left; a failure that puts the
\* job back read the row's own count.
LEMMA StepAttempts ==
  FailStopInv /\ [QueueNext]_queueVars => AttemptsBounded' /\ AttemptsCounted'
  <1> SUFFICES ASSUME FailStopInv, [QueueNext]_queueVars, NEW m \in Messages
               PROVE  /\ job'[m].attempts <= MaxAttempts
                      /\ job'[m].state = "queued" =>
                           /\ job'[m].attempts < MaxAttempts
                           /\ job'[m].attempts = 0 => job'[m].available # NotYet
                      /\ job'[m].state = "processing" => job'[m].attempts > 0
    BY DEF AttemptsBounded, AttemptsCounted
  <1> DEFINE Counted == /\ job'[m].attempts <= MaxAttempts
                        /\ job'[m].state = "queued" =>
                             /\ job'[m].attempts < MaxAttempts
                             /\ job'[m].attempts = 0 => job'[m].available # NotYet
                        /\ job'[m].state = "processing" => job'[m].attempts > 0
  <1>1. /\ TypeOK /\ HolderOwnsRow /\ job[m] \in JobRow /\ MaxAttempts \in Nat
        /\ job[m].attempts <= MaxAttempts /\ MaxAttempts > 0
        /\ job[m].state = "queued" =>
             job[m].attempts < MaxAttempts /\ (job[m].attempts = 0 => job[m].available # NotYet)
        /\ job[m].state = "processing" => job[m].attempts > 0
    BY MaxAttemptsType DEF FailStopInv, TypeOK, AttemptsBounded, AttemptsCounted
  <1>2. ASSUME job'[m] = job[m] PROVE Counted
    BY <1>1, <1>2
  <1>3. ASSUME NEW n \in Messages, Enqueue(n) \/ Retry(n) PROVE Counted
    <2>1. PICK t \in Instants : job' = [job EXCEPT ![n] = FreshRow(t)]
      BY <1>3 DEF Enqueue, Retry
    <2>2. CASE n = m
      BY <1>1, <2>1, <2>2, InstantsType DEF FreshRow, TypeOK
    <2>3. CASE n # m
      BY <1>2, <2>1, <2>3 DEF TypeOK
    <2>4. QED
      BY <2>2, <2>3
  <1>4. ASSUME NEW n \in Messages, Dismiss(n) \/ BackoffElapses(n) \/ LeaseExpires(n)
        PROVE  Counted
    <2>1. CASE n # m
      BY <1>1, <1>2, <1>4, <2>1 DEF Dismiss, BackoffElapses, LeaseExpires, ExpireLease, TypeOK
    <2>2. CASE n = m /\ Dismiss(n)
      BY <1>1, <2>2 DEF Dismiss, TypeOK, JobRow
    <2>3. CASE n = m /\ BackoffElapses(n)
      <3>1. PICK t \in Instants : job'[m] = [job[m] EXCEPT !.available = t]
        BY <1>1, <2>3 DEF BackoffElapses, TypeOK
      <3>2. /\ job'[m].available = t /\ job'[m].attempts = job[m].attempts
            /\ job'[m].state = job[m].state
        BY <1>1, <3>1 DEF JobRow
      <3>3. QED
        BY <1>1, <3>2, InstantsType
    <2>4. CASE n = m /\ LeaseExpires(n)
      <3>1. job'[m] = [job[m] EXCEPT !.lease = "expired"]
        BY <1>1, <2>4 DEF LeaseExpires, ExpireLease, TypeOK
      <3>2. /\ job'[m].available = job[m].available /\ job'[m].attempts = job[m].attempts
            /\ job'[m].state = job[m].state
        BY <1>1, <3>1 DEF JobRow
      <3>3. QED
        BY <1>1, <3>2
    <2>5. QED
      BY <1>4, <2>1, <2>2, <2>3, <2>4
  <1>5. ASSUME NEW w \in Workers, NEW n \in Messages, Claim(w, n) PROVE Counted
    BY <1>1, <1>5 DEF Claim, Claimable, Due, TypeOK, JobRow
  <1>6. ASSUME RecoverRows PROVE Counted
    BY <1>1, <1>2, <1>6, RecoveredRow, InstantsType DEF Stale, JobRow
  <1>7. ASSUME NEW w \in Workers, Fail(w) PROVE Counted
    <2>1. FailJob(w) /\ Holds(w) /\ worker[w].pc = "running"
      BY <1>7 DEF Fail, Holds
    <2>2. worker[w].job = m =>
            worker[w].attempts = job[m].attempts /\ job[m].state = "processing"
      BY <1>1, <2>1, HeldRow
    <2>3. QED
      BY <1>1, <1>2, <2>1, <2>2, FailedRow DEF JobRow
  <1>8. ASSUME NEW w \in Workers, Complete(w) PROVE Counted
    BY <1>1, <1>8 DEF Complete, TypeOK, JobRow
  <1>9. ASSUME UNCHANGED job PROVE Counted
    BY <1>2, <1>9
  <1> HIDE DEF Counted
  <1>10. Counted
    BY <1>3, <1>4, <1>5, <1>6, <1>7, <1>8, <1>9
       DEF QueueNext, WorkerStep, RecoverStale, ReadClock, ClaimNothing, ReadClaim, Return,
           OperatorRecover, Crash, queueVars
  <1>11. QED
    BY <1>10 DEF Counted

\* The invariant that carries every result of this part.
LEMMA FailStopInductive == QueueSpec => []FailStopInv
  <1>1. QueueInit => FailStopInv
    <2> SUFFICES ASSUME QueueInit PROVE FailStopInv
      OBVIOUS
    <2>1. TypeOK
      BY InitTypeOK
    <2>2. OneProcessingPerConversation /\ RowsAgree
      BY DEF QueueInit, OneProcessingPerConversation, RowsAgree, NoRow, FreshRow, EventsOf
    <2>3. HolderOwnsRow /\ AttemptsBounded /\ AttemptsCounted
      BY MaxAttemptsType
         DEF QueueInit, HolderOwnsRow, AttemptsBounded, AttemptsCounted, Holds, Idle, NoRow,
             FreshRow, NotYet
    <2>4. QED
      BY <2>1, <2>2, <2>3 DEF FailStopInv
  <1>2. FailStopInv /\ [QueueNext]_queueVars => FailStopInv'
    BY QueueIsStall, StepTypeOK, StepOneProcessing, StepRowsAgree, StepHolderOwnsRow,
       StepAttempts DEF FailStopInv
  <1>3. QED
    BY <1>1, <1>2, PTL DEF QueueSpec

\* A worker that holds a job owns its row: the unchecked writes of fail and of
\* the completion hit a row that is still the worker's.
THEOREM Ownership == QueueSpec => []HolderOwnsRow
  <1>1. FailStopInv => HolderOwnsRow
    BY DEF FailStopInv
  <1>2. QED
    BY <1>1, FailStopInductive, PTL

\* Two holders own two rows, and two 'processing' rows are unrelated.
LEMMA InvExclusive == FailStopInv => ConversationExclusive
  <1> SUFFICES ASSUME FailStopInv, NEW v \in Workers, NEW w \in Workers,
                      v # w, Holds(v), Holds(w), Related(worker[v].job, worker[w].job)
               PROVE  FALSE
    BY DEF ConversationExclusive
  <1>1. /\ worker[v].job \in Messages /\ worker[w].job \in Messages
        /\ job[worker[v].job].state = "processing" /\ job[worker[v].job].owner = v
        /\ job[worker[w].job].state = "processing" /\ job[worker[w].job].owner = w
    BY HeldRow DEF FailStopInv
  <1>2. worker[v].job = worker[w].job
    BY <1>1 DEF FailStopInv, OneProcessingPerConversation
  <1>3. QED
    BY <1>1, <1>2

\* No two workers ever hold jobs of one conversation.
THEOREM Exclusion == QueueSpec => []ConversationExclusive
  BY FailStopInductive, InvExclusive, PTL

\* No job is started more than MaxAttempts times between operators' retries.
THEOREM BoundedAttempts == QueueSpec => []AttemptsBounded
  <1>1. FailStopInv => AttemptsBounded
    BY DEF FailStopInv
  <1>2. QED
    BY <1>1, FailStopInductive, PTL

\* A job that waits has an attempt left, one never tried is due at once, and one
\* in process has used one: fail and recover_stale count as claim_next does.
THEOREM CountedAttempts == QueueSpec => []AttemptsCounted
  <1>1. FailStopInv => AttemptsCounted
    BY DEF FailStopInv
  <1>2. QED
    BY <1>1, FailStopInductive, PTL

-----------------------------------------------------------------------------
(* Action properties of QueueSpec *)

\* A dead letter's row is written by Retry and Dismiss only.
THEOREM TerminalDeadLetters == QueueSpec => DeadLetterIsFinal
  <1> DEFINE A == \A m \in Messages : job[m].state = "dead_letter" =>
                    \/ job'[m].state \in {"dead_letter", "dismissed"}
                    \/ job'[m].state = "queued" /\ job'[m].attempts = 0
  <1>1. FailStopInv /\ [QueueNext]_queueVars => [A]_queueVars
    <2> SUFFICES ASSUME FailStopInv, QueueNext, NEW m \in Messages,
                        job[m].state = "dead_letter"
                 PROVE  \/ job'[m].state \in {"dead_letter", "dismissed"}
                        \/ job'[m].state = "queued" /\ job'[m].attempts = 0
      OBVIOUS
    <2>1. TypeOK /\ HolderOwnsRow /\ job[m] \in JobRow
      BY DEF FailStopInv, TypeOK
    <2>2. ASSUME NEW n \in Messages,
                 Enqueue(n) \/ Retry(n) \/ Dismiss(n) \/ BackoffElapses(n) \/ LeaseExpires(n)
          PROVE  \/ job'[m].state \in {"dead_letter", "dismissed"}
                 \/ job'[m].state = "queued" /\ job'[m].attempts = 0
      BY <2>1, <2>2 DEF Enqueue, Ingested, Retry, Dismiss, BackoffElapses, LeaseExpires,
                        ExpireLease, FreshRow, TypeOK, JobRow
    <2>3. ASSUME RecoverRows PROVE job'[m] = job[m]
      BY <2>1, <2>3, RecoveredRow DEF Stale
    <2>4. ASSUME NEW w \in Workers, NEW n \in Messages, Claim(w, n) PROVE job'[m] = job[m]
      BY <2>1, <2>4 DEF Claim, Claimable, Due, TypeOK
    <2>5. ASSUME NEW w \in Workers, Fail(w) \/ Complete(w) PROVE job'[m] = job[m]
      <3>1. Holds(w) /\ worker[w].job # m
        BY <2>1, <2>5, HeldRow DEF Fail, Complete, Holds
      <3>2. QED
        BY <2>1, <2>5, <3>1 DEF Fail, FailJob, Exhausted, Complete, TypeOK
    <2>6. QED
      BY <2>2, <2>3, <2>4, <2>5
         DEF QueueNext, WorkerStep, RecoverStale, ReadClock, ClaimNothing, ReadClaim, Return,
             OperatorRecover, Crash
  <1>2. QED
    BY <1>1, FailStopInductive, PTL DEF QueueSpec, DeadLetterIsFinal

\* Completed and dismissed jobs are out of every handler's reach.
THEOREM DoneForGood == QueueSpec => DoneIsFinal
  <1> DEFINE A == \A m \in Messages : job[m].state \in {"completed", "dismissed"} =>
                    job'[m] = job[m] /\ event'[m] = event[m]
  <1>1. FailStopInv /\ [QueueNext]_queueVars => [A]_queueVars
    <2> SUFFICES ASSUME FailStopInv, QueueNext, NEW m \in Messages,
                        job[m].state \in {"completed", "dismissed"}
                 PROVE  job'[m] = job[m] /\ event'[m] = event[m]
      OBVIOUS
    <2>1. /\ TypeOK /\ HolderOwnsRow /\ RowsAgree /\ job[m].lease = "none"
          /\ job[m].state \notin {"absent", "queued", "processing", "dead_letter"}
      BY DEF FailStopInv, RowsAgree
    <2>2. ASSUME NEW n \in Messages,
                 Enqueue(n) \/ Retry(n) \/ Dismiss(n) \/ BackoffElapses(n) \/ LeaseExpires(n)
          PROVE  job'[m] = job[m] /\ event'[m] = event[m]
      <3>1. n # m
        BY <2>1, <2>2 DEF Enqueue, Ingested, Retry, Dismiss, BackoffElapses, LeaseExpires,
                          ExpireLease
      <3>2. QED
        BY <2>1, <2>2, <3>1 DEF Enqueue, Retry, Dismiss, BackoffElapses, LeaseExpires,
                                ExpireLease, TypeOK
    <2>3. ASSUME RecoverRows PROVE job'[m] = job[m] /\ event'[m] = event[m]
      BY <2>1, <2>3, RecoveredRow DEF Stale
    <2>4. ASSUME NEW w \in Workers, NEW n \in Messages, Claim(w, n)
          PROVE  job'[m] = job[m] /\ event'[m] = event[m]
      BY <2>1, <2>4 DEF Claim, Claimable, Due, TypeOK
    <2>5. ASSUME NEW w \in Workers, Fail(w) \/ Complete(w)
          PROVE  job'[m] = job[m] /\ event'[m] = event[m]
      <3>1. Holds(w) /\ worker[w].job # m
        BY <2>1, <2>5, HeldRow DEF Fail, Complete, Holds
      <3>2. QED
        BY <2>1, <2>5, <3>1 DEF Fail, FailJob, Exhausted, Complete, TypeOK
    <2>6. QED
      BY <2>2, <2>3, <2>4, <2>5
         DEF QueueNext, WorkerStep, RecoverStale, ReadClock, ClaimNothing, ReadClaim, Return,
             OperatorRecover, Crash
  <1>2. QED
    BY <1>1, FailStopInductive, PTL DEF QueueSpec, DoneIsFinal

-----------------------------------------------------------------------------
(* QueueSpec implements SerialSpec under the mapping Stage, Tries, On.  Each *)
(* step of the queue is a step of the abstract system or leaves it alone.    *)

\* The initial rows map to the initial abstract state.
LEMMA InitMaps == QueueInit => Abstract!SerialInit
  BY DEF QueueInit, Abstract!SerialInit, Stage, Tries, On, StageOf, NoRow, FreshRow, Idle, Holds

\* Rows alone decide Stage and Tries.
LEMMA SameMaps ==
  ASSUME \A m \in Messages : /\ StageOf(job'[m].state) = StageOf(job[m].state)
                             /\ job'[m].attempts = job[m].attempts
  PROVE  Stage' = Stage /\ Tries' = Tries
  BY DEF Stage, Tries

\* A row that changes alone changes Stage and Tries at its message alone.
LEMMA OneRow ==
  ASSUME NEW m \in Messages, NEW row, job' = [job EXCEPT ![m] = row],
         job \in [Messages -> JobRow]
  PROVE  /\ Stage' = [Stage EXCEPT ![m] = StageOf(row.state)]
         /\ Tries' = [Tries EXCEPT ![m] = row.attempts]
  BY DEF Stage, Tries

\* A bounded count that is exhausted equals the bound.
LEMMA AttemptsUsedUp ==
  ASSUME TypeOK, AttemptsBounded, NEW m \in Messages, job[m].attempts >= MaxAttempts
  PROVE  job[m].attempts = MaxAttempts
  <1>1. job[m].attempts \in Nat
    BY DEF TypeOK, JobRow
  <1>2. QED
    BY <1>1, MaxAttemptsType DEF AttemptsBounded

\* Each step of the queue maps to an abstract step or to a stutter.
LEMMA StepMaps ==
  FailStopInv /\ [QueueNext]_queueVars => [Abstract!SerialNext]_(Abstract!serialVars)
  <1> SUFFICES ASSUME FailStopInv, [QueueNext]_queueVars
               PROVE  Abstract!SerialNext \/ UNCHANGED <<Stage, Tries, On>>
    BY DEF Abstract!serialVars
  <1> USE DEF FailStopInv
  <1> DEFINE Stutter == UNCHANGED <<Stage, Tries, On>>
  <1>0. TypeOK /\ HolderOwnsRow /\ AttemptsBounded
    OBVIOUS
  <1>1. ASSUME NEW m \in Messages, Enqueue(m) PROVE Abstract!Accept(m)
    <2>1. /\ Stage' = [Stage EXCEPT ![m] = "open"]
          /\ Tries' = [Tries EXCEPT ![m] = 0]
      <3>1. PICK t \in Instants : /\ Stage' = [Stage EXCEPT ![m] = StageOf(FreshRow(t).state)]
                                 /\ Tries' = [Tries EXCEPT ![m] = FreshRow(t).attempts]
        BY <1>1, OneRow DEF Enqueue, TypeOK
      <3>2. StageOf(FreshRow(t).state) = "open" /\ FreshRow(t).attempts = 0
        BY DEF FreshRow, StageOf
      <3>3. QED
        BY <3>1, <3>2
    <2>2. Stage[m] = "absent"
      BY <1>1 DEF Enqueue, Ingested, Stage, StageOf
    <2>3. On' = On
      BY <1>1 DEF Enqueue, On, Holds
    <2>4. QED
      BY <2>1, <2>2, <2>3 DEF Abstract!Accept
  <1>2. ASSUME NEW m \in Messages, Retry(m) PROVE Abstract!Revive(m)
    <2>1. /\ Stage' = [Stage EXCEPT ![m] = "open"]
          /\ Tries' = [Tries EXCEPT ![m] = 0]
      <3>1. PICK t \in Instants : /\ Stage' = [Stage EXCEPT ![m] = StageOf(FreshRow(t).state)]
                                 /\ Tries' = [Tries EXCEPT ![m] = FreshRow(t).attempts]
        BY <1>2, OneRow DEF Retry, TypeOK
      <3>2. StageOf(FreshRow(t).state) = "open" /\ FreshRow(t).attempts = 0
        BY DEF FreshRow, StageOf
      <3>3. QED
        BY <3>1, <3>2
    <2>2. Stage[m] = "parked"
      BY <1>2 DEF Retry, Stage, StageOf
    <2>3. On' = On
      BY <1>2 DEF Retry, On, Holds
    <2>4. QED
      BY <2>1, <2>2, <2>3 DEF Abstract!Revive
  <1>3. ASSUME NEW m \in Messages, Dismiss(m) PROVE Abstract!Drop(m)
    <2>1. Stage' = [Stage EXCEPT ![m] = "dropped"]
      BY <1>3 DEF Dismiss, Stage, StageOf, TypeOK, JobRow
    <2>2. Tries' = Tries /\ On' = On
      BY <1>3 DEF Dismiss, Tries, On, Holds, TypeOK, JobRow
    <2>3. Stage[m] = "parked"
      BY <1>3 DEF Dismiss, Stage, StageOf
    <2>4. QED
      BY <2>1, <2>2, <2>3 DEF Abstract!Drop
  <1>4. ASSUME NEW m \in Messages, BackoffElapses(m) \/ LeaseExpires(m) PROVE Stutter
    <2>1. \A n \in Messages : job'[n].state = job[n].state /\ job'[n].attempts = job[n].attempts
      BY <1>4 DEF BackoffElapses, LeaseExpires, ExpireLease, TypeOK, JobRow
    <2>2. On' = On
      BY <1>4 DEF BackoffElapses, LeaseExpires, ExpireLease, On, Holds
    <2>3. QED
      BY <2>1, <2>2, SameMaps
  <1>5. ASSUME RecoverRows, On' = On PROVE \E S \in SUBSET Messages : Abstract!Park(S)
    <2> DEFINE S == {m \in Messages : Stale(m) /\ job[m].attempts >= MaxAttempts}
    <2>1. ASSUME NEW m \in S
          PROVE  /\ Stage[m] = "open" /\ Tries[m] = MaxAttempts
                 /\ \A w \in Workers : On[w] # m
      <3>1. m \in Messages /\ Stale(m) /\ job[m].attempts = MaxAttempts
        BY <1>0, AttemptsUsedUp
      <3>2. Stage[m] = "open" /\ Tries[m] = MaxAttempts
        BY <3>1 DEF Stale, Stage, StageOf, Tries
      <3>3. \A w \in Workers : On[w] # m
        BY <1>0, <3>1, HeldRow, QueueAssumption DEF Stale, On
      <3>4. QED
        BY <3>2, <3>3
    <2>2. ASSUME NEW m \in Messages
          PROVE  /\ StageOf(job'[m].state) = IF m \in S THEN "parked" ELSE Stage[m]
                 /\ job'[m].attempts = job[m].attempts
      BY <1>0, <1>5, RecoveredRow DEF Stale, Stage, StageOf
    <2>3. Stage' = [m \in Messages |-> IF m \in S THEN "parked" ELSE Stage[m]]
      BY <2>2 DEF Stage
    <2>4. Tries' = Tries
      BY <2>2 DEF Tries
    <2>5. Abstract!Park(S)
      BY <1>5, <2>1, <2>3, <2>4 DEF Abstract!Park
    <2>6. QED
      BY <2>5
  <1>6. ASSUME NEW w \in Workers, RecoverStale(w) PROVE On' = On
    BY <1>6 DEF RecoverStale, On, Holds, TypeOK
  <1>7. ASSUME NEW w \in Workers, NEW m \in Messages, Claim(w, m) PROVE Abstract!Start(w, m)
    <2>1. On[w] = NoJob
      BY <1>7 DEF Claim, On, Holds
    <2>2. Stage[m] = "open" /\ Tries[m] < MaxAttempts
      BY <1>7 DEF Claim, Claimable, Due, Stage, StageOf, Tries, AttemptsCounted
    <2>3. ASSUME NEW v \in Workers, On[v] # NoJob PROVE WorkKey[On[v]] # WorkKey[m]
      <3>1. Holds(v) /\ On[v] = worker[v].job
        BY <2>3 DEF On
      <3>2. QED
        BY <1>0, <1>7, <3>1, HeldRow DEF Claim, Claimable, Due, Related
    <2>4. Stage' = Stage
      BY <1>7 DEF Claim, Claimable, Due, Stage, StageOf, TypeOK, JobRow
    <2>5. Tries' = [Tries EXCEPT ![m] = @ + 1]
      BY <1>7 DEF Claim, Tries, TypeOK, JobRow
    <2>6. On' = [On EXCEPT ![w] = m]
      BY <1>7 DEF Claim, On, Holds, Idle, TypeOK
    <2>7. QED
      BY <2>1, <2>2, <2>3, <2>4, <2>5, <2>6 DEF Abstract!Start
  <1>8. ASSUME NEW w \in Workers,
               ReadClock(w) \/ ClaimNothing(w) \/ ReadClaim(w) \/ Return(w)
        PROVE  Stutter
    <2>1. job' = job
      BY <1>8 DEF ReadClock, ClaimNothing, ReadClaim, Return
    <2>2. On' = On
      BY <1>8 DEF ReadClock, ClaimNothing, ReadClaim, Return, On, Holds, Idle, TypeOK, Memory
    <2>3. QED
      BY <2>1, <2>2 DEF Stage, Tries
  <1>9. ASSUME NEW w \in Workers, Fail(w) PROVE Abstract!GiveUp(w)
    <2> DEFINE n == worker[w].job
    <2>1. /\ Holds(w) /\ n \in Messages /\ On[w] = n /\ n # NoJob
          /\ job[n].state = "processing" /\ worker[w].attempts = job[n].attempts
      BY <1>0, <1>9, HeldRow, QueueAssumption DEF Fail, Holds, On
    <2>2. On' = [On EXCEPT ![w] = NoJob]
      BY <1>9 DEF Fail, FailJob, Exhausted, On, Holds, Idle, TypeOK
    <2>3. Tries' = Tries
      BY <1>0, <1>9, FailedRow DEF Fail, Tries
    <2>4. CASE worker[w].attempts >= MaxAttempts
      <3>1. Tries[n] = MaxAttempts
        BY <1>0, <2>1, <2>4, AttemptsUsedUp DEF Tries
      <3>2. \A m \in Messages : StageOf(job'[m].state) = IF m = n THEN "parked" ELSE StageOf(job[m].state)
        BY <1>0, <1>9, <2>4, FailedRow DEF Fail, StageOf
      <3>3. Stage' = [Stage EXCEPT ![n] = "parked"]
        BY <2>1, <3>2 DEF Stage
      <3>4. QED
        BY <2>1, <2>2, <2>3, <3>1, <3>3 DEF Abstract!GiveUp
    <2>5. CASE ~(worker[w].attempts >= MaxAttempts)
      <3>1. \A m \in Messages : StageOf(job'[m].state) = StageOf(job[m].state)
        BY <1>0, <1>9, <2>1, <2>5, FailedRow DEF Fail, StageOf
      <3>2. Stage' = Stage
        BY <3>1 DEF Stage
      <3>3. QED
        BY <2>1, <2>2, <2>3, <3>2 DEF Abstract!GiveUp
    <2>6. QED
      BY <2>4, <2>5
  <1>10. ASSUME NEW w \in Workers, Complete(w) PROVE Abstract!Finish(w)
    <2> DEFINE n == worker[w].job
    <2>1. n \in Messages /\ On[w] = n /\ n # NoJob
      BY <1>0, <1>10, HeldRow, QueueAssumption DEF Complete, Holds, On
    <2>2. Stage' = [Stage EXCEPT ![n] = "done"]
      BY <1>10, <2>1 DEF Complete, Stage, StageOf, TypeOK, JobRow
    <2>3. Tries' = Tries
      BY <1>10, <2>1 DEF Complete, Tries, TypeOK, JobRow
    <2>4. On' = [On EXCEPT ![w] = NoJob]
      <3>1. \A v \in Workers : v # w => worker'[v] = worker[v]
        BY <1>10 DEF Complete
      <3>2. worker'[w].pc = "finished"
        BY <1>10 DEF Complete, TypeOK, Memory
      <3>3. QED
        BY <3>1, <3>2 DEF On, Holds
    <2>5. QED
      BY <2>1, <2>2, <2>3, <2>4 DEF Abstract!Finish
  <1>11. ASSUME NEW w \in Workers, Crash(w) PROVE Stutter \/ Abstract!GiveUp(w)
    <2>1. Stage' = Stage /\ Tries' = Tries
      BY <1>11 DEF Crash, Stage, Tries
    <2>2. On' = [On EXCEPT ![w] = NoJob]
      BY <1>11 DEF Crash, On, Holds, Idle, TypeOK
    <2>3. CASE On[w] = NoJob
      BY <2>1, <2>2, <2>3 DEF On
    <2>4. CASE On[w] # NoJob
      BY <2>1, <2>2, <2>4 DEF Abstract!GiveUp
    <2>5. QED
      BY <2>3, <2>4
  <1>12. ASSUME OperatorRecover PROVE On' = On
    BY <1>12 DEF OperatorRecover, On, Holds
  <1>13. CASE UNCHANGED queueVars
    BY <1>13 DEF queueVars, Stage, Tries, On, Holds
  <1> HIDE DEF FailStopInv, Stutter
  <1>14. ASSUME QueueNext PROVE Abstract!SerialNext \/ Stutter
    BY <1>1, <1>2, <1>3, <1>4, <1>5, <1>6, <1>7, <1>8, <1>9, <1>10, <1>11, <1>12, <1>14
       DEF QueueNext, WorkerStep, RecoverStale, OperatorRecover, Abstract!SerialNext
  <1>15. QED
    BY <1>13, <1>14 DEF Stutter

\* The queue keeps the promise of SerialWork.
THEOREM Refinement == QueueSpec => ImplementsSerialWork
  BY InitMaps, StepMaps, FailStopInductive, PTL
     DEF QueueSpec, ImplementsSerialWork, Abstract!SerialSpec
=============================================================================
