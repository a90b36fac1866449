--------------------------- MODULE Executor_proofs ---------------------------
(***************************************************************************)
(* Proofs about Executor for every value of its constants.                 *)
(*                                                                         *)
(* Part 1: to the queue, every step of the pipeline is a step of its own,  *)
(* so what JobQueue_proofs shows of the queue holds of the pipeline.       *)
(* Part 2 holds of everything the code can do (OverrunSpec): types, what   *)
(* is on record and what a conversation waits for.  Part 3 is about Spec,  *)
(* where no worker outlives its lease.                                     *)
(***************************************************************************)
EXTENDS Executor, JobQueue_proofs, SequenceTheorems

-----------------------------------------------------------------------------
(* Part 1: the pipeline is a queue *)

\* A step of the pipeline is a step of the queue or leaves the queue alone.
LEMMA PipelineStepsQueue == [Next]_vars => [QueueNext]_queueVars
  <1> SUFFICES ASSUME Next PROVE QueueNext \/ UNCHANGED queueVars
    BY DEF vars
  <1>1. CASE \E m \in Messages : Ingest(m)
    BY <1>1 DEF Ingest, QueueNext
  <1>2. CASE QueueStep
    BY <1>2 DEF QueueStep, QueueNext, WorkerStep
  <1>3. CASE \E w \in Workers : RunOnce(w) \/ KillWorker(w)
    BY <1>3 DEF RunOnce, KillWorker, FindAction, GenerateAction, ReadMode, FindExecution, Execute,
                CompleteJob, AbandonJob, QueueNext, WorkerStep
  <1>4. CASE Operate
    BY <1>4 DEF Operate, EditReview, TransitionReview, SetConversationStatus, SetMode
  <1>5. QED
    BY <1>1, <1>2, <1>3, <1>4 DEF Next

\* The same for the steps in which a worker outlives its lease.
LEMMA OverrunStepsQueue == [OverrunNext]_vars => [StallNext]_queueVars
  <1> SUFFICES ASSUME OverrunNext PROVE StallNext \/ UNCHANGED queueVars
    BY DEF vars
  <1>1. CASE Next
    BY <1>1, PipelineStepsQueue DEF StallNext
  <1>2. CASE \E m \in Messages : LeaseOverrun(m) /\ UNCHANGED pipelineVars
    BY <1>2 DEF StallNext
  <1>3. CASE \E w \in Workers : ShutdownAfterCommit(w) /\ EmptyHanded(w)
    BY <1>3 DEF StallNext
  <1>4. QED
    BY <1>1, <1>2, <1>3 DEF OverrunNext

\* Whatever the pipeline does, its jobs are a queue's.
LEMMA OverrunIsStall == OverrunSpec => StallSpec
  <1>1. Init => QueueInit
    BY DEF Init
  <1>2. QED
    BY <1>1, OverrunStepsQueue, PTL DEF OverrunSpec, StallSpec

\* The pipeline of workers that keep to their leases implements the queue of
\* such workers.
LEMMA PipelineIsQueue == Spec => QueueSpec
  <1>1. Init => QueueInit
    BY DEF Init
  <1>2. QED
    BY <1>1, PipelineStepsQueue, PTL DEF Spec, QueueSpec

\* And so it keeps the abstract promise: with actions, reviews and modes around
\* it, a message's work is still done serially, boundedly and once.
THEOREM PipelineSerialWork == Spec => ImplementsSerialWork
  BY PipelineIsQueue, Refinement, PTL

\* What holds of everything the code can do holds of the fail-stop pipeline.
LEMMA SpecIsOverrun == Spec => OverrunSpec
  <1>1. [Next]_vars => [OverrunNext]_vars
    BY DEF OverrunNext
  <1>2. QED
    BY <1>1, PTL DEF Spec, OverrunSpec

-----------------------------------------------------------------------------
(* Part 2: OverrunSpec.  First, how the table of actions changes. *)

\* Row i of job m becomes "row"; no other row is touched.
OneRowChanged(m, i, row) ==
    /\ actions' \in [Messages -> Seq(ActionRow)]
    /\ \A n \in Messages : DOMAIN actions'[n] = DOMAIN actions[n]
    /\ actions'[m][i] = row
    /\ \A n \in Messages : \A j \in DOMAIN actions[n] :
         n # m \/ j # i => actions'[n][j] = actions[n][j]

\* Job m gets "row" as its newest; no other row is touched.
OneRowAdded(m, row) ==
    /\ actions' \in [Messages -> Seq(ActionRow)]
    /\ DOMAIN actions'[m] = DOMAIN actions[m] \cup {Len(actions[m]) + 1}
    /\ Len(actions[m]) + 1 \notin DOMAIN actions[m]
    /\ Len(actions'[m]) = Len(actions[m]) + 1
    /\ actions'[m][Len(actions[m]) + 1] = row
    /\ \A n \in Messages : n # m => actions'[n] = actions[n]
    /\ \A j \in DOMAIN actions[m] : actions'[m][j] = actions[m][j]

\* Writing one row is OneRowChanged, and appending one is OneRowAdded.
LEMMA ChangeRow ==
  ASSUME actions \in [Messages -> Seq(ActionRow)], NEW m \in Messages, NEW i \in DOMAIN actions[m],
         NEW row \in ActionRow, actions' = [actions EXCEPT ![m] = [@ EXCEPT ![i] = row]]
  PROVE  OneRowChanged(m, i, row)
  <1> DEFINE s == actions[m]
             t == [s EXCEPT ![i] = row]
  <1>1. s \in Seq(ActionRow) /\ i \in 1..Len(s)
    BY LenProperties
  <1>2. /\ t \in Seq(ActionRow) /\ DOMAIN t = DOMAIN s
        /\ t[i] = row /\ \A j \in DOMAIN s : j # i => t[j] = s[j]
    <2>1. t \in Seq(ActionRow)
      BY <1>1, ExceptSeq
    <2>2. QED
      BY <2>1
  <1>3. actions'[m] = t /\ \A n \in Messages : n # m => actions'[n] = actions[n]
    OBVIOUS
  <1>4. actions' \in [Messages -> Seq(ActionRow)]
    BY <1>2
  <1> HIDE DEF t
  <1>5. QED
    BY <1>2, <1>3, <1>4 DEF OneRowChanged

\* Appending a row to a job's actions adds that row and no other.
LEMMA AddRow ==
  ASSUME actions \in [Messages -> Seq(ActionRow)], NEW m \in Messages, NEW row \in ActionRow,
         actions' = [actions EXCEPT ![m] = Append(@, row)]
  PROVE  OneRowAdded(m, row)
  <1> DEFINE s == actions[m]
             t == Append(s, row)
  <1>1. s \in Seq(ActionRow)
    OBVIOUS
  <1>2. /\ t \in Seq(ActionRow) /\ Len(t) = Len(s) + 1 /\ Len(s) \in Nat
        /\ DOMAIN s = 1..Len(s) /\ DOMAIN t = 1..(Len(s) + 1)
        /\ t[Len(s) + 1] = row /\ \A j \in 1..Len(s) : t[j] = s[j]
    BY <1>1, AppendProperties, LenProperties
  <1>3. actions'[m] = t /\ \A n \in Messages : n # m => actions'[n] = actions[n]
    OBVIOUS
  <1>4. actions' \in [Messages -> Seq(ActionRow)]
    BY <1>2
  <1> HIDE DEF t
  <1>5. QED
    BY <1>2, <1>3, <1>4 DEF OneRowAdded

\* What a worker writes, and what an operator writes, are rows again.
LEMMA NewActionType ==
  ASSUME NEW kind \in {"draft", "escalation"}, NEW outcome \in Outcomes
  PROVE  NewAction(kind, outcome) \in ActionRow
  BY ExecutorAssumption DEF NewAction, ActionRow, ActionStates, ReviewStatuses

ExecutedRow(a, status, ranIn) ==
    [a EXCEPT !.execution = status, !.ranIn = ranIn, !.state = StateAfter(a.outcome, status)]

\* A row that was executed is still a row.
LEMMA ExecutedRowType ==
  ASSUME NEW a \in ActionRow, NEW status \in {"suppressed", "executed"},
         NEW ranIn \in Modes \cup {"none"}
  PROVE  /\ ExecutedRow(a, status, ranIn) \in ActionRow
         /\ ExecutedRow(a, status, ranIn).execution = status
         /\ ExecutedRow(a, status, ranIn).ranIn = ranIn
         /\ ExecutedRow(a, status, ranIn).outcome = a.outcome
         /\ ExecutedRow(a, status, ranIn).kind = a.kind
         /\ ExecutedRow(a, status, ranIn).review = a.review
         /\ ExecutedRow(a, status, ranIn).version = a.version
  <1>1. StateAfter(a.outcome, status) \in ActionStates
    BY DEF StateAfter, ActionStates
  <1>2. QED
    BY <1>1 DEF ExecutedRow, ActionRow

\* A row whose draft was edited is still a row.
LEMMA EditedRowType ==
  ASSUME NEW a \in ActionRow, a.version < MaxVersion
  PROVE  /\ [a EXCEPT !.version = @ + 1] \in ActionRow
         /\ [a EXCEPT !.version = @ + 1].review = a.review
         /\ [a EXCEPT !.version = @ + 1].outcome = a.outcome
         /\ [a EXCEPT !.version = @ + 1].kind = a.kind
         /\ [a EXCEPT !.version = @ + 1].execution = a.execution
         /\ [a EXCEPT !.version = @ + 1].ranIn = a.ranIn
  BY ExecutorAssumption DEF ActionRow

ReviewedRow(a, target) == [a EXCEPT !.review = target, !.state = target]

\* A row that was reviewed is still a row.
LEMMA ReviewedRowType ==
  ASSUME NEW a \in ActionRow, NEW target \in {"prepared", "rejected", "resolved"}
  PROVE  /\ ReviewedRow(a, target) \in ActionRow
         /\ ReviewedRow(a, target).review = target
         /\ ReviewedRow(a, target).outcome = a.outcome
         /\ ReviewedRow(a, target).kind = a.kind
         /\ ReviewedRow(a, target).execution = a.execution
         /\ ReviewedRow(a, target).ranIn = a.ranIn
         /\ ReviewedRow(a, target).version = a.version
  BY DEF ReviewedRow, ActionRow, ActionStates, ReviewStatuses

\* What a worker carries: nothing while it does not run a job, and otherwise an
\* action of that job, and at the end one whose execution is on record.
Recorded(m) == \E i \in DOMAIN actions[m] : actions[m][i].execution # "none"

RecordedNext(m) == \E i \in DOMAIN actions'[m] : actions'[m][i].execution # "none"

HandsOn ==
    \A w \in Workers :
        /\ worker[w].pc # "running" => hand[w] = EmptyHand
        /\ hand[w].stage \in {"planned", "moded", "unexecuted"} =>
             hand[w].action \in DOMAIN actions[JobOf(w)]
        /\ hand[w].stage = "executed" => Recorded(JobOf(w))

\* A worker at work has a job in hand.
LEMMA Running ==
  ASSUME TypeOK, NEW w \in Workers, worker[w].pc = "running"
  PROVE  JobOf(w) \in Messages /\ worker[w].attempts \in Nat
  BY DEF TypeOK, Memory, JobOf

\* Each of the four writers changes or adds the one row its name says.
LEMMA ExecuteRow ==
  ASSUME TypeOK, PipelineTypeOK, HandsOn, NEW w \in Workers, Execute(w)
  PROVE  LET status == DecideExecution(hand[w].mode, InHand(w).outcome, JobOf(w))
         IN  /\ JobOf(w) \in Messages /\ hand[w].action \in DOMAIN actions[JobOf(w)]
             /\ InHand(w) \in ActionRow /\ hand[w].mode \in Modes \cup {"none"}
             /\ status \in {"suppressed", "executed"}
             /\ OneRowChanged(JobOf(w), hand[w].action, ExecutedRow(InHand(w), status, hand[w].mode))
  <1> DEFINE m == JobOf(w)
             i == hand[w].action
             status == DecideExecution(hand[w].mode, InHand(w).outcome, m)
             row == ExecutedRow(InHand(w), status, hand[w].mode)
  <1>1. m \in Messages /\ i \in DOMAIN actions[m]
    BY Running DEF Execute, At, HandsOn
  <1>2. actions \in [Messages -> Seq(ActionRow)] /\ hand[w].mode \in Modes \cup {"none"}
    BY DEF PipelineTypeOK, Hand
  <1>3. InHand(w) \in ActionRow
    <2>1. actions[m] \in Seq(ActionRow)
      BY <1>1, <1>2
    <2>2. QED
      BY <1>1, <2>1, ElementOfSeq, LenProperties DEF InHand
  <1>4. status \in {"suppressed", "executed"}
    BY DEF DecideExecution
  <1>5. row \in ActionRow
    BY <1>2, <1>3, <1>4, ExecutedRowType
  <1>6. actions' = [actions EXCEPT ![m] = [@ EXCEPT ![i] = row]]
    BY <1>1, <1>2 DEF Execute, ExecutedRow, InHand
  <1> HIDE DEF row, status
  <1>7. OneRowChanged(m, i, row)
    BY <1>1, <1>2, <1>5, <1>6, ChangeRow
  <1>8. QED
    BY <1>1, <1>2, <1>3, <1>4, <1>7 DEF row, status

\* Editing a draft changes its row only.
LEMMA EditRow ==
  ASSUME PipelineTypeOK, NEW m \in Messages, NEW i \in DOMAIN actions[m], EditReview(m, i)
  PROVE  /\ actions[m][i] \in ActionRow
         /\ OneRowChanged(m, i, [actions[m][i] EXCEPT !.version = @ + 1])
  <1> DEFINE row == [actions[m][i] EXCEPT !.version = @ + 1]
  <1>1. actions \in [Messages -> Seq(ActionRow)] /\ actions[m] \in Seq(ActionRow)
    BY DEF PipelineTypeOK
  <1>2. actions[m][i] \in ActionRow
    BY <1>1, ElementOfSeq, LenProperties
  <1>3. row \in ActionRow
    BY <1>2, EditedRowType DEF EditReview
  <1>4. actions' = [actions EXCEPT ![m] = [@ EXCEPT ![i] = row]]
    BY <1>1 DEF EditReview
  <1> HIDE DEF row
  <1>5. OneRowChanged(m, i, row)
    BY <1>1, <1>3, <1>4, ChangeRow
  <1>6. QED
    BY <1>2, <1>5 DEF row

\* Deciding a review changes its row only.
LEMMA ReviewRow ==
  ASSUME PipelineTypeOK, NEW m \in Messages, NEW i \in DOMAIN actions[m], NEW target,
         TransitionReview(m, i, target)
  PROVE  /\ actions[m][i] \in ActionRow /\ target \in {"prepared", "rejected", "resolved"}
         /\ OneRowChanged(m, i, ReviewedRow(actions[m][i], target))
  <1> DEFINE row == ReviewedRow(actions[m][i], target)
  <1>1. actions \in [Messages -> Seq(ActionRow)] /\ actions[m] \in Seq(ActionRow)
    BY DEF PipelineTypeOK
  <1>2. actions[m][i] \in ActionRow
    BY <1>1, ElementOfSeq, LenProperties
  <1>3. target \in {"prepared", "rejected", "resolved"}
    BY DEF TransitionReview
  <1>4. row \in ActionRow
    BY <1>2, <1>3, ReviewedRowType
  <1>5. actions' = [actions EXCEPT ![m] = [@ EXCEPT ![i] = row]]
    BY <1>1 DEF TransitionReview, ReviewedRow
  <1> HIDE DEF row
  <1>6. OneRowChanged(m, i, row)
    BY <1>1, <1>4, <1>5, ChangeRow
  <1>7. QED
    BY <1>2, <1>3, <1>6 DEF row

\* The row GenerateAction writes.
Planned(m) ==
    NewAction(IF ActionType(m) = "draft_reply" THEN "draft" ELSE "escalation", Decide(ActionType(m)))

\* Planning adds one row: an action for a human to review, not executed.
LEMMA PlanRow ==
  ASSUME TypeOK, PipelineTypeOK, NEW w \in Workers, GenerateAction(w)
  PROVE  /\ JobOf(w) \in Messages /\ Planned(JobOf(w)) \in ActionRow
         /\ Planned(JobOf(w)).outcome \in {"escalated", "pending_approval"}
         /\ Planned(JobOf(w)).review = "pending"
         /\ Planned(JobOf(w)).execution = "none"
         /\ OneRowAdded(JobOf(w), Planned(JobOf(w)))
  <1> DEFINE m == JobOf(w)
  <1>1. m \in Messages /\ actions \in [Messages -> Seq(ActionRow)]
    BY Running DEF GenerateAction, At, PipelineTypeOK
  <1>2. Decide(ActionType(m)) \in {"escalated", "pending_approval"}
    BY DEF Decide, ActionType
  <1>3. Planned(m) \in ActionRow
    BY <1>2, NewActionType DEF Planned, Outcomes
  <1>4. /\ Planned(m).outcome \in {"escalated", "pending_approval"}
        /\ Planned(m).review = "pending" /\ Planned(m).execution = "none"
    BY <1>2 DEF Planned, NewAction
  <1>5. actions' = [actions EXCEPT ![m] = Append(@, Planned(m))]
    BY DEF GenerateAction, Planned
  <1>6. QED
    BY <1>1, <1>3, <1>4, <1>5, AddRow

-----------------------------------------------------------------------------
(* The steps of OverrunSpec, by what they leave alone. *)

\* Steps of the queue that neither begin with a worker at work nor end there.
QuietStep == QueueStep \/ \E m \in Messages : LeaseOverrun(m) /\ UNCHANGED pipelineVars

LookUp(w) == FindAction(w) \/ ReadMode(w) \/ FindExecution(w)

\* The attempt ends without a completion.
DropJob(w) == (Fail(w) \/ Crash(w) \/ ShutdownAfterCommit(w)) /\ EmptyHanded(w)

\* Every step is one of these.
LEMMA StepCases ==
  ASSUME [OverrunNext]_vars
  PROVE  \/ UNCHANGED vars
         \/ \E m \in Messages : Ingest(m)
         \/ QuietStep
         \/ \E w \in Workers : LookUp(w)
         \/ \E w \in Workers : GenerateAction(w)
         \/ \E w \in Workers : Execute(w)
         \/ \E w \in Workers : CompleteJob(w)
         \/ \E w \in Workers : DropJob(w)
         \/ \E m \in Messages : \E i \in DOMAIN actions[m] : EditReview(m, i)
         \/ \E m \in Messages : \E i \in DOMAIN actions[m] :
              \E target \in ReviewStatuses : TransitionReview(m, i, target)
         \/ \E c \in Conversations, status \in {"open", "resolved"} : SetConversationStatus(c, status)
         \/ \E newMode \in Modes : SetMode(newMode)
  BY DEF OverrunNext, Next, QuietStep, LookUp, DropJob, RunOnce, AbandonJob, KillWorker, Operate

\* A quiet step changes no row of the pipeline and no worker at work.
LEMMA QuietKeeps ==
  ASSUME QuietStep
  PROVE  /\ UNCHANGED pipelineVars
         /\ \A v \in Workers : worker[v].pc = "running" => worker'[v] = worker[v]
  <1>1. UNCHANGED pipelineVars
    BY DEF QuietStep, QueueStep
  <1>2. ASSUME NEW v \in Workers, worker[v].pc = "running" PROVE worker'[v] = worker[v]
    <2>1. CASE \E m \in Messages : Retry(m) \/ Dismiss(m) \/ BackoffElapses(m) \/ LeaseExpires(m)
      BY <2>1 DEF Retry, Dismiss, BackoffElapses, LeaseExpires, ExpireLease
    <2>2. CASE \E w \in Workers : RecoverStale(w) \/ ReadClock(w) \/ ClaimNothing(w)
                                    \/ ReadClaim(w) \/ Return(w)
      <3>1. PICK w \in Workers : /\ worker[w].pc # "running"
                                 /\ \E memory : worker' = [worker EXCEPT ![w] = memory]
        BY <2>2 DEF RecoverStale, ReadClock, ClaimNothing, ReadClaim, Return
      <3>2. QED
        BY <1>2, <3>1
    <2>3. CASE \E w \in Workers, m \in Messages : Claim(w, m)
      BY <1>2, <2>3 DEF Claim
    <2>4. CASE OperatorRecover
      BY <2>4 DEF OperatorRecover
    <2>5. CASE \E m \in Messages : LeaseOverrun(m)
      BY <2>5 DEF LeaseOverrun, ExpireLease
    <2>6. QED
      BY <2>1, <2>2, <2>3, <2>4, <2>5 DEF QuietStep, QueueStep
  <1>3. QED
    BY <1>1, <1>2

\* Nor does it complete a job.
LEMMA QuietCompletesNone ==
  ASSUME TypeOK, QuietStep, NEW m \in Messages, job'[m].state = "completed"
  PROVE  job[m].state = "completed"
  <1>1. job \in [Messages -> JobRow]
    BY DEF TypeOK
  <1>2. CASE \E n \in Messages : Retry(n) \/ Dismiss(n) \/ BackoffElapses(n)
    <2>1. PICK n \in Messages : Retry(n) \/ Dismiss(n) \/ BackoffElapses(n)
      BY <1>2
    <2>2. PICK t \in Instants \cup {NotYet} :
            \/ job' = [job EXCEPT ![n] = FreshRow(t)] \/ job' = [job EXCEPT ![n].state = "dismissed"]
            \/ job' = [job EXCEPT ![n].available = t]
      BY <2>1 DEF Retry, Dismiss, BackoffElapses
    <2>3. \/ job'[m] = job[m] \/ job'[m] = FreshRow(t) \/ job'[m] = [job[m] EXCEPT !.state = "dismissed"]
          \/ job'[m] = [job[m] EXCEPT !.available = t]
      BY <1>1, <2>2
    <2>4. job[m] \in JobRow
      BY <1>1
    <2>5. QED
      BY <2>3, <2>4 DEF FreshRow, JobRow
  <1>3. CASE \E n \in Messages : LeaseExpires(n) \/ LeaseOverrun(n)
    BY <1>1, <1>3 DEF LeaseExpires, LeaseOverrun, ExpireLease, JobRow
  <1>4. CASE \E w \in Workers : ReadClock(w) \/ ClaimNothing(w) \/ ReadClaim(w) \/ Return(w)
    BY <1>4 DEF ReadClock, ClaimNothing, ReadClaim, Return
  <1>5. CASE \E w \in Workers, n \in Messages : Claim(w, n)
    BY <1>1, <1>5 DEF Claim, JobRow
  <1>6. CASE OperatorRecover \/ \E w \in Workers : RecoverStale(w)
    BY <1>6, RecoveredRow DEF OperatorRecover, RecoverStale
  <1>7. QED
    BY <1>2, <1>3, <1>4, <1>5, <1>6 DEF QuietStep, QueueStep

\* A failed, killed or interrupted attempt completes no job.
LEMMA DropCompletesNone ==
  ASSUME TypeOK, NEW w \in Workers, DropJob(w), NEW m \in Messages, job'[m].state = "completed"
  PROVE  job[m].state = "completed"
  <1>1. CASE Crash(w)
    BY <1>1 DEF Crash
  <1>2. CASE Fail(w) \/ ShutdownAfterCommit(w)
    BY <1>2, FailedRow DEF Fail, ShutdownAfterCommit
  <1>3. QED
    BY <1>1, <1>2 DEF DropJob

\* An attempt that ends leaves its worker with nothing and the others alone.
LEMMA AttemptEnds ==
  ASSUME TypeOK, PipelineTypeOK, NEW w \in Workers, CompleteJob(w) \/ DropJob(w)
  PROVE  /\ UNCHANGED <<actions, conversation, mode>>
         /\ hand' = [hand EXCEPT ![w] = EmptyHand]
         /\ \A v \in Workers : v # w => worker'[v] = worker[v]
  BY DEF CompleteJob, DropJob, EmptyHanded, Complete, Fail, FailJob, Crash, ShutdownAfterCommit,
         TypeOK

\* What a worker looks up changes what it carries and nothing else.
LEMMA LookUpKeeps ==
  ASSUME PipelineTypeOK, NEW w \in Workers, LookUp(w)
  PROVE  /\ UNCHANGED <<queueVars, actions, conversation, mode>>
         /\ worker[w].pc = "running"
         /\ hand' \in [Workers -> Hand]
         /\ \A v \in Workers : v # w => hand'[v] = hand[v]
  <1>1. hand \in [Workers -> Hand] /\ mode \in Modes
    BY DEF PipelineTypeOK
  <1>2. CASE FindAction(w)
    BY <1>1, <1>2 DEF FindAction, MoveOn, Hand, At
  <1>3. CASE ReadMode(w)
    BY <1>1, <1>3 DEF ReadMode, Hand, At
  <1>4. CASE FindExecution(w)
    BY <1>1, <1>4 DEF FindExecution, MoveOn, Hand, At, Executed, EmptyHand
  <1>5. QED
    BY <1>2, <1>3, <1>4 DEF LookUp

\* Which steps write the table of actions, and how.
LEMMA ActionsWritten ==
  ASSUME TypeOK, PipelineTypeOK, HandsOn, [OverrunNext]_vars
  PROVE  \/ UNCHANGED actions
         \/ \E w \in Workers : GenerateAction(w)
         \/ \E w \in Workers : Execute(w)
         \/ \E m \in Messages : \E i \in DOMAIN actions[m] : EditReview(m, i)
         \/ \E m \in Messages : \E i \in DOMAIN actions[m] :
              \E target \in ReviewStatuses : TransitionReview(m, i, target)
  <1>1. (\E m \in Messages : Ingest(m)) => UNCHANGED actions
    BY DEF Ingest
  <1>2. QuietStep => UNCHANGED actions
    BY QuietKeeps DEF pipelineVars
  <1>3. (\E w \in Workers : LookUp(w)) => UNCHANGED actions
    BY LookUpKeeps
  <1>4. (\E w \in Workers : CompleteJob(w) \/ DropJob(w)) => UNCHANGED actions
    BY AttemptEnds
  <1>5. (\E c \in Conversations, status \in {"open", "resolved"} : SetConversationStatus(c, status))
           \/ (\E newMode \in Modes : SetMode(newMode)) => UNCHANGED actions
    BY DEF SetConversationStatus, SetMode
  <1>6. QED
    BY StepCases, <1>1, <1>2, <1>3, <1>4, <1>5 DEF vars, pipelineVars

\* The formula of RecordsAreFinal.
RecordsKept ==
    \A m \in Messages : \A i \in DOMAIN actions[m] :
        LET a == actions[m][i]
            b == actions'[m][i]
        IN  /\ i \in DOMAIN actions'[m]
            /\ b.outcome = a.outcome /\ b.kind = a.kind
            /\ a.execution # "none" => b.execution = a.execution /\ b.ranIn = a.ranIn
            /\ a.review # "pending" => b.review = a.review /\ b.version = a.version

\* Every writer leaves what is final as it was.
LEMMA StepKeepsRecords ==
  TypeOK /\ PipelineTypeOK /\ HandsOn /\ [OverrunNext]_vars => RecordsKept
  <1> SUFFICES ASSUME TypeOK, PipelineTypeOK, HandsOn, [OverrunNext]_vars PROVE RecordsKept
    OBVIOUS
  <1>1. CASE UNCHANGED actions
    BY <1>1 DEF RecordsKept
  <1>2. CASE \E w \in Workers : GenerateAction(w)
    BY <1>2, PlanRow DEF OneRowAdded, RecordsKept
  <1>3. CASE \E w \in Workers : Execute(w)
    <2>1. PICK w \in Workers : Execute(w)
      BY <1>3
    <2> DEFINE m == JobOf(w)
               i == hand[w].action
               a == actions[m][i]
               status == DecideExecution(hand[w].mode, a.outcome, m)
               row == ExecutedRow(a, status, hand[w].mode)
    <2>2. /\ m \in Messages /\ i \in DOMAIN actions[m] /\ a \in ActionRow
          /\ status \in {"suppressed", "executed"} /\ hand[w].mode \in Modes \cup {"none"}
          /\ OneRowChanged(m, i, row)
      BY <2>1, ExecuteRow DEF InHand
    <2>3. a.execution = "none"
      BY <2>1 DEF Execute, KeyIsFree, InHand
    <2>4. /\ row.outcome = a.outcome /\ row.kind = a.kind
          /\ row.review = a.review /\ row.version = a.version
      BY <2>2, ExecutedRowType
    <2> HIDE DEF row, status
    <2>5. QED
      BY <2>2, <2>3, <2>4 DEF OneRowChanged, RecordsKept
  <1>4. CASE \E m \in Messages : \E i \in DOMAIN actions[m] : EditReview(m, i)
    <2>1. PICK m \in Messages : \E i \in DOMAIN actions[m] : EditReview(m, i)
      BY <1>4
    <2>2. PICK i \in DOMAIN actions[m] : EditReview(m, i)
      BY <2>1
    <2> DEFINE a == actions[m][i]
               row == [a EXCEPT !.version = @ + 1]
    <2>3. /\ a \in ActionRow /\ a.review = "pending" /\ a.version < MaxVersion
          /\ OneRowChanged(m, i, row)
      BY <2>2, EditRow DEF EditReview
    <2>4. /\ row.outcome = a.outcome /\ row.kind = a.kind
          /\ row.execution = a.execution /\ row.ranIn = a.ranIn
      BY <2>3, EditedRowType
    <2> HIDE DEF row
    <2>5. QED
      BY <2>3, <2>4 DEF OneRowChanged, RecordsKept
  <1>5. CASE \E m \in Messages : \E i \in DOMAIN actions[m] :
               \E target \in ReviewStatuses : TransitionReview(m, i, target)
    <2>1. PICK m \in Messages : \E i \in DOMAIN actions[m] :
            \E target \in ReviewStatuses : TransitionReview(m, i, target)
      BY <1>5
    <2>2. PICK i \in DOMAIN actions[m] : \E target \in ReviewStatuses : TransitionReview(m, i, target)
      BY <2>1
    <2>3. PICK target \in ReviewStatuses : TransitionReview(m, i, target)
      BY <2>2
    <2> DEFINE a == actions[m][i]
               row == ReviewedRow(a, target)
    <2>4. /\ a \in ActionRow /\ a.review = "pending" /\ target \in {"prepared", "rejected", "resolved"}
          /\ OneRowChanged(m, i, row)
      BY <2>3, ReviewRow DEF TransitionReview
    <2>5. /\ row.outcome = a.outcome /\ row.kind = a.kind
          /\ row.execution = a.execution /\ row.ranIn = a.ranIn
      BY <2>4, ReviewedRowType
    <2> HIDE DEF row
    <2>6. QED
      BY <2>4, <2>5 DEF OneRowChanged, RecordsKept
  <1>6. QED
    BY ActionsWritten, <1>1, <1>2, <1>3, <1>4, <1>5

\* With RecordsKept an action and an execution on record stay there.
LEMMA RecordedStays ==
  ASSUME RecordsKept, NEW m \in Messages
  PROVE  /\ DOMAIN actions[m] \subseteq DOMAIN actions'[m]
         /\ Recorded(m) => RecordedNext(m)
  BY DEF RecordsKept, Recorded, RecordedNext

-----------------------------------------------------------------------------
(* Types *)

\* Every step keeps the types.
LEMMA StepPipelineTypeOK ==
  TypeOK /\ PipelineTypeOK /\ HandsOn /\ [OverrunNext]_vars => PipelineTypeOK'
  <1> SUFFICES ASSUME TypeOK, PipelineTypeOK, HandsOn, [OverrunNext]_vars PROVE PipelineTypeOK'
    OBVIOUS
  <1>1. /\ actions \in [Messages -> Seq(ActionRow)] /\ mode \in Modes
        /\ conversation \in [Conversations -> ConversationStatuses]
        /\ hand \in [Workers -> Hand]
    BY DEF PipelineTypeOK
  <1>2. actions' \in [Messages -> Seq(ActionRow)]
    BY <1>1, ActionsWritten, PlanRow, ExecuteRow, EditRow, ReviewRow DEF OneRowAdded, OneRowChanged
  <1>3. conversation' \in [Conversations -> ConversationStatuses]
    <2>1. ASSUME NEW c, NEW status \in ConversationStatuses,
                 conversation' = [conversation EXCEPT ![c] = status]
          PROVE  conversation' \in [Conversations -> ConversationStatuses]
      BY <1>1, <2>1
    <2>2. (\E m \in Messages : Ingest(m)) => conversation' \in [Conversations -> ConversationStatuses]
      BY <1>1 DEF Ingest, ConversationStatuses
    <2>3. (\E w \in Workers : GenerateAction(w)) =>
             conversation' \in [Conversations -> ConversationStatuses]
      BY <2>1 DEF GenerateAction, ConversationStatuses
    <2>4. (\E m \in Messages : \E i \in DOMAIN actions[m] :
             \E target \in ReviewStatuses : TransitionReview(m, i, target)) =>
             conversation' \in [Conversations -> ConversationStatuses]
      BY <2>1 DEF TransitionReview, StatusAfterReview, ConversationStatuses
    <2>5. (\E c \in Conversations, status \in {"open", "resolved"} : SetConversationStatus(c, status))
             => conversation' \in [Conversations -> ConversationStatuses]
      BY <2>1 DEF SetConversationStatus, ConversationStatuses
    <2>6. \/ UNCHANGED vars \/ QuietStep \/ (\E w \in Workers : LookUp(w) \/ CompleteJob(w) \/ DropJob(w))
          \/ (\E w \in Workers : Execute(w)) \/ (\E newMode \in Modes : SetMode(newMode))
          \/ (\E m \in Messages : \E i \in DOMAIN actions[m] : EditReview(m, i))
          => UNCHANGED conversation
      BY QuietKeeps, LookUpKeeps, AttemptEnds DEF vars, pipelineVars, Execute, SetMode, EditReview
    <2>7. QED
      BY <1>1, <2>2, <2>3, <2>4, <2>5, <2>6, StepCases
  <1>4. mode' \in Modes
    <2>1. (\E newMode \in Modes : SetMode(newMode)) => mode' \in Modes
      BY DEF SetMode
    <2>2. \/ UNCHANGED vars \/ QuietStep \/ (\E w \in Workers : LookUp(w) \/ CompleteJob(w) \/ DropJob(w))
          \/ (\E w \in Workers : Execute(w) \/ GenerateAction(w)) \/ (\E m \in Messages : Ingest(m))
          \/ (\E m \in Messages : \E i \in DOMAIN actions[m] : EditReview(m, i))
          \/ (\E m \in Messages : \E i \in DOMAIN actions[m] :
                \E target \in ReviewStatuses : TransitionReview(m, i, target))
          \/ (\E c \in Conversations, status \in {"open", "resolved"} : SetConversationStatus(c, status))
          => UNCHANGED mode
      BY QuietKeeps, LookUpKeeps, AttemptEnds
         DEF vars, pipelineVars, Execute, GenerateAction, Ingest, EditReview, TransitionReview,
             SetConversationStatus
    <2>3. QED
      BY <1>1, <2>1, <2>2, StepCases
  <1>5. hand' \in [Workers -> Hand]
    <2>1. EmptyHand \in Hand /\ Executed \in Hand
      BY DEF EmptyHand, Executed, Hand
    <2>2. ASSUME NEW w \in Workers, GenerateAction(w) PROVE hand' \in [Workers -> Hand]
      <3>1. Len(actions[JobOf(w)]) + 1 \in Nat
        BY <1>1, <2>2, Running, LenProperties DEF GenerateAction, At
      <3>2. hand[w] \in Hand
        BY <1>1
      <3>3. [hand[w] EXCEPT !.stage = "planned", !.action = Len(actions[JobOf(w)]) + 1] \in Hand
        BY <3>1, <3>2 DEF Hand
      <3>4. QED
        BY <1>1, <2>2, <3>3 DEF GenerateAction
    <2>3. ASSUME NEW w \in Workers, Execute(w) PROVE hand' \in [Workers -> Hand]
      BY <1>1, <2>1, <2>3 DEF Execute
    <2>4. ASSUME NEW w \in Workers, CompleteJob(w) \/ DropJob(w) PROVE hand' \in [Workers -> Hand]
      BY <1>1, <2>1, <2>4, AttemptEnds
    <2>5. (\E w \in Workers : LookUp(w)) => hand' \in [Workers -> Hand]
      BY LookUpKeeps
    <2>6. \/ UNCHANGED vars \/ QuietStep \/ (\E newMode \in Modes : SetMode(newMode))
          \/ (\E m \in Messages : Ingest(m))
          \/ (\E m \in Messages : \E i \in DOMAIN actions[m] : EditReview(m, i))
          \/ (\E m \in Messages : \E i \in DOMAIN actions[m] :
                \E target \in ReviewStatuses : TransitionReview(m, i, target))
          \/ (\E c \in Conversations, status \in {"open", "resolved"} : SetConversationStatus(c, status))
          => UNCHANGED hand
      BY QuietKeeps DEF vars, pipelineVars, Ingest, EditReview, TransitionReview,
                        SetConversationStatus, SetMode
    <2>7. QED
      BY <1>1, <2>2, <2>3, <2>4, <2>5, <2>6, StepCases
  <1>6. QED
    BY <1>2, <1>3, <1>4, <1>5 DEF PipelineTypeOK

-----------------------------------------------------------------------------
(* What workers carry, what is on record, what a conversation waits for *)

\* Either a worker's own step changes what it carries, or its attempt ends, or
\* neither it nor, while it runs a job, its memory changes.
LEMMA HandChanges ==
  ASSUME TypeOK, PipelineTypeOK, [OverrunNext]_vars, NEW v \in Workers
  PROVE  \/ hand'[v] = EmptyHand \/ LookUp(v) \/ GenerateAction(v)
         \/ Execute(v) /\ hand'[v] = Executed
         \/ hand'[v] = hand[v] /\ (worker[v].pc = "running" => worker'[v] = worker[v])
  <1>0. hand \in [Workers -> Hand]
    BY DEF PipelineTypeOK
  <1>1. CASE UNCHANGED vars
    BY <1>1 DEF vars, queueVars, pipelineVars
  <1>2. CASE \E n \in Messages : Ingest(n)
    BY <1>2 DEF Ingest, Enqueue
  <1>3. CASE QuietStep
    BY <1>3, QuietKeeps DEF pipelineVars
  <1>4. CASE \E w \in Workers : LookUp(w)
    BY <1>4, LookUpKeeps DEF queueVars
  <1>5. CASE \E w \in Workers : GenerateAction(w)
    BY <1>0, <1>5 DEF GenerateAction, queueVars
  <1>6. CASE \E w \in Workers : Execute(w)
    BY <1>0, <1>6 DEF Execute, queueVars
  <1>7. CASE \E w \in Workers : CompleteJob(w) \/ DropJob(w)
    BY <1>0, <1>7, AttemptEnds
  <1>8. CASE \E n \in Messages : \E i \in DOMAIN actions[n] :
               EditReview(n, i) \/ \E target \in ReviewStatuses : TransitionReview(n, i, target)
    BY <1>8 DEF EditReview, TransitionReview, queueVars
  <1>9. CASE \/ \E c \in Conversations, status \in {"open", "resolved"} : SetConversationStatus(c, status)
             \/ \E newMode \in Modes : SetMode(newMode)
    BY <1>9 DEF SetConversationStatus, SetMode, queueVars
  <1>10. QED
    BY <1>1, <1>2, <1>3, <1>4, <1>5, <1>6, <1>7, <1>8, <1>9, StepCases

\* A worker carries nothing between jobs, and during one what it carries is on
\* record: nobody takes an action, or its execution, away from under it.
LEMMA StepHandsOn ==
  TypeOK /\ PipelineTypeOK /\ HandsOn /\ [OverrunNext]_vars => HandsOn'
  <1> SUFFICES ASSUME TypeOK, PipelineTypeOK, HandsOn, [OverrunNext]_vars, NEW v \in Workers
               PROVE  /\ worker'[v].pc # "running" => hand'[v] = EmptyHand
                      /\ hand'[v].stage \in {"planned", "moded", "unexecuted"} =>
                           hand'[v].action \in DOMAIN actions'[worker'[v].job]
                      /\ hand'[v].stage = "executed" => RecordedNext(worker'[v].job)
    BY DEF HandsOn, JobOf, Recorded, RecordedNext
  <1> DEFINE m == worker[v].job
  <1>1. hand \in [Workers -> Hand] /\ actions \in [Messages -> Seq(ActionRow)] /\ RecordsKept
    BY StepKeepsRecords DEF PipelineTypeOK
  <1>2. /\ worker[v].pc # "running" => hand[v] = EmptyHand
        /\ hand[v].stage \in {"planned", "moded", "unexecuted"} => hand[v].action \in DOMAIN actions[m]
        /\ hand[v].stage = "executed" => Recorded(m)
        /\ worker[v].pc = "running" => m \in Messages
    BY Running DEF HandsOn, JobOf
  <1>3. EmptyHand.stage = "start" /\ Executed.stage = "executed"
    BY DEF EmptyHand, Executed
  <1>4. CASE hand'[v] = EmptyHand
    BY <1>3, <1>4
  <1>5. CASE hand'[v] = hand[v] /\ (worker[v].pc = "running" => worker'[v] = worker[v])
    <2>1. CASE worker[v].pc = "running"
      BY <1>1, <1>2, <1>5, <2>1, RecordedStays
    <2>2. CASE worker[v].pc # "running"
      BY <1>2, <1>3, <1>5, <2>2
    <2>3. QED
      BY <2>1, <2>2
  <1>6. CASE LookUp(v)
    <2>1. /\ worker' = worker /\ actions' = actions /\ worker[v].pc = "running" /\ m \in Messages
      BY <1>2, <1>6, LookUpKeeps DEF queueVars
    <2>2. CASE FindAction(v)
      <3>1. actions[m] # <<>> => 1 \in DOMAIN actions[m]
        <4>1. actions[m] \in Seq(ActionRow)
          BY <1>1, <2>1
        <4>2. actions[m] # <<>> => Len(actions[m]) \in Nat /\ Len(actions[m]) # 0
          BY <4>1, EmptySeq, LenProperties
        <4>3. QED
          BY <4>1, <4>2, LenProperties
      <3>2. CASE HasAction(v)
        <4>1. hand'[v] = [hand[v] EXCEPT !.stage = "planned", !.action = 1]
          BY <1>1, <2>2, <3>2 DEF FindAction
        <4>2. hand'[v].stage = "planned" /\ hand'[v].action = 1
          BY <1>1, <4>1 DEF Hand
        <4>3. QED
          BY <2>1, <3>1, <3>2, <4>2 DEF HasAction, JobOf
      <3>3. CASE ~HasAction(v)
        <4>1. hand'[v] = [hand[v] EXCEPT !.stage = "unplanned"]
          BY <1>1, <2>2, <3>3 DEF FindAction, MoveOn
        <4>2. hand'[v].stage = "unplanned"
          BY <1>1, <4>1 DEF Hand
        <4>3. QED
          BY <2>1, <4>2
      <3>4. QED
        BY <3>2, <3>3
    <2>3. CASE ReadMode(v)
      <3>1. hand[v].stage = "planned" /\ hand'[v] = [hand[v] EXCEPT !.stage = "moded", !.mode = mode]
        BY <1>1, <2>3 DEF ReadMode, At
      <3>2. hand'[v].stage = "moded" /\ hand'[v].action = hand[v].action
        BY <1>1, <3>1 DEF Hand
      <3>3. QED
        BY <1>2, <2>1, <3>1, <3>2
    <2>4. CASE FindExecution(v)
      <3>1. hand[v].stage = "moded"
        BY <2>4 DEF FindExecution, At
      <3>2. CASE KeyIsFree(v)
        <4>1. hand'[v] = [hand[v] EXCEPT !.stage = "unexecuted"]
          BY <1>1, <2>4, <3>2 DEF FindExecution, MoveOn
        <4>2. hand'[v].stage = "unexecuted" /\ hand'[v].action = hand[v].action
          BY <1>1, <4>1 DEF Hand
        <4>3. QED
          BY <1>2, <2>1, <3>1, <4>2
      <3>3. CASE ~KeyIsFree(v)
        <4>1. hand'[v].stage = "executed"
          BY <1>1, <1>3, <2>4, <3>3 DEF FindExecution
        <4>2. Recorded(m)
          BY <1>2, <3>1, <3>3 DEF KeyIsFree, InHand, JobOf, Recorded
        <4>3. QED
          BY <1>1, <2>1, <4>1, <4>2, RecordedStays
      <3>4. QED
        BY <3>2, <3>3
    <2>5. QED
      BY <1>6, <2>2, <2>3, <2>4 DEF LookUp
  <1>7. CASE GenerateAction(v)
    <2>1. /\ worker' = worker /\ worker[v].pc = "running"
          /\ hand' = [hand EXCEPT ![v].stage = "planned", ![v].action = Len(actions[m]) + 1]
      BY <1>7 DEF GenerateAction, queueVars, At, JobOf
    <2>2. hand'[v] = [hand[v] EXCEPT !.stage = "planned", !.action = Len(actions[m]) + 1]
      BY <1>1, <2>1
    <2>3. hand'[v].stage = "planned" /\ hand'[v].action = Len(actions[m]) + 1
      BY <1>1, <2>2 DEF Hand
    <2>4. Len(actions[m]) + 1 \in DOMAIN actions'[m]
      BY <1>7, PlanRow DEF OneRowAdded, JobOf
    <2>5. QED
      BY <2>1, <2>3, <2>4
  <1>8. CASE Execute(v)
    <2>1. worker' = worker /\ worker[v].pc = "running" /\ hand'[v] = Executed
      BY <1>1, <1>8 DEF Execute, queueVars, At
    <2>2. RecordedNext(m)
      <3> DEFINE i == hand[v].action
                 status == DecideExecution(hand[v].mode, InHand(v).outcome, m)
                 row == ExecutedRow(InHand(v), status, hand[v].mode)
      <3>1. /\ m \in Messages /\ i \in DOMAIN actions[m] /\ InHand(v) \in ActionRow
            /\ status \in {"suppressed", "executed"} /\ hand[v].mode \in Modes \cup {"none"}
            /\ OneRowChanged(m, i, row)
        BY <1>8, ExecuteRow DEF JobOf
      <3>2. row.execution # "none"
        BY <3>1, ExecutedRowType
      <3> HIDE DEF row
      <3>3. i \in DOMAIN actions'[m] /\ actions'[m][i] = row
        BY <3>1 DEF OneRowChanged
      <3>4. QED
        BY <3>2, <3>3 DEF RecordedNext
    <2>3. QED
      BY <1>3, <2>1, <2>2
  <1>9. QED
    BY <1>4, <1>5, <1>6, <1>7, <1>8, HandChanges

\* Only migrated actions are allowed, and what is executed was allowed by the
\* policy and by the mode it ran in.
Permitted(m, a) ==
    /\ a.outcome = "allowed" => m \in Backlog
    /\ a.execution = "executed" =>
         /\ a.outcome = "allowed"
         /\ a.ranIn = "live" \/ (a.ranIn = "canary" /\ m \in Canary)

AllPermitted == \A m \in Messages : \A i \in DOMAIN actions[m] : Permitted(m, actions[m][i])

\* Execute is the only writer of executions, and DecideExecution asks for both.
LEMMA StepPermitted ==
  TypeOK /\ PipelineTypeOK /\ HandsOn /\ AllPermitted /\ [OverrunNext]_vars => AllPermitted'
  <1> SUFFICES ASSUME TypeOK, PipelineTypeOK, HandsOn, AllPermitted, [OverrunNext]_vars
               PROVE  AllPermitted'
    OBVIOUS
  <1>1. ASSUME NEW m \in Messages, NEW i \in DOMAIN actions[m], NEW row, OneRowChanged(m, i, row),
               row.outcome = actions[m][i].outcome,
               \/ row.execution = actions[m][i].execution /\ row.ranIn = actions[m][i].ranIn
               \/ Permitted(m, row)
        PROVE  AllPermitted'
    BY <1>1 DEF OneRowChanged, AllPermitted, Permitted
  <1>2. CASE UNCHANGED actions
    BY <1>2 DEF AllPermitted
  <1>3. CASE \E w \in Workers : GenerateAction(w)
    <2>1. PICK w \in Workers : GenerateAction(w)
      BY <1>3
    <2>2. Permitted(JobOf(w), Planned(JobOf(w)))
      BY <2>1, PlanRow DEF Permitted
    <2>3. QED
      BY <2>1, <2>2, PlanRow DEF OneRowAdded, AllPermitted
  <1>4. CASE \E w \in Workers : Execute(w)
    <2>1. PICK w \in Workers : Execute(w)
      BY <1>4
    <2> DEFINE m == JobOf(w)
               i == hand[w].action
               a == actions[m][i]
               status == DecideExecution(hand[w].mode, a.outcome, m)
               row == ExecutedRow(a, status, hand[w].mode)
    <2>2. /\ m \in Messages /\ i \in DOMAIN actions[m] /\ a \in ActionRow
          /\ status \in {"suppressed", "executed"} /\ hand[w].mode \in Modes \cup {"none"}
          /\ OneRowChanged(m, i, row)
      BY <2>1, ExecuteRow DEF InHand
    <2>3. row.outcome = a.outcome /\ row.execution = status /\ row.ranIn = hand[w].mode
      BY <2>2, ExecutedRowType
    <2>4. Permitted(m, a)
      BY <2>2 DEF AllPermitted
    <2>5. status = "executed" =>
            /\ a.outcome = "allowed"
            /\ hand[w].mode = "live" \/ (hand[w].mode = "canary" /\ m \in Canary)
      BY DEF DecideExecution
    <2> HIDE DEF row, status
    <2>6. Permitted(m, row)
      BY <2>3, <2>4, <2>5 DEF Permitted
    <2> HIDE DEF m, i
    <2>7. QED
      BY <1>1, <2>2, <2>3, <2>6
  <1>5. CASE \E m \in Messages : \E i \in DOMAIN actions[m] : EditReview(m, i)
    <2>1. PICK m \in Messages : \E i \in DOMAIN actions[m] : EditReview(m, i)
      BY <1>5
    <2>2. PICK i \in DOMAIN actions[m] : EditReview(m, i)
      BY <2>1
    <2> DEFINE row == [actions[m][i] EXCEPT !.version = @ + 1]
    <2>3. /\ OneRowChanged(m, i, row) /\ row.outcome = actions[m][i].outcome
          /\ row.execution = actions[m][i].execution /\ row.ranIn = actions[m][i].ranIn
      BY <2>2, EditRow, EditedRowType DEF EditReview
    <2> HIDE DEF row
    <2>4. QED
      BY <1>1, <2>3
  <1>6. CASE \E m \in Messages : \E i \in DOMAIN actions[m] :
               \E target \in ReviewStatuses : TransitionReview(m, i, target)
    <2>1. PICK m \in Messages : \E i \in DOMAIN actions[m] :
            \E target \in ReviewStatuses : TransitionReview(m, i, target)
      BY <1>6
    <2>2. PICK i \in DOMAIN actions[m] : \E target \in ReviewStatuses : TransitionReview(m, i, target)
      BY <2>1
    <2>3. PICK target \in ReviewStatuses : TransitionReview(m, i, target)
      BY <2>2
    <2> DEFINE row == ReviewedRow(actions[m][i], target)
    <2>4. /\ OneRowChanged(m, i, row) /\ row.outcome = actions[m][i].outcome
          /\ row.execution = actions[m][i].execution /\ row.ranIn = actions[m][i].ranIn
      BY <2>3, ReviewRow, ReviewedRowType
    <2> HIDE DEF row
    <2>5. QED
      BY <1>1, <2>4
  <1>7. QED
    BY ActionsWritten, <1>2, <1>3, <1>4, <1>5, <1>6

\* A step that opens or keeps every review keeps a conversation's reason to
\* wait.
LEMMA PendingKept ==
  ASSUME NEW c, PendingIn(actions, c),
         \A m \in Messages : \A i \in DOMAIN actions[m] :
           actions[m][i].review = "pending" =>
             i \in DOMAIN actions'[m] /\ actions'[m][i].review = "pending"
  PROVE  PendingIn(actions', c)
  BY DEF PendingIn

\* Only a step that opens a review, or counts the ones left, says "pending_review".
LEMMA StepPendingHasReview ==
  TypeOK /\ PipelineTypeOK /\ HandsOn /\ PendingHasReview /\ [OverrunNext]_vars => PendingHasReview'
  <1> SUFFICES ASSUME TypeOK, PipelineTypeOK, HandsOn, PendingHasReview, [OverrunNext]_vars,
                      NEW c \in Conversations, conversation'[c] = "pending_review"
               PROVE  PendingIn(actions', c)
    BY DEF PendingHasReview, PendingIn
  <1>1. /\ conversation \in [Conversations -> ConversationStatuses]
        /\ actions \in [Messages -> Seq(ActionRow)]
        /\ conversation[c] = "pending_review" => PendingIn(actions, c)
    BY DEF PipelineTypeOK, PendingHasReview
  <1>2. CASE conversation'[c] = conversation[c] /\ UNCHANGED actions
    <2>1. PendingIn(actions, c)
      BY <1>1, <1>2
    <2>2. QED
      BY <1>2, <2>1 DEF PendingIn
  <1>3. CASE \E m \in Messages : Ingest(m)
    <2>1. conversation'[c] = conversation[c] /\ UNCHANGED actions
      BY <1>1, <1>3 DEF Ingest
    <2>2. QED
      BY <1>2, <2>1
  <1>4. CASE \E w \in Workers : GenerateAction(w)
    <2>1. PICK w \in Workers : GenerateAction(w)
      BY <1>4
    <2> DEFINE m == JobOf(w)
               k == Len(actions[m]) + 1
    <2>2. /\ m \in Messages /\ Planned(m).review = "pending" /\ OneRowAdded(m, Planned(m))
      BY <2>1, PlanRow
    <2>3. /\ k \in DOMAIN actions'[m] /\ actions'[m][k].review = "pending"
          /\ conversation' = [conversation EXCEPT ![WorkKey[m]] = "pending_review"]
      BY <2>1, <2>2 DEF OneRowAdded, GenerateAction, ConversationOf
    <2>4. CASE c = WorkKey[m]
      BY <2>2, <2>3, <2>4 DEF PendingIn
    <2>5. CASE c # WorkKey[m]
      <3>1. PendingIn(actions, c)
        BY <1>1, <2>3, <2>5
      <3>2. \A n \in Messages : \A i \in DOMAIN actions[n] :
              i \in DOMAIN actions'[n] /\ actions'[n][i] = actions[n][i]
        BY <2>2 DEF OneRowAdded
      <3>3. QED
        BY <3>1, <3>2, PendingKept
    <2>6. QED
      BY <2>4, <2>5
  <1>5. CASE \E w \in Workers : Execute(w)
    <2>1. PICK w \in Workers : Execute(w)
      BY <1>5
    <2> DEFINE m == JobOf(w)
               i == hand[w].action
               status == DecideExecution(hand[w].mode, InHand(w).outcome, m)
               row == ExecutedRow(InHand(w), status, hand[w].mode)
    <2>2. /\ m \in Messages /\ i \in DOMAIN actions[m] /\ InHand(w) \in ActionRow
          /\ status \in {"suppressed", "executed"} /\ hand[w].mode \in Modes \cup {"none"}
          /\ OneRowChanged(m, i, row) /\ InHand(w) = actions[m][i]
      BY <2>1, ExecuteRow DEF InHand
    <2>3. row.review = actions[m][i].review
      BY <2>2, ExecutedRowType
    <2> HIDE DEF row
    <2>4. \A n \in Messages : \A j \in DOMAIN actions[n] :
            j \in DOMAIN actions'[n] /\ actions'[n][j].review = actions[n][j].review
      BY <2>2, <2>3 DEF OneRowChanged
    <2>5. PendingIn(actions, c)
      BY <1>1, <2>1 DEF Execute
    <2>6. QED
      BY <2>4, <2>5, PendingKept
  <1>6. CASE \E m \in Messages : \E i \in DOMAIN actions[m] : EditReview(m, i)
    <2>1. PICK m \in Messages : \E i \in DOMAIN actions[m] : EditReview(m, i)
      BY <1>6
    <2>2. PICK i \in DOMAIN actions[m] : EditReview(m, i)
      BY <2>1
    <2> DEFINE row == [actions[m][i] EXCEPT !.version = @ + 1]
    <2>3. OneRowChanged(m, i, row) /\ row.review = actions[m][i].review
      BY <2>2, EditRow, EditedRowType DEF EditReview
    <2> HIDE DEF row
    <2>4. \A n \in Messages : \A j \in DOMAIN actions[n] :
            j \in DOMAIN actions'[n] /\ actions'[n][j].review = actions[n][j].review
      BY <2>3 DEF OneRowChanged
    <2>5. PendingIn(actions, c)
      BY <1>1, <2>2 DEF EditReview
    <2>6. QED
      BY <2>4, <2>5, PendingKept
  <1>7. CASE \E m \in Messages : \E i \in DOMAIN actions[m] :
               \E target \in ReviewStatuses : TransitionReview(m, i, target)
    <2>1. PICK m \in Messages : \E i \in DOMAIN actions[m] :
            \E target \in ReviewStatuses : TransitionReview(m, i, target)
      BY <1>7
    <2>2. PICK i \in DOMAIN actions[m] : \E target \in ReviewStatuses : TransitionReview(m, i, target)
      BY <2>1
    <2>3. PICK target \in ReviewStatuses : TransitionReview(m, i, target)
      BY <2>2
    <2>4. /\ conversation' = [conversation EXCEPT ![WorkKey[m]] = StatusAfterReview(actions', WorkKey[m])]
          /\ OneRowChanged(m, i, ReviewedRow(actions[m][i], target))
      BY <2>3, ReviewRow DEF TransitionReview
    <2>5. CASE c = WorkKey[m]
      BY <1>1, <2>4, <2>5 DEF StatusAfterReview
    <2>6. CASE c # WorkKey[m]
      <3>1. PendingIn(actions, c)
        BY <1>1, <2>4, <2>6
      <3>2. \A n \in Messages : WorkKey[n] = c => actions'[n] = actions[n]
        <4>1. \A n \in Messages : n # m => actions'[n] = actions[n]
          BY <1>1, <2>3 DEF TransitionReview
        <4>2. QED
          BY <2>6, <4>1
      <3>3. QED
        BY <3>1, <3>2 DEF PendingIn
    <2>7. QED
      BY <2>5, <2>6
  <1>8. CASE \E d \in Conversations, status \in {"open", "resolved"} : SetConversationStatus(d, status)
    <2>1. conversation'[c] = conversation[c] /\ UNCHANGED actions
      BY <1>1, <1>8 DEF SetConversationStatus
    <2>2. QED
      BY <1>2, <2>1
  <1>9. \/ UNCHANGED vars \/ QuietStep \/ (\E w \in Workers : LookUp(w) \/ CompleteJob(w) \/ DropJob(w))
        \/ (\E newMode \in Modes : SetMode(newMode))
        => UNCHANGED <<actions, conversation>>
    BY QuietKeeps, LookUpKeeps, AttemptEnds DEF vars, pipelineVars, SetMode
  <1>10. QED
    BY StepCases, <1>2, <1>3, <1>4, <1>5, <1>6, <1>7, <1>8, <1>9

\* A job is completed only by a worker that has its execution on record.
LEMMA StepCompletedIsExecuted ==
  TypeOK /\ PipelineTypeOK /\ HandsOn /\ CompletedIsExecuted /\ [OverrunNext]_vars
    => CompletedIsExecuted'
  <1> SUFFICES ASSUME TypeOK, PipelineTypeOK, HandsOn, CompletedIsExecuted, [OverrunNext]_vars,
                      NEW m \in Messages, job'[m].state = "completed"
               PROVE  RecordedNext(m)
    BY DEF CompletedIsExecuted, RecordedNext
  <1>1. RecordsKept /\ job \in [Messages -> JobRow]
    BY StepKeepsRecords DEF TypeOK
  <1>2. CASE job[m].state = "completed"
    BY <1>1, <1>2, RecordedStays DEF CompletedIsExecuted, Recorded
  <1>3. CASE \E w \in Workers : CompleteJob(w)
    <2>1. PICK w \in Workers : CompleteJob(w)
      BY <1>3
    <2>2. job'[m] = job[m] \/ m = worker[w].job
      BY <1>1, <2>1 DEF CompleteJob, Complete
    <2>3. CASE m = worker[w].job
      <3>1. Recorded(m)
        BY <2>1, <2>3 DEF CompleteJob, HandsOn, JobOf
      <3>2. QED
        BY <1>1, <3>1, RecordedStays
    <2>4. QED
      BY <1>2, <2>2, <2>3
  <1>4. CASE QuietStep
    BY <1>2, <1>4, QuietCompletesNone
  <1>5. CASE \E w \in Workers : DropJob(w)
    BY <1>2, <1>5, DropCompletesNone
  <1>6. CASE \E n \in Messages : Ingest(n)
    <2>1. PICK t \in Instants : job'[m] = job[m] \/ job'[m] = FreshRow(t)
      BY <1>1, <1>6 DEF Ingest, Enqueue
    <2>2. QED
      BY <1>2, <2>1 DEF FreshRow
  <1>7. \/ UNCHANGED vars \/ (\E w \in Workers : LookUp(w) \/ GenerateAction(w) \/ Execute(w))
        \/ (\E n \in Messages : \E i \in DOMAIN actions[n] : EditReview(n, i))
        \/ (\E n \in Messages : \E i \in DOMAIN actions[n] :
              \E target \in ReviewStatuses : TransitionReview(n, i, target))
        \/ (\E c \in Conversations, status \in {"open", "resolved"} : SetConversationStatus(c, status))
        \/ (\E newMode \in Modes : SetMode(newMode))
        => UNCHANGED job
    BY LookUpKeeps DEF vars, queueVars, GenerateAction, Execute, EditReview, TransitionReview,
                       SetConversationStatus, SetMode
  <1>8. QED
    BY StepCases, <1>2, <1>3, <1>4, <1>5, <1>6, <1>7

-----------------------------------------------------------------------------
(* The results for everything the code can do *)

PipelineInv ==
    /\ TypeOK
    /\ PipelineTypeOK
    /\ HandsOn
    /\ AllPermitted
    /\ PendingHasReview
    /\ CompletedIsExecuted

\* The invariant that carries every result of this part.
LEMMA PipelineInductive == OverrunSpec => []PipelineInv
  <1>1. Init => PipelineInv
    <2> SUFFICES ASSUME Init PROVE PipelineInv
      OBVIOUS
    <2>1. PICK planned \in SUBSET Backlog :
            actions = [m \in Messages |->
                         IF m \in planned THEN <<NewAction("draft", "allowed")>> ELSE <<>>]
      BY DEF Init
    <2> DEFINE row == NewAction("draft", "allowed")
    <2>2. row \in ActionRow
      BY NewActionType DEF Outcomes
    <2>3. /\ row.execution = "none" /\ row.outcome = "allowed" /\ row.review = "pending"
      BY DEF NewAction
    <2> HIDE DEF row
    <2>4. TypeOK
      BY InitTypeOK DEF Init
    <2>5. PipelineTypeOK
      <3>1. actions \in [Messages -> Seq(ActionRow)]
        <4>1. <<row>> \in Seq(ActionRow) /\ <<>> \in Seq(ActionRow)
          BY <2>2
        <4>2. QED
          BY <2>1, <4>1 DEF row
      <3>2. conversation \in [Conversations -> ConversationStatuses]
        BY DEF Init, ConversationStatuses
      <3>3. mode \in Modes /\ hand \in [Workers -> Hand]
        BY ExecutorAssumption DEF Init, EmptyHand, Hand
      <3>4. QED
        BY <3>1, <3>2, <3>3 DEF PipelineTypeOK
    <2>6. HandsOn
      BY DEF Init, HandsOn, EmptyHand
    <2>7. AllPermitted
      <3>1. ASSUME NEW m \in Messages, NEW i \in DOMAIN actions[m]
            PROVE  Permitted(m, actions[m][i])
        <4>1. m \in planned /\ actions[m] = <<row>>
          BY <2>1, <3>1 DEF row
        <4>2. actions[m][i] = row
          BY <4>1
        <4>3. QED
          BY <2>3, <4>1, <4>2 DEF Permitted
      <3>2. QED
        BY <3>1 DEF AllPermitted
    <2>8. PendingHasReview
      BY DEF Init, PendingHasReview
    <2>9. CompletedIsExecuted
      BY DEF Init, QueueInit, CompletedIsExecuted, FreshRow, NoRow
    <2>10. QED
      BY <2>4, <2>5, <2>6, <2>7, <2>8, <2>9 DEF PipelineInv
  <1>2. PipelineInv /\ [OverrunNext]_vars => PipelineInv'
    <2> SUFFICES ASSUME PipelineInv, [OverrunNext]_vars PROVE PipelineInv'
      OBVIOUS
    <2>1. TypeOK'
      BY OverrunStepsQueue, StepTypeOK DEF PipelineInv
    <2>2. QED
      BY <2>1, StepPipelineTypeOK, StepHandsOn, StepPermitted, StepPendingHasReview,
         StepCompletedIsExecuted DEF PipelineInv
  <1>3. QED
    BY <1>1, <1>2, PTL DEF OverrunSpec

\* Actions, reviews, executions, conversations, the mode and what workers
\* carry have their types, whatever workers, operators and crashes do.
THEOREM PipelineTypeCorrect == OverrunSpec => []PipelineTypeOK
  <1>1. PipelineInv => PipelineTypeOK
    BY DEF PipelineInv
  <1>2. QED
    BY <1>1, PipelineInductive, PTL

\* A completed job has a recorded execution of an action, also when another
\* worker takes the job over, the process is killed or a lease runs out.
THEOREM CompletedHasExecution == OverrunSpec => []CompletedIsExecuted
  <1>1. PipelineInv => CompletedIsExecuted
    BY DEF PipelineInv
  <1>2. QED
    BY <1>1, PipelineInductive, PTL

\* Nothing is executed that the policy did not allow and the mode on record
\* does not permit.
THEOREM ExecutionPermitted == OverrunSpec => []ModeOnRecord
  <1>1. PipelineInv => ModeOnRecord
    BY DEF PipelineInv, AllPermitted, Permitted, ModeOnRecord
  <1>2. QED
    BY <1>1, PipelineInductive, PTL

\* No conversation waits for a review that no one can give.
THEOREM ReviewsArePending == OverrunSpec => []PendingHasReview
  <1>1. PipelineInv => PendingHasReview
    BY DEF PipelineInv
  <1>2. QED
    BY <1>1, PipelineInductive, PTL

\* No step rewrites or removes a decision, a closed review or an execution.
THEOREM FinalRecords == OverrunSpec => RecordsAreFinal
  <1>1. PipelineInv /\ [OverrunNext]_vars => [RecordsKept]_vars
    BY StepKeepsRecords DEF PipelineInv
  <1>2. QED
    BY <1>1, PipelineInductive, PTL DEF OverrunSpec, RecordsAreFinal, RecordsKept

\* With a review pending, only the operator's own status change takes a
\* conversation out of review.
THEOREM StickyReviews == OverrunSpec => PendingIsSticky
  <1> DEFINE Sticky ==
        \A c \in Conversations :
          /\ conversation[c] = "pending_review" /\ conversation'[c] # "pending_review"
          => ~PendingIn(actions', c) \/ UNCHANGED <<queueVars, actions, mode, hand>>
  <1>1. PipelineInv /\ [OverrunNext]_vars => Sticky
    <2> SUFFICES ASSUME PipelineInv, [OverrunNext]_vars, NEW c \in Conversations,
                        conversation[c] = "pending_review", conversation'[c] # "pending_review",
                        PendingIn(actions', c)
                 PROVE  UNCHANGED <<queueVars, actions, mode, hand>>
      OBVIOUS
    <2>1. conversation \in [Conversations -> ConversationStatuses] /\ TypeOK /\ PipelineTypeOK
      BY DEF PipelineInv, PipelineTypeOK
    <2>2. ~ \E m \in Messages : Ingest(m)
      BY <2>1 DEF Ingest
    <2>3. ~ \E w \in Workers : GenerateAction(w)
      BY <2>1 DEF GenerateAction
    <2>4. ~ \E m \in Messages : \E i \in DOMAIN actions[m] :
              \E target \in ReviewStatuses : TransitionReview(m, i, target)
      BY <2>1 DEF TransitionReview, StatusAfterReview
    <2>5. ~ \/ UNCHANGED vars \/ QuietStep
            \/ (\E w \in Workers : LookUp(w) \/ Execute(w) \/ CompleteJob(w) \/ DropJob(w))
            \/ (\E newMode \in Modes : SetMode(newMode))
            \/ (\E m \in Messages : \E i \in DOMAIN actions[m] : EditReview(m, i))
      BY <2>1, QuietKeeps, LookUpKeeps, AttemptEnds
         DEF vars, pipelineVars, SetMode, Execute, EditReview
    <2>6. QED
      BY StepCases, <2>2, <2>3, <2>4, <2>5 DEF SetConversationStatus
  <1>2. QED
    BY <1>1, PipelineInductive, PTL DEF OverrunSpec, PendingIsSticky

-----------------------------------------------------------------------------
(* Part 3: Spec.  FindAction and GenerateAction are a read and a later write *)
(* with nothing in the table to keep two workers apart: one action per job   *)
(* rests on the queue's promise that only one of them holds the job.         *)

Unplanned == \A w \in Workers : At(w, "unplanned") => Len(actions[JobOf(w)]) = 0

\* Intervals, and sequences, of one domain have one length.
LEMMA SameBound ==
  ASSUME NEW a \in Nat, NEW b \in Nat, 1..a = 1..b
  PROVE  a = b
  <1>1. CASE a < b
    <2>1. b \in 1..b /\ b \notin 1..a
      BY <1>1
    <2>2. QED
      BY <2>1
  <1>2. CASE b < a
    <2>1. a \in 1..a /\ a \notin 1..b
      BY <1>2
    <2>2. QED
      BY <2>1
  <1>3. QED
    BY <1>1, <1>2

\* Sequences of rows over one domain have one length.
LEMMA SameLength ==
  ASSUME NEW s \in Seq(ActionRow), NEW t \in Seq(ActionRow), DOMAIN s = DOMAIN t
  PROVE  Len(s) = Len(t)
  <1>1. Len(s) \in Nat /\ Len(t) \in Nat /\ DOMAIN s = 1..Len(s) /\ DOMAIN t = 1..Len(t)
    BY LenProperties
  <1>2. 1..Len(s) = 1..Len(t)
    BY <1>1, Zenon
  <1>3. QED
    BY <1>1, <1>2, SameBound

\* Only GenerateAction makes a job's list of actions longer.
LEMMA LengthsKept ==
  ASSUME PipelineInv, [OverrunNext]_vars, ~ \E w \in Workers : GenerateAction(w)
  PROVE  \A m \in Messages : Len(actions'[m]) = Len(actions[m])
  <1>1. TypeOK /\ PipelineTypeOK /\ HandsOn /\ actions \in [Messages -> Seq(ActionRow)]
    BY DEF PipelineInv, PipelineTypeOK
  <1>2. \/ UNCHANGED actions
        \/ /\ actions' \in [Messages -> Seq(ActionRow)]
           /\ \A m \in Messages : DOMAIN actions'[m] = DOMAIN actions[m]
    BY <1>1, ActionsWritten, ExecuteRow, EditRow, ReviewRow DEF OneRowChanged
  <1>3. QED
    BY <1>1, <1>2, SameLength

\* With at most one holder of a job, two workers never both find it unplanned.
LEMMA StepOneAction ==
  PipelineInv /\ ConversationExclusive /\ OneActionPerJob /\ Unplanned /\ [Next]_vars
    => OneActionPerJob' /\ Unplanned'
  <1> SUFFICES ASSUME PipelineInv, ConversationExclusive, OneActionPerJob, Unplanned, [Next]_vars
               PROVE  /\ \A m \in Messages : Len(actions'[m]) <= 1
                      /\ \A v \in Workers :
                           worker'[v].pc = "running" /\ hand'[v].stage = "unplanned" =>
                             Len(actions'[worker'[v].job]) = 0
    BY DEF OneActionPerJob, Unplanned, At, JobOf
  <1>1. /\ TypeOK /\ PipelineTypeOK /\ HandsOn /\ [OverrunNext]_vars
        /\ hand \in [Workers -> Hand] /\ actions \in [Messages -> Seq(ActionRow)]
    BY DEF PipelineInv, PipelineTypeOK, OverrunNext
  <1>2. CASE \E w \in Workers : GenerateAction(w)
    <2>1. PICK w \in Workers : GenerateAction(w)
      BY <1>2
    <2> DEFINE m == JobOf(w)
    <2>2. /\ At(w, "unplanned") /\ worker' = worker
          /\ hand' = [hand EXCEPT ![w].stage = "planned", ![w].action = Len(actions[m]) + 1]
      BY <2>1 DEF GenerateAction, queueVars
    <2>3. /\ m \in Messages /\ OneRowAdded(m, Planned(m)) /\ Len(actions[m]) = 0
      BY <1>1, <2>1, <2>2, PlanRow DEF Unplanned
    <2>4. Len(actions'[m]) = 1 /\ \A n \in Messages : n # m => actions'[n] = actions[n]
      BY <2>3 DEF OneRowAdded
    <2>5. ASSUME NEW v \in Workers, worker'[v].pc = "running", hand'[v].stage = "unplanned"
          PROVE  Len(actions'[worker'[v].job]) = 0
      <3>1. v # w
        <4>1. hand'[w] = [hand[w] EXCEPT !.stage = "planned", !.action = Len(actions[m]) + 1]
          BY <1>1, <2>2
        <4>2. hand'[w].stage = "planned"
          BY <1>1, <4>1 DEF Hand
        <4>3. QED
          BY <2>5, <4>2
      <3>2. At(v, "unplanned") /\ worker'[v] = worker[v]
        BY <1>1, <2>2, <2>5, <3>1 DEF At
      <3>3. Holds(v) /\ Holds(w)
        BY <2>2, <3>2 DEF At, Holds
      <3>4. ~Related(worker[v].job, worker[w].job)
        BY <3>1, <3>3 DEF ConversationExclusive
      <3>5. worker[v].job # m
        BY <3>4 DEF Related, JobOf
      <3>6. worker[v].job \in Messages
        BY <1>1, <3>2, Running DEF At, JobOf
      <3>7. QED
        BY <2>4, <3>2, <3>5, <3>6 DEF Unplanned, JobOf
    <2>6. ASSUME NEW n \in Messages PROVE Len(actions'[n]) <= 1
      <3>1. CASE n = m
        <4>1. Len(actions'[n]) = 1
          BY <2>4, <3>1, Zenon
        <4>2. QED
          BY <4>1
      <3>2. CASE n # m
        BY <2>4, <3>2 DEF OneActionPerJob
      <3>3. QED
        BY <3>1, <3>2
    <2>7. QED
      BY <2>5, <2>6
  <1>3. CASE ~ \E w \in Workers : GenerateAction(w)
    <2>1. \A m \in Messages : Len(actions'[m]) = Len(actions[m])
      BY <1>1, <1>3, LengthsKept
    <2>2. ASSUME NEW v \in Workers, worker'[v].pc = "running", hand'[v].stage = "unplanned"
          PROVE  worker'[v] = worker[v] /\ worker[v].job \in Messages /\ Len(actions[worker[v].job]) = 0
      <3>1. CASE LookUp(v)
        <4>1. worker' = worker /\ worker[v].pc = "running" /\ worker[v].job \in Messages
          BY <1>1, <3>1, LookUpKeeps, Running DEF queueVars, JobOf
        <4>2. FindAction(v) /\ ~HasAction(v)
          <5>1. ~ReadMode(v)
            BY <1>1, <2>2 DEF ReadMode, Hand
          <5>2. ~FindExecution(v)
            BY <1>1, <2>2 DEF FindExecution, MoveOn, Hand, Executed, EmptyHand
          <5>3. ~(FindAction(v) /\ HasAction(v))
            BY <1>1, <2>2 DEF FindAction, Hand
          <5>4. QED
            BY <3>1, <5>1, <5>2, <5>3 DEF LookUp
        <4>3. QED
          BY <4>1, <4>2, EmptySeq DEF HasAction, JobOf
      <3>2. CASE hand'[v] = hand[v] /\ (worker[v].pc = "running" => worker'[v] = worker[v])
        <4>1. worker[v].pc = "running"
          BY <1>1, <2>2, <3>2 DEF HandsOn, EmptyHand
        <4>2. QED
          BY <1>1, <2>2, <3>2, <4>1, Running DEF Unplanned, At, JobOf
      <3>3. hand'[v] # EmptyHand /\ hand'[v] # Executed
        BY <2>2 DEF EmptyHand, Executed
      <3>4. LookUp(v) \/ (hand'[v] = hand[v] /\ (worker[v].pc = "running" => worker'[v] = worker[v]))
        BY <1>1, <1>3, <3>3, HandChanges
      <3>5. QED
        BY <3>1, <3>2, <3>4
    <2>3. QED
      BY <2>1, <2>2 DEF OneActionPerJob
  <1>4. QED
    BY <1>2, <1>3

\* "Processing and execution MUST tolerate duplicates": retries, crashes and
\* recoveries lead to one action of a job.
THEOREM SingleAction == Spec => []OneActionPerJob
  <1>1. Init => OneActionPerJob /\ Unplanned
    BY DEF Init, OneActionPerJob, Unplanned, At, EmptyHand
  <1>2. Spec => []PipelineInv
    BY SpecIsOverrun, PipelineInductive, PTL
  <1>3. Spec => []ConversationExclusive
    BY PipelineIsQueue, Exclusion, PTL
  <1>4. QED
    BY <1>1, <1>2, <1>3, StepOneAction, PTL DEF Spec
=============================================================================
