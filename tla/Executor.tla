------------------------------- MODULE Executor -------------------------------
(***************************************************************************)
(* The whole pipeline between ingestion and human review: JobQueue with    *)
(* what its steps do besides queueing (executor.py, action_executor.py,    *)
(* agent.py, policy.py), the reviews and conversations of workspace.py,    *)
(* and the execution mode of runtime.py.                                   *)
(*                                                                         *)
(* run_once works between the claim and the completion in five steps, each *)
(* a read or a transaction of its own: find the job's action, generate it, *)
(* read the mode, find the execution, execute.  Other workers and the      *)
(* operator's dashboard act between any two of them.                       *)
(***************************************************************************)
EXTENDS JobQueue, Sequences

CONSTANTS
    Sensitive,      \* messages whose text asks for the owner
    Canary,         \* messages whose sender is in settings.canary_senders
    Modes,          \* the execution modes an operator sets
    InitialMode,    \* settings.mode at the first start
    MaxVersion      \* bound on the versions of a draft

ASSUME ExecutorAssumption ==
    /\ Sensitive \subseteq Messages
    /\ Canary \subseteq Messages
    /\ Modes \subseteq {"shadow", "dry-run", "canary", "live"}
    /\ InitialMode \in Modes
    /\ MaxVersion \in Nat \ {0}

VARIABLES
    actions,        \* tables actions, policy_decisions, action_reviews,
                    \* action_executions: the actions of each job, oldest first
    conversation,   \* conversations.status, by work key; "none" is no row
    mode,           \* runtime_settings.execution_mode
    hand            \* what run_once carries between its steps

pipelineVars == <<actions, conversation, mode, hand>>
vars == <<queueVars, pipelineVars>>

-----------------------------------------------------------------------------
(* Rows *)

Outcomes == {"allowed", "blocked", "pending_approval", "ignored", "escalated"}
ReviewStatuses == {"pending", "prepared", "rejected", "resolved"}
ConversationStatuses == {"none", "open", "pending_review", "resolved"}
ActionStates == {"pending_review", "suppressed", "executed_simulated",
                 "prepared", "rejected", "resolved"}

ActionRow == [kind: {"draft", "escalation"}, outcome: Outcomes, state: ActionStates,
              review: ReviewStatuses, version: 1..MaxVersion,
              execution: {"none", "suppressed", "executed"}, ranIn: Modes \cup {"none"}]

NewAction(kind, outcome) ==
    [kind |-> kind, outcome |-> outcome, state |-> "pending_review",
     review |-> "pending", version |-> 1, execution |-> "none", ranIn |-> "none"]

\* The stage run_once has reached, the action it works on (its place in
\* actions) and the mode it read.
Hand == [stage: {"start", "unplanned", "planned", "moded", "unexecuted", "executed"},
         action: Nat, mode: Modes \cup {"none"}]

EmptyHand == [stage |-> "start", action |-> 0, mode |-> "none"]
Executed == [EmptyHand EXCEPT !.stage = "executed"]

JobOf(w) == worker[w].job
ConversationOf(w) == WorkKey[JobOf(w)]
InHand(w) == actions[JobOf(w)][hand[w].action]
At(w, stage) == worker[w].pc = "running" /\ hand[w].stage = stage

PendingIn(rows, c) ==
    \E m \in Messages : /\ WorkKey[m] = c
                        /\ \E i \in DOMAIN rows[m] : rows[m][i].review = "pending"

-----------------------------------------------------------------------------
(* Pure decisions *)

ActionType(m) == IF m \in Sensitive THEN "escalate_to_owner" ELSE "draft_reply"

Decide(type) ==
    CASE type = "escalate_to_owner" -> "escalated"
      [] type = "no_action" -> "ignored"
      [] type = "draft_reply" -> "pending_approval"
      [] OTHER -> "blocked"

\* Mutants of DecideExecution: any sender in canary mode; the mode ignored.
DecideForAnySender(currentMode, outcome, m) ==
    IF outcome = "allowed" /\ currentMode \in {"canary", "live"} THEN "executed" ELSE "suppressed"
DecideByPolicy(currentMode, outcome, m) ==
    IF outcome = "allowed" THEN "executed" ELSE "suppressed"

DecideExecution(currentMode, outcome, m) ==
    IF /\ outcome = "allowed"
       /\ currentMode = "live" \/ (currentMode = "canary" /\ m \in Canary)
    THEN "executed" ELSE "suppressed"

\* Mutant of StateAfter: the result's status as the action's state.
StateVerbatim(outcome, status) ==
    IF outcome \in {"pending_approval", "escalated"} THEN "pending_review" ELSE status

StateAfter(outcome, status) ==
    IF outcome \in {"pending_approval", "escalated"} THEN "pending_review"
    ELSE IF status = "executed" THEN "executed_simulated" ELSE "suppressed"

-----------------------------------------------------------------------------
(* Ingestion and the worker *)

\* enqueue with its ensure_conversation: a resolved conversation reopens, any
\* other status stays.  (Venues are left to a module of their own.)
Ingest(m) ==
    /\ Enqueue(m)
    /\ conversation' = [conversation EXCEPT
                          ![WorkKey[m]] = IF @ \in {"none", "resolved"} THEN "open" ELSE @]
    /\ UNCHANGED <<actions, mode, hand>>

MoveOn(w, stage) == hand' = [hand EXCEPT ![w].stage = stage]

\* Mutant of HasAction: actions looked up for this attempt, which has none.
HasActionOfAttempt(w) == FALSE

HasAction(w) == actions[JobOf(w)] # <<>>

\* The oldest action of the job, read outside any transaction.
FindAction(w) ==
    /\ At(w, "start")
    /\ IF HasAction(w)
       THEN hand' = [hand EXCEPT ![w].stage = "planned", ![w].action = 1]
       ELSE MoveOn(w, "unplanned")
    /\ UNCHANGED <<queueVars, actions, conversation, mode>>

\* Action, policy decision, review and conversation in one transaction.
GenerateAction(w) ==
    LET type == ActionType(JobOf(w))
        kind == IF type = "draft_reply" THEN "draft" ELSE "escalation"
    IN  /\ At(w, "unplanned")
        /\ actions' = [actions EXCEPT ![JobOf(w)] = Append(@, NewAction(kind, Decide(type)))]
        /\ conversation' = [conversation EXCEPT ![ConversationOf(w)] = "pending_review"]
        /\ hand' = [hand EXCEPT ![w].stage = "planned",
                                ![w].action = Len(actions[JobOf(w)]) + 1]
        /\ UNCHANGED <<queueVars, mode>>

ReadMode(w) ==
    /\ At(w, "planned")
    /\ hand' = [hand EXCEPT ![w].stage = "moded", ![w].mode = mode]
    /\ UNCHANGED <<queueVars, actions, conversation, mode>>

\* Mutants of KeyIsFree: a key for each attempt; only allowed actions recorded.
KeyOfAttemptIsFree(w) == TRUE
KeyIsWanted(w) == InHand(w).execution = "none" /\ InHand(w).outcome = "allowed"

KeyIsFree(w) == InHand(w).execution = "none"

\* The idempotency key is looked up before the transaction that inserts it.
FindExecution(w) ==
    /\ At(w, "moded")
    /\ IF KeyIsFree(w)
       THEN MoveOn(w, "unexecuted")
       ELSE hand' = [hand EXCEPT ![w] = Executed]
    /\ UNCHANGED <<queueVars, actions, conversation, mode>>

\* When the key was inserted meanwhile, UNIQUE fails the transaction and with
\* it the job: only AbandonJob is left.
Execute(w) ==
    LET status == DecideExecution(hand[w].mode, InHand(w).outcome, JobOf(w))
    IN  /\ At(w, "unexecuted")
        /\ KeyIsFree(w)
        /\ actions' = [actions EXCEPT
             ![JobOf(w)][hand[w].action].execution = status,
             ![JobOf(w)][hand[w].action].ranIn = hand[w].mode,
             ![JobOf(w)][hand[w].action].state = StateAfter(InHand(w).outcome, status)]
        /\ hand' = [hand EXCEPT ![w] = Executed]
        /\ UNCHANGED <<queueVars, conversation, mode>>

EmptyHanded(w) ==
    /\ hand' = [hand EXCEPT ![w] = EmptyHand]
    /\ UNCHANGED <<actions, conversation, mode>>

CompleteJob(w) == hand[w].stage = "executed" /\ Complete(w) /\ EmptyHanded(w)

AbandonJob(w) == Fail(w) /\ EmptyHanded(w)

KillWorker(w) == Crash(w) /\ EmptyHanded(w)

-----------------------------------------------------------------------------
(* The operator's dashboard *)

EditReview(m, i) ==
    /\ actions[m][i].kind = "draft" /\ actions[m][i].review = "pending"
    /\ actions[m][i].version < MaxVersion
    /\ actions' = [actions EXCEPT ![m][i].version = @ + 1]
    /\ UNCHANGED <<queueVars, conversation, mode, hand>>

\* Mutants of StatusAfterReview: reviews that are left are not counted.
OpenAfterReview(rows, c) == "open"
PendingAfterReview(rows, c) == "pending_review"

StatusAfterReview(rows, c) == IF PendingIn(rows, c) THEN "pending_review" ELSE "open"

\* prepared, rejected and resolved are states of the review and of its action;
\* the conversation follows the reviews that are left.
TransitionReview(m, i, target) ==
    /\ actions[m][i].review = "pending"
    /\ IF actions[m][i].kind = "draft" THEN target \in {"prepared", "rejected"}
       ELSE target = "resolved"
    /\ actions' = [actions EXCEPT ![m][i].review = target, ![m][i].state = target]
    /\ conversation' = [conversation EXCEPT
         ![WorkKey[m]] = StatusAfterReview(actions', WorkKey[m])]
    /\ UNCHANGED <<queueVars, mode, hand>>

SetConversationStatus(c, status) ==
    /\ conversation[c] # "none"
    /\ conversation' = [conversation EXCEPT ![c] = status]
    /\ UNCHANGED <<queueVars, actions, mode, hand>>

SetMode(newMode) ==
    /\ mode' = newMode
    /\ UNCHANGED <<queueVars, actions, conversation, hand>>

-----------------------------------------------------------------------------
(* Specification *)

\* A migrated database: for some of its waiting jobs milestone 1 had generated
\* and allowed an action before they failed and an operator retried them;
\* migration 4 gave them conversations and migration 5 reviews.
Init ==
    /\ QueueInit
    /\ \E planned \in SUBSET Backlog :
         actions = [m \in Messages |->
                      IF m \in planned THEN <<NewAction("draft", "allowed")>> ELSE <<>>]
    /\ conversation = [c \in Conversations |->
                         IF PendingIn(actions, c) THEN "pending_review"
                         ELSE IF \E m \in Backlog : WorkKey[m] = c THEN "open" ELSE "none"]
    /\ mode = InitialMode
    /\ hand = [w \in Workers |-> EmptyHand]

\* Steps that only the queue sees.
QueueStep ==
    /\ \/ \E m \in Messages : Retry(m) \/ Dismiss(m) \/ BackoffElapses(m) \/ LeaseExpires(m)
       \/ \E w \in Workers : RecoverStale(w) \/ ReadClock(w) \/ ClaimNothing(w) \/ ReadClaim(w) \/ Return(w)
       \/ \E w \in Workers, m \in Messages : Claim(w, m)
       \/ OperatorRecover
    /\ UNCHANGED pipelineVars

RunOnce(w) ==
    \/ FindAction(w) \/ GenerateAction(w) \/ ReadMode(w) \/ FindExecution(w) \/ Execute(w)
    \/ CompleteJob(w) \/ AbandonJob(w)

Operate ==
    \/ \E m \in Messages : \E i \in DOMAIN actions[m] :
          EditReview(m, i) \/ \E target \in ReviewStatuses : TransitionReview(m, i, target)
    \/ \E c \in Conversations, status \in {"open", "resolved"} : SetConversationStatus(c, status)
    \/ \E newMode \in Modes : SetMode(newMode)

Next ==
    \/ \E m \in Messages : Ingest(m)
    \/ QueueStep
    \/ \E w \in Workers : RunOnce(w) \/ KillWorker(w)
    \/ Operate

\* No worker outlives its lease and no signal hits a finished job.
Spec == Init /\ [][Next]_vars

\* Everything the code can do: with LeaseOverrun two workers run the same job.
OverrunNext ==
    \/ Next
    \/ \E m \in Messages : LeaseOverrun(m) /\ UNCHANGED pipelineVars
    \/ \E w \in Workers : ShutdownAfterCommit(w) /\ EmptyHanded(w)

OverrunSpec == Init /\ [][OverrunNext]_vars
-----------------------------------------------------------------------------
(* Invariants *)

\* Every variable of the pipeline has its type; QueueSpec has TypeOK.
PipelineTypeOK ==
    /\ actions \in [Messages -> Seq(ActionRow)]
    /\ conversation \in [Conversations -> ConversationStatuses]
    /\ mode \in Modes
    /\ hand \in [Workers -> Hand]

\* "processing and execution MUST tolerate duplicates" (ARCHITECTURE.md):
\* however often a job is attempted, crashes and is retried, it has one action.
OneActionPerJob == \A m \in Messages : Len(actions[m]) <= 1

\* A completed job has an action, the policy's decision on it, and a recorded
\* execution of it.
CompletedIsExecuted ==
    \A m \in Messages : job[m].state = "completed" =>
        \E i \in DOMAIN actions[m] : actions[m][i].execution # "none"

\* "An execution mode may further restrict policy permission but MUST NOT
\* broaden it" (ARCHITECTURE.md): an execution was allowed by the policy and
\* by the mode on record, in canary mode for a canary sender, and what policy
\* sends to a human is never executed.
ModeOnRecord ==
    \A m \in Messages : \A i \in DOMAIN actions[m] :
        LET a == actions[m][i]
        IN  a.execution = "executed" =>
              /\ a.outcome = "allowed" /\ m \in Backlog
              /\ a.ranIn = "live" \/ (a.ranIn = "canary" /\ m \in Canary)

\* A conversation waits for review only while one of its reviews is pending.
PendingHasReview ==
    \A c \in Conversations : conversation[c] = "pending_review" => PendingIn(actions, c)

\* "Approval marks a draft prepared" (PROJECT_BRIEF.md): the action shows what
\* the reviewer decided.
ReviewDecidesAction ==
    \A m \in Messages : \A i \in DOMAIN actions[m] :
        actions[m][i].review # "pending" => actions[m][i].state = actions[m][i].review

-----------------------------------------------------------------------------
(* Action properties *)

\* "conversation stays pending until all reviews are closed" (test_bridge.py):
\* with a review still pending only the operator's own status change, which
\* writes nothing else, takes a conversation out of review.
PendingIsSticky ==
    [][\A c \in Conversations :
         /\ conversation[c] = "pending_review" /\ conversation'[c] # "pending_review"
         => ~PendingIn(actions', c) \/ UNCHANGED <<queueVars, actions, mode, hand>>]_vars

\* Decisions, closed reviews and executions are written once: no retry, second
\* worker or later mode change rewrites or removes one.
RecordsAreFinal ==
    [][\A m \in Messages : \A i \in DOMAIN actions[m] :
         LET a == actions[m][i]
             b == actions'[m][i]
         IN  /\ i \in DOMAIN actions'[m]
             /\ b.outcome = a.outcome /\ b.kind = a.kind
             /\ a.execution # "none" => b.execution = a.execution /\ b.ranIn = a.ranIn
             /\ a.review # "pending" => b.review = a.review /\ b.version = a.version]_vars
=============================================================================
