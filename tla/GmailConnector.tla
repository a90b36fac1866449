---------------------------- MODULE GmailConnector ----------------------------
(***************************************************************************)
(* The Gmail poller of rrpp_bridge/gmail_connector.py: how it turns the    *)
(* history of a mailbox into events and moves its durable cursor.          *)
(*                                                                         *)
(* Messages are numbered as they arrive, and the history id of the mailbox *)
(* is the number of the newest one.  Gmail itself (arrivals, deletions,    *)
(* the retention of history) is external and modelled from the poller's    *)
(* requests.  Requests, the transaction of each message and the            *)
(* transaction of the cursor are separate steps; any of them may fail, and *)
(* a crash or a signal may end a poll between any two.                     *)
(***************************************************************************)
EXTENDS Integers, FiniteSets

CONSTANTS
    Pollers,     \* gmail-poll processes
    BatchSize,   \* settings.gmail_batch_size
    Refused,     \* messages normalize raises for
    MaxMail,     \* bound on arrivals
    MaxAborts    \* bound on polls cut short

ASSUME GmailAssumption ==
    /\ BatchSize \in Nat \ {0}
    /\ Refused \subseteq Nat
    /\ MaxMail \in Nat
    /\ MaxAborts \in Nat

VARIABLES
    arrived,   \* external: the newest message and history id
    deleted,   \* external: messages erased from the mailbox
    horizon,   \* external: history older than this is gone
    accepted,  \* the messages of table events
    cursor,    \* connector_state.history_id
    floor,     \* ghost: messages up to this one may have been passed over
    poll,      \* what each poller holds in memory
    aborts     \* how much of the bound MaxAborts is used

mailboxVars == <<arrived, deleted, horizon>>
gmailVars == <<mailboxVars, accepted, cursor, floor, poll, aborts>>

NoCursor == -1

\* Why a poll reads the inbox instead of the history: it does not, it is the
\* first, its history has expired, or one of its messages is gone.
Causes == {"none", "first", "expired", "missing"}

Poll == [pc: {"idle", "history", "profile", "inbox", "persist"}, cause: Causes,
         from: Nat, seen: Nat, next: Nat, floor: Nat, todo: SUBSET Nat]

IdlePoll == [pc |-> "idle", cause |-> "none", from |-> 0, seen |-> 0, next |-> 0,
             floor |-> 0, todo |-> {}]

-----------------------------------------------------------------------------
(* The mailbox *)

Inbox == (1..arrived) \ deleted

\* messages().list: one page of the newest messages.
Newest == {i \in Inbox : Cardinality({j \in Inbox : j > i}) < BatchSize}

Arrive ==
    /\ arrived < MaxMail
    /\ arrived' = arrived + 1
    /\ UNCHANGED <<deleted, horizon, accepted, cursor, floor, poll, aborts>>

Delete(i) ==
    /\ i \in Inbox
    /\ deleted' = deleted \cup {i}
    /\ UNCHANGED <<arrived, horizon, accepted, cursor, floor, poll, aborts>>

ForgetHistory ==
    /\ horizon < arrived
    /\ horizon' = horizon + 1
    /\ UNCHANGED <<arrived, deleted, accepted, cursor, floor, poll, aborts>>

-----------------------------------------------------------------------------
(* The poller *)

Unstored == UNCHANGED <<mailboxVars, accepted, cursor, floor, aborts>>

BeginPoll(p) ==
    /\ poll[p].pc = "idle"
    /\ poll' = [poll EXCEPT ![p] =
         IF cursor = NoCursor
         THEN [IdlePoll EXCEPT !.pc = "profile", !.cause = "first"]
         ELSE [IdlePoll EXCEPT !.pc = "history", !.from = cursor, !.seen = cursor,
                               !.floor = floor]]
    /\ Unstored

\* A page of history up to message "upto"; the last page reaches the newest
\* and its history id is the next cursor.
ReadHistory(p, upto) ==
    /\ poll[p].pc = "history" /\ poll[p].from >= horizon
    /\ IF upto < arrived
       THEN /\ upto > poll[p].seen
            /\ poll' = [poll EXCEPT ![p].seen = upto]
       ELSE poll' = [poll EXCEPT ![p] =
              [IdlePoll EXCEPT !.pc = "persist", !.next = arrived, !.floor = poll[p].floor,
                               !.todo = (poll[p].from + 1)..arrived]]
    /\ Unstored

FallBack(p, cause) ==
    poll' = [poll EXCEPT ![p] =
               [IdlePoll EXCEPT !.pc = "profile", !.cause = cause, !.floor = poll[p].floor]]

\* Mutant of HistoryExpired: a failure like any other.
ExpiredPollFails(p) ==
    /\ poll[p].pc = "history" /\ poll[p].from < horizon
    /\ poll' = [poll EXCEPT ![p] = IdlePoll]
    /\ Unstored

HistoryExpired(p) ==
    /\ poll[p].pc = "history" /\ poll[p].from < horizon
    /\ FallBack(p, "expired")
    /\ Unstored

\* Mutant of ReadProfile: the id after the newest message.
ReadNextProfile(p) ==
    /\ poll[p].pc = "profile"
    /\ poll' = [poll EXCEPT ![p].pc = "inbox", ![p].next = arrived + 1]
    /\ Unstored

\* The profile's history id is taken before the inbox is listed, so that what
\* arrives in between is met again by the next poll.
ReadProfile(p) ==
    /\ poll[p].pc = "profile"
    /\ poll' = [poll EXCEPT ![p].pc = "inbox", ![p].next = arrived]
    /\ Unstored

\* An inbox read for want of history passes over the messages older than its
\* page; from the profile's history id on, the next poll sees everything.
PassedOver(p, f) ==
    LET older == {i \in Inbox \ Newest : i <= poll[p].next}
    IN  IF poll[p].cause = "missing" THEN f = poll[p].floor
        ELSE f \in {0} \cup older /\ \A i \in older : i <= f

ListInbox(p) ==
    /\ poll[p].pc = "inbox"
    /\ \E f \in 0..arrived :
         /\ PassedOver(p, f)
         /\ poll' = [poll EXCEPT ![p].pc = "persist", ![p].todo = Newest, ![p].floor = f]
    /\ Unstored

\* Oldest first: the inbox page is reversed, history comes in order.
Due(p, i) == i \in poll[p].todo /\ \A j \in poll[p].todo : i <= j

\* Fetch, normalize and enqueue; an event already there is a duplicate.
Persist(p, i) ==
    /\ poll[p].pc = "persist" /\ Due(p, i)
    /\ i \notin deleted \cup Refused
    /\ accepted' = accepted \cup {i}
    /\ poll' = [poll EXCEPT ![p].todo = @ \ {i}]
    /\ UNCHANGED <<mailboxVars, cursor, floor, aborts>>

\* A malformed message fails the poll, and the next one meets it again.
Refuse(p, i) ==
    /\ poll[p].pc = "persist" /\ Due(p, i)
    /\ i \in Refused \ deleted
    /\ poll' = [poll EXCEPT ![p] = IdlePoll]
    /\ Unstored

\* Gmail answers 404 for a message too.  A poll of the history takes it for
\* expired history, a poll of the inbox fails.
MessageMissing(p, i) ==
    /\ poll[p].pc = "persist" /\ Due(p, i)
    /\ i \in deleted
    /\ IF poll[p].cause = "none" THEN FallBack(p, "missing")
       ELSE poll' = [poll EXCEPT ![p] = IdlePoll]
    /\ Unstored

\* Mutant of AdvanceCursor: before the messages are stored.
AdvanceEarly(p) ==
    /\ poll[p].pc = "persist"
    /\ cursor' = poll[p].next
    /\ floor' = poll[p].floor
    /\ UNCHANGED <<mailboxVars, accepted, poll, aborts>>

AdvanceCursor(p) ==
    /\ poll[p].pc = "persist" /\ poll[p].todo = {}
    /\ cursor' = poll[p].next
    /\ floor' = poll[p].floor
    /\ poll' = [poll EXCEPT ![p] = IdlePoll]
    /\ UNCHANGED <<mailboxVars, accepted, aborts>>

\* A request or a message fails, the process is killed, or a signal arrives:
\* run_poll_loop swallows the signal as it does every failure.
Abort(p) ==
    /\ poll[p].pc # "idle"
    /\ aborts < MaxAborts
    /\ aborts' = aborts + 1
    /\ poll' = [poll EXCEPT ![p] = IdlePoll]
    /\ UNCHANGED <<mailboxVars, accepted, cursor, floor>>

PollStep(p) ==
    \/ BeginPoll(p)
    \/ \E upto \in poll[p].seen..arrived : ReadHistory(p, upto)
    \/ HistoryExpired(p)
    \/ ReadProfile(p)
    \/ ListInbox(p)
    \/ \E i \in poll[p].todo : Persist(p, i) \/ Refuse(p, i)
    \/ AdvanceCursor(p)

-----------------------------------------------------------------------------
(* Specifications *)

GmailInit ==
    /\ arrived \in 0..MaxMail
    /\ deleted = {} /\ horizon = 0
    /\ accepted = {} /\ cursor = NoCursor /\ floor = 0
    /\ poll = [p \in Pollers |-> IdlePoll]
    /\ aborts = 0

\* A mailbox from which no message is erased.
KeptNext ==
    \/ Arrive \/ ForgetHistory
    \/ \E p \in Pollers : PollStep(p) \/ Abort(p)

GmailNext ==
    \/ KeptNext
    \/ \E i \in 1..MaxMail : Delete(i)
    \/ \E p \in Pollers, i \in 1..MaxMail : MessageMissing(p, i)

KeptSpec == GmailInit /\ [][KeptNext]_gmailVars
GmailSpec == GmailInit /\ [][GmailNext]_gmailVars

\* The poll loop never ends, and its requests are answered.
FairKeptSpec == KeptSpec /\ \A p \in Pollers : WF_gmailVars(PollStep(p))
-----------------------------------------------------------------------------
(* Properties *)

\* Every variable has its type, and no history id is ahead of the mailbox.
GmailTypeOK ==
    /\ arrived \in Nat /\ horizon \in 0..arrived
    /\ deleted \subseteq 1..arrived /\ accepted \subseteq 1..arrived
    /\ cursor \in {NoCursor} \cup 0..arrived
    /\ floor \in 0..arrived
    /\ poll \in [Pollers -> Poll]
    /\ \A p \in Pollers : /\ poll[p].from <= arrived /\ poll[p].seen <= arrived
                           /\ poll[p].next <= arrived /\ poll[p].floor <= arrived
                           /\ poll[p].todo \subseteq 1..arrived
    /\ aborts \in 0..MaxAborts

\* "persist a Gmail historyId cursor only after all discovered messages are
\* durably accepted" (DECISIONS.md): behind the cursor every message is an
\* event, except those erased from the mailbox and those that the first page
\* of an inbox, read when there was no history to read, passed over.
CursorCovers ==
    \A i \in (floor + 1)..cursor : i \in accepted \cup deleted

\* A first page that holds a malformed message, and message i beyond it.
StuckShortOf(i) == i \notin Newest /\ Newest \cap Refused # {}

\* Every message becomes an event, or is passed over by an inbox read for
\* want of history, unless a malformed one came before it: the poller stays at
\* that one, but stores all that came earlier and that it gets to see.
EveryMailArrives ==
    \A i \in 1..MaxMail :
      Refused \cap 1..i = {} =>
        (arrived >= i ~> (i \in accepted \/ i <= floor \/ StuckShortOf(i)))
=============================================================================
