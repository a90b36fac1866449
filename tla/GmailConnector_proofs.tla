------------------------ MODULE GmailConnector_proofs ------------------------
(***************************************************************************)
(* Proofs about GmailConnector for every number of pollers, every inbox    *)
(* page, every set of refused messages and any number of arrivals and      *)
(* aborts.  The types hold of any mailbox (GmailSpec); that the cursor     *)
(* covers what it passes holds of one that erases nothing (KeptSpec).      *)
(***************************************************************************)
EXTENDS GmailConnector, TLAPS

-----------------------------------------------------------------------------
(* Part 1: GmailSpec *)

\* What a poller holds: a record of the type, no number beyond the mailbox.
Within(q) ==
    /\ q \in Poll
    /\ q.from <= arrived /\ q.seen <= arrived /\ q.next <= arrived /\ q.floor <= arrived
    /\ q.todo \subseteq 1..arrived

\* A poll whose places all lie in the mailbox is within it.
LEMMA WithinFields ==
  ASSUME arrived \in Nat,
         NEW pc \in {"idle", "history", "profile", "inbox", "persist"}, NEW cause \in Causes,
         NEW from \in 0..arrived, NEW seen \in 0..arrived, NEW next \in 0..arrived,
         NEW f \in 0..arrived, NEW todo \in SUBSET (1..arrived)
  PROVE  Within([pc |-> pc, cause |-> cause, from |-> from, seen |-> seen, next |-> next,
                 floor |-> f, todo |-> todo])
  <1>1. 1..arrived \subseteq Nat /\ 0..arrived \subseteq Nat
    OBVIOUS
  <1>2. todo \in SUBSET Nat
    BY <1>1
  <1>3. QED
    BY <1>2 DEF Within, Poll

\* A poller at rest is a poller.
LEMMA IdleInPoll == IdlePoll \in Poll
  BY DEF IdlePoll, Poll, Causes

\* A poller at rest holds nothing beyond the mailbox.
LEMMA IdleWithin == arrived \in Nat => Within(IdlePoll)
  <1> SUFFICES ASSUME arrived \in Nat PROVE Within(IdlePoll)
    OBVIOUS
  <1>1. 0 \in 0..arrived /\ {} \in SUBSET (1..arrived)
    OBVIOUS
  <1>2. "none" \in Causes
    BY DEF Causes
  <1>3. QED
    BY <1>1, <1>2, WithinFields DEF IdlePoll

\* A poller holds no more than seven fields.
LEMMA PollFields ==
  ASSUME GmailTypeOK, NEW p \in Pollers
  PROVE  /\ Within(poll[p])
         /\ poll[p] = [pc |-> poll[p].pc, cause |-> poll[p].cause, from |-> poll[p].from,
                       seen |-> poll[p].seen, next |-> poll[p].next, floor |-> poll[p].floor,
                       todo |-> poll[p].todo]
         /\ poll[p].pc \in {"idle", "history", "profile", "inbox", "persist"}
         /\ poll[p].cause \in Causes
         /\ {poll[p].from, poll[p].seen, poll[p].next, poll[p].floor} \subseteq 0..arrived
         /\ poll[p].todo \in SUBSET (1..arrived)
  <1>1. poll[p] \in Poll
    BY DEF GmailTypeOK
  <1>2. QED
    BY <1>1 DEF GmailTypeOK, Poll, Within

\* A poller's step keeps what the others hold.
LEMMA OthersWithin ==
  ASSUME GmailTypeOK, NEW p \in Pollers, NEW q, Within(q), arrived' = arrived,
         poll' = [poll EXCEPT ![p] = q]
  PROVE  /\ poll' \in [Pollers -> Poll]
         /\ \A r \in Pollers : /\ poll'[r].from <= arrived /\ poll'[r].seen <= arrived
                                /\ poll'[r].next <= arrived /\ poll'[r].floor <= arrived
                                /\ poll'[r].todo \subseteq 1..arrived
  <1>1. q \in Poll
    BY DEF Within
  <1>2. poll' \in [Pollers -> Poll]
    BY <1>1 DEF GmailTypeOK
  <1>3. ASSUME NEW r \in Pollers PROVE Within(poll'[r])
    <2>1. CASE r = p
      BY <2>1 DEF GmailTypeOK
    <2>2. CASE r # p
      BY <2>2, PollFields DEF GmailTypeOK
    <2>3. QED
      BY <2>1, <2>2
  <1>4. QED
    BY <1>2, <1>3 DEF Within

\* A step that stores nothing keeps the types when what the poller then holds
\* has its own.
LEMMA OnePoll ==
  ASSUME GmailTypeOK, Unstored, NEW p \in Pollers, NEW q, Within(q),
         poll' = [poll EXCEPT ![p] = q]
  PROVE  GmailTypeOK'
  <1>1. arrived' = arrived
    BY DEF Unstored, mailboxVars
  <1>2. /\ poll' \in [Pollers -> Poll]
        /\ \A r \in Pollers : /\ poll'[r].from <= arrived /\ poll'[r].seen <= arrived
                               /\ poll'[r].next <= arrived /\ poll'[r].floor <= arrived
                               /\ poll'[r].todo \subseteq 1..arrived
    BY <1>1, OthersWithin
  <1>3. QED
    BY <1>1, <1>2 DEF GmailTypeOK, Unstored, mailboxVars

\* The inbox and its first page are messages that have arrived.
LEMMA NewestArrived == Newest \subseteq 1..arrived
  BY DEF Newest, Inbox

\* A step of a poll keeps the types and the places.
LEMMA PollStepTypeOK ==
  ASSUME GmailTypeOK, NEW p \in Pollers, PollStep(p)
  PROVE  GmailTypeOK'
  <1>0. /\ arrived \in Nat /\ 0 \in 0..arrived /\ arrived \in 0..arrived /\ floor \in 0..arrived
        /\ poll[p] = [pc |-> poll[p].pc, cause |-> poll[p].cause, from |-> poll[p].from,
                      seen |-> poll[p].seen, next |-> poll[p].next, floor |-> poll[p].floor,
                      todo |-> poll[p].todo]
        /\ poll[p].pc \in {"idle", "history", "profile", "inbox", "persist"}
        /\ poll[p].cause \in Causes
        /\ poll[p].from \in 0..arrived /\ poll[p].seen \in 0..arrived
        /\ poll[p].next \in 0..arrived /\ poll[p].floor \in 0..arrived
        /\ poll[p].todo \in SUBSET (1..arrived)
    BY PollFields DEF GmailTypeOK
  <1>1. CASE BeginPoll(p) /\ cursor = NoCursor
    <2> DEFINE q == [IdlePoll EXCEPT !.pc = "profile", !.cause = "first"]
    <2>2. Within(q)
      <3>1. q \in Poll
        BY <1>0, IdleInPoll, PollFields DEF Poll, Causes, Within
      <3>2. /\ q.from <= arrived /\ q.seen <= arrived /\ q.next <= arrived /\ q.floor <= arrived
            /\ q.todo \subseteq 1..arrived
        BY <1>0, PollFields DEF IdlePoll, Poll, Within
      <3>3. QED
        BY <3>1, <3>2 DEF Within
    <2>3. poll' = [poll EXCEPT ![p] = q] /\ Unstored
      BY <1>1 DEF BeginPoll
    <2> HIDE DEF q
    <2>9. QED
      BY <2>2, <2>3, OnePoll
  <1>2. CASE BeginPoll(p) /\ cursor # NoCursor
    <2>1. cursor \in 0..arrived
      BY <1>2 DEF GmailTypeOK
    <2> DEFINE q == [IdlePoll EXCEPT !.pc = "history", !.from = cursor, !.seen = cursor, !.floor = floor]
    <2>2. Within(q)
      <3>0. cursor \in Nat /\ floor \in Nat
        BY <1>0, <2>1
      <3>1. q \in Poll
        BY <3>0 DEF IdlePoll, Poll, Causes
      <3>2. /\ q.from <= arrived /\ q.seen <= arrived /\ q.next <= arrived /\ q.floor <= arrived
            /\ q.todo \subseteq 1..arrived
        BY <1>0, <2>1, PollFields DEF IdlePoll, Poll, Within
      <3>3. QED
        BY <3>1, <3>2 DEF Within
    <2>3. poll' = [poll EXCEPT ![p] = q] /\ Unstored
      BY <1>2 DEF BeginPoll
    <2> HIDE DEF q
    <2>9. QED
      BY <2>2, <2>3, OnePoll
  <1>3. ASSUME NEW upto \in poll[p].seen..arrived, ReadHistory(p, upto), upto < arrived
        PROVE  GmailTypeOK'
    <2>1. upto \in 0..arrived
      BY <1>0, <1>3
    <2> DEFINE q == [pc |-> poll[p].pc, cause |-> poll[p].cause, from |-> poll[p].from, seen |-> upto,
                     next |-> poll[p].next, floor |-> poll[p].floor, todo |-> poll[p].todo]
    <2>2. Within(q)
      BY <1>0, <2>1, WithinFields DEF Causes
    <2>3. poll' = [poll EXCEPT ![p] = q] /\ Unstored
      BY <1>0, <1>3 DEF ReadHistory
    <2> HIDE DEF q
    <2>9. QED
      BY <2>2, <2>3, OnePoll
  <1>4. ASSUME NEW upto \in poll[p].seen..arrived, ReadHistory(p, upto), ~(upto < arrived)
        PROVE  GmailTypeOK'
    <2>1. (poll[p].from + 1)..arrived \in SUBSET (1..arrived)
      BY <1>0
    <2> DEFINE q == [pc |-> "persist", cause |-> "none", from |-> 0, seen |-> 0,
                     next |-> arrived, floor |-> poll[p].floor, todo |-> (poll[p].from + 1)..arrived]
    <2>2. Within(q)
      BY <1>0, <2>1, WithinFields DEF Causes
    <2>3. poll' = [poll EXCEPT ![p] = q] /\ Unstored
      BY <1>0, <1>4 DEF ReadHistory, IdlePoll
    <2> HIDE DEF q
    <2>9. QED
      BY <2>2, <2>3, OnePoll
  <1>5. CASE HistoryExpired(p)
    <2> DEFINE q == [IdlePoll EXCEPT !.pc = "profile", !.cause = "expired", !.floor = poll[p].floor]
    <2>2. Within(q)
      <3>1. q \in Poll
        BY <1>0, IdleInPoll, PollFields DEF Poll, Causes, Within
      <3>2. /\ q.from <= arrived /\ q.seen <= arrived /\ q.next <= arrived /\ q.floor <= arrived
            /\ q.todo \subseteq 1..arrived
        BY <1>0, PollFields DEF IdlePoll, Poll, Within
      <3>3. QED
        BY <3>1, <3>2 DEF Within
    <2>3. poll' = [poll EXCEPT ![p] = q] /\ Unstored
      BY <1>5 DEF HistoryExpired, FallBack
    <2> HIDE DEF q
    <2>9. QED
      BY <2>2, <2>3, OnePoll
  <1>6. CASE ReadProfile(p)
    <2> DEFINE q == [poll[p] EXCEPT !.pc = "inbox", !.next = arrived]
    <2>2. Within(q)
      <3>1. q \in Poll
        BY <1>0, IdleInPoll, PollFields DEF Poll, Causes, Within
      <3>2. /\ q.from <= arrived /\ q.seen <= arrived /\ q.next <= arrived /\ q.floor <= arrived
            /\ q.todo \subseteq 1..arrived
        BY <1>0, PollFields DEF IdlePoll, Poll, Within
      <3>3. QED
        BY <3>1, <3>2 DEF Within
    <2>3. poll' = [poll EXCEPT ![p] = q] /\ Unstored
      BY <1>6 DEF ReadProfile
    <2> HIDE DEF q
    <2>9. QED
      BY <2>2, <2>3, OnePoll
  <1>7. CASE ListInbox(p)
    <2>1. PICK f \in 0..arrived :
             poll' = [poll EXCEPT ![p].pc = "persist", ![p].todo = Newest, ![p].floor = f]
      BY <1>7 DEF ListInbox
    <2> DEFINE q == [pc |-> "persist", cause |-> poll[p].cause, from |-> poll[p].from, seen |-> poll[p].seen,
                     next |-> poll[p].next, floor |-> f, todo |-> Newest]
    <2>2. Within(q)
      BY <1>0, NewestArrived, WithinFields DEF Causes
    <2>3. poll' = [poll EXCEPT ![p] = q] /\ Unstored
      BY <1>0, <1>7, <2>1 DEF ListInbox
    <2> HIDE DEF q
    <2>9. QED
      BY <2>2, <2>3, OnePoll
  <1>8. ASSUME NEW i \in poll[p].todo, Persist(p, i) PROVE GmailTypeOK'
    <2> DEFINE q == [pc |-> poll[p].pc, cause |-> poll[p].cause, from |-> poll[p].from,
                     seen |-> poll[p].seen, next |-> poll[p].next, floor |-> poll[p].floor,
                     todo |-> poll[p].todo \ {i}]
    <2>1. i \in 1..arrived
      BY <1>0
    <2>2. Within(q)
      BY <1>0, WithinFields
    <2>3. [poll[p] EXCEPT !.todo = @ \ {i}] = q
      BY <1>0
    <2>4. poll' = [poll EXCEPT ![p] = q] /\ arrived' = arrived
      BY <2>3, <1>8 DEF Persist, mailboxVars
    <2> HIDE DEF q
    <2>5. /\ poll' \in [Pollers -> Poll]
          /\ \A r \in Pollers : /\ poll'[r].from <= arrived /\ poll'[r].seen <= arrived
                                 /\ poll'[r].next <= arrived /\ poll'[r].floor <= arrived
                                 /\ poll'[r].todo \subseteq 1..arrived
      BY <2>2, <2>4, OthersWithin
    <2>6. QED
      BY <1>8, <2>1, <2>4, <2>5 DEF GmailTypeOK, Persist, mailboxVars
  <1>9. ASSUME NEW i \in poll[p].todo, Refuse(p, i) PROVE GmailTypeOK'
    BY <1>0, <1>9, IdleWithin, OnePoll DEF Refuse
  <1>10. CASE AdvanceCursor(p)
    <2>1. poll' = [poll EXCEPT ![p] = IdlePoll] /\ arrived' = arrived
      BY <1>10 DEF AdvanceCursor, mailboxVars
    <2>2. /\ poll' \in [Pollers -> Poll]
          /\ \A r \in Pollers : /\ poll'[r].from <= arrived /\ poll'[r].seen <= arrived
                                 /\ poll'[r].next <= arrived /\ poll'[r].floor <= arrived
                                 /\ poll'[r].todo \subseteq 1..arrived
      BY <1>0, <2>1, IdleWithin, OthersWithin
    <2>3. QED
      BY <1>0, <1>10, <2>1, <2>2 DEF GmailTypeOK, AdvanceCursor, mailboxVars
  <1>11. QED
    BY <1>1, <1>2, <1>3, <1>4, <1>5, <1>6, <1>7, <1>8, <1>9, <1>10 DEF PollStep

\* The types hold to begin with.
LEMMA GmailInitTypeOK == GmailInit => GmailTypeOK
  <1> SUFFICES ASSUME GmailInit PROVE GmailTypeOK
    OBVIOUS
  <1>1. Within(IdlePoll) /\ arrived \in Nat
    BY IdleWithin, GmailAssumption DEF GmailInit
  <1>2. QED
    BY <1>1, GmailAssumption DEF GmailInit, GmailTypeOK, Within

\* Every step keeps the types.
LEMMA GmailTypeInductive == GmailTypeOK /\ [GmailNext]_gmailVars => GmailTypeOK'
  <1> SUFFICES ASSUME GmailTypeOK, [GmailNext]_gmailVars PROVE GmailTypeOK'
    OBVIOUS
  <1>1. CASE Arrive
    <2>1. \A i \in 0..arrived : i \in 0..arrived'
      BY <1>1 DEF GmailTypeOK, Arrive
    <2>2. \A S \in SUBSET (1..arrived) : S \subseteq 1..arrived'
      BY <1>1 DEF GmailTypeOK, Arrive
    <2>3. ASSUME NEW p \in Pollers
          PROVE  /\ poll'[p].from <= arrived' /\ poll'[p].seen <= arrived'
                 /\ poll'[p].next <= arrived' /\ poll'[p].floor <= arrived'
                 /\ poll'[p].todo \subseteq 1..arrived'
      BY <1>1, <2>1, <2>2, PollFields DEF Arrive, GmailTypeOK
    <2>4. QED
      BY <1>1, <2>1, <2>2, <2>3 DEF GmailTypeOK, Arrive, NoCursor
  <1>2. CASE ForgetHistory
    BY <1>2 DEF GmailTypeOK, ForgetHistory
  <1>3. ASSUME NEW i \in 1..MaxMail, Delete(i) PROVE GmailTypeOK'
    BY <1>3 DEF GmailTypeOK, Delete, Inbox
  <1>4. ASSUME NEW p \in Pollers, PollStep(p) PROVE GmailTypeOK'
    BY <1>4, PollStepTypeOK
  <1>5. ASSUME NEW p \in Pollers, Abort(p) PROVE GmailTypeOK'
    <2>1. poll' = [poll EXCEPT ![p] = IdlePoll] /\ arrived' = arrived /\ arrived \in Nat
      BY <1>5 DEF GmailTypeOK, Abort, mailboxVars
    <2>2. /\ poll' \in [Pollers -> Poll]
          /\ \A r \in Pollers : /\ poll'[r].from <= arrived /\ poll'[r].seen <= arrived
                                 /\ poll'[r].next <= arrived /\ poll'[r].floor <= arrived
                                 /\ poll'[r].todo \subseteq 1..arrived
      BY <2>1, IdleWithin, OthersWithin
    <2>3. QED
      BY <1>5, <2>1, <2>2, GmailAssumption DEF GmailTypeOK, Abort, mailboxVars
  <1>6. ASSUME NEW p \in Pollers, NEW i \in 1..MaxMail, MessageMissing(p, i) PROVE GmailTypeOK'
    <2> DEFINE q == [pc |-> "profile", cause |-> "missing", from |-> 0, seen |-> 0,
                     next |-> 0, floor |-> poll[p].floor, todo |-> {}]
    <2>1. Within(q) /\ Within(IdlePoll)
      <3>1. /\ 0 \in 0..arrived /\ {} \in SUBSET (1..arrived) /\ arrived \in Nat
            /\ "missing" \in Causes
        BY DEF GmailTypeOK, Causes
      <3>2. poll[p].floor \in 0..arrived
        BY PollFields
      <3>3. QED
        BY <3>1, <3>2, IdleWithin, WithinFields
    <2>2. (poll' = [poll EXCEPT ![p] = q] \/ poll' = [poll EXCEPT ![p] = IdlePoll]) /\ Unstored
      BY <1>6 DEF MessageMissing, FallBack, IdlePoll
    <2> HIDE DEF q
    <2>3. QED
      BY <2>1, <2>2, OnePoll
  <1>7. CASE UNCHANGED gmailVars
    BY <1>7 DEF GmailTypeOK, gmailVars, mailboxVars
  <1>8. QED
    BY <1>1, <1>2, <1>3, <1>4, <1>5, <1>6, <1>7 DEF GmailNext, KeptNext

\* Types, and no cursor, floor or page of any poller beyond the mailbox,
\* whatever is erased, forgotten, refused or cut short.
THEOREM GmailTypes == GmailSpec => []GmailTypeOK
  BY GmailInitTypeOK, GmailTypeInductive, PTL DEF GmailSpec

-----------------------------------------------------------------------------
(* Part 2: KeptSpec *)

\* What a poll may rely on: its history goes back to a cursor that covered
\* its own floor, and what it is about to put behind the cursor is stored or
\* still to do.
PollCovers(p) ==
    /\ poll[p].cause # "missing"
    /\ poll[p].pc = "history" =>
         \A i \in (poll[p].floor + 1)..poll[p].from : i \in accepted
    /\ poll[p].pc = "persist" =>
         \A i \in (poll[p].floor + 1)..poll[p].next : i \in accepted \cup poll[p].todo

KeptInv ==
    /\ GmailTypeOK
    /\ deleted = {}
    /\ CursorCovers
    /\ \A p \in Pollers : PollCovers(p)

\* The invariant holds to begin with.
LEMMA KeptInit == GmailInit => KeptInv
  BY GmailInitTypeOK DEF GmailInit, KeptInv, CursorCovers, PollCovers, NoCursor, IdlePoll

\* A poller's step keeps what the cursor and the pollers cover.
LEMMA PollStepCovers ==
  ASSUME KeptInv, NEW p \in Pollers, PollStep(p)
  PROVE  KeptInv'
  <1>0. GmailTypeOK' /\ poll[p] \in Poll /\ arrived \in Nat /\ deleted' = {}
    BY PollStepTypeOK
       DEF KeptInv, GmailTypeOK, PollStep, BeginPoll, ReadHistory, HistoryExpired, ReadProfile,
           ListInbox, Persist, Refuse, AdvanceCursor, Unstored, mailboxVars
  <1> DEFINE Others == \A q \in Pollers : q # p => poll'[q] = poll[q]
  <1>1. ASSUME Unstored, Others, PollCovers(p)' PROVE KeptInv'
    <2>1. CursorCovers'
      BY <1>1 DEF KeptInv, CursorCovers, Unstored, mailboxVars
    <2>2. ASSUME NEW q \in Pollers PROVE PollCovers(q)'
      BY <1>1, <2>2 DEF KeptInv, PollCovers, Unstored, mailboxVars
    <2>3. QED
      BY <1>0, <2>1, <2>2 DEF KeptInv
  <1>2. CASE BeginPoll(p)
    <2>1. Unstored /\ Others
      BY <1>2 DEF BeginPoll
    <2>2. PollCovers(p)'
      BY <1>2 DEF BeginPoll, PollCovers, KeptInv, CursorCovers, GmailTypeOK, IdlePoll, Unstored
    <2>3. QED
      BY <1>1, <2>1, <2>2
  <1>3. ASSUME NEW upto \in poll[p].seen..arrived, ReadHistory(p, upto) PROVE KeptInv'
    <2>1. Unstored /\ Others
      BY <1>3 DEF ReadHistory, KeptInv, GmailTypeOK
    <2>2. CASE upto < arrived
      <3>1. poll'[p] = [poll[p] EXCEPT !.seen = upto] /\ accepted' = accepted
        BY <1>0, <1>3, <2>2 DEF ReadHistory, KeptInv, GmailTypeOK, Unstored
      <3>2. PollCovers(p)'
        BY <1>0, <3>1 DEF PollCovers, KeptInv, Poll
      <3>3. QED
        BY <1>1, <2>1, <3>2
    <2>3. CASE ~(upto < arrived)
      <3>1. /\ poll'[p] = [IdlePoll EXCEPT !.pc = "persist", !.next = arrived,
                                           !.floor = poll[p].floor,
                                           !.todo = (poll[p].from + 1)..arrived]
            /\ accepted' = accepted
        BY <1>0, <1>3, <2>3 DEF ReadHistory, KeptInv, GmailTypeOK, Unstored
      <3>2. \A i \in (poll[p].floor + 1)..poll[p].from : i \in accepted
        BY <1>3 DEF ReadHistory, KeptInv, PollCovers
      <3>3. PollCovers(p)'
        BY <1>0, <3>1, <3>2 DEF PollCovers, Poll, IdlePoll
      <3>4. QED
        BY <1>1, <2>1, <3>3
    <2>4. QED
      BY <2>2, <2>3
  <1>4. CASE HistoryExpired(p)
    <2>1. Unstored /\ Others
      BY <1>4 DEF HistoryExpired, FallBack
    <2>2. PollCovers(p)'
      BY <1>4 DEF HistoryExpired, FallBack, PollCovers, KeptInv, GmailTypeOK, IdlePoll
    <2>3. QED
      BY <1>1, <2>1, <2>2
  <1>5. CASE ReadProfile(p)
    <2>1. Unstored /\ Others
      BY <1>5 DEF ReadProfile, KeptInv, GmailTypeOK
    <2>2. PollCovers(p)'
      BY <1>0, <1>5 DEF ReadProfile, PollCovers, KeptInv, GmailTypeOK, Poll
    <2>3. QED
      BY <1>1, <2>1, <2>2
  <1>6. CASE ListInbox(p)
    <2>1. Unstored /\ Others
      BY <1>6 DEF ListInbox, KeptInv, GmailTypeOK
    <2>2. PICK f \in 0..arrived :
             /\ PassedOver(p, f)
             /\ poll' = [poll EXCEPT ![p].pc = "persist", ![p].todo = Newest, ![p].floor = f]
      BY <1>6 DEF ListInbox
    <2>3. poll'[p] = [poll[p] EXCEPT !.pc = "persist", !.todo = Newest, !.floor = f]
      BY <2>2 DEF KeptInv, GmailTypeOK
    <2>4. ASSUME NEW i \in (f + 1)..poll[p].next PROVE i \in Newest
      <3>1. i \in Inbox /\ i <= poll[p].next /\ ~(i <= f)
        BY <1>0, <2>4 DEF KeptInv, GmailTypeOK, Inbox, Poll
      <3>2. \A j \in Inbox \ Newest : j <= poll[p].next => j <= f
        BY <2>2 DEF PassedOver, KeptInv, PollCovers
      <3>3. QED
        BY <3>1, <3>2
    <2>5. PollCovers(p)'
      BY <1>0, <2>3, <2>4 DEF PollCovers, KeptInv, Poll
    <2>6. QED
      BY <1>1, <2>1, <2>5
  <1>7. ASSUME NEW i \in poll[p].todo, Persist(p, i) PROVE KeptInv'
    <2>1. /\ accepted' = accepted \cup {i} /\ cursor' = cursor /\ floor' = floor
          /\ poll'[p] = [poll[p] EXCEPT !.todo = @ \ {i}] /\ Others
      BY <1>7 DEF Persist, KeptInv, GmailTypeOK
    <2>2. CursorCovers'
      BY <1>0, <2>1 DEF KeptInv, CursorCovers
    <2>3. ASSUME NEW q \in Pollers PROVE PollCovers(q)'
      <3>1. CASE q = p
        BY <1>0, <2>1, <3>1 DEF KeptInv, PollCovers, Poll
      <3>2. CASE q # p
        <4>1. poll'[q] = poll[q] /\ PollCovers(q)
          BY <2>1, <3>2 DEF KeptInv
        <4>2. QED
          BY <2>1, <4>1 DEF PollCovers
      <3>3. QED
        BY <3>1, <3>2
    <2>4. QED
      BY <1>0, <2>2, <2>3 DEF KeptInv
  <1>8. ASSUME NEW i \in poll[p].todo, Refuse(p, i) PROVE KeptInv'
    <2>1. Unstored /\ Others /\ poll'[p] = IdlePoll
      BY <1>8 DEF Refuse, KeptInv, GmailTypeOK
    <2>2. PollCovers(p)'
      BY <2>1 DEF PollCovers, IdlePoll
    <2>3. QED
      BY <1>1, <2>1, <2>2
  <1>9. CASE AdvanceCursor(p)
    <2>1. /\ accepted' = accepted /\ cursor' = poll[p].next /\ floor' = poll[p].floor
          /\ poll'[p] = IdlePoll /\ Others
      BY <1>9 DEF AdvanceCursor, KeptInv, GmailTypeOK
    <2>2. \A i \in (poll[p].floor + 1)..poll[p].next : i \in accepted
      BY <1>9 DEF AdvanceCursor, KeptInv, PollCovers
    <2>3. CursorCovers'
      BY <2>1, <2>2 DEF CursorCovers
    <2>4. ASSUME NEW q \in Pollers PROVE PollCovers(q)'
      <3>1. CASE q = p
        BY <2>1, <3>1 DEF PollCovers, IdlePoll
      <3>2. CASE q # p
        <4>1. poll'[q] = poll[q] /\ PollCovers(q)
          BY <2>1, <3>2 DEF KeptInv
        <4>2. QED
          BY <2>1, <4>1 DEF PollCovers
      <3>3. QED
        BY <3>1, <3>2
    <2>5. QED
      BY <1>0, <2>3, <2>4 DEF KeptInv
  <1>10. QED
    BY <1>2, <1>3, <1>4, <1>5, <1>6, <1>7, <1>8, <1>9 DEF PollStep

\* Every step of a mailbox that keeps its messages keeps the invariant.
LEMMA KeptInductive == KeptInv /\ [KeptNext]_gmailVars => KeptInv'
  <1> SUFFICES ASSUME KeptInv, [KeptNext]_gmailVars PROVE KeptInv'
    OBVIOUS
  <1>1. GmailTypeOK'
    BY GmailTypeInductive DEF KeptInv, GmailNext
  <1>2. CASE Arrive
    BY <1>1, <1>2 DEF KeptInv, Arrive, CursorCovers, PollCovers
  <1>3. CASE ForgetHistory
    BY <1>1, <1>3 DEF KeptInv, ForgetHistory, CursorCovers, PollCovers
  <1>4. ASSUME NEW p \in Pollers, PollStep(p) PROVE KeptInv'
    BY <1>4, PollStepCovers
  <1>5. ASSUME NEW p \in Pollers, Abort(p) PROVE KeptInv'
    <2>1. CursorCovers' /\ deleted' = {}
      BY <1>5 DEF KeptInv, Abort, CursorCovers, mailboxVars
    <2>2. ASSUME NEW q \in Pollers PROVE PollCovers(q)'
      BY <1>5 DEF KeptInv, GmailTypeOK, Abort, PollCovers, IdlePoll
    <2>3. QED
      BY <1>1, <2>1, <2>2 DEF KeptInv
  <1>6. CASE UNCHANGED gmailVars
    BY <1>1, <1>6 DEF KeptInv, CursorCovers, PollCovers, gmailVars, mailboxVars
  <1>7. QED
    BY <1>2, <1>3, <1>4, <1>5, <1>6 DEF KeptNext

\* Of a mailbox that erases nothing, whatever history it forgets, whatever
\* normalisation refuses, however many pollers share the cursor and wherever
\* they are cut short: every message behind the cursor is an event, unless an
\* inbox read for want of history passed it over.
THEOREM CursorCovered == KeptSpec => []CursorCovers
  <1>1. KeptInv => CursorCovers
    BY DEF KeptInv
  <1>2. QED
    BY KeptInit, KeptInductive, <1>1, PTL DEF KeptSpec
=============================================================================
