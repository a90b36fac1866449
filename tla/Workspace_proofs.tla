--------------------------- MODULE Workspace_proofs ---------------------------
(***************************************************************************)
(* Proofs about Workspace for any messages, conversations, venues, routes, *)
(* filters and page size.                                                  *)
(***************************************************************************)
EXTENDS Workspace, FiniteSetTheorems, TLAPS

-----------------------------------------------------------------------------
(* The order of the list *)

\* Behind and Before are one relation: behind the cursor is what the list has
\* after the cursor's conversation where it stands now.
LEMMA BehindIsAfter ==
  ASSUME WorkspaceTypeOK, NEW c \in Conversations, NEW d \in Conversations
  PROVE  Behind(c, conversations[c].last, d) <=> Before(c, d)
  BY WorkspaceAssumption DEF WorkspaceTypeOK, Conversation, Behind, Before

\* Numbers that occur have a least one.
LEMMA LeastNumber ==
  ASSUME NEW T, T \subseteq Nat, T # {}
  PROVE  \E x \in T : \A y \in T : x <= y
  <1>1. PICK x \in T : \A y \in T : ~(<<y, x>> \in OpToRel(<, Nat))
    BY NatLessThanWellFounded, WFMin
  <1>2. \A y \in T : ~(y < x)
    BY <1>1 DEF OpToRel
  <1>3. QED
    BY <1>2

\* A page that is not empty has a last row.
LEMMA LastRow ==
  ASSUME WorkspaceTypeOK, NEW rows \in SUBSET Conversations, rows # {}
  PROVE  \E c \in rows : \A d \in rows \ {c} : Before(d, c)
  <1> DEFINE times == {conversations[d].last : d \in rows}
  <1>1. times \subseteq Nat /\ times # {}
    BY DEF WorkspaceTypeOK, Conversation
  <1>2. PICK t \in times : \A u \in times : t <= u
    BY <1>1, LeastNumber
  <1> DEFINE oldest == {d \in rows : conversations[d].last = t}
  <1>3. oldest \subseteq Nat /\ oldest # {}
    BY <1>2, WorkspaceAssumption
  <1>4. PICK c \in oldest : \A d \in oldest : c <= d
    BY <1>3, LeastNumber
  <1>5. ASSUME NEW d \in rows \ {c} PROVE Before(d, c)
    <2>1. /\ conversations[d].last \in Nat /\ conversations[c].last = t /\ t \in Nat
          /\ t <= conversations[d].last /\ c \in Nat /\ d \in Nat
      <3>1. conversations[c].last = t /\ t <= conversations[d].last
        BY <1>2
      <3>2. conversations[d] \in Conversation /\ conversations[c] \in Conversation
        BY DEF WorkspaceTypeOK
      <3>3. QED
        BY <3>1, <3>2, WorkspaceAssumption DEF Conversation
    <2>2. conversations[d].last = t => c <= d
      BY <1>4
    <2>3. QED
      BY <2>1, <2>2 DEF Before
  <1>6. QED
    BY <1>5

\* A page shows what comes first, and the link to the next one names a
\* conversation before all that is left.
LEMMA PageAndLink ==
  ASSUME WorkspaceTypeOK, NEW S \in SUBSET Conversations, NEW rows \in SUBSET S,
         IsPage(rows, S), NEW walk \in Reader, Show(rows, S, walk)
  PROVE  /\ reader' \in Reader
         /\ reader'.filter = walk.filter /\ reader'.steady = walk.steady
         /\ reader'.shown = walk.shown \cup rows
         /\ \/ rows = S /\ reader'.pc = "done"
            \/ /\ reader'.pc = "linked"
               /\ reader'.cursor \in Conversations
               /\ \A d \in S \ rows : Before(reader'.cursor, d)
  <1>1. CASE rows = S
    BY <1>1 DEF Show, Reader
  <1>2. CASE rows # S
    <2>1. rows # {}
      BY <1>2, FS_EmptySet, WorkspaceAssumption DEF IsPage
    <2> DEFINE last == CHOOSE c \in rows : \A d \in rows \ {c} : Before(d, c)
    <2>2. last \in rows
      BY <2>1, LastRow
    <2> HIDE DEF last
    <2>3. reader' = [walk EXCEPT !.pc = "linked", !.cursor = last, !.at = 0, !.shown = @ \cup rows]
      BY <1>2 DEF Show, last
    <2>4. reader' \in Reader
      BY <2>2, <2>3 DEF Reader
    <2>5. /\ reader'.filter = walk.filter /\ reader'.steady = walk.steady
          /\ reader'.shown = walk.shown \cup rows
          /\ reader'.pc = "linked" /\ reader'.cursor = last
      BY <2>3 DEF Reader
    <2>6. QED
      BY <2>2, <2>4, <2>5 DEF IsPage
  <1>3. QED
    BY <1>1, <1>2

-----------------------------------------------------------------------------
(* The inductive invariant *)

\* A walk that goes on has before it every steady conversation not yet shown:
\* behind the cursor's conversation, wherever that stands by now.
WalkInv ==
    /\ reader.pc = "linked" =>
         /\ reader.cursor \in Conversations
         /\ \A c \in reader.steady \ reader.shown : Before(reader.cursor, c)
    /\ reader.pc = "located" =>
         \A c \in reader.steady \ reader.shown : Behind(reader.cursor, reader.at, c)
    /\ \A c \in reader.steady : Matches(reader.filter, conversations[c])
    /\ PageWalkComplete

\* A conversation without a row counts from zero.
UnheardIsZero == \A c \in Conversations : ~Exists(c) => conversations[c].last = 0

WorkspaceInv == WorkspaceTypeOK /\ LastIsNewest /\ UnheardIsZero /\ WalkInv

\* A handler touches the tables, and of the walk only what is steady.
LEMMA HandleTypeOK ==
  ASSUME WorkspaceTypeOK, Handle, Watch
  PROVE  WorkspaceTypeOK'
  <1>1. reader' \in Reader
    BY DEF WorkspaceTypeOK, Watch, Reader
  <1>2. ASSUME NEW m \in Messages, Ingest(m) PROVE WorkspaceTypeOK'
    <2> DEFINE c == ConversationOf[m]
               v == VenueAfter(conversations[c].venue, RouteVenue(RecipientOf[m]))
               row == [venue |-> v,
                       status |-> IF conversations[c].status = "pending_review"
                                  THEN conversations[c].status ELSE "open",
                       last |-> NewestMessage(conversations[c].last, ReceivedAt[m])]
    <2>1. c \in Conversations /\ RecipientOf[m] \in Recipients /\ ReceivedAt[m] \in Nat
      BY WorkspaceAssumption
    <2>2. v \in VenueRef /\ (v \in Venues => venues[v] # "absent")
      BY <2>1, WorkspaceAssumption
         DEF WorkspaceTypeOK, VenueAfter, RouteVenue, ActiveVenues, VenueRef, Conversation
    <2>3. conversations[c] \in Conversation
      BY <2>1 DEF WorkspaceTypeOK
    <2> HIDE DEF v
    <2>4. row \in Conversation
      BY <2>1, <2>2, <2>3 DEF Conversation, Statuses, NewestMessage, Latest
    <2>5. conversations' = [conversations EXCEPT ![c] = row] /\ row.venue = v
      BY <1>2 DEF Ingest, v
    <2> HIDE DEF row, c
    <2>6. conversations' \in [Conversations -> Conversation]
      BY <2>4, <2>5 DEF WorkspaceTypeOK
    <2>7. \A d \in Conversations : conversations'[d].venue \in {conversations[d].venue, v}
      BY <2>5 DEF WorkspaceTypeOK
    <2>8. QED
      BY <1>1, <1>2, <2>2, <2>6, <2>7 DEF WorkspaceTypeOK, Ingest
  <1>3. ASSUME NEW v \in Venues, CreateVenue(v) PROVE WorkspaceTypeOK'
    BY <1>1, <1>3 DEF WorkspaceTypeOK, CreateVenue, VenueStates
  <1>4. ASSUME NEW v \in Venues, NEW active \in {"active", "inactive"}, UpdateVenue(v, active)
        PROVE  WorkspaceTypeOK'
    BY <1>1, <1>4 DEF WorkspaceTypeOK, UpdateVenue, VenueStates
  <1>5. ASSUME NEW v \in Venues, NEW r \in Recipients, AddRoute(v, r) PROVE WorkspaceTypeOK'
    <2>1. routes' \in [Recipients -> Route]
      BY <1>5 DEF WorkspaceTypeOK, AddRoute, Route, VenueRef
    <2>2. \A s \in Recipients : routes'[s] = routes[s] \/ routes'[s].venue = v
      BY <1>5 DEF WorkspaceTypeOK, AddRoute
    <2>3. QED
      BY <1>1, <1>5, <2>1, <2>2 DEF WorkspaceTypeOK, AddRoute
  <1>6. ASSUME NEW r \in Recipients, DisableRoute(r) PROVE WorkspaceTypeOK'
    <2>1. routes' \in [Recipients -> Route]
      BY <1>6 DEF WorkspaceTypeOK, DisableRoute, Route
    <2>2. routes[r] # NoRoute
      BY <1>6 DEF DisableRoute, NoRoute
    <2>3. \A s \in Recipients : routes'[s].venue = routes[s].venue /\ (s # r => routes'[s] = routes[s])
      BY <1>6 DEF WorkspaceTypeOK, DisableRoute, Route
    <2>4. QED
      BY <1>1, <1>6, <2>1, <2>2, <2>3 DEF WorkspaceTypeOK, DisableRoute
  <1>7. ASSUME NEW c \in Conversations, NEW v \in VenueRef, AssignConversation(c, v)
        PROVE  WorkspaceTypeOK'
    <2>1. conversations' \in [Conversations -> Conversation]
      BY <1>7 DEF WorkspaceTypeOK, AssignConversation, Conversation
    <2>2. \A d \in Conversations : conversations'[d].venue \in {conversations[d].venue, v}
      BY <1>7 DEF WorkspaceTypeOK, AssignConversation, Conversation
    <2>3. v \in Venues => venues[v] # "absent"
      BY <1>7, WorkspaceAssumption DEF AssignConversation, ActiveVenues
    <2>4. QED
      BY <1>1, <1>7, <2>1, <2>2, <2>3 DEF WorkspaceTypeOK, AssignConversation
  <1>8. ASSUME NEW c \in Conversations, NEW st \in {"open", "resolved", "pending_review"},
               SetConversationStatus(c, st) \/ SetReviewStatus(c, st)
        PROVE  WorkspaceTypeOK'
    <2>1. conversations' \in [Conversations -> Conversation]
      BY <1>8 DEF WorkspaceTypeOK, SetConversationStatus, SetReviewStatus, Conversation, Statuses
    <2>2. \A d \in Conversations : conversations'[d].venue = conversations[d].venue
      BY <1>8 DEF WorkspaceTypeOK, SetConversationStatus, SetReviewStatus, Conversation
    <2>3. QED
      BY <1>1, <1>8, <2>1, <2>2 DEF WorkspaceTypeOK, SetConversationStatus, SetReviewStatus
  <1>9. QED
    BY <1>2, <1>3, <1>4, <1>5, <1>6, <1>7, <1>8 DEF Handle

\* Only a message changes when a conversation was last heard of, and only its
\* own; other handlers keep the messages, and which conversations have a row.
LEMMA HandleTimes ==
  ASSUME WorkspaceTypeOK, Handle
  PROVE  \/ /\ events' = events
            /\ \A c \in Conversations : /\ conversations'[c].last = conversations[c].last
                                        /\ Exists(c)' <=> Exists(c)
         \/ \E m \in Messages :
              /\ events' = events \cup {m}
              /\ \A c \in Conversations \ {ConversationOf[m]} : conversations'[c] = conversations[c]
              /\ conversations'[ConversationOf[m]].last =
                   NewestMessage(conversations[ConversationOf[m]].last, ReceivedAt[m])
              /\ Exists(ConversationOf[m])'
  <1>1. ASSUME NEW m \in Messages, Ingest(m)
        PROVE  /\ events' = events \cup {m}
               /\ \A c \in Conversations \ {ConversationOf[m]} : conversations'[c] = conversations[c]
               /\ conversations'[ConversationOf[m]].last =
                    NewestMessage(conversations[ConversationOf[m]].last, ReceivedAt[m])
               /\ Exists(ConversationOf[m])'
    <2>1. ConversationOf[m] \in Conversations
      BY WorkspaceAssumption
    <2>2. QED
      BY <1>1, <2>1 DEF Ingest, WorkspaceTypeOK, Exists
  <1>2. ASSUME NEW v \in Venues, \/ CreateVenue(v)
                                 \/ \E active \in {"active", "inactive"} : UpdateVenue(v, active)
                                 \/ \E r \in Recipients : AddRoute(v, r)
        PROVE  events' = events /\ conversations' = conversations
    BY <1>2 DEF CreateVenue, UpdateVenue, AddRoute
  <1>3. ASSUME NEW r \in Recipients, DisableRoute(r)
        PROVE  events' = events /\ conversations' = conversations
    BY <1>3 DEF DisableRoute
  <1>4. ASSUME NEW c \in Conversations,
               \/ \E v \in VenueRef : AssignConversation(c, v)
               \/ \E st \in {"open", "resolved"} : SetConversationStatus(c, st)
               \/ \E st \in {"open", "pending_review"} : SetReviewStatus(c, st)
        PROVE  /\ events' = events
               /\ \A d \in Conversations : /\ conversations'[d].last = conversations[d].last
                                           /\ Exists(d)' <=> Exists(d)
    <2>1. CASE \E v \in VenueRef : AssignConversation(c, v)
      BY <2>1 DEF AssignConversation, WorkspaceTypeOK, Conversation, Exists
    <2>2. CASE \E st \in {"open", "resolved"} : SetConversationStatus(c, st)
      BY <2>2 DEF SetConversationStatus, WorkspaceTypeOK, Conversation, Exists
    <2>3. CASE \E st \in {"open", "pending_review"} : SetReviewStatus(c, st)
      BY <2>3 DEF SetReviewStatus, WorkspaceTypeOK, Conversation, Exists
    <2>4. QED
      BY <1>4, <2>1, <2>2, <2>3
  <1>5. QED
    BY <1>1, <1>2, <1>3, <1>4 DEF Handle, Exists

\* Every handler keeps conversations listed by their newest message.
LEMMA HandleNewest ==
  ASSUME WorkspaceTypeOK, LastIsNewest, UnheardIsZero, Handle
  PROVE  LastIsNewest' /\ UnheardIsZero'
  <1>1. CASE /\ events' = events
             /\ \A c \in Conversations : /\ conversations'[c].last = conversations[c].last
                                         /\ Exists(c)' <=> Exists(c)
    BY <1>1 DEF LastIsNewest, UnheardIsZero
  <1>2. ASSUME NEW m \in Messages,
               events' = events \cup {m},
               \A c \in Conversations \ {ConversationOf[m]} : conversations'[c] = conversations[c],
               conversations'[ConversationOf[m]].last =
                 NewestMessage(conversations[ConversationOf[m]].last, ReceivedAt[m]),
               Exists(ConversationOf[m])'
        PROVE  LastIsNewest' /\ UnheardIsZero'
    <2>0. UnheardIsZero'
      BY <1>2, WorkspaceAssumption DEF UnheardIsZero, Exists
    <2> SUFFICES ASSUME NEW c \in Conversations
                 PROVE  LET mine == {n \in events' : ConversationOf[n] = c}
                        IN  /\ Exists(c)' <=> mine # {}
                            /\ \A n \in mine : ReceivedAt[n] <= conversations'[c].last
                            /\ Exists(c)' => \E n \in mine : ReceivedAt[n] = conversations'[c].last
      BY <2>0 DEF LastIsNewest
    <2>1. CASE c # ConversationOf[m]
      <3>1. {n \in events' : ConversationOf[n] = c} = {n \in events : ConversationOf[n] = c}
        BY <1>2, <2>1
      <3>2. conversations'[c] = conversations[c] /\ (Exists(c)' <=> Exists(c))
        BY <1>2, <2>1 DEF Exists
      <3>3. QED
        BY <3>1, <3>2 DEF LastIsNewest
    <2>2. CASE c = ConversationOf[m]
      <3>1. /\ conversations[c].last \in Nat /\ events \subseteq Messages
            /\ \A n \in events \cup {m} : ReceivedAt[n] \in Nat \ {0}
        BY WorkspaceAssumption DEF WorkspaceTypeOK, Conversation
      <3>2. m \in events' /\ ConversationOf[m] = c /\ Exists(c)'
        BY <1>2, <2>2
      <3>3. \A n \in events : ConversationOf[n] = c => ReceivedAt[n] <= conversations[c].last
        BY DEF LastIsNewest
      <3>4. \/ \E n \in events : ConversationOf[n] = c /\ ReceivedAt[n] = conversations[c].last
            \/ ReceivedAt[m] >= conversations[c].last
        <4>1. CASE Exists(c)
          BY <4>1 DEF LastIsNewest
        <4>2. CASE ~Exists(c)
          BY <3>1, <4>2 DEF UnheardIsZero
        <4>3. QED
          BY <4>1, <4>2
      <3>5. conversations'[c].last = IF conversations[c].last > ReceivedAt[m]
                                     THEN conversations[c].last ELSE ReceivedAt[m]
        BY <1>2, <2>2 DEF NewestMessage, Latest
      <3>6. \A n \in events' : ConversationOf[n] = c => ReceivedAt[n] <= conversations'[c].last
        BY <1>2, <3>1, <3>3, <3>5
      <3>7. \E n \in events' : ConversationOf[n] = c /\ ReceivedAt[n] = conversations'[c].last
        BY <1>2, <3>1, <3>2, <3>4, <3>5
      <3>8. QED
        BY <3>2, <3>6, <3>7
    <2>3. QED
      BY <2>1, <2>2
  <1>3. QED
    BY <1>1, <1>2, HandleTimes

\* What stands still under a handler stays behind what does not: conversations
\* only move up.
LEMMA HandleWalk ==
  ASSUME WorkspaceTypeOK, WalkInv, Handle, Watch
  PROVE  WalkInv'
  <1>1. /\ reader'.pc = reader.pc /\ reader'.filter = reader.filter
        /\ reader'.cursor = reader.cursor /\ reader'.at = reader.at /\ reader'.shown = reader.shown
        /\ reader'.steady = {c \in reader.steady :
                               /\ conversations'[c].last = conversations[c].last
                               /\ Matches(reader.filter, conversations'[c])}
    BY DEF Watch, WorkspaceTypeOK, Reader
  <1>2. reader.steady \subseteq Conversations
    BY DEF WorkspaceTypeOK, Reader
  <1>3. \A c \in Conversations : /\ conversations[c].last \in Nat /\ conversations'[c].last \in Nat
                                 /\ conversations[c].last <= conversations'[c].last
    <2>1. \A c \in Conversations : conversations[c].last \in Nat
      BY DEF WorkspaceTypeOK, Conversation
    <2>2. ASSUME NEW m \in Messages, NEW c \in Conversations,
                 conversations'[c].last = NewestMessage(conversations[c].last, ReceivedAt[m])
          PROVE  conversations'[c].last \in Nat /\ conversations[c].last <= conversations'[c].last
      BY <2>1, <2>2, WorkspaceAssumption DEF NewestMessage, Latest
    <2>3. QED
      BY <2>1, <2>2, HandleTimes
  <1>4. ASSUME reader'.pc = "linked"
        PROVE  /\ reader'.cursor \in Conversations
               /\ \A c \in reader'.steady \ reader'.shown : Before(reader.cursor, c)'
    <2>1. /\ reader.cursor \in Conversations
          /\ \A c \in reader.steady \ reader.shown : Before(reader.cursor, c)
      BY <1>1, <1>4 DEF WalkInv
    <2>2. ASSUME NEW c \in reader'.steady \ reader'.shown PROVE Before(reader.cursor, c)'
      <3>1. /\ c \in Conversations /\ Before(reader.cursor, c)
            /\ conversations'[c].last = conversations[c].last
        BY <1>1, <1>2, <2>1
      <3>2. /\ conversations[reader.cursor].last \in Nat /\ conversations'[reader.cursor].last \in Nat
            /\ conversations[reader.cursor].last <= conversations'[reader.cursor].last
            /\ conversations[c].last \in Nat
        BY <1>3, <2>1, <3>1
      <3>3. QED
        BY <1>1, <3>1, <3>2 DEF Before
    <2>3. QED
      BY <1>1, <2>1, <2>2
  <1>5. ASSUME reader'.pc = "located", NEW c \in reader'.steady \ reader'.shown
        PROVE  Behind(reader.cursor, reader.at, c)'
    <2>1. Behind(reader.cursor, reader.at, c) /\ conversations'[c].last = conversations[c].last
      BY <1>1, <1>5 DEF WalkInv
    <2>2. QED
      BY <1>1, <2>1 DEF Behind
  <1>6. \A c \in reader'.steady : Matches(reader'.filter, conversations'[c])
    BY <1>1
  <1>7. PageWalkComplete'
    BY <1>1 DEF WalkInv, PageWalkComplete
  <1>8. QED
    BY <1>4, <1>5, <1>6, <1>7 DEF WalkInv, Matches

\* A reader's own steps.
LEMMA OpenListInv ==
  ASSUME WorkspaceInv, NEW filter \in Filters, OpenList(filter)
  PROVE  WorkspaceInv'
  <1> DEFINE matching == {c \in Conversations : Matches(filter, conversations[c])}
             walk == [IdleReader EXCEPT !.filter = filter, !.steady = matching]
  <1>1. PICK rows \in SUBSET matching : IsPage(rows, matching) /\ Show(rows, matching, walk)
    BY DEF OpenList
  <1>2. UNCHANGED tables
    BY DEF OpenList
  <1>3. walk \in Reader /\ walk.filter = filter /\ walk.steady = matching
    BY DEF IdleReader, Reader
  <1>4. matching \in SUBSET Conversations
    OBVIOUS
  <1>5. \A c \in matching : Matches(filter, conversations[c])
    OBVIOUS
  <1> HIDE DEF walk, matching
  <1>6. /\ reader' \in Reader
        /\ reader'.filter = filter /\ reader'.steady = matching
        /\ reader'.shown = walk.shown \cup rows
        /\ \/ rows = matching /\ reader'.pc = "done"
           \/ /\ reader'.pc = "linked"
              /\ reader'.cursor \in Conversations
              /\ \A d \in matching \ rows : Before(reader'.cursor, d)
    BY <1>1, <1>3, <1>4, PageAndLink DEF WorkspaceInv
  <1>7. WalkInv'
    BY <1>2, <1>5, <1>6 DEF WalkInv, PageWalkComplete, Before, Behind, Matches, tables
  <1>8. QED
    BY <1>2, <1>6, <1>7
       DEF WorkspaceInv, WorkspaceTypeOK, LastIsNewest, UnheardIsZero, Exists, tables

\* Looking the cursor up keeps the walk's promise.
LEMMA LocateCursorInv ==
  ASSUME WorkspaceInv, LocateCursor
  PROVE  WorkspaceInv'
  <1>1. /\ reader.cursor \in Conversations /\ conversations[reader.cursor].last \in Nat
        /\ \A c \in reader.steady \ reader.shown : Before(reader.cursor, c)
    BY DEF WorkspaceInv, WalkInv, LocateCursor, WorkspaceTypeOK, Conversation
  <1>2. /\ reader' \in Reader /\ UNCHANGED tables
        /\ reader'.pc = "located" /\ reader'.at = conversations[reader.cursor].last
        /\ reader'.cursor = reader.cursor /\ reader'.filter = reader.filter
        /\ reader'.steady = reader.steady /\ reader'.shown = reader.shown
    BY <1>1 DEF LocateCursor, WorkspaceInv, WorkspaceTypeOK, Reader
  <1>3. reader.steady \subseteq Conversations
    BY DEF WorkspaceInv, WorkspaceTypeOK, Reader
  <1>4. \A c \in reader.steady \ reader.shown :
           Behind(reader.cursor, conversations[reader.cursor].last, c)
    BY <1>1, <1>3, BehindIsAfter DEF WorkspaceInv
  <1>5. WalkInv'
    BY <1>2, <1>4 DEF WorkspaceInv, WalkInv, PageWalkComplete, Behind, Matches, tables
  <1>6. QED
    BY <1>2, <1>5
       DEF WorkspaceInv, WorkspaceTypeOK, LastIsNewest, UnheardIsZero, Exists, tables

\* Reading a page keeps the walk's promise.
LEMMA ListPageInv ==
  ASSUME WorkspaceInv, ListPage
  PROVE  WorkspaceInv'
  <1> DEFINE rest == {c \in Conversations : /\ Matches(reader.filter, conversations[c])
                                            /\ Behind(reader.cursor, reader.at, c)}
  <1>1. PICK rows \in SUBSET rest : IsPage(rows, rest) /\ Show(rows, rest, reader)
    BY DEF ListPage
  <1>2. UNCHANGED tables /\ reader \in Reader /\ reader.steady \subseteq Conversations
    BY DEF ListPage, WorkspaceInv, WorkspaceTypeOK, Reader
  <1>3. reader.steady \ reader.shown \subseteq rest
    BY <1>2 DEF WorkspaceInv, WalkInv, ListPage
  <1>4. rest \in SUBSET Conversations
    OBVIOUS
  <1> HIDE DEF rest
  <1>5. /\ reader' \in Reader
        /\ reader'.filter = reader.filter /\ reader'.steady = reader.steady
        /\ reader'.shown = reader.shown \cup rows
        /\ \/ rows = rest /\ reader'.pc = "done"
           \/ /\ reader'.pc = "linked"
              /\ reader'.cursor \in Conversations
              /\ \A d \in rest \ rows : Before(reader'.cursor, d)
    BY <1>1, <1>2, <1>4, PageAndLink DEF WorkspaceInv
  <1>6. WalkInv'
    BY <1>2, <1>3, <1>5
       DEF WorkspaceInv, WalkInv, PageWalkComplete, Before, Behind, Matches, tables
  <1>7. QED
    BY <1>2, <1>5, <1>6
       DEF WorkspaceInv, WorkspaceTypeOK, LastIsNewest, UnheardIsZero, Exists, tables

\* The invariant holds to begin with.
LEMMA WorkspaceInitInv == WorkspaceInit => WorkspaceInv
  <1> SUFFICES ASSUME WorkspaceInit PROVE WorkspaceInv
    OBVIOUS
  <1>1. IdleReader \in Reader
    BY DEF IdleReader, Reader
  <1>2. NoConversation \in Conversation /\ NoRoute \in Route
    BY DEF NoConversation, Conversation, NoRoute, Route, VenueRef, Statuses
  <1>3. WorkspaceTypeOK
    BY <1>1, <1>2, WorkspaceAssumption
       DEF WorkspaceInit, WorkspaceTypeOK, VenueStates, NoConversation, NoRoute
  <1>4. LastIsNewest /\ UnheardIsZero
    BY DEF WorkspaceInit, LastIsNewest, UnheardIsZero, Exists, NoConversation
  <1>5. WalkInv
    BY DEF WorkspaceInit, WalkInv, PageWalkComplete, IdleReader
  <1>6. QED
    BY <1>3, <1>4, <1>5 DEF WorkspaceInv

\* Every step keeps the invariant.
LEMMA WorkspaceInductive == WorkspaceInv /\ [WorkspaceNext]_workspaceVars => WorkspaceInv'
  <1> SUFFICES ASSUME WorkspaceInv, [WorkspaceNext]_workspaceVars PROVE WorkspaceInv'
    OBVIOUS
  <1>1. CASE Handle /\ Watch
    BY <1>1, HandleTypeOK, HandleNewest, HandleWalk DEF WorkspaceInv
  <1>2. ASSUME NEW filter \in Filters, OpenList(filter) PROVE WorkspaceInv'
    BY <1>2, OpenListInv
  <1>3. CASE LocateCursor
    BY <1>3, LocateCursorInv
  <1>4. CASE ListPage
    BY <1>4, ListPageInv
  <1>5. CASE UNCHANGED workspaceVars
    BY <1>5 DEF WorkspaceInv, WorkspaceTypeOK, LastIsNewest, UnheardIsZero, WalkInv, Exists,
                PageWalkComplete, Before, Behind, Matches, workspaceVars, tables
  <1>6. QED
    BY <1>1, <1>2, <1>3, <1>4, <1>5 DEF WorkspaceNext

-----------------------------------------------------------------------------
(* Theorems *)

\* The tables and the reader keep their types, and routes and conversations
\* refer only to venues that were created.
THEOREM WorkspaceTypes == WorkspaceSpec => []WorkspaceTypeOK
  <1>1. WorkspaceInv => WorkspaceTypeOK
    BY DEF WorkspaceInv
  <1>2. QED
    BY WorkspaceInitInv, WorkspaceInductive, <1>1, PTL DEF WorkspaceSpec

\* In whatever order messages come, and whatever operators do between them,
\* the list orders each conversation by its newest message.
THEOREM NewestLast == WorkspaceSpec => []LastIsNewest
  <1>1. WorkspaceInv => LastIsNewest
    BY DEF WorkspaceInv
  <1>2. QED
    BY WorkspaceInitInv, WorkspaceInductive, <1>1, PTL DEF WorkspaceSpec

\* A walk through any number of pages of any size misses no conversation that
\* stood still, however the others moved between its requests.
THEOREM CompleteWalk == WorkspaceSpec => []PageWalkComplete
  <1>1. WorkspaceInv => PageWalkComplete
    BY DEF WorkspaceInv, WalkInv
  <1>2. QED
    BY WorkspaceInitInv, WorkspaceInductive, <1>1, PTL DEF WorkspaceSpec

\* One handler, and no more, changes an assignment.
LEMMA StableStep == WorkspaceTypeOK /\ [WorkspaceNext]_workspaceVars => StableAssignment \/ UNCHANGED workspaceVars
  <1> SUFFICES ASSUME WorkspaceTypeOK, WorkspaceNext PROVE StableAssignment
    OBVIOUS
  <1>1. ASSUME conversations' = conversations PROVE StableAssignment
    BY <1>1 DEF StableAssignment
  <1>2. ASSUME NEW m \in Messages, Ingest(m) PROVE StableAssignment
    <2> DEFINE c == ConversationOf[m]
               r == RecipientOf[m]
    <2>1. c \in Conversations /\ r \in Recipients
      BY WorkspaceAssumption
    <2>2. conversations'[c].venue = VenueAfter(conversations[c].venue, RouteVenue(r))
      BY <1>2, <2>1 DEF Ingest, WorkspaceTypeOK
    <2>3. \A d \in Conversations \ {c} : conversations'[d] = conversations[d]
      BY <1>2 DEF Ingest, WorkspaceTypeOK
    <2>4. m \in events' \ events
      BY <1>2 DEF Ingest
    <2>5. ASSUME conversations[c].venue # conversations'[c].venue
          PROVE  /\ conversations[c].venue = NoVenue
                 /\ conversations'[c].venue \in ActiveVenues
                 /\ routes[r] = [venue |-> conversations'[c].venue, active |-> TRUE]
      <3>1. conversations[c].venue = NoVenue /\ conversations'[c].venue = RouteVenue(r)
        BY <2>2, <2>5 DEF VenueAfter
      <3>2. routes[r].active /\ routes[r].venue \in ActiveVenues /\ routes[r].venue = RouteVenue(r)
        BY <2>5, <3>1 DEF RouteVenue
      <3>3. routes[r] \in Route
        BY <2>1 DEF WorkspaceTypeOK
      <3>4. routes[r] = [venue |-> routes[r].venue, active |-> TRUE]
        BY <3>2, <3>3 DEF Route
      <3>5. QED
        BY <3>1, <3>2, <3>4
    <2>6. QED
      BY <2>3, <2>4, <2>5 DEF StableAssignment
  <1>3. ASSUME NEW c \in Conversations, NEW v \in VenueRef, AssignConversation(c, v)
        PROVE  StableAssignment
    BY <1>3 DEF AssignConversation, StableAssignment, WorkspaceTypeOK, Conversation
  <1>4. ASSUME NEW c \in Conversations, NEW st, SetConversationStatus(c, st) \/ SetReviewStatus(c, st)
        PROVE  StableAssignment
    BY <1>4 DEF SetConversationStatus, SetReviewStatus, StableAssignment, WorkspaceTypeOK, Conversation
  <1>5. QED
    BY <1>1, <1>2, <1>3, <1>4
       DEF WorkspaceNext, Handle, CreateVenue, UpdateVenue, AddRoute, DisableRoute,
           OpenList, LocateCursor, ListPage, tables

\* A conversation keeps the venue it has until an operator changes it, and gets
\* its first by an active route to an active venue.
THEOREM StableAssignments == WorkspaceSpec => AssignmentsStable
  BY StableStep, WorkspaceTypes, PTL DEF WorkspaceSpec, AssignmentsStable
=============================================================================
