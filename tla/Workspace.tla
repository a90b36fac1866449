------------------------------- MODULE Workspace -------------------------------
(***************************************************************************)
(* Venues, routes and the conversation list: workspace.py and the          *)
(* dashboard's handlers in web.py.  Ingestion gives a conversation its     *)
(* venue by the routes in force, operators change venues, routes and       *)
(* assignments, and a reader walks the list page by page while all that    *)
(* goes on.  Each handler is one transaction; a page is two reads of their *)
(* own, the cursor's row and the rows behind it.                           *)
(*                                                                         *)
(* Definitions marked "Mutant of" are wrong on purpose: no action uses     *)
(* them, and with one in the place of the definition after it, a property  *)
(* below must fail.                                                        *)
(***************************************************************************)
EXTENDS Naturals, FiniteSets

CONSTANTS
    Messages,        \* external identities: (channel, external_message_id)
    Conversations,   \* conversations.id: numbers, for the list orders by id
    ConversationOf,  \* the conversation of each message: its work key
    Recipients,      \* (channel, recipient), unique among the routes
    RecipientOf,     \* the recipient of each message
    ReceivedAt,      \* received_at of each message, as a rank
    Venues,
    NoVenue,         \* NULL in venue_id: unassigned
    PageSize,        \* conversations to a page
    Filters          \* the queries a reader makes: some of ListFilters

ASSUME WorkspaceAssumption ==
    /\ Conversations \subseteq Nat
    /\ ConversationOf \in [Messages -> Conversations]
    /\ RecipientOf \in [Messages -> Recipients]
    /\ ReceivedAt \in [Messages -> Nat \ {0}]
    /\ NoVenue \notin Venues
    /\ PageSize \in Nat \ {0}
    /\ Filters \subseteq [venue: SUBSET (Venues \cup {NoVenue}),
                          status: SUBSET {"open", "pending_review", "resolved"}]

VARIABLES
    venues,          \* venues.active; "absent" is no row
    routes,          \* venue_routes by recipient; NoRoute is no row
    events,          \* the messages of table events
    conversations,   \* table conversations; NoConversation is no row
    reader           \* a walk through the conversation list

tables == <<venues, routes, events, conversations>>
workspaceVars == <<tables, reader>>

-----------------------------------------------------------------------------
(* Rows *)

VenueStates == {"absent", "active", "inactive"}
Statuses == {"none", "open", "pending_review", "resolved"}
VenueRef == Venues \cup {NoVenue}

NoRoute == [venue |-> NoVenue, active |-> FALSE]
NoConversation == [venue |-> NoVenue, status |-> "none", last |-> 0]

Route == [venue: VenueRef, active: BOOLEAN]
Conversation == [venue: VenueRef, status: Statuses, last: Nat]

ActiveVenues == {v \in Venues : venues[v] = "active"}
Exists(c) == conversations[c].status # "none"
Latest(a, b) == IF a > b THEN a ELSE b

-----------------------------------------------------------------------------
(* Ingestion *)

\* Mutant of RouteVenue: the venue's own flag is not asked.
RouteAnyVenue(r) == IF routes[r].active THEN routes[r].venue ELSE NoVenue

RouteVenue(r) ==
    IF routes[r].active /\ routes[r].venue \in ActiveVenues
    THEN routes[r].venue ELSE NoVenue

\* Mutant of VenueAfter: a route outdoes what the operator assigned.
RoutedFirst(venue, routed) == IF routed = NoVenue THEN venue ELSE routed

VenueAfter(venue, routed) == IF venue = NoVenue THEN routed ELSE venue

\* Mutant of NewestMessage: the time of the message that came last.
LastIngested(last, receivedAt) == receivedAt

NewestMessage(last, receivedAt) == Latest(last, receivedAt)

\* enqueue and its ensure_conversation.  A message that is already an event
\* violates a UNIQUE constraint and the whole transaction rolls back.
Ingest(m) ==
    LET c == ConversationOf[m]
        row == conversations[c]
    IN  /\ m \notin events
        /\ events' = events \cup {m}
        /\ conversations' = [conversations EXCEPT ![c] =
             [venue  |-> VenueAfter(row.venue, RouteVenue(RecipientOf[m])),
              status |-> IF row.status = "pending_review" THEN row.status ELSE "open",
              last   |-> NewestMessage(row.last, ReceivedAt[m])]]
        /\ UNCHANGED <<venues, routes>>

\* What the worker and the review handlers make of the status (Executor).
SetReviewStatus(c, status) ==
    /\ Exists(c)
    /\ conversations' = [conversations EXCEPT ![c].status = status]
    /\ UNCHANGED <<venues, routes, events>>

-----------------------------------------------------------------------------
(* The operator's handlers *)

CreateVenue(v) ==
    /\ venues[v] = "absent"
    /\ venues' = [venues EXCEPT ![v] = "active"]
    /\ UNCHANGED <<routes, events, conversations>>

UpdateVenue(v, active) ==
    /\ venues[v] # "absent"
    /\ venues' = [venues EXCEPT ![v] = active]
    /\ UNCHANGED <<routes, events, conversations>>

\* Mutant of AddRoute: the venue is not looked up.
AddRouteUnchecked(v, r) ==
    /\ routes' = [routes EXCEPT ![r] = [venue |-> v, active |-> TRUE]]
    /\ UNCHANGED <<venues, events, conversations>>

\* The venue may be inactive; a route of another venue is taken over.
AddRoute(v, r) ==
    /\ venues[v] # "absent"
    /\ routes' = [routes EXCEPT ![r] = [venue |-> v, active |-> TRUE]]
    /\ UNCHANGED <<venues, events, conversations>>

DisableRoute(r) ==
    /\ routes[r].active
    /\ routes' = [routes EXCEPT ![r].active = FALSE]
    /\ UNCHANGED <<venues, events, conversations>>

AssignConversation(c, v) ==
    /\ Exists(c)
    /\ v \in ActiveVenues \cup {NoVenue}
    /\ conversations' = [conversations EXCEPT ![c].venue = v]
    /\ UNCHANGED <<venues, routes, events>>

SetConversationStatus(c, status) ==
    /\ Exists(c)
    /\ conversations' = [conversations EXCEPT ![c].status = status]
    /\ UNCHANGED <<venues, routes, events>>

-----------------------------------------------------------------------------
(* The conversation list *)

\* What the form offers: all venues, one or none; all statuses or one.
Shown == Statuses \ {"none"}
ListFilters == [venue: {VenueRef} \cup {{v} : v \in VenueRef},
                status: {Shown} \cup {{st} : st \in Shown}]

Matches(f, row) == row.venue \in f.venue /\ row.status \in f.status

\* ORDER BY last_message_at DESC, id DESC.
Before(c, d) ==
    \/ conversations[c].last > conversations[d].last
    \/ conversations[c].last = conversations[d].last /\ c > d

\* A page of S: its first PageSize rows, or all of them.
IsPage(rows, S) ==
    /\ \A c \in rows, d \in S \ rows : Before(c, d)
    /\ IF rows = S THEN Cardinality(rows) <= PageSize ELSE Cardinality(rows) = PageSize

\* Mutant of Behind: conversations of the same time are passed over.
BehindInTime(cursor, at, c) == conversations[c].last < at

\* The rows behind the cursor's, whose time was read a moment before.
Behind(cursor, at, c) ==
    \/ conversations[c].last < at
    \/ conversations[c].last = at /\ c < cursor

\* "shown" and "steady" are ghosts: what the walk has shown, and what has
\* matched its filter at one place of the list ever since it began.
NoFilter == [venue |-> {}, status |-> {}]
Reader == [pc: {"idle", "linked", "located", "done"}, filter: Filters \cup {NoFilter},
           cursor: Conversations \cup {0}, at: Nat, shown: SUBSET Conversations, steady: SUBSET Conversations]

IdleReader == [pc |-> "idle", filter |-> NoFilter, cursor |-> 0,
               at |-> 0, shown |-> {}, steady |-> {}]

\* The page and, when there is more, a link with the last row's id.
Show(rows, S, walk) ==
    reader' = [walk EXCEPT
      !.pc = IF rows = S THEN "done" ELSE "linked",
      !.cursor = IF rows = S THEN 0 ELSE CHOOSE c \in rows : \A d \in rows \ {c} : Before(d, c),
      !.at = 0,
      !.shown = @ \cup rows]

OpenList(filter) ==
    LET matching == {c \in Conversations : Matches(filter, conversations[c])}
    IN  /\ reader.pc \in {"idle", "done"}
        /\ \E rows \in SUBSET matching :
             /\ IsPage(rows, matching)
             /\ Show(rows, matching, [IdleReader EXCEPT !.filter = filter, !.steady = matching])
        /\ UNCHANGED tables

\* The cursor is an id: where its conversation stands by now is looked up.
LocateCursor ==
    /\ reader.pc = "linked"
    /\ reader' = [reader EXCEPT !.pc = "located", !.at = conversations[reader.cursor].last]
    /\ UNCHANGED tables

ListPage ==
    LET rest == {c \in Conversations : /\ Matches(reader.filter, conversations[c])
                                       /\ Behind(reader.cursor, reader.at, c)}
    IN  /\ reader.pc = "located"
        /\ \E rows \in SUBSET rest : IsPage(rows, rest) /\ Show(rows, rest, reader)
        /\ UNCHANGED tables

-----------------------------------------------------------------------------
(* Specification *)

WorkspaceInit ==
    /\ venues = [v \in Venues |-> "absent"]
    /\ routes = [r \in Recipients |-> NoRoute]
    /\ events = {}
    /\ conversations = [c \in Conversations |-> NoConversation]
    /\ reader = IdleReader

Handle ==
    \/ \E m \in Messages : Ingest(m)
    \/ \E v \in Venues :
         \/ CreateVenue(v)
         \/ \E active \in {"active", "inactive"} : UpdateVenue(v, active)
         \/ \E r \in Recipients : AddRoute(v, r)
    \/ \E r \in Recipients : DisableRoute(r)
    \/ \E c \in Conversations :
         \/ \E v \in VenueRef : AssignConversation(c, v)
         \/ \E st \in {"open", "resolved"} : SetConversationStatus(c, st)
         \/ \E st \in {"open", "pending_review"} : SetReviewStatus(c, st)

\* What has stayed steady under the reader's filter.
Watch == reader' = [reader EXCEPT !.steady =
           {c \in @ : /\ conversations'[c].last = conversations[c].last
                      /\ Matches(reader.filter, conversations'[c])}]

WorkspaceNext ==
    \/ Handle /\ Watch
    \/ (\E filter \in Filters : OpenList(filter)) \/ LocateCursor \/ ListPage

WorkspaceSpec == WorkspaceInit /\ [][WorkspaceNext]_workspaceVars

-----------------------------------------------------------------------------
(* Properties *)

\* The type invariant.  Routes and conversations refer to venues there are.
WorkspaceTypeOK ==
    /\ venues \in [Venues -> VenueStates]
    /\ routes \in [Recipients -> Route]
    /\ events \subseteq Messages
    /\ conversations \in [Conversations -> Conversation]
    /\ reader \in Reader
    /\ \A r \in Recipients : routes[r] = NoRoute \/ routes[r].venue \in Venues
    /\ \A v \in Venues :
         venues[v] = "absent" =>
           /\ \A r \in Recipients : routes[r].venue # v
           /\ \A c \in Conversations : conversations[c].venue # v

\* A conversation has a row exactly when it has messages, and the time the
\* list orders by is that of its newest message, in whatever order the
\* messages were ingested (ensure_conversation's max).
LastIsNewest ==
    \A c \in Conversations :
        LET mine == {m \in events : ConversationOf[m] = c}
        IN  /\ Exists(c) <=> mine # {}
            /\ \A m \in mine : ReceivedAt[m] <= conversations[c].last
            /\ Exists(c) => \E m \in mine : ReceivedAt[m] = conversations[c].last

\* A walk that has reached the last page has shown every conversation that
\* matched its filter and got no new message all the while, whatever became
\* of the others, the cursor's own among them.
PageWalkComplete == reader.pc = "done" => reader.steady \subseteq reader.shown

\* "Existing assigned conversations remain stable unless an operator changes
\* them": a message's arrival gives its own conversation a venue, an active
\* one and only where there was none; any other change keeps the messages
\* and chooses no venue or an active one.
StableAssignment ==
    \A c \in Conversations :
        LET old == conversations[c].venue
            new == conversations'[c].venue
        IN  old # new =>
              \/ /\ old = NoVenue
                 /\ new \in ActiveVenues
                 /\ \E m \in events' \ events :
                      /\ ConversationOf[m] = c
                      /\ routes[RecipientOf[m]] = [venue |-> new, active |-> TRUE]
              \/ /\ events' = events
                 /\ new \in ActiveVenues \cup {NoVenue}

AssignmentsStable == [][StableAssignment]_workspaceVars

=============================================================================
