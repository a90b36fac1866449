SPECIFICATION WorkspaceSpec
CONSTANTS
    m1 = m1
    m2 = m2
    m3 = m3
    m4 = m4
    r1 = r1
    Messages = {m1, m2, m3, m4}
    Conversations = {1, 2, 3}
    ConversationOf <- MCConversationOf
    Recipients = {r1}
    RecipientOf <- MCRecipientOf
    ReceivedAt <- MCReceivedAt
    Venues = {v1, v2}
    NoVenue = NoVenue
    PageSize = 1
    Filters <- MCFilters
SYMMETRY VenueSymmetry
INVARIANTS WorkspaceTypeOK LastIsNewest PageWalkComplete
PROPERTIES AssignmentsStable
