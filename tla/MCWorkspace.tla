----------------------------- MODULE MCWorkspace -----------------------------
(* The instance of Workspace that TLC checks: three conversations, two of    *)
(* them as old as one another, the first with a late message older than its  *)
(* first; pages of one conversation.                                         *)
EXTENDS Workspace, TLC

CONSTANTS m1, m2, m3, m4, r1

MCConversationOf == (m1 :> 1) @@ (m2 :> 2) @@ (m3 :> 3) @@ (m4 :> 1)
MCRecipientOf == [m \in {m1, m2, m3, m4} |-> r1]
MCReceivedAt == (m1 :> 2) @@ (m2 :> 2) @@ (m3 :> 3) @@ (m4 :> 1)

\* Every conversation, and the unassigned ones that are open.
MCFilters == {[venue |-> VenueRef, status |-> Shown],
              [venue |-> {NoVenue}, status |-> {"open"}]}

VenueSymmetry == Permutations(Venues)

ASSUME OfferedFilters == Filters \subseteq ListFilters
=============================================================================
