----------------------------- MODULE MCOperations -----------------------------
(* The instance of Operations that TLC checks: the maintenance service, a    *)
(* second "maintenance --once" beside it, and the CLI; two days of one       *)
(* month; one backup kept of each kind.                                      *)
EXTENDS Operations

MCServiceOf == [p \in Instances |-> "maintenance"]
MCKeep == [kind \in ScheduledKinds |-> 1]
MCMonthOf == [d \in Days |-> 1]
=============================================================================
