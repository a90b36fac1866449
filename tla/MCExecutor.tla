------------------------------ MODULE MCExecutor ------------------------------
(* The instance of Executor that TLC checks: two messages of one             *)
(* conversation, the first a migrated one that may bring an allowed action.  *)
EXTENDS Executor, TLC

CONSTANTS m1, m2, c1

MCWorkKey == (m1 :> c1) @@ (m2 :> c1)

\* The migrated message alone is enough where workers race for one job.
MCOneMessage == m1 :> c1

WorkerSymmetry == Permutations(Workers)
=============================================================================
