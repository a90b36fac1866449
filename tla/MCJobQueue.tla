------------------------------ MODULE MCJobQueue ------------------------------
(* The instances of JobQueue that TLC checks.  Of three messages, two are of *)
(* one conversation, so that jobs both contend and run side by side.         *)
EXTENDS JobQueue, TLC

CONSTANTS m1, m2, m3, c1, c2

MCWorkKey == (m1 :> c1) @@ (m2 :> c1) @@ (m3 :> c2)

\* Two messages are enough where only one conversation matters.
MCOneConversation == (m1 :> c1) @@ (m2 :> c1)

WorkerSymmetry == Permutations(Workers)
=============================================================================
