------------------------------ MODULE SerialWork ------------------------------
(***************************************************************************)
(* What the queue promises, with no rows, leases or clocks: each accepted  *)
(* message is worked on by one worker at a time, at most MaxAttempts times *)
(* between an operator's decisions, a conversation is worked on by one     *)
(* worker at a time, and done, parked and dropped messages stay so unless  *)
(* an operator revives or drops a parked one.                              *)
(***************************************************************************)
EXTENDS Naturals

CONSTANTS Messages, WorkKey, Workers, NoJob, MaxAttempts, Backlog

VARIABLES
    stage,   \* where each message stands
    tries,   \* how often it was started since it was accepted or revived
    on       \* the message each worker is on

serialVars == <<stage, tries, on>>

SerialInit ==
    /\ stage = [m \in Messages |-> IF m \in Backlog THEN "open" ELSE "absent"]
    /\ tries = [m \in Messages |-> 0]
    /\ on = [w \in Workers |-> NoJob]

Accept(m) ==
    /\ stage[m] = "absent"
    /\ stage' = [stage EXCEPT ![m] = "open"]
    /\ tries' = [tries EXCEPT ![m] = 0]
    /\ UNCHANGED on

Start(w, m) ==
    /\ on[w] = NoJob
    /\ stage[m] = "open"
    /\ tries[m] < MaxAttempts
    /\ \A v \in Workers : on[v] # NoJob => WorkKey[on[v]] # WorkKey[m]
    /\ tries' = [tries EXCEPT ![m] = @ + 1]
    /\ on' = [on EXCEPT ![w] = m]
    /\ UNCHANGED stage

Finish(w) ==
    /\ on[w] # NoJob
    /\ stage' = [stage EXCEPT ![on[w]] = "done"]
    /\ on' = [on EXCEPT ![w] = NoJob]
    /\ UNCHANGED tries

GiveUp(w) ==
    /\ on[w] # NoJob
    /\ on' = [on EXCEPT ![w] = NoJob]
    /\ \/ UNCHANGED stage
       \/ /\ tries[on[w]] = MaxAttempts
          /\ stage' = [stage EXCEPT ![on[w]] = "parked"]
    /\ UNCHANGED tries

\* Messages whose last worker vanished are parked together.
Park(S) ==
    /\ \A m \in S : /\ stage[m] = "open" /\ tries[m] = MaxAttempts
                    /\ \A w \in Workers : on[w] # m
    /\ stage' = [m \in Messages |-> IF m \in S THEN "parked" ELSE stage[m]]
    /\ UNCHANGED <<tries, on>>

Revive(m) ==
    /\ stage[m] = "parked"
    /\ stage' = [stage EXCEPT ![m] = "open"]
    /\ tries' = [tries EXCEPT ![m] = 0]
    /\ UNCHANGED on

Drop(m) ==
    /\ stage[m] = "parked"
    /\ stage' = [stage EXCEPT ![m] = "dropped"]
    /\ UNCHANGED <<tries, on>>

SerialNext ==
    \/ \E m \in Messages : Accept(m) \/ Revive(m) \/ Drop(m)
    \/ \E w \in Workers : Finish(w) \/ GiveUp(w) \/ \E m \in Messages : Start(w, m)
    \/ \E S \in SUBSET Messages : Park(S)

SerialSpec == SerialInit /\ [][SerialNext]_serialVars
=============================================================================
