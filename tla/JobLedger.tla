----------------------------- MODULE JobLedger -----------------------------
(***************************************************************************)
(* What the ingestion of e-mail promises for each delivery, whatever fails *)
(* and restarts: once recorded it is run through the pipeline a bounded    *)
(* number of times, never again once it has finished, and it finishes only *)
(* after a run.                                                            *)
(***************************************************************************)
EXTENDS Integers

CONSTANTS Mail,      \* the deliveries
          MaxRuns    \* how often one may be run

VARIABLES state,     \* how far each delivery has come
          ran        \* how often each has been run

vars == <<state, ran>>

Init ==
    /\ state = [m \in Mail |-> "unknown"]
    /\ ran = [m \in Mail |-> 0]

Accept(m) ==
    /\ state[m] = "unknown"
    /\ state' = [state EXCEPT ![m] = "accepted"]
    /\ UNCHANGED ran

Run(m) ==
    /\ state[m] = "accepted"
    /\ ran[m] < MaxRuns
    /\ ran' = [ran EXCEPT ![m] = @ + 1]
    /\ UNCHANGED state

Finish(m) ==
    /\ state[m] = "accepted"
    /\ ran[m] > 0
    /\ state' = [state EXCEPT ![m] = "finished"]
    /\ UNCHANGED ran

Next == \E m \in Mail : Accept(m) \/ Run(m) \/ Finish(m)

Spec == Init /\ [][Next]_vars
=============================================================================
