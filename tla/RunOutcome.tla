----------------------------- MODULE RunOutcome -----------------------------
(***************************************************************************)
(* What the run registry promises about each run: once accepted it is      *)
(* pending, it is decided at most once, for success with a result or for   *)
(* failure without one, and a decision is never changed or lost.           *)
(***************************************************************************)
CONSTANT Run

VARIABLE outcome  \* "unknown", "pending", "succeeded" or "failed", by run

Init == outcome = [r \in Run |-> "unknown"]

Accept(r) == /\ outcome[r] = "unknown"
             /\ outcome' = [outcome EXCEPT ![r] = "pending"]

Decide(r) == /\ outcome[r] = "pending"
             /\ \E o \in {"succeeded", "failed"} :
                  outcome' = [outcome EXCEPT ![r] = o]

Next == \E r \in Run : Accept(r) \/ Decide(r)

Spec == Init /\ [][Next]_outcome
=============================================================================
