---------------------------- MODULE SpendingCap ----------------------------
(***************************************************************************)
(* What the budget promises to every run, and nothing of how it is kept:   *)
(* money is first held, a hold is later resolved by charging at most what  *)
(* was held, and money spent plus money held never passes the run's cap.   *)
(* BudgetLedger is shown to implement it.                                  *)
(***************************************************************************)
EXTENDS Integers

CONSTANTS Run,  \* the research runs that share the process
          Cap   \* the most each run may ever have spent or held: [Run -> Nat]

VARIABLES spent,  \* money charged to each run
          held    \* money set aside for calls in progress, by run

vars == <<spent, held>>

TypeOK == /\ spent \in [Run -> Nat]
          /\ held \in [Run -> Nat]

Init == /\ spent = [r \in Run |-> 0]
        /\ held = [r \in Run |-> 0]

(* Money is set aside for one run, when the cap leaves room for it. *)
Hold(r) ==
  \E amount \in 1 .. Cap[r] - spent[r] - held[r] :
    /\ held' = [held EXCEPT ![r] = @ + amount]
    /\ UNCHANGED spent

(* A hold ends: part of it, all of it or nothing is charged. *)
Resolve(r) ==
  \E amount \in 1 .. held[r] : \E charged \in 0 .. amount :
    /\ held' = [held EXCEPT ![r] = @ - amount]
    /\ spent' = [spent EXCEPT ![r] = @ + charged]

Next == \E r \in Run : Hold(r) \/ Resolve(r)

Spec == Init /\ [][Next]_vars
=============================================================================
