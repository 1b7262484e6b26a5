--------------------------- MODULE MCBudgetLedger ---------------------------
(***************************************************************************)
(* The ledger under arbitrary clients of two runs: one with money, one     *)
(* with none.  Amounts include a negative one, zero, one that fits several *)
(* times and one that fits only with the tolerance; reported costs include *)
(* a negative one and one above every reservation.                         *)
(***************************************************************************)
EXTENDS BudgetLedger, TLC

CONSTANTS rich, broke, MaxPaidCalls

MCCeiling == rich :> 5 @@ broke :> 0
MCAmount == {-1, 0, 2, 3}
MCActual == {-1, 1, 4}

Symm == Permutations(Id)

(* paidCalls counts for ever; MaxPaidCalls bounds the calls of a run. *)
MCNext == Next /\ \A r \in Run : paidCalls'[r] <= MaxPaidCalls
MCSpec == Init /\ [][MCNext]_ledger
=============================================================================
