---------------------------- MODULE BudgetLedger ----------------------------
(***************************************************************************)
(* storage/budget.py: the reservations that parallel workers of all runs   *)
(* share.  Every method of BudgetLedger holds one lock for its whole body, *)
(* so a method is one step.  Money is counted in whole units; the code's   *)
(* floats round, which is outside the model.                               *)
(*                                                                         *)
(* The operations are action operators: the modules of the clients use     *)
(* them, and Next below is the ledger under arbitrary clients, who may     *)
(* settle in any order, late, twice, or with any reported cost.            *)
(***************************************************************************)
EXTENDS Integers, FiniteSets

CONSTANTS Run,            \* run ids
          Id,             \* reservation ids (uuid4: a fresh id is one not outstanding)
          NoReservation,  \* an id that is not a key of _reservations
          Ceiling,        \* request.max_cost_usd of each run
          Tolerance,      \* the 1e-12 by which reserve lets a projection pass the ceiling
          Amount,         \* the amounts callers reserve
          Actual          \* the costs callers report when they settle

ASSUME LedgerAssumption ==
  /\ Ceiling \in [Run -> Nat]
  /\ Tolerance \in Nat
  /\ Amount \subseteq Int
  /\ Actual \subseteq Int
  /\ NoReservation \notin [run : Run, held : Nat]

(* Every price that is not zero is larger than the float tolerance. *)
ASSUME PriceAssumption == \A a \in Amount : a > 0 => a > Tolerance

VARIABLES spent,         \* _spent
          reserved,      \* _reserved
          reservations,  \* _reservations: id -> (run, amount held)
          paidCalls      \* _paid_calls

ledger == <<spent, reserved, reservations, paidCalls>>

Reservation == [run : Run, held : Nat]

TypeOK == /\ spent \in [Run -> Nat]
          /\ reserved \in [Run -> Nat]
          /\ reservations \in [Id -> Reservation \cup {NoReservation}]
          /\ paidCalls \in [Run -> Nat]

Init == /\ spent = [r \in Run |-> 0]
        /\ reserved = [r \in Run |-> 0]
        /\ reservations = [id \in Id |-> NoReservation]
        /\ paidCalls = [r \in Run |-> 0]

Larger(m, n) == IF m >= n THEN m ELSE n
Smaller(m, n) == IF m <= n THEN m ELSE n

(* remaining(): what a caller sees of the run's budget, in one snapshot. *)
Remaining(r) == Larger(0, Ceiling[r] - spent[r] - reserved[r])

Outstanding(id) == reservations[id] # NoReservation

(* Mutants of Affordable: the money other callers hold is forgotten; the
   amount itself is left out of the projection. *)
AffordableIgnoringHolds(r, amount) ==
  /\ amount >= 0
  /\ amount > 0 => spent[r] + amount <= Ceiling[r] + Tolerance
AffordableBeforeAmount(r, amount) ==
  /\ amount >= 0
  /\ amount > 0 => spent[r] + reserved[r] <= Ceiling[r] + Tolerance

(* The requests reserve() accepts; it raises BudgetRejected on the others. *)
Affordable(r, amount) ==
  /\ amount >= 0
  /\ amount > 0 => spent[r] + reserved[r] + amount <= Ceiling[r] + Tolerance

(* reserve() when it accepts. A zero amount gets an id but is never counted
   as a paid call, whatever the caller passes for paid. *)
Reserve(r, id, amount, paid) ==
  /\ ~Outstanding(id)
  /\ Affordable(r, amount)
  /\ reservations' = [reservations EXCEPT ![id] = [run |-> r, held |-> amount]]
  /\ reserved' = [reserved EXCEPT ![r] = @ + amount]
  /\ paidCalls' = [paidCalls EXCEPT ![r] = IF paid /\ amount > 0 THEN @ + 1 ELSE @]
  /\ UNCHANGED spent

(* Mutants of Charge: a negative cost is a refund; a cost above the hold is
   charged in full. *)
ChargeRefunds(held, actual) == Smaller(actual, held)
ChargeUnclamped(held, actual) == Larger(0, actual)

(* The part of a reported cost that settle() charges: never more than was
   held, never a negative cost. *)
Charge(held, actual) == Smaller(Larger(0, actual), held)

(* Mutant of Settle: the reservation is read but not popped. *)
SettleWithoutPop(id, actual) ==
  IF Outstanding(id)
  THEN LET r == reservations[id].run
           held == reservations[id].held
       IN /\ reserved' = [reserved EXCEPT ![r] = Larger(0, @ - held)]
          /\ spent' = [spent EXCEPT ![r] = @ + Charge(held, actual)]
          /\ UNCHANGED <<reservations, paidCalls>>
  ELSE UNCHANGED ledger

(* settle(): an id that is not outstanding is ignored. *)
Settle(id, actual) ==
  IF Outstanding(id)
  THEN LET r == reservations[id].run
           held == reservations[id].held
       IN /\ reservations' = [reservations EXCEPT ![id] = NoReservation]
          /\ reserved' = [reserved EXCEPT ![r] = Larger(0, @ - held)]
          /\ spent' = [spent EXCEPT ![r] = @ + Charge(held, actual)]
          /\ UNCHANGED paidCalls
  ELSE UNCHANGED ledger

(* release(): settle at no cost. *)
Release(id) == Settle(id, 0)

Next == \/ \E r \in Run, id \in Id, amount \in Amount, paid \in BOOLEAN :
             Reserve(r, id, amount, paid)
        \/ \E id \in Id, actual \in Actual : Settle(id, actual)
        \/ \E id \in Id : Release(id)

Spec == Init /\ [][Next]_ledger

-----------------------------------------------------------------------------
(* The money units that outstanding reservations of a run hold, each told
   apart from the others: their number is the sum of the amounts. *)
UnitsOf(id) == {id} \X (1 .. reservations[id].held)
HeldBy(r) == {id \in Id : Outstanding(id) /\ reservations[id].run = r}
HeldUnits(r) == UNION {UnitsOf(id) : id \in HeldBy(r)}

(* The per-run running total _reserved, updated by additions and clamped
   subtractions in any order, always equals the sum over the dictionary
   _reservations: settling late, twice or out of order loses nothing. *)
ReservedIsOutstanding ==
  \A r \in Run : /\ IsFiniteSet(HeldUnits(r))
                 /\ reserved[r] = Cardinality(HeldUnits(r))

(* Whatever parallel callers do, what a run has spent and holds never passes
   its ceiling by more than the tolerance of the comparison in reserve(). *)
CeilingRespected ==
  \A r \in Run : spent[r] + reserved[r] <= Ceiling[r] + Tolerance

(* A run with a zero budget makes no paid call, tolerance or not. *)
ZeroBudgetNoPaidCalls ==
  \A r \in Run : Ceiling[r] = 0 => paidCalls[r] = 0

(* The ledger implements the spending cap: each step holds or resolves money
   of one run within its cap, or changes no money at all. *)
Contract == INSTANCE SpendingCap
              WITH Cap <- [r \in Run |-> Ceiling[r] + Tolerance],
                   held <- reserved
ImplementsSpendingCap == Contract!Spec
=============================================================================
