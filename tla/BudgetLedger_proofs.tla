------------------------ MODULE BudgetLedger_proofs ------------------------
(***************************************************************************)
(* Theorems about BudgetLedger, for every set of runs, reservation ids,    *)
(* amounts and reported costs.                                             *)
(***************************************************************************)
EXTENDS BudgetLedger, FiniteSetTheorems, TLAPS

-----------------------------------------------------------------------------
(* Type correctness: every running total stays a natural number. *)
THEOREM TypeCorrect == Spec => []TypeOK
<1> USE LedgerAssumption DEF TypeOK, Reservation
<1>1. Init => TypeOK
  BY DEF Init
<1>2. TypeOK /\ [Next]_ledger => TypeOK'
  <2> SUFFICES ASSUME TypeOK, [Next]_ledger PROVE TypeOK'
    OBVIOUS
  <2>1. ASSUME NEW r \in Run, NEW id \in Id, NEW amount \in Amount,
               NEW paid \in BOOLEAN, Reserve(r, id, amount, paid)
        PROVE  TypeOK'
    <3>1. amount \in Nat
      BY <2>1 DEF Reserve, Affordable
    <3>2. QED
      BY <2>1, <3>1 DEF Reserve
  <2>2. ASSUME NEW id \in Id, NEW actual \in Int, Settle(id, actual)
        PROVE  TypeOK'
    <3>1. CASE ~Outstanding(id)
      BY <2>2, <3>1 DEF Settle, ledger
    <3>2. CASE Outstanding(id)
      <4> DEFINE r == reservations[id].run
                 h == reservations[id].held
      <4>1. r \in Run /\ h \in Nat
        BY <3>2 DEF Outstanding
      <4>2. Charge(h, actual) \in Nat /\ Larger(0, reserved[r] - h) \in Nat
        BY <4>1 DEF Charge, Smaller, Larger
      <4>3. QED
        BY <2>2, <3>2, <4>1, <4>2 DEF Settle
    <3>3. QED BY <3>1, <3>2
  <2>3. CASE UNCHANGED ledger
    BY <2>3 DEF ledger
  <2>4. QED
    BY <2>1, <2>2, <2>3 DEF Next, Release
<1>3. QED BY <1>1, <1>2, PTL DEF Spec

-----------------------------------------------------------------------------
(* The units of one reservation are as many as its amount. *)
LEMMA UnitsCount ==
  ASSUME NEW id, NEW n \in Nat
  PROVE  /\ IsFiniteSet({id} \X (1 .. n))
         /\ Cardinality({id} \X (1 .. n)) = n
<1> DEFINE f == [k \in 1 .. n |-> <<id, k>>]
<1>1. f \in Bijection(1 .. n, {id} \X (1 .. n))
  BY DEF Bijection, Injection, IsInjective, Surjection
<1>2. ExistsBijection(1 .. n, {id} \X (1 .. n))
  BY <1>1 DEF ExistsBijection
<1>3. IsFiniteSet(1 .. n) /\ Cardinality(1 .. n) = n
  BY FS_Interval
<1>4. QED
  BY <1>2, <1>3, FS_Bijection

(* A new reservation adds its amount to what its run holds. *)
LEMMA ReserveAddsUnits ==
  ASSUME TypeOK, NEW r \in Run, NEW id \in Id, NEW amount \in Nat,
         ~Outstanding(id),
         reservations' = [reservations EXCEPT ![id] = [run |-> r, held |-> amount]],
         IsFiniteSet(HeldUnits(r))
  PROVE  /\ IsFiniteSet(HeldUnits(r)')
         /\ Cardinality(HeldUnits(r)') = Cardinality(HeldUnits(r)) + amount
<1> DEFINE new == {id} \X (1 .. amount)
<1>1. HeldUnits(r)' = HeldUnits(r) \cup new
  BY LedgerAssumption
  DEF TypeOK, Reservation, HeldUnits, HeldBy, UnitsOf, Outstanding
<1>2. HeldUnits(r) \cap new = {}
  BY DEF HeldUnits, HeldBy, UnitsOf, Outstanding
<1>3. IsFiniteSet(new) /\ Cardinality(new) = amount
  BY UnitsCount
<1>4. Cardinality(HeldUnits(r)) \in Nat
  BY FS_CardinalityType
<1>5. Cardinality(HeldUnits(r) \cap new) = 0
  BY <1>2, FS_EmptySet, Zenon
<1> HIDE DEF new
<1>6. /\ IsFiniteSet(HeldUnits(r) \cup new)
      /\ Cardinality(HeldUnits(r) \cup new)
           = Cardinality(HeldUnits(r)) + Cardinality(new) - Cardinality(HeldUnits(r) \cap new)
  BY <1>3, FS_Union
<1>7. Cardinality(HeldUnits(r) \cup new) = Cardinality(HeldUnits(r)) + amount
  BY <1>3, <1>4, <1>5, <1>6
<1>8. QED
  BY <1>1, <1>6, <1>7

(* Settling an outstanding reservation takes its amount from what its run
   holds: in particular the run held at least that much. *)
LEMMA SettleRemovesUnits ==
  ASSUME TypeOK, NEW id \in Id, Outstanding(id),
         NEW r \in Run, r = reservations[id].run,
         reservations' = [reservations EXCEPT ![id] = NoReservation],
         IsFiniteSet(HeldUnits(r))
  PROVE  /\ IsFiniteSet(HeldUnits(r)')
         /\ Cardinality(HeldUnits(r)')
              = Cardinality(HeldUnits(r)) - reservations[id].held
         /\ reservations[id].held <= Cardinality(HeldUnits(r))
<1> DEFINE old == {id} \X (1 .. reservations[id].held)
           rest == HeldUnits(r)'
<1>0. reservations[id].held \in Nat
  BY DEF TypeOK, Reservation, Outstanding
<1>1. HeldUnits(r) = rest \cup old
  BY LedgerAssumption
  DEF TypeOK, Reservation, HeldUnits, HeldBy, UnitsOf, Outstanding
<1>2. rest \cap old = {}
  BY DEF TypeOK, HeldUnits, HeldBy, UnitsOf, Outstanding
<1>3. IsFiniteSet(old) /\ Cardinality(old) = reservations[id].held
  BY <1>0, UnitsCount
<1>5. Cardinality(rest \cap old) = 0
  BY <1>2, FS_EmptySet, Zenon
<1> HIDE DEF old, rest
<1>4. IsFiniteSet(rest) /\ Cardinality(rest) \in Nat
  BY <1>1, FS_Subset, FS_CardinalityType
<1>6. Cardinality(rest \cup old)
        = Cardinality(rest) + Cardinality(old) - Cardinality(rest \cap old)
  BY <1>3, <1>4, FS_Union
<1>7. Cardinality(HeldUnits(r)) = Cardinality(rest) + reservations[id].held
  BY <1>0, <1>1, <1>3, <1>4, <1>5, <1>6
<1>8. QED
  BY <1>0, <1>4, <1>7 DEF rest

(* A step about one run's reservation leaves the units of the others alone. *)
LEMMA OtherRunsKeepUnits ==
  ASSUME TypeOK, NEW id \in Id, NEW v, NEW r \in Run, NEW s \in Run, r # s,
         reservations' = [reservations EXCEPT ![id] = v],
         Outstanding(id) => reservations[id].run = r,
         v # NoReservation => v.run = r
  PROVE  HeldUnits(s)' = HeldUnits(s)
<1>1. HeldBy(s)' = HeldBy(s)
  BY DEF TypeOK, HeldBy, Outstanding
<1>2. \A i \in HeldBy(s) : UnitsOf(i)' = UnitsOf(i)
  BY DEF TypeOK, HeldBy, UnitsOf, Outstanding
<1>3. QED
  BY <1>1, <1>2 DEF HeldUnits

-----------------------------------------------------------------------------
(* The inductive invariant: the clamp in settle() never clips, because a run
   holds at least what any of its reservations holds, and so every amount
   that leaves _reserved was in it. *)
IInv == TypeOK /\ ReservedIsOutstanding /\ CeilingRespected /\ ZeroBudgetNoPaidCalls

(* A ledger nobody has used satisfies the invariant. *)
LEMMA InitIInv == Init => IInv
<1> SUFFICES ASSUME Init PROVE IInv
  OBVIOUS
<1>1. TypeOK
  BY LedgerAssumption DEF Init, TypeOK
<1>2. ReservedIsOutstanding
  <2>1. ASSUME NEW r \in Run PROVE HeldUnits(r) = {}
    BY DEF Init, HeldUnits, HeldBy, Outstanding
  <2>2. QED
    BY <2>1, FS_EmptySet DEF ReservedIsOutstanding, Init
<1>3. CeilingRespected
  BY LedgerAssumption DEF Init, CeilingRespected
<1>4. ZeroBudgetNoPaidCalls
  BY DEF Init, ZeroBudgetNoPaidCalls
<1>5. QED
  BY <1>1, <1>2, <1>3, <1>4 DEF IInv

(* reserve() keeps the invariant. *)
LEMMA ReserveIInv ==
  ASSUME IInv, TypeOK', NEW r \in Run, NEW id \in Id, NEW amount \in Amount,
         NEW paid \in BOOLEAN, Reserve(r, id, amount, paid)
  PROVE  IInv'
<1> USE DEF IInv
<1>1. amount \in Nat
  BY LedgerAssumption DEF Reserve, Affordable
<1>2. ReservedIsOutstanding'
  <2> SUFFICES ASSUME NEW s \in Run
               PROVE  /\ IsFiniteSet(HeldUnits(s)')
                      /\ reserved'[s] = Cardinality(HeldUnits(s)')
    BY DEF ReservedIsOutstanding
  <2>1. CASE s = r
    <3>1. /\ IsFiniteSet(HeldUnits(r)')
          /\ Cardinality(HeldUnits(r)') = Cardinality(HeldUnits(r)) + amount
      BY <1>1, ReserveAddsUnits DEF Reserve, ReservedIsOutstanding
    <3>2. reserved'[r] = reserved[r] + amount
      BY DEF Reserve, TypeOK
    <3>3. QED
      BY <2>1, <3>1, <3>2 DEF ReservedIsOutstanding
  <2>2. CASE s # r
    <3>1. [run |-> r, held |-> amount].run = r
      OBVIOUS
    <3>2. HeldUnits(s)' = HeldUnits(s)
      BY <2>2, <3>1, OtherRunsKeepUnits DEF Reserve
    <3>3. reserved'[s] = reserved[s]
      BY <2>2 DEF Reserve, TypeOK
    <3>4. QED
      BY <3>2, <3>3 DEF ReservedIsOutstanding
  <2>3. QED BY <2>1, <2>2
<1>3. CeilingRespected'
  BY <1>1, LedgerAssumption DEF Reserve, Affordable, CeilingRespected, TypeOK
<1>4. ZeroBudgetNoPaidCalls'
  <2> SUFFICES ASSUME NEW s \in Run, Ceiling[s] = 0 PROVE paidCalls'[s] = 0
    BY DEF ZeroBudgetNoPaidCalls
  <2>1. paidCalls[s] = 0
    BY DEF ZeroBudgetNoPaidCalls
  <2>2. ~(s = r /\ amount > 0)
    BY <1>1, LedgerAssumption, PriceAssumption DEF Reserve, Affordable, TypeOK
  <2>3. QED
    BY <2>1, <2>2 DEF Reserve, TypeOK
<1>5. QED
  BY <1>2, <1>3, <1>4

(* What settle() does to the totals of an outstanding reservation's run. *)
LEMMA SettleTotals ==
  ASSUME IInv, NEW id \in Id, NEW actual \in Int, Settle(id, actual), Outstanding(id),
         NEW r \in Run, r = reservations[id].run,
         NEW h, h = reservations[id].held
  PROVE  /\ h \in 0 .. reserved[r]
         /\ Charge(h, actual) \in 0 .. h
         /\ reserved' = [reserved EXCEPT ![r] = @ - h]
         /\ spent' = [spent EXCEPT ![r] = @ + Charge(h, actual)]
<1> USE DEF IInv
<1>1. h \in Nat
  BY DEF TypeOK, Reservation, Outstanding
<1>2. h <= reserved[r]
  BY SettleRemovesUnits DEF Settle, ReservedIsOutstanding
<1>3. Charge(h, actual) \in 0 .. h
  BY <1>1 DEF Charge, Smaller, Larger
<1>4. reserved[r] \in Nat
  BY DEF TypeOK
<1>5. Larger(0, reserved[r] - h) = reserved[r] - h
  BY <1>1, <1>2, <1>4 DEF Larger
<1>6. QED
  BY <1>1, <1>2, <1>3, <1>4, <1>5 DEF Settle, TypeOK

(* settle() keeps the invariant. *)
LEMMA SettleIInv ==
  ASSUME IInv, TypeOK', NEW id \in Id, NEW actual \in Int, Settle(id, actual),
         Outstanding(id),
         NEW r \in Run, r = reservations[id].run,
         NEW h, h = reservations[id].held
  PROVE  IInv'
<1> USE DEF IInv
<1>1. /\ h \in 0 .. reserved[r]
      /\ Charge(h, actual) \in 0 .. h
      /\ reserved' = [reserved EXCEPT ![r] = @ - h]
      /\ spent' = [spent EXCEPT ![r] = @ + Charge(h, actual)]
  BY SettleTotals
<1>2. ReservedIsOutstanding'
  <2> SUFFICES ASSUME NEW s \in Run
               PROVE  /\ IsFiniteSet(HeldUnits(s)')
                      /\ reserved'[s] = Cardinality(HeldUnits(s)')
    BY DEF ReservedIsOutstanding
  <2>1. reservations' = [reservations EXCEPT ![id] = NoReservation]
    BY DEF Settle
  <2>2. CASE s = r
    <3>1. /\ IsFiniteSet(HeldUnits(r)')
          /\ Cardinality(HeldUnits(r)') = Cardinality(HeldUnits(r)) - h
      BY <2>1, SettleRemovesUnits DEF ReservedIsOutstanding
    <3>2. reserved'[r] = reserved[r] - h
      BY <1>1 DEF TypeOK
    <3>3. QED
      BY <2>2, <3>1, <3>2 DEF ReservedIsOutstanding
  <2>3. CASE s # r
    <3>1. HeldUnits(s)' = HeldUnits(s)
      BY <2>1, <2>3, OtherRunsKeepUnits
    <3>2. reserved'[s] = reserved[s]
      BY <1>1, <2>3 DEF TypeOK
    <3>3. QED
      BY <3>1, <3>2 DEF ReservedIsOutstanding
  <2>4. QED BY <2>2, <2>3
<1>3. CeilingRespected'
  <2> SUFFICES ASSUME NEW s \in Run
               PROVE  spent'[s] + reserved'[s] <= Ceiling[s] + Tolerance
    BY DEF CeilingRespected
  <2>1. spent[s] + reserved[s] <= Ceiling[s] + Tolerance
    BY DEF CeilingRespected
  <2>2. spent'[s] + reserved'[s] <= spent[s] + reserved[s]
    BY <1>1 DEF TypeOK
  <2>3. QED
    BY <2>1, <2>2, LedgerAssumption DEF TypeOK
<1>4. ZeroBudgetNoPaidCalls'
  BY DEF Settle, ZeroBudgetNoPaidCalls
<1>5. QED
  BY <1>2, <1>3, <1>4

(* A step that changes nothing keeps the invariant. *)
LEMMA StutterIInv == IInv /\ UNCHANGED ledger => IInv'
<1> SUFFICES ASSUME IInv, UNCHANGED ledger PROVE IInv'
  OBVIOUS
<1>1. \A r \in Run : HeldUnits(r)' = HeldUnits(r)
  BY DEF ledger, HeldUnits, HeldBy, UnitsOf, Outstanding
<1>2. QED
  BY <1>1 DEF IInv, ledger, TypeOK, ReservedIsOutstanding, CeilingRespected,
             ZeroBudgetNoPaidCalls

(* Every operation keeps the invariant. *)
LEMMA NextIInv == IInv /\ TypeOK' /\ [Next]_ledger => IInv'
<1> SUFFICES ASSUME IInv, TypeOK', [Next]_ledger PROVE IInv'
  OBVIOUS
<1>1. ASSUME NEW r \in Run, NEW id \in Id, NEW amount \in Amount,
             NEW paid \in BOOLEAN, Reserve(r, id, amount, paid)
      PROVE  IInv'
  BY <1>1, ReserveIInv
<1>2. ASSUME NEW id \in Id, NEW actual \in Int, Settle(id, actual)
      PROVE  IInv'
  <2>1. CASE Outstanding(id)
    <3>1. reservations[id].run \in Run
      BY <2>1 DEF IInv, TypeOK, Reservation, Outstanding
    <3>2. QED
      BY <1>2, <2>1, <3>1, SettleIInv
  <2>2. CASE ~Outstanding(id)
    BY <1>2, <2>2, StutterIInv DEF Settle
  <2>3. QED BY <2>1, <2>2
<1>3. CASE UNCHANGED ledger
  BY <1>3, StutterIInv
<1>4. QED
  BY <1>1, <1>2, <1>3, LedgerAssumption DEF Next, Release

(* The invariant holds in every reachable state. *)
THEOREM LedgerInvariant == Spec => []IInv
<1>1. Spec => []TypeOK
  BY TypeCorrect
<1>2. QED
  BY <1>1, InitIInv, NextIInv, PTL DEF Spec

-----------------------------------------------------------------------------
(* No interleaving of callers makes a run spend and hold more than its
   ceiling, beyond the tolerance of the comparison. *)
THEOREM CeilingSafe == Spec => []CeilingRespected
BY LedgerInvariant, PTL DEF IInv

(* The running total of the reserved money is exact. *)
THEOREM ReservedExact == Spec => []ReservedIsOutstanding
BY LedgerInvariant, PTL DEF IInv

(* A run with a zero budget makes no paid call. *)
THEOREM ZeroBudgetSafe == Spec => []ZeroBudgetNoPaidCalls
BY LedgerInvariant, PTL DEF IInv

-----------------------------------------------------------------------------
(* Every step of the ledger is a step of the spending cap, or changes no
   money; so the ledger implements the abstract contract. *)
LEMMA ReserveHolds ==
  ASSUME IInv, NEW r \in Run, NEW id \in Id, NEW amount \in Amount,
         NEW paid \in BOOLEAN, Reserve(r, id, amount, paid)
  PROVE  [Contract!Next]_(Contract!vars)
<1> USE DEF IInv
<1>1. amount \in Nat
  BY LedgerAssumption DEF Reserve, Affordable
<1>2. CASE amount = 0
  BY <1>2, LedgerAssumption DEF Reserve, TypeOK, Contract!vars
<1>3. CASE amount > 0
  <2> DEFINE cap == [s \in Run |-> Ceiling[s] + Tolerance]
  <2>0. /\ cap[r] = Ceiling[r] + Tolerance
        /\ Ceiling[r] \in Nat /\ Tolerance \in Nat
        /\ spent[r] \in Nat /\ reserved[r] \in Nat
    BY LedgerAssumption DEF TypeOK
  <2>1. amount \in 1 .. cap[r] - spent[r] - reserved[r]
    <3>1. spent[r] + reserved[r] + amount <= Ceiling[r] + Tolerance
      BY <1>3 DEF Reserve, Affordable
    <3>2. QED
      BY <1>1, <1>3, <2>0, <3>1
  <2>2. Contract!Hold(r)
    BY <2>1 DEF Reserve, Contract!Hold
  <2>3. QED
    BY <2>2 DEF Contract!Next
<1>4. QED
  BY <1>1, <1>2, <1>3

(* settle() is a Resolve step of the cap when it takes money out of a hold. *)
LEMMA SettleResolves ==
  ASSUME IInv, NEW id \in Id, NEW actual \in Int, Settle(id, actual)
  PROVE  [Contract!Next]_(Contract!vars)
<1> USE DEF IInv
<1>1. CASE ~Outstanding(id)
  BY <1>1 DEF Settle, ledger, Contract!vars
<1>2. CASE Outstanding(id)
  <2>1. PICK r \in Run : r = reservations[id].run
    BY <1>2 DEF TypeOK, Reservation, Outstanding
  <2>2. PICK h \in Nat : h = reservations[id].held
    BY <1>2 DEF TypeOK, Reservation, Outstanding
  <2>3. /\ h \in 0 .. reserved[r]
        /\ Charge(h, actual) \in 0 .. h
        /\ reserved' = [reserved EXCEPT ![r] = @ - h]
        /\ spent' = [spent EXCEPT ![r] = @ + Charge(h, actual)]
    BY <1>2, <2>1, <2>2, SettleTotals
  <2>4. CASE h = 0
    BY <2>3, <2>4 DEF TypeOK, Contract!vars
  <2>5. CASE h > 0
    <3>1. h \in 1 .. reserved[r]
      BY <2>3, <2>5 DEF TypeOK
    <3>2. Contract!Resolve(r)
      BY <2>3, <3>1 DEF Contract!Resolve
    <3>3. QED
      BY <3>2 DEF Contract!Next
  <2>6. QED
    BY <2>2, <2>4, <2>5
<1>3. QED BY <1>1, <1>2

(* The ledger refines SpendingCap. *)
THEOREM LedgerImplementsCap == Spec => ImplementsSpendingCap
<1>1. Init => Contract!Init
  BY DEF Init, Contract!Init
<1>2. IInv /\ [Next]_ledger => [Contract!Next]_(Contract!vars)
  <2> SUFFICES ASSUME IInv, [Next]_ledger PROVE [Contract!Next]_(Contract!vars)
    OBVIOUS
  <2>1. ASSUME NEW r \in Run, NEW id \in Id, NEW amount \in Amount,
               NEW paid \in BOOLEAN, Reserve(r, id, amount, paid)
        PROVE  [Contract!Next]_(Contract!vars)
    BY <2>1, ReserveHolds
  <2>2. ASSUME NEW id \in Id, NEW actual \in Int, Settle(id, actual)
        PROVE  [Contract!Next]_(Contract!vars)
    BY <2>2, SettleResolves
  <2>3. CASE UNCHANGED ledger
    BY <2>3 DEF ledger, Contract!vars
  <2>4. QED
    BY <2>1, <2>2, <2>3, LedgerAssumption DEF Next, Release
<1>3. QED
  BY <1>1, <1>2, LedgerInvariant, PTL DEF Spec, ImplementsSpendingCap, Contract!Spec
=============================================================================
