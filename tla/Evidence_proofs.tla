-------------------------- MODULE Evidence_proofs --------------------------
(***************************************************************************)
(* Theorems about the pure functions of Evidence, for lists of any length: *)
(* what the reducers and the join's filter keep, and what the validator    *)
(* accepts.  The library's induction theorems cannot be instantiated here; *)
(* every induction is an argument about a least counterexample.            *)
(***************************************************************************)
EXTENDS Evidence, FiniteSetTheorems, FunctionTheorems, TLAPS

-----------------------------------------------------------------------------
(* A set of natural numbers has a least element: the intervals below its
   elements are finite sets, and inclusion of those is well-founded. *)
LEMMA LeastElement ==
  ASSUME NEW T \in SUBSET Nat, T # {}
  PROVE  \E x \in T : \A y \in T : x <= y
<1> DEFINE R == StrictSubsetOrdering(Nat)
           U == {1 .. n : n \in T}
<1>1. IsWellFoundedOn(R, FiniteSubsetsOf(Nat))
  BY FS_StrictSubsetOrderingWellFounded
<1>2. U \subseteq FiniteSubsetsOf(Nat)
  BY FS_Interval DEF FiniteSubsetsOf
<1>3. U # {}
  OBVIOUS
<1>4. \E a \in U : \A b \in U : ~(<<b, a>> \in R)
  <2> HIDE DEF U, R
  <2> QED BY <1>1, <1>2, <1>3, WFMin
<1>5. PICK x \in T : \A y \in T : ~(<<1 .. y, 1 .. x>> \in R)
  BY <1>4
<1>6. ASSUME NEW y \in T, y < x PROVE FALSE
  <2>1. 1 .. y \subseteq 1 .. x /\ x \in 1 .. x /\ x \notin 1 .. y
    BY <1>6
  <2>2. <<1 .. y, 1 .. x>> \in R
    BY <2>1 DEF StrictSubsetOrdering
  <2>3. QED BY <1>5, <2>2
<1>7. QED BY <1>6

(* A set of positions has a last one. *)
LEMMA GreatestElement ==
  ASSUME NEW n \in Nat, NEW P \in SUBSET (1 .. n), P # {}
  PROVE  \E x \in P : \A y \in P : y <= x
<1> DEFINE T == {n - i : i \in P}
<1>1. \A i \in P : i \in Nat /\ n - i \in Nat
  OBVIOUS
<1>2. T \in SUBSET Nat /\ T # {}
  BY <1>1
<1>3. \E a \in T : \A b \in T : a <= b
  <2> HIDE DEF T
  <2> QED BY <1>2, LeastElement
<1>4. PICK x \in P : \A y \in P : n - x <= n - y
  BY <1>3
<1>5. QED BY <1>1, <1>4

-----------------------------------------------------------------------------
(* InOrder takes every chosen position exactly once. *)
Rank(P, i) == Cardinality({j \in P : j < i})

LEMMA RankInjective ==
  ASSUME NEW P \in SUBSET Nat, IsFiniteSet(P), NEW i \in P, NEW j \in P, i < j
  PROVE  Rank(P, i) # Rank(P, j)
<1> DEFINE low == {k \in P : k < i}
           high == {k \in P : k < j}
<1>0. \A k \in P : k \in Int
  OBVIOUS
<1>1. low \subseteq high /\ i \in high /\ i \notin low
  <2>1. ~(i < i) /\ \A k \in P : k < i => k < j
    BY <1>0
  <2>2. QED BY <2>1
<1>2. IsFiniteSet(high)
  BY FS_Subset
<1>3. low # high
  BY <1>1
<1>4. Cardinality(high) # Cardinality(low)
  <2> HIDE DEF low, high
  <2> QED BY <1>1, <1>2, <1>3, FS_Subset
<1>5. QED
  BY <1>4 DEF Rank

LEMMA RankRange ==
  ASSUME NEW P \in SUBSET Nat, IsFiniteSet(P), NEW i \in P
  PROVE  Rank(P, i) \in Nat /\ Rank(P, i) + 1 \in 1 .. Cardinality(P)
<1> DEFINE low == {k \in P : k < i}
<1>1. low \subseteq P /\ i \notin low
  <2>1. ~(i < i)
    OBVIOUS
  <2>2. QED BY <2>1
<1> HIDE DEF low
<1>2. IsFiniteSet(low) /\ Cardinality(low) <= Cardinality(P)
      /\ (Cardinality(P) = Cardinality(low) => P = low)
  BY <1>1, FS_Subset
<1>3. Cardinality(low) \in Nat /\ Cardinality(P) \in Nat
  BY <1>2, FS_CardinalityType
<1>4. Cardinality(low) # Cardinality(P)
  BY <1>1, <1>2
<1>5. Cardinality(low) + 1 \in 1 .. Cardinality(P)
  BY <1>2, <1>3, <1>4
<1>6. QED
  BY <1>3, <1>5 DEF Rank, low

LEMMA RankOnto ==
  ASSUME NEW P \in SUBSET Nat, IsFiniteSet(P), NEW n \in 1 .. Cardinality(P)
  PROVE  \E i \in P : Rank(P, i) = n - 1
<1> DEFINE place == [i \in P |-> Rank(P, i) + 1]
           N == 1 .. Cardinality(P)
<1>0. Cardinality(P) \in Nat
  BY FS_CardinalityType
<1>1. place \in Injection(P, N)
  <2>1. place \in [P -> N]
    BY RankRange
  <2>2. ASSUME NEW i \in P, NEW j \in P, place[i] = place[j] PROVE i = j
    <3>1. Rank(P, i) \in Nat /\ Rank(P, j) \in Nat
      BY RankRange
    <3>2. Rank(P, i) = Rank(P, j)
      BY <2>2, <3>1
    <3>3. i \in Nat /\ j \in Nat
      OBVIOUS
    <3>4. ~(i < j) /\ ~(j < i)
      BY <3>2, RankInjective
    <3>5. QED
      BY <3>3, <3>4
  <2>3. QED
    BY <2>1, <2>2 DEF Injection, IsInjective
<1>2. IsFiniteSet(N) /\ Cardinality(N) = Cardinality(P)
  BY <1>0, FS_Interval
<1>3. place \in Surjection(P, N)
  <2> HIDE DEF place, N
  <2> QED BY <1>1, <1>2, FS_Injection
<1>4. PICK i \in P : place[i] = n
  BY <1>3 DEF Surjection
<1>5. Rank(P, i) \in Nat
  BY RankRange
<1>6. Rank(P, i) = n - 1
  BY <1>0, <1>4, <1>5
<1>7. QED
  BY <1>6
-----------------------------------------------------------------------------
(* A selection holds the chosen elements, one for each chosen position. *)
LEMMA InOrderTakes ==
  ASSUME NEW S, NEW list \in Seq(S), NEW P \in SUBSET (DOMAIN list)
  PROVE  /\ Cardinality(P) \in Nat
         /\ InOrder(list, P) \in Seq(S)
         /\ Len(InOrder(list, P)) = Cardinality(P)
         /\ \E order \in Bijection(1 .. Cardinality(P), P) :
              \A n \in 1 .. Cardinality(P) : InOrder(list, P)[n] = list[order[n]]
<1> DEFINE N == Cardinality(P)
           order == [n \in 1 .. N |-> CHOOSE i \in P : Rank(P, i) = n - 1]
<1>1. P \in SUBSET Nat /\ P \in SUBSET (1 .. Len(list)) /\ Len(list) \in Nat
  OBVIOUS
<1>2. IsFiniteSet(P) /\ N \in Nat
  <2>1. IsFiniteSet(1 .. Len(list))
    BY <1>1, FS_Interval
  <2>2. IsFiniteSet(P)
    BY <1>1, <2>1, FS_Subset
  <2>3. QED
    BY <2>2, FS_CardinalityType
<1>3. \A n \in 1 .. N : order[n] \in P /\ Rank(P, order[n]) = n - 1
  BY <1>1, <1>2, RankOnto
<1>4. order \in Bijection(1 .. N, P)
  <2>1. order \in [1 .. N -> P]
    BY <1>3
  <2>2. ASSUME NEW m \in 1 .. N, NEW n \in 1 .. N, order[m] = order[n] PROVE m = n
    <3>1. m - 1 = n - 1
      BY <1>3, <2>2
    <3>2. QED BY <1>2, <3>1
  <2>3. ASSUME NEW i \in P PROVE \E n \in 1 .. N : order[n] = i
    <3> DEFINE n == Rank(P, i) + 1
    <3>1. n \in 1 .. N /\ n - 1 = Rank(P, i)
      BY <1>1, <1>2, RankRange
    <3>2. order[n] \in P /\ Rank(P, order[n]) = Rank(P, i)
      BY <1>3, <3>1
    <3>3. ~(order[n] < i) /\ ~(i < order[n])
      BY <1>1, <1>2, <3>2, RankInjective
    <3>4. order[n] = i
      <4>1. \A k \in P : k \in Nat
        BY <1>1
      <4> HIDE DEF n, order
      <4> QED BY <3>2, <3>3, <4>1
    <3>5. QED BY <3>1, <3>4
  <2>4. QED
    <3> HIDE DEF order, N
    <3> QED BY <2>1, <2>2, <2>3 DEF Bijection, Injection, Surjection, IsInjective
<1>5. \A n \in 1 .. N : InOrder(list, P)[n] = list[order[n]]
  BY DEF InOrder, Rank
<1>6. InOrder(list, P) \in [1 .. N -> S]
  <2>1. DOMAIN InOrder(list, P) = 1 .. N
    BY DEF InOrder
  <2>2. \A n \in 1 .. N : InOrder(list, P)[n] \in S
    <3> HIDE DEF order
    <3> QED BY <1>3, <1>5
  <2>3. InOrder(list, P) = [n \in 1 .. N |-> InOrder(list, P)[n]]
    BY DEF InOrder
  <2>4. QED
    <3> HIDE DEF N
    <3> QED BY <2>2, <2>3
<1>7. QED
  <2> HIDE DEF order, N
  <2>1. InOrder(list, P) \in Seq(S) /\ Len(InOrder(list, P)) = N
    BY <1>2, <1>6
  <2>2. QED BY <1>2, <1>4, <1>5, <2>1 DEF N

LEMMA InOrderElements ==
  ASSUME NEW S, NEW list \in Seq(S), NEW P \in SUBSET (DOMAIN list)
  PROVE  ToSet(InOrder(list, P)) = {list[i] : i \in P}
<1> DEFINE N == Cardinality(P)
           result == InOrder(list, P)
<1>1. PICK order \in Bijection(1 .. N, P) : \A n \in 1 .. N : result[n] = list[order[n]]
  BY InOrderTakes
<1>2. DOMAIN result = 1 .. N
  BY InOrderTakes
<1>3. order \in [1 .. N -> P] /\ \A i \in P : \E n \in 1 .. N : order[n] = i
  BY <1>1 DEF Bijection, Injection, Surjection
<1> HIDE DEF N, result
<1>4. QED
  BY <1>1, <1>2, <1>3 DEF ToSet, result

LEMMA InOrderInjective ==
  ASSUME NEW S, NEW list \in Seq(S), NEW P \in SUBSET (DOMAIN list),
         \A i, j \in P : list[i] = list[j] => i = j
  PROVE  IsInjective(InOrder(list, P))
<1> DEFINE N == Cardinality(P)
           result == InOrder(list, P)
<1>1. PICK order \in Bijection(1 .. N, P) : \A n \in 1 .. N : result[n] = list[order[n]]
  BY InOrderTakes
<1>2. DOMAIN result = 1 .. N
  BY InOrderTakes
<1>3. order \in [1 .. N -> P] /\ \A m, n \in 1 .. N : order[m] = order[n] => m = n
  BY <1>1 DEF Bijection, Injection, IsInjective
<1> HIDE DEF N, result
<1>4. QED
  BY <1>1, <1>2, <1>3 DEF IsInjective, result

(* Every key has exactly one first position. *)
LEMMA FirstPositionsOnce ==
  ASSUME NEW n \in Nat, NEW keys, DOMAIN keys = 1 .. n
  PROVE  /\ FirstPositions(keys) \subseteq 1 .. n
         /\ \A i \in 1 .. n : \E f \in FirstPositions(keys) : keys[f] = keys[i]
         /\ \A f, g \in FirstPositions(keys) : keys[f] = keys[g] => f = g
<1>1. FirstPositions(keys) \subseteq 1 .. n
  BY DEF FirstPositions
<1>2. ASSUME NEW i \in 1 .. n PROVE \E f \in FirstPositions(keys) : keys[f] = keys[i]
  <2> DEFINE same == {j \in 1 .. n : keys[j] = keys[i]}
  <2>1. PICK f \in same : \A g \in same : f <= g
    <3>1. same \in SUBSET Nat /\ same # {}
      OBVIOUS
    <3> HIDE DEF same
    <3>2. QED BY <3>1, LeastElement
  <2>2. ASSUME NEW j \in 1 .. f - 1, keys[j] = keys[f] PROVE FALSE
    BY <2>1, <2>2
  <2>3. f \in FirstPositions(keys)
    BY <2>1, <2>2 DEF FirstPositions
  <2>4. QED BY <2>3
<1>3. ASSUME NEW f \in FirstPositions(keys), NEW g \in FirstPositions(keys),
             keys[f] = keys[g]
      PROVE  f = g
  <2>1. f \in 1 .. n /\ g \in 1 .. n
    BY <1>1
  <2>2. f \notin 1 .. g - 1 /\ g \notin 1 .. f - 1
    BY <1>3 DEF FirstPositions
  <2>3. QED BY <2>1, <2>2
<1>4. QED BY <1>1, <1>2, <1>3
-----------------------------------------------------------------------------
(* What merge_by_id makes of two lists of facts, whatever ids repeat in them:
   every id of either list occurs in the result, once, with the fact of the
   right list if it has one, and the result has no other fact. *)
THEOREM MergeKeeps ==
  ASSUME NEW left \in Seq(Fact), NEW right \in Seq(Fact)
  PROVE  LET merged == MergeById(left, right)
         IN /\ merged \in Seq(Fact)
            /\ \A m, n \in DOMAIN merged : merged[m].id = merged[n].id => m = n
            /\ Ids(merged) = Ids(left) \cup Ids(right)
            /\ \A f \in ToSet(merged) :
                 f \in ToSet(right) \/ (f \in ToSet(left) /\ f.id \notin Ids(right))
<1> DEFINE all == left \o right
           ids == IdKeys(all)
           IsLast(i, j) == ids[j] = ids[i] /\ \A k \in j + 1 .. Len(all) : ids[k] # ids[i]
           last(i) == CHOOSE j \in DOMAIN all : IsLast(i, j)
           latest == [i \in DOMAIN all |-> all[last(i)]]
           first == FirstPositions(ids)
           merged == MergeById(left, right)
<1>1. /\ all \in Seq(Fact) /\ Len(all) = Len(left) + Len(right) /\ Len(all) \in Nat
      /\ DOMAIN all = 1 .. Len(all)
      /\ \A i \in 1 .. Len(left) : all[i] = left[i]
      /\ \A i \in 1 .. Len(right) : all[Len(left) + i] = right[i]
  OBVIOUS
<1>2. DOMAIN ids = 1 .. Len(all) /\ \A i \in DOMAIN all : ids[i] = all[i].id
  BY <1>1 DEF IdKeys
<1>3. ASSUME NEW i \in DOMAIN all PROVE last(i) \in DOMAIN all /\ IsLast(i, last(i))
  <2> DEFINE same == {j \in DOMAIN all : ids[j] = ids[i]}
  <2>1. same \in SUBSET (1 .. Len(all)) /\ same # {}
    BY <1>1
  <2>2. PICK j \in same : \A k \in same : k <= j
    <3> HIDE DEF same, all
    <3> QED BY <1>1, <2>1, GreatestElement
  <2>3. j \in DOMAIN all /\ IsLast(i, j)
    <3> HIDE DEF all, ids
    <3>1. ASSUME NEW k \in j + 1 .. Len(all), ids[k] = ids[i] PROVE FALSE
      <4>1. k \in DOMAIN all /\ ~(k <= j)
        BY <1>1, <2>2
      <4>2. QED BY <2>2, <3>1, <4>1
    <3>2. QED BY <2>2, <3>1
  <2>4. QED
    <3> HIDE DEF IsLast, all
    <3> QED BY <2>3
<1>4. /\ latest \in Seq(Fact) /\ DOMAIN latest = DOMAIN all
      /\ \A i \in DOMAIN all : latest[i] = all[last(i)] /\ latest[i].id = ids[i]
  <2> HIDE DEF all, ids, last
  <2>1. \A i \in DOMAIN all : all[last(i)] \in Fact /\ all[last(i)].id = ids[i]
    BY <1>1, <1>2, <1>3
  <2>2. latest \in [1 .. Len(all) -> Fact]
    BY <1>1, <2>1
  <2>3. QED BY <1>1, <2>1, <2>2
<1>5. merged = InOrder(latest, first)
  BY DEF MergeById
<1>6. /\ first \subseteq DOMAIN all
      /\ \A i \in DOMAIN all : \E f \in first : ids[f] = ids[i]
      /\ \A f, g \in first : ids[f] = ids[g] => f = g
  <2> HIDE DEF all, ids
  <2> QED BY <1>1, <1>2, FirstPositionsOnce
<1> HIDE DEF all, ids, last, latest, first, merged
<1>7. /\ merged \in Seq(Fact)
      /\ DOMAIN merged = 1 .. Cardinality(first)
      /\ ToSet(merged) = {latest[i] : i \in first}
  BY <1>4, <1>5, <1>6, InOrderTakes, InOrderElements
<1>8. ASSUME NEW m \in DOMAIN merged, NEW n \in DOMAIN merged, merged[m].id = merged[n].id
      PROVE  m = n
  <2>0. \E order \in Bijection(1 .. Cardinality(first), first) :
          \A k \in 1 .. Cardinality(first) : InOrder(latest, first)[k] = latest[order[k]]
    <3>1. latest \in Seq(Fact) /\ first \in SUBSET (DOMAIN latest)
      BY <1>4, <1>6
    <3>2. QED BY <3>1, InOrderTakes, Zenon
  <2>1. PICK order \in Bijection(1 .. Cardinality(first), first) :
               \A k \in 1 .. Cardinality(first) : merged[k] = latest[order[k]]
    BY <1>5, <2>0, Zenon
  <2>2. /\ order \in [1 .. Cardinality(first) -> first]
        /\ \A j, k \in 1 .. Cardinality(first) : order[j] = order[k] => j = k
    BY <2>1 DEF Bijection, Injection, IsInjective
  <2>3. ids[order[m]] = ids[order[n]]
    BY <1>4, <1>6, <1>7, <1>8, <2>1, <2>2
  <2>4. QED BY <1>6, <1>7, <2>2, <2>3
<1>9. Ids(merged) = {ids[i] : i \in DOMAIN all}
  <2>1. Ids(merged) = {f.id : f \in ToSet(merged)}
    BY DEF Ids, ToSet
  <2>2. Ids(merged) = {ids[i] : i \in first}
    <3>1. \A f \in ToSet(merged) : \E i \in first : f.id = ids[i]
      BY <1>4, <1>6, <1>7
    <3>2. \A i \in first : \E f \in ToSet(merged) : f.id = ids[i]
      BY <1>4, <1>6, <1>7
    <3>3. QED BY <2>1, <3>1, <3>2
  <2>3. QED BY <1>6, <2>2
<1>10. {ids[i] : i \in DOMAIN all} = Ids(left) \cup Ids(right)
  <2>1. \A i \in DOMAIN all : i \in 1 .. Len(left) \/ \E j \in 1 .. Len(right) : i = Len(left) + j
    <3>1. \A i \in 1 .. Len(all) : i > Len(left) =>
            i - Len(left) \in 1 .. Len(right) /\ i = Len(left) + (i - Len(left))
      BY <1>1
    <3>2. \A i \in 1 .. Len(all) : ~(i > Len(left)) => i \in 1 .. Len(left)
      BY <1>1
    <3>3. QED BY <1>1, <3>1, <3>2
  <2>2. \A i \in 1 .. Len(left) : i \in DOMAIN all
    BY <1>1
  <2>3. \A j \in 1 .. Len(right) : Len(left) + j \in DOMAIN all
    BY <1>1
  <2>4. DOMAIN left = 1 .. Len(left) /\ DOMAIN right = 1 .. Len(right)
    OBVIOUS
  <2>5. \A i \in DOMAIN all : ids[i] \in Ids(left) \cup Ids(right)
    <3> SUFFICES ASSUME NEW i \in DOMAIN all PROVE ids[i] \in Ids(left) \cup Ids(right)
      OBVIOUS
    <3>1. CASE i \in 1 .. Len(left)
      BY <1>1, <1>2, <2>4, <3>1 DEF Ids
    <3>2. ASSUME NEW j \in 1 .. Len(right), i = Len(left) + j
          PROVE  ids[i] \in Ids(right)
      BY <1>1, <1>2, <2>4, <3>2 DEF Ids
    <3>3. QED BY <2>1, <3>1, <3>2
  <2>6. \A x \in Ids(left) : \E i \in DOMAIN all : ids[i] = x
    BY <1>1, <1>2, <2>2, <2>4 DEF Ids
  <2>7. \A x \in Ids(right) : \E i \in DOMAIN all : ids[i] = x
    BY <1>1, <1>2, <2>3, <2>4 DEF Ids
  <2>8. QED BY <2>5, <2>6, <2>7
<1>11. ASSUME NEW f \in ToSet(merged)
       PROVE  f \in ToSet(right) \/ (f \in ToSet(left) /\ f.id \notin Ids(right))
  <2>1. PICK i \in DOMAIN all : f = latest[i]
    BY <1>6, <1>7
  <2>2. PICK j \in DOMAIN all : j = last(i)
    BY <1>3
  <2>3. f = all[j] /\ f.id = ids[i] /\ \A k \in j + 1 .. Len(all) : ids[k] # ids[i]
    BY <1>3, <1>4, <2>1, <2>2
  <2>4. CASE j <= Len(left)
    <3>1. f \in ToSet(left)
      BY <1>1, <2>3, <2>4 DEF ToSet
    <3>2. ASSUME NEW k \in 1 .. Len(right) PROVE right[k].id # f.id
      <4>1. Len(left) + k \in j + 1 .. Len(all) /\ Len(left) + k \in DOMAIN all
        BY <1>1, <2>4
      <4>2. QED BY <1>1, <1>2, <2>3, <4>1
    <3>3. DOMAIN right = 1 .. Len(right)
      OBVIOUS
    <3>4. QED BY <3>1, <3>2, <3>3 DEF Ids
  <2>5. CASE ~(j <= Len(left))
    <3>1. j - Len(left) \in 1 .. Len(right) /\ j = Len(left) + (j - Len(left))
      BY <1>1, <2>5
    <3>2. f = right[j - Len(left)]
      BY <1>1, <2>3, <3>1
    <3>3. DOMAIN right = 1 .. Len(right)
      OBVIOUS
    <3>4. QED BY <3>1, <3>2, <3>3 DEF ToSet
  <2>6. QED BY <2>4, <2>5
<1>12. QED
  BY <1>7, <1>8, <1>9, <1>10, <1>11 DEF merged

(* The join's filter adds no fact, and of all facts with the same source and
   quote keeps one. *)
THEOREM UniqueQuotesKeeps ==
  ASSUME NEW facts \in Seq(Fact)
  PROVE  /\ UniqueQuotes(facts) \in Seq(Fact)
         /\ ToSet(UniqueQuotes(facts)) \subseteq ToSet(facts)
         /\ \A f \in ToSet(facts) : \E g \in ToSet(UniqueQuotes(facts)) :
              RefOf(g) = RefOf(f) /\ QuoteOf(g) = QuoteOf(f)
         /\ \A i, j \in DOMAIN UniqueQuotes(facts) :
              /\ RefOf(UniqueQuotes(facts)[i]) = RefOf(UniqueQuotes(facts)[j])
              /\ QuoteOf(UniqueQuotes(facts)[i]) = QuoteOf(UniqueQuotes(facts)[j])
              => i = j
<1> DEFINE keys == QuoteKeys(facts)
           first == FirstPositions(keys)
           kept == InOrder(facts, first)
<1>1. /\ DOMAIN facts = 1 .. Len(facts) /\ Len(facts) \in Nat /\ DOMAIN keys = 1 .. Len(facts)
      /\ \A i \in DOMAIN facts : keys[i] = <<RefOf(facts[i]), QuoteOf(facts[i])>>
  BY DEF QuoteKeys
<1>2. /\ first \in SUBSET (DOMAIN facts)
      /\ \A i \in DOMAIN facts : \E f \in first : keys[f] = keys[i]
      /\ \A f, g \in first : keys[f] = keys[g] => f = g
  <2> HIDE DEF keys
  <2> QED BY <1>1, FirstPositionsOnce
<1> HIDE DEF first
<1>3. kept \in Seq(Fact) /\ ToSet(kept) = {facts[i] : i \in first}
  BY <1>2, InOrderTakes, InOrderElements
<1>4. PICK order \in Bijection(1 .. Cardinality(first), first) :
        /\ \A n \in 1 .. Cardinality(first) : kept[n] = facts[order[n]]
        /\ DOMAIN kept = 1 .. Cardinality(first)
  BY <1>2, InOrderTakes
<1>5. /\ order \in [1 .. Cardinality(first) -> first]
      /\ \A m, n \in 1 .. Cardinality(first) : order[m] = order[n] => m = n
  BY <1>4 DEF Bijection, Injection, IsInjective
<1> HIDE DEF keys, kept
<1>6. ToSet(kept) \subseteq ToSet(facts)
  BY <1>2, <1>3 DEF ToSet
<1>7. ASSUME NEW f \in ToSet(facts)
      PROVE  \E g \in ToSet(kept) : RefOf(g) = RefOf(f) /\ QuoteOf(g) = QuoteOf(f)
  <2>1. PICK i \in DOMAIN facts : facts[i] = f
    BY DEF ToSet
  <2>2. PICK k \in first : keys[k] = keys[i]
    BY <1>2
  <2>3. facts[k] \in ToSet(kept)
    BY <1>3, <2>2
  <2>4. RefOf(facts[k]) = RefOf(f) /\ QuoteOf(facts[k]) = QuoteOf(f)
    <3>1. k \in DOMAIN facts
      BY <1>2, <2>2
    <3>2. QED BY <1>1, <2>1, <2>2, <3>1
  <2>5. QED BY <2>3, <2>4
<1>8. ASSUME NEW i \in DOMAIN kept, NEW j \in DOMAIN kept,
             RefOf(kept[i]) = RefOf(kept[j]), QuoteOf(kept[i]) = QuoteOf(kept[j])
      PROVE  i = j
  <2>1. kept[i] = facts[order[i]] /\ kept[j] = facts[order[j]]
    BY <1>4
  <2>2. order[i] \in first /\ order[j] \in first
    BY <1>4, <1>5
  <2>3. keys[order[i]] = keys[order[j]]
    <3>1. order[i] \in DOMAIN facts /\ order[j] \in DOMAIN facts
      BY <1>2, <2>2
    <3>2. /\ keys[order[i]] = <<RefOf(kept[i]), QuoteOf(kept[i])>>
          /\ keys[order[j]] = <<RefOf(kept[j]), QuoteOf(kept[j])>>
      BY <1>1, <2>1, <3>1, Zenon
    <3>3. QED BY <1>8, <3>2
  <2>4. order[i] = order[j]
    BY <1>2, <2>2, <2>3
  <2>5. QED BY <1>4, <1>5, <2>4
<1>9. QED
  BY <1>3, <1>6, <1>7, <1>8 DEF UniqueQuotes, kept, first, keys

(* Applying merge_by_id to a list without repeated ids and to facts of that list
   changes nothing but the order at most. *)
LEMMA MergeOwnKeeps ==
  ASSUME NEW left \in Seq(Fact), NEW right \in Seq(Fact),
         \A m, n \in DOMAIN left : left[m].id = left[n].id => m = n,
         ToSet(right) \subseteq ToSet(left)
  PROVE  ToSet(MergeById(left, right)) = ToSet(left)
<1> DEFINE merged == MergeById(left, right)
<1>1. \A f \in ToSet(merged) : f \in ToSet(left)
  BY MergeKeeps
<1>2. ASSUME NEW f \in ToSet(left) PROVE f \in ToSet(merged)
  <2>1. f.id \in Ids(merged)
    <3>1. f.id \in Ids(left)
      BY DEF Ids, ToSet
    <3>2. Ids(merged) = Ids(left) \cup Ids(right)
      BY MergeKeeps
    <3> HIDE DEF merged
    <3>3. QED BY <3>1, <3>2
  <2>2. PICK g \in ToSet(merged) : g.id = f.id
    <3> HIDE DEF merged
    <3> QED BY <2>1 DEF Ids, ToSet
  <2>3. g \in ToSet(left)
    BY <1>1
  <2>4. f = g
    BY <2>2, <2>3 DEF ToSet
  <2>5. QED BY <2>4
<1>3. QED BY <1>1, <1>2

-----------------------------------------------------------------------------
(* The elements of a concatenation, and of a list with one more element. *)
LEMMA ConcatElements ==
  ASSUME NEW S, NEW s \in Seq(S), NEW t \in Seq(S)
  PROVE  ToSet(s \o t) \subseteq ToSet(s) \cup ToSet(t)
<1> SUFFICES ASSUME NEW i \in DOMAIN (s \o t)
             PROVE  (s \o t)[i] \in ToSet(s) \cup ToSet(t)
  BY DEF ToSet
<1>1. CASE i <= Len(s)
  BY <1>1 DEF ToSet
<1>2. CASE ~(i <= Len(s))
  <2>1. i - Len(s) \in 1 .. Len(t) /\ (s \o t)[i] = t[i - Len(s)]
    BY <1>2
  <2>2. DOMAIN t = 1 .. Len(t)
    OBVIOUS
  <2>3. QED BY <2>1, <2>2 DEF ToSet
<1>3. QED BY <1>1, <1>2

LEMMA AppendElements ==
  ASSUME NEW S, NEW s \in Seq(S), NEW e \in S
  PROVE  Append(s, e) \in Seq(S) /\ ToSet(Append(s, e)) = ToSet(s) \cup {e}
<1>1. /\ Append(s, e) \in Seq(S) /\ DOMAIN Append(s, e) = 1 .. Len(s) + 1
      /\ Len(s) \in Nat /\ DOMAIN s = 1 .. Len(s)
      /\ Append(s, e)[Len(s) + 1] = e /\ \A i \in 1 .. Len(s) : Append(s, e)[i] = s[i]
  OBVIOUS
<1>2. \A i \in 1 .. Len(s) + 1 : i \in 1 .. Len(s) \/ i = Len(s) + 1
  BY <1>1
<1>3. \A i \in 1 .. Len(s) : i \in 1 .. Len(s) + 1
  BY <1>1
<1>4. Len(s) + 1 \in 1 .. Len(s) + 1
  BY <1>1
<1>5. ToSet(Append(s, e)) \subseteq ToSet(s) \cup {e}
  BY <1>1, <1>2 DEF ToSet
<1>6. ToSet(s) \cup {e} \subseteq ToSet(Append(s, e))
  BY <1>1, <1>3, <1>4 DEF ToSet
<1>7. QED BY <1>1, <1>5, <1>6

(* FlattenSeq is defined by a recursive function: it exists for every length,
   and joins lists of elements of one set to a list of elements of that set. *)
Joined(seqs, m, f) ==
  f = [i \in 1 .. m |-> IF i = 1 THEN seqs[i] ELSE f[i - 1] \o seqs[i]]

LEMMA JoinedExists ==
  ASSUME NEW seqs, NEW n \in Nat, n > 0
  PROVE  \E f : Joined(seqs, n, f)
<1> DEFINE bad == {m \in Nat : m > 0 /\ ~\E f : Joined(seqs, m, f)}
<1> SUFFICES ASSUME bad # {} PROVE FALSE
  OBVIOUS
<1>1. PICK m \in bad : \A k \in bad : m <= k
  <2>1. bad \in SUBSET Nat
    OBVIOUS
  <2> HIDE DEF bad
  <2>2. QED BY <2>1, LeastElement
<1>2. CASE m = 1
  <2> DEFINE f == [i \in 1 .. 1 |-> seqs[i]]
  <2>1. Joined(seqs, 1, f)
    BY DEF Joined
  <2>2. QED BY <1>1, <1>2, <2>1
<1>3. CASE m > 1
  <2>1. m - 1 \in Nat /\ m - 1 > 0 /\ ~(m <= m - 1)
    BY <1>1, <1>3
  <2>2. PICK f : Joined(seqs, m - 1, f)
    BY <1>1, <2>1
  <2> DEFINE g == [i \in 1 .. m |-> IF i = m THEN f[m - 1] \o seqs[m] ELSE f[i]]
  <2>3. ASSUME NEW i \in 1 .. m
        PROVE  g[i] = IF i = 1 THEN seqs[i] ELSE g[i - 1] \o seqs[i]
    <3>1. CASE i = m
      <4>1. i # 1 /\ i - 1 \in 1 .. m /\ i - 1 # m
        BY <1>1, <1>3, <3>1
      <4>2. g[i - 1] = f[m - 1] /\ g[i] = f[m - 1] \o seqs[m]
        BY <3>1, <4>1
      <4>3. QED BY <3>1, <4>1, <4>2
    <3>2. CASE i # m
      <4>1. i \in 1 .. m - 1
        BY <1>1, <3>2
      <4>2. f[i] = IF i = 1 THEN seqs[i] ELSE f[i - 1] \o seqs[i]
        BY <2>2, <4>1 DEF Joined
      <4>3. i # 1 => i - 1 \in 1 .. m /\ i - 1 # m
        BY <1>1, <4>1
      <4>4. QED BY <3>2, <4>2, <4>3
    <3>3. QED BY <3>1, <3>2
  <2>4. Joined(seqs, m, g)
    BY <2>3 DEF Joined
  <2>5. QED BY <1>1, <2>4
<1>4. QED BY <1>1, <1>2, <1>3

THEOREM FlattenKeeps ==
  ASSUME NEW S, NEW seqs, NEW n \in Nat, n > 0, seqs \in [1 .. n -> Seq(S)]
  PROVE  /\ FlattenSeq(seqs) \in Seq(S)
         /\ \A x \in ToSet(FlattenSeq(seqs)) : \E i \in 1 .. n : x \in ToSet(seqs[i])
<1> DEFINE flat == CHOOSE f : Joined(seqs, n, f)
           Good(i) == /\ flat[i] \in Seq(S)
                      /\ \A x \in ToSet(flat[i]) : \E k \in 1 .. n : x \in ToSet(seqs[k])
           bad == {i \in 1 .. n : ~Good(i)}
<1>1. Joined(seqs, n, flat)
  BY JoinedExists
<1>2. Len(seqs) = n
  OBVIOUS
<1>3. FlattenSeq(seqs) = flat[n]
  BY <1>2 DEF FlattenSeq, Joined
<1> HIDE DEF flat
<1>4. bad = {}
  <2> SUFFICES ASSUME bad # {} PROVE FALSE
    OBVIOUS
  <2>1. PICK m \in bad : \A k \in bad : m <= k
    <3>1. bad \in SUBSET Nat
      OBVIOUS
    <3> HIDE DEF bad
    <3>2. QED BY <3>1, LeastElement
  <2>2. m \in 1 .. n /\ ~Good(m)
    BY <2>1
  <2>3. flat[m] = IF m = 1 THEN seqs[m] ELSE flat[m - 1] \o seqs[m]
    BY <1>1, <2>2 DEF Joined
  <2>4. CASE m = 1
    BY <2>2, <2>3, <2>4
  <2>5. CASE m # 1
    <3>1. m - 1 \in 1 .. n /\ ~(m <= m - 1)
      BY <2>2, <2>5
    <3>2. Good(m - 1)
      BY <2>1, <3>1
    <3>3. seqs[m] \in Seq(S) /\ flat[m] = flat[m - 1] \o seqs[m]
      BY <2>2, <2>3, <2>5
    <3>4. ToSet(flat[m]) \subseteq ToSet(flat[m - 1]) \cup ToSet(seqs[m])
      BY <3>2, <3>3, ConcatElements
    <3>5. Good(m)
      BY <2>2, <3>2, <3>3, <3>4
    <3>6. QED BY <2>2, <3>5
  <2>6. QED BY <2>4, <2>5
<1>5. Good(n)
  <2>1. n \in 1 .. n
    OBVIOUS
  <2>2. n \notin bad
    BY <1>4
  <2> HIDE DEF Good
  <2>3. QED BY <2>1, <2>2
<1>6. QED
  BY <1>3, <1>5
-----------------------------------------------------------------------------
LEMMA VerdictSet ==
  ASSUME NEW f \in Fact, NEW v
  PROVE  LET g == [f EXCEPT !.verdict = v]
         IN /\ g.id = f.id /\ g.claim = f.claim /\ g.verdict = v
            /\ v \in Verdict => g \in Fact
BY DEF Fact

(* The validator gives verdicts and changes nothing else. *)
LEMMA ValidateKeeps ==
  ASSUME NEW facts \in Seq(Fact), NEW known
  PROVE  /\ Validate(facts, known) \in Seq(Fact)
         /\ DOMAIN Validate(facts, known) = DOMAIN facts
         /\ \A i \in DOMAIN facts : /\ Validate(facts, known)[i].id = facts[i].id
                                    /\ Validate(facts, known)[i].claim = facts[i].claim
<1> DEFINE judged == Validate(facts, known)
           repeated(i) == \E j \in 1 .. i - 1 : /\ facts[j].claim = facts[i].claim
                                                /\ Flaw(facts[j], known) = "none"
           verdict(i) == IF Flaw(facts[i], known) # "none" THEN Flaw(facts[i], known)
                         ELSE IF repeated(i) THEN "duplicate" ELSE "accepted"
<1>1. \A i \in DOMAIN facts : Flaw(facts[i], known) \in Verdict \cup {"none"}
  BY DEF Flaw, Verdict
<1>2. \A i \in DOMAIN facts : verdict(i) \in Verdict
  <2> HIDE DEF repeated
  <2> QED BY <1>1 DEF Verdict
<1>3. judged = [i \in DOMAIN facts |-> [facts[i] EXCEPT !.verdict = verdict(i)]]
  BY DEF Validate
<1> HIDE DEF verdict, judged
<1>4. \A i \in DOMAIN facts : /\ judged[i] \in Fact
                              /\ judged[i].id = facts[i].id
                              /\ judged[i].claim = facts[i].claim
  <2> SUFFICES ASSUME NEW i \in DOMAIN facts
               PROVE  /\ judged[i] \in Fact
                      /\ judged[i].id = facts[i].id
                      /\ judged[i].claim = facts[i].claim
    OBVIOUS
  <2>1. facts[i] \in Fact /\ verdict(i) \in Verdict
    BY <1>2
  <2>2. judged[i] = [facts[i] EXCEPT !.verdict = verdict(i)]
    BY <1>3
  <2>3. QED BY <2>1, <2>2, VerdictSet
<1>5. judged \in Seq(Fact)
  <2>1. DOMAIN facts = 1 .. Len(facts) /\ Len(facts) \in Nat
    OBVIOUS
  <2>2. judged \in [1 .. Len(facts) -> Fact]
    BY <1>3, <1>4, <2>1
  <2>3. QED BY <2>1, <2>2
<1>6. QED
  BY <1>3, <1>4, <1>5 DEF judged

(* What the validator accepts has a known source that holds the quote, is about
   its sub-question, and makes a claim that no other accepted fact makes. *)
THEOREM ValidateGrounds ==
  ASSUME NEW facts \in Seq(Fact), NEW known
  PROVE  LET judged == Validate(facts, known)
         IN \A i \in DOMAIN judged : judged[i].verdict = "accepted" =>
              /\ known[RefOf(judged[i])] = QuoteOf(judged[i])
              /\ Overlaps(judged[i].claim, SubOf(judged[i]))
              /\ \A j \in DOMAIN judged :
                   judged[j].verdict = "accepted" /\ judged[j].claim = judged[i].claim => j = i
<1> DEFINE judged == Validate(facts, known)
           repeated(i) == \E j \in 1 .. i - 1 : /\ facts[j].claim = facts[i].claim
                                                /\ Flaw(facts[j], known) = "none"
<1>1. \A i \in DOMAIN facts :
        /\ judged[i].id = facts[i].id /\ judged[i].claim = facts[i].claim
        /\ judged[i].verdict = "accepted" => Flaw(facts[i], known) = "none" /\ ~repeated(i)
  <2> SUFFICES ASSUME NEW i \in DOMAIN facts
               PROVE  judged[i].verdict = "accepted" =>
                        Flaw(facts[i], known) = "none" /\ ~repeated(i)
    BY ValidateKeeps
  <2>1. judged[i].verdict = IF Flaw(facts[i], known) # "none" THEN Flaw(facts[i], known)
                            ELSE IF repeated(i) THEN "duplicate" ELSE "accepted"
    <3> DEFINE v == IF Flaw(facts[i], known) # "none" THEN Flaw(facts[i], known)
                    ELSE IF repeated(i) THEN "duplicate" ELSE "accepted"
    <3>1. judged[i] = [facts[i] EXCEPT !.verdict = v] /\ facts[i] \in Fact
      BY DEF Validate
    <3> HIDE DEF v, judged
    <3>2. judged[i].verdict = v
      BY <3>1, VerdictSet
    <3>3. QED BY <3>2 DEF v
  <2>2. Flaw(facts[i], known) # "accepted"
    BY DEF Flaw
  <2> HIDE DEF repeated, judged
  <2>3. QED BY <2>1, <2>2
<1>2. DOMAIN judged = DOMAIN facts /\ DOMAIN facts = 1 .. Len(facts) /\ Len(facts) \in Nat
  BY ValidateKeeps
<1> SUFFICES ASSUME NEW i \in DOMAIN facts, judged[i].verdict = "accepted"
             PROVE  /\ known[RefOf(judged[i])] = QuoteOf(judged[i])
                    /\ Overlaps(judged[i].claim, SubOf(judged[i]))
                    /\ \A j \in DOMAIN facts :
                         judged[j].verdict = "accepted" /\ judged[j].claim = judged[i].claim
                           => j = i
  BY <1>2
<1>3. Flaw(facts[i], known) = "none"
  BY <1>1
<1>4. known[RefOf(facts[i])] = QuoteOf(facts[i]) /\ Overlaps(facts[i].claim, SubOf(facts[i]))
  BY <1>3 DEF Flaw
<1>5. ASSUME NEW j \in DOMAIN facts, judged[j].verdict = "accepted",
             judged[j].claim = judged[i].claim
      PROVE  j = i
  <2>1. facts[i].claim = facts[j].claim /\ Flaw(facts[j], known) = "none"
    BY <1>1, <1>5
  <2>2. i \notin 1 .. j - 1 /\ j \notin 1 .. i - 1
    BY <1>1, <1>3, <1>5, <2>1
  <2>3. QED BY <1>2, <2>2
<1>6. QED
  <2> HIDE DEF judged
  <2> QED BY <1>1, <1>4, <1>5 DEF RefOf, QuoteOf, SubOf
=============================================================================
