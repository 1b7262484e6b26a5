------------------------ MODULE EvidenceLoops_proofs ------------------------
(***************************************************************************)
(* Theorems about the loops, for lists of any length: they compute what    *)
(* Evidence defines.  A fold is a function that is chosen by its recursive *)
(* equation; FoldExists shows that there is one, and from there on it is   *)
(* known by its steps, one for each element.                               *)
(***************************************************************************)
EXTENDS EvidenceLoops, Evidence_proofs, SequenceTheorems

-----------------------------------------------------------------------------
(* Induction up to n, over a set and not an operator. *)
LEMMA Induction ==
  ASSUME NEW n \in Nat, NEW Good \in SUBSET (0 .. n), 0 \in Good,
         \A k \in 1 .. n : k - 1 \in Good => k \in Good
  PROVE  \A k \in 0 .. n : k \in Good
<1> DEFINE Bad == (0 .. n) \ Good
<1> SUFFICES ASSUME Bad # {} PROVE FALSE
  OBVIOUS
<1>1. Bad \in SUBSET Nat
  OBVIOUS
<1>2. PICK x \in Bad : \A y \in Bad : x <= y
  <2> HIDE DEF Bad
  <2> QED BY <1>1, LeastElement
<1>3. x \in 1 .. n /\ x - 1 \in 0 .. n /\ ~(x <= x - 1)
  OBVIOUS
<1>4. x - 1 \in Good
  BY <1>2, <1>3
<1>5. QED BY <1>3, <1>4

-----------------------------------------------------------------------------
LEMMA MaxFacts ==
  ASSUME NEW n \in Nat, NEW s \in SUBSET (1 .. n), s # {}
  PROVE  Max(s) \in s /\ \A x \in s : x <= Max(s)
<1>1. \E x \in s : \A y \in s : y <= x
  BY GreatestElement
<1>2. \E x \in s : \A y \in s : x >= y
  BY <1>1
<1>3. QED BY <1>2 DEF Max

LEMMA MaxInterval ==
  ASSUME NEW n \in Nat, n # 0
  PROVE  1 .. n # {} /\ Max(1 .. n) = n /\ (1 .. n) \ {n} = 1 .. n - 1
<1>1. 1 .. n \in SUBSET (1 .. n) /\ n \in 1 .. n
  OBVIOUS
<1>2. Max(1 .. n) \in 1 .. n /\ n <= Max(1 .. n)
  BY <1>1, MaxFacts
<1>3. (1 .. n) \ {n} = 1 .. n - 1
  OBVIOUS
<1>4. QED BY <1>1, <1>2, <1>3

(* The function that a fold chooses exists: one for the positions up to k
   gives one for the positions up to k + 1. *)
Folds(h, A, base, g, list, n) ==
  /\ h \in [SUBSET (1 .. n) -> A]
  /\ \A s \in SUBSET (1 .. n) :
       h[s] = IF s = {} THEN base ELSE g[<<h[s \ {Max(s)}], list[Max(s)]>>]

LEMMA FoldGrows ==
  ASSUME NEW A, NEW B, NEW base \in A, NEW g \in [A \X B -> A],
         NEW k \in Nat, NEW list, \A i \in 1 .. k + 1 : list[i] \in B,
         NEW h, Folds(h, A, base, g, list, k)
  PROVE  \E next : Folds(next, A, base, g, list, k + 1)
<1> DEFINE next == [s \in SUBSET (1 .. k + 1) |->
                      IF s = {} THEN base ELSE g[<<h[s \ {Max(s)}], list[Max(s)]>>]]
<1>1. ASSUME NEW s \in SUBSET (1 .. k + 1), s # {}
      PROVE  Max(s) \in 1 .. k + 1 /\ s \ {Max(s)} \in SUBSET (1 .. k)
  <2>1. k + 1 \in Nat
    OBVIOUS
  <2>2. Max(s) \in s /\ \A x \in s : x <= Max(s)
    BY <1>1, <2>1, MaxFacts
  <2>3. ASSUME NEW x \in s, x # Max(s) PROVE x \in 1 .. k
    <3>1. x \in 1 .. k + 1 /\ Max(s) \in 1 .. k + 1 /\ x <= Max(s)
      BY <2>2
    <3>2. QED BY <2>3, <3>1
  <2>4. QED BY <2>2, <2>3
<1>2. \A s \in SUBSET (1 .. k) : h[s] \in A /\ next[s] = h[s]
  <2>1. \A s \in SUBSET (1 .. k) : s \in SUBSET (1 .. k + 1)
    OBVIOUS
  <2>2. QED BY <2>1 DEF Folds
<1>3. \A s \in SUBSET (1 .. k + 1) :
        next[s] = IF s = {} THEN base ELSE g[<<next[s \ {Max(s)}], list[Max(s)]>>]
  BY <1>1, <1>2
<1>4. next \in [SUBSET (1 .. k + 1) -> A]
  <2>1. ASSUME NEW s \in SUBSET (1 .. k + 1) PROVE next[s] \in A
    <3>1. CASE s = {}
      BY <3>1
    <3>2. CASE s # {}
      <4>1. h[s \ {Max(s)}] \in A /\ list[Max(s)] \in B
        BY <1>1, <1>2, <3>2
      <4>2. QED BY <3>2, <4>1
    <3>3. QED BY <3>1, <3>2
  <2>2. QED BY <2>1
<1>5. QED
  <2> HIDE DEF next
  <2> QED BY <1>3, <1>4 DEF Folds

LEMMA FoldExists ==
  ASSUME NEW A, NEW B, NEW base \in A, NEW g \in [A \X B -> A],
         NEW n \in Nat, NEW list, \A i \in 1 .. n : list[i] \in B
  PROVE  \E h : Folds(h, A, base, g, list, n)
<1> DEFINE Good == {k \in 0 .. n : \E h : Folds(h, A, base, g, list, k)}
<1>1. 0 \in Good
  <2> DEFINE h == [s \in SUBSET (1 .. 0) |-> base]
  <2>1. \A s \in SUBSET (1 .. 0) : s = {}
    OBVIOUS
  <2>2. Folds(h, A, base, g, list, 0)
    BY <2>1 DEF Folds
  <2>3. QED BY <2>2
<1>2. ASSUME NEW k \in 1 .. n, k - 1 \in Good PROVE k \in Good
  <2>1. PICK h : Folds(h, A, base, g, list, k - 1)
    BY <1>2
  <2>2. k - 1 \in Nat /\ \A i \in 1 .. (k - 1) + 1 : list[i] \in B
    OBVIOUS
  <2>3. \E next : Folds(next, A, base, g, list, (k - 1) + 1)
    BY <2>1, <2>2, FoldGrows
  <2>4. (k - 1) + 1 = k /\ k \in 0 .. n
    OBVIOUS
  <2>5. QED BY <2>3, <2>4
<1>3. n \in Good
  <2>1. Good \in SUBSET (0 .. n) /\ n \in 0 .. n
    OBVIOUS
  <2> HIDE DEF Good
  <2>2. QED BY <1>1, <1>2, <2>1, Induction
<1>4. QED BY <1>3

-----------------------------------------------------------------------------
(* A later position added to a selection adds its element at the end. *)
LEMMA InOrderAppends ==
  ASSUME NEW S, NEW list \in Seq(S), NEW P \in SUBSET (DOMAIN list),
         NEW k \in DOMAIN list, \A i \in P : i < k
  PROVE  InOrder(list, P \cup {k}) = Append(InOrder(list, P), list[k])
<1> DEFINE N == Cardinality(P)
           Q == P \cup {k}
           shorter == InOrder(list, P)
           longer == InOrder(list, Q)
<1>1. /\ P \in SUBSET Nat /\ Q \in SUBSET Nat /\ Q \in SUBSET (DOMAIN list)
      /\ IsFiniteSet(P) /\ IsFiniteSet(Q) /\ N \in Nat
  <2>1. Len(list) \in Nat /\ DOMAIN list = 1 .. Len(list)
    OBVIOUS
  <2>2. P \in SUBSET Nat /\ Q \in SUBSET Nat /\ Q \in SUBSET (DOMAIN list)
    BY <2>1
  <2>3. IsFiniteSet(1 .. Len(list))
    BY <2>1, FS_Interval
  <2>4. IsFiniteSet(P) /\ IsFiniteSet(Q)
    BY <2>1, <2>2, <2>3, FS_Subset
  <2>5. QED BY <2>2, <2>4, FS_CardinalityType
<1>2. Cardinality(Q) = N + 1
  <2>1. k \notin P
    BY <1>1
  <2>2. QED BY <1>1, <2>1, FS_AddElement
<1>3. \A i \in P : Rank(Q, i) = Rank(P, i)
  <2>1. \A i \in P : {j \in Q : j < i} = {j \in P : j < i}
    BY <1>1
  <2>2. QED BY <2>1 DEF Rank
<1>4. Rank(Q, k) = N
  <2>1. {j \in Q : j < k} = P
    BY <1>1
  <2>2. QED BY <2>1 DEF Rank
<1>5. ASSUME NEW n \in 1 .. N PROVE longer[n] = shorter[n]
  <2>1. n \in 1 .. N + 1 /\ n - 1 # N
    BY <1>1
  <2>2. \A i \in Q : Rank(Q, i) = n - 1 <=> i \in P /\ Rank(P, i) = n - 1
    BY <1>3, <1>4, <2>1
  <2>3. (CHOOSE i \in Q : Rank(Q, i) = n - 1) = (CHOOSE i \in P : Rank(P, i) = n - 1)
    BY <2>2
  <2>4. longer[n] = list[CHOOSE i \in Q : Rank(Q, i) = n - 1]
    BY <1>2, <2>1 DEF InOrder, Rank
  <2>5. shorter[n] = list[CHOOSE i \in P : Rank(P, i) = n - 1]
    BY DEF InOrder, Rank
  <2>6. QED BY <2>3, <2>4, <2>5
<1>6. longer[N + 1] = list[k]
  <2>1. \A i \in P : Rank(P, i) # N
    <3>1. \A i \in P : Rank(P, i) \in Nat /\ Rank(P, i) + 1 \in 1 .. N
      BY <1>1, RankRange
    <3>2. QED BY <1>1, <3>1
  <2>2. (CHOOSE i \in Q : Rank(Q, i) = (N + 1) - 1) = k
    BY <1>1, <1>3, <1>4, <2>1
  <2>3. longer[N + 1] = list[CHOOSE i \in Q : Rank(Q, i) = (N + 1) - 1]
    BY <1>1, <1>2 DEF InOrder, Rank
  <2>4. QED BY <2>2, <2>3
<1>7. /\ longer \in Seq(S) /\ Len(longer) = N + 1
      /\ shorter \in Seq(S) /\ Len(shorter) = N
  BY <1>1, <1>2, InOrderTakes
<1>8. QED
  <2> DEFINE e == list[k]
  <2>1. e \in S
    OBVIOUS
  <2>2. longer[N + 1] = e
    BY <1>6
  <2> HIDE DEF N, longer, shorter, e
  <2>3. /\ Append(shorter, e) \in Seq(S) /\ Len(Append(shorter, e)) = N + 1
        /\ Append(shorter, e)[N + 1] = e
        /\ \A n \in 1 .. N : Append(shorter, e)[n] = shorter[n]
    BY <1>1, <1>7, <2>1
  <2>4. ASSUME NEW n \in 1 .. N + 1 PROVE longer[n] = Append(shorter, e)[n]
    BY <1>1, <1>5, <2>2, <2>3
  <2>5. longer = Append(shorter, e)
    BY <1>1, <1>7, <2>3, <2>4
  <2>6. QED BY <2>5 DEF longer, shorter, e

(* Two selections at the same positions take the same ones, one by one. *)
LEMMA InOrderTogether ==
  ASSUME NEW S, NEW list \in Seq(S), NEW other \in Seq(S), DOMAIN other = DOMAIN list,
         NEW P \in SUBSET (DOMAIN list)
  PROVE  \A m \in 1 .. Cardinality(P) :
           \E i \in P : InOrder(list, P)[m] = list[i] /\ InOrder(other, P)[m] = other[i]
<1> SUFFICES ASSUME NEW m \in 1 .. Cardinality(P)
             PROVE  \E i \in P : InOrder(list, P)[m] = list[i] /\ InOrder(other, P)[m] = other[i]
  OBVIOUS
<1> DEFINE i == CHOOSE i \in P : Rank(P, i) = m - 1
<1>1. P \in SUBSET Nat /\ IsFiniteSet(P)
  <2>1. Len(list) \in Nat /\ P \in SUBSET (1 .. Len(list)) /\ P \in SUBSET Nat
    OBVIOUS
  <2>2. IsFiniteSet(1 .. Len(list))
    BY <2>1, FS_Interval
  <2>3. QED BY <2>1, <2>2, FS_Subset
<1>2. i \in P
  BY <1>1, RankOnto
<1>3. InOrder(list, P)[m] = list[i] /\ InOrder(other, P)[m] = other[i]
  BY DEF InOrder, Rank
<1>4. QED BY <1>2, <1>3

LEMMA InOrderNone ==
  ASSUME NEW S, NEW list \in Seq(S)
  PROVE  InOrder(list, {}) = <<>>
<1>1. {} \in SUBSET (DOMAIN list) /\ Cardinality({}) = 0
  BY FS_EmptySet
<1>2. InOrder(list, {}) \in Seq(S) /\ Len(InOrder(list, {})) = 0
  BY <1>1, InOrderTakes
<1>3. QED BY <1>2

(* The first positions among the first k, from k - 1 to k. *)
LEMMA FirstPositionsGrow ==
  ASSUME NEW n \in Nat, NEW keys, DOMAIN keys = 1 .. n, NEW k \in 1 .. n
  PROVE  LET before == FirstPositions(keys) \cap (1 .. k - 1)
             upto == FirstPositions(keys) \cap (1 .. k)
         IN IF \E i \in before : keys[i] = keys[k]
            THEN upto = before
            ELSE upto = before \cup {k}
<1> DEFINE first == FirstPositions(keys)
           before == first \cap (1 .. k - 1)
<1>1. k \in first <=> ~\E j \in 1 .. k - 1 : keys[j] = keys[k]
  BY DEF FirstPositions
<1>2. (\E j \in 1 .. k - 1 : keys[j] = keys[k]) <=> \E i \in before : keys[i] = keys[k]
  <2> SUFFICES ASSUME NEW j \in 1 .. k - 1, keys[j] = keys[k]
               PROVE  \E i \in before : keys[i] = keys[k]
    OBVIOUS
  <2>1. j \in 1 .. n
    OBVIOUS
  <2>2. PICK i \in first : keys[i] = keys[j]
    BY <2>1, FirstPositionsOnce
  <2>3. i \in 1 .. n /\ \A m \in 1 .. i - 1 : keys[m] # keys[i]
    BY <2>2, FirstPositionsOnce DEF FirstPositions
  <2>4. j \notin 1 .. i - 1
    BY <2>2, <2>3
  <2>5. i \in 1 .. k - 1
    BY <2>3, <2>4
  <2>6. QED BY <2>2, <2>5
<1>3. first \cap (1 .. k) = IF k \in first THEN before \cup {k} ELSE before
  OBVIOUS
<1>4. QED BY <1>1, <1>2, <1>3

-----------------------------------------------------------------------------
(* The filter's loop. *)
LEMMA UniqueLoopSteps ==
  ASSUME NEW facts \in Seq(Fact)
  PROVE  \E made : /\ made[0] = <<>> /\ made[Len(facts)] = UniqueLoop(facts)
                   /\ \A k \in 1 .. Len(facts) : made[k] = KeepUnseen(made[k - 1], facts[k])
<1> DEFINE n == Len(facts)
           g == [p \in Seq(Fact) \X Fact |-> KeepUnseen(p[1], p[2])]
<1>1. n \in Nat /\ DOMAIN facts = 1 .. n /\ \A i \in 1 .. n : facts[i] \in Fact
  OBVIOUS
<1>2. g \in [Seq(Fact) \X Fact -> Seq(Fact)] /\ <<>> \in Seq(Fact)
  BY DEF KeepUnseen
<1>3. \A a \in Seq(Fact), b \in Fact : g[<<a, b>>] = KeepUnseen(a, b)
  OBVIOUS
<1> HIDE DEF n, g
<1>4. PICK h : Folds(h, Seq(Fact), <<>>, g, facts, n)
  BY <1>1, <1>2, FoldExists
<1> DEFINE Equation(iter) ==
             iter = [s \in SUBSET (DOMAIN facts) |->
                       IF s = {} THEN <<>>
                       ELSE KeepUnseen(iter[s \ {Max(s)}], facts[Max(s)])]
           chosen == CHOOSE iter : Equation(iter)
<1>5. UniqueLoop(facts) = chosen[DOMAIN facts]
  BY DEF UniqueLoop, FoldLeft, MapThenFoldSet
<1>6. ASSUME NEW s \in SUBSET (1 .. n), s # {}
      PROVE  Max(s) \in 1 .. n /\ s \ {Max(s)} \in SUBSET (1 .. n)
  BY <1>1, <1>6, MaxFacts
<1>7. Equation(h)
  <2>1. ASSUME NEW s \in SUBSET (1 .. n)
        PROVE  h[s] = IF s = {} THEN <<>> ELSE KeepUnseen(h[s \ {Max(s)}], facts[Max(s)])
    <3>1. CASE s = {}
      BY <1>4, <3>1 DEF Folds
    <3>2. CASE s # {}
      <4>1. h[s] = g[<<h[s \ {Max(s)}], facts[Max(s)]>>]
        BY <1>4, <3>2 DEF Folds
      <4>2. h[s \ {Max(s)}] \in Seq(Fact) /\ facts[Max(s)] \in Fact
        BY <1>1, <1>4, <1>6, <3>2 DEF Folds
      <4>3. QED BY <1>3, <3>2, <4>1, <4>2
    <3>3. QED BY <3>1, <3>2
  <2>2. h = [s \in SUBSET (1 .. n) |-> h[s]]
    BY <1>4 DEF Folds
  <2>3. QED BY <1>1, <2>1, <2>2
<1>8. Equation(chosen)
  BY <1>7
<1> HIDE DEF chosen
<1> DEFINE made == [k \in 0 .. n |-> chosen[1 .. k]]
<1>9. chosen[1 .. 0] = <<>>
  <2>1. 1 .. 0 = {} /\ {} \in SUBSET (DOMAIN facts)
    OBVIOUS
  <2>2. QED BY <1>8, <2>1
<1>10. ASSUME NEW k \in 1 .. n
       PROVE  chosen[1 .. k] = KeepUnseen(chosen[1 .. k - 1], facts[k])
  <2>1. k \in Nat /\ k # 0 /\ 1 .. k \in SUBSET (DOMAIN facts)
    BY <1>1
  <2>2. 1 .. k # {} /\ Max(1 .. k) = k /\ (1 .. k) \ {k} = 1 .. k - 1
    BY <2>1, MaxInterval
  <2>3. QED BY <1>8, <2>1, <2>2
<1>11. /\ made[0] = <<>> /\ made[n] = UniqueLoop(facts)
       /\ \A k \in 1 .. n : made[k] = KeepUnseen(made[k - 1], facts[k])
  BY <1>1, <1>5, <1>9, <1>10
<1> HIDE DEF made
<1>12. QED BY <1>11 DEF n

(* The join's loop keeps the facts at the first positions of their keys. *)
THEOREM UniqueMatches ==
  ASSUME NEW facts \in Seq(Fact)
  PROVE  UniqueQuotes(facts) = UniqueLoop(facts)
<1> DEFINE n == Len(facts)
           keys == QuoteKeys(facts)
           first == FirstPositions(keys)
           upto(k) == first \cap (1 .. k)
           kept(k) == InOrder(facts, upto(k))
<1>1. PICK made : /\ made[0] = <<>> /\ made[n] = UniqueLoop(facts)
                  /\ \A k \in 1 .. n : made[k] = KeepUnseen(made[k - 1], facts[k])
  BY UniqueLoopSteps
<1>2. /\ n \in Nat /\ DOMAIN facts = 1 .. n /\ DOMAIN keys = 1 .. n
      /\ \A i \in 1 .. n : facts[i] \in Fact
  BY DEF QuoteKeys
<1>3. \A i \in 1 .. n : keys[i] = <<RefOf(facts[i]), QuoteOf(facts[i])>>
  BY DEF QuoteKeys
<1>4. first \subseteq 1 .. n
  BY <1>2, FirstPositionsOnce
<1> HIDE DEF n, keys, first
<1> DEFINE Good == {k \in 0 .. n : made[k] = kept(k)}
<1>5. 0 \in Good
  <2>1. upto(0) = {} /\ 0 \in 0 .. n
    BY <1>2
  <2>2. QED BY <1>1, <2>1, InOrderNone
<1>6. ASSUME NEW k \in 1 .. n, k - 1 \in Good PROVE k \in Good
  <2> DEFINE before == upto(k - 1)
             seen == \E i \in before : keys[i] = keys[k]
  <2>1. made[k] = KeepUnseen(kept(k - 1), facts[k])
    BY <1>1, <1>6
  <2>2. before \in SUBSET (DOMAIN facts) /\ k \in DOMAIN facts /\ \A i \in before : i < k
    BY <1>2, <1>4
  <2>3. kept(k - 1) \in Seq(Fact) /\ ToSet(kept(k - 1)) = {facts[i] : i \in before}
    BY <2>2, InOrderTakes, InOrderElements
  <2>4. QuoteKeys(<<facts[k]>>)[1] = keys[k]
    BY <1>2, <1>3 DEF QuoteKeys
  <2>5. ToSet(QuoteKeys(kept(k - 1))) = {keys[i] : i \in before}
    <3> DEFINE list == kept(k - 1)
    <3>1. ToSet(QuoteKeys(list)) = {<<RefOf(f), QuoteOf(f)>> : f \in ToSet(list)}
      <4> HIDE DEF list
      <4> QED BY DEF QuoteKeys, ToSet
    <3>2. \A i \in before : keys[i] = <<RefOf(facts[i]), QuoteOf(facts[i])>>
      BY <1>2, <1>3, <2>2
    <3>3. ToSet(list) = {facts[i] : i \in before}
      BY <2>3
    <3> HIDE DEF list, before
    <3>4. ToSet(QuoteKeys(list)) = {<<RefOf(facts[i]), QuoteOf(facts[i])>> : i \in before}
      BY <3>1, <3>3
    <3>5. ToSet(QuoteKeys(list)) = {keys[i] : i \in before}
      BY <3>2, <3>4
    <3>6. QED BY <3>5 DEF list
  <2>6. made[k] = IF seen THEN kept(k - 1) ELSE Append(kept(k - 1), facts[k])
    BY <2>1, <2>4, <2>5 DEF KeepUnseen
  <2>7. IF seen THEN upto(k) = before ELSE upto(k) = before \cup {k}
    BY <1>2, FirstPositionsGrow DEF first
  <2>8. ASSUME seen PROVE made[k] = kept(k)
    <3>1. upto(k) = before
      BY <2>7, <2>8
    <3>2. made[k] = kept(k - 1)
      BY <2>6, <2>8
    <3>3. QED BY <3>1, <3>2
  <2>9. ASSUME ~seen PROVE made[k] = kept(k)
    <3>1. upto(k) = before \cup {k}
      BY <2>7, <2>9
    <3>2. made[k] = Append(kept(k - 1), facts[k])
      BY <2>6, <2>9
    <3>3. InOrder(facts, before \cup {k}) = Append(kept(k - 1), facts[k])
      BY <2>2, InOrderAppends
    <3>4. QED BY <3>1, <3>2, <3>3
  <2>10. k \in 0 .. n
    BY <1>2
  <2>11. QED BY <2>8, <2>9, <2>10
<1>7. n \in Good
  <2>1. Good \in SUBSET (0 .. n) /\ n \in 0 .. n
    BY <1>2
  <2> HIDE DEF Good
  <2>2. QED BY <1>2, <1>5, <1>6, <2>1, Induction
<1>8. upto(n) = first
  BY <1>4
<1>9. QED BY <1>1, <1>7, <1>8 DEF UniqueQuotes, first, keys

-----------------------------------------------------------------------------
(* The validator's pass over one fact, and what it starts with. *)
Judge(known, done, fact) ==
  LET verdict == ValidateFact(fact, known, done.claims)
  IN [facts |-> Append(done.facts, [fact EXCEPT !.verdict = verdict]),
      claims |-> IF verdict = "accepted" THEN done.claims \cup {fact.claim}
                 ELSE done.claims]
Unjudged == [facts |-> <<>>, claims |-> {}]
Judged == [facts : Seq(Fact), claims : SUBSET Claim]

(* The validator's loop. *)
LEMMA ValidatorLoopSteps ==
  ASSUME NEW facts \in Seq(Fact), NEW known
  PROVE  \E made : /\ made[0] = Unjudged /\ made[Len(facts)].facts = ValidatorLoop(facts, known)
                   /\ \A k \in 1 .. Len(facts) : made[k] = Judge(known, made[k - 1], facts[k])
<1> DEFINE n == Len(facts)
           g == [p \in Judged \X Fact |-> Judge(known, p[1], p[2])]
<1>1. n \in Nat /\ DOMAIN facts = 1 .. n /\ \A i \in 1 .. n : facts[i] \in Fact
  OBVIOUS
<1>2. g \in [Judged \X Fact -> Judged] /\ Unjudged \in Judged
  <2>1. ASSUME NEW a \in Judged, NEW b \in Fact PROVE Judge(known, a, b) \in Judged
    <3>1. ValidateFact(b, known, a.claims) \in Verdict
      BY DEF ValidateFact, Verdict
    <3>2. [b EXCEPT !.verdict = ValidateFact(b, known, a.claims)] \in Fact /\ b.claim \in Claim
      BY <3>1, VerdictSet DEF Fact
    <3>3. QED BY <3>2 DEF Judge, Judged
  <2>2. QED BY <2>1 DEF Judged, Unjudged
<1>3. \A a \in Judged, b \in Fact : g[<<a, b>>] = Judge(known, a, b)
  OBVIOUS
<1> HIDE DEF n, g
<1>4. PICK h : Folds(h, Judged, Unjudged, g, facts, n)
  BY <1>1, <1>2, FoldExists
<1> DEFINE Equation(iter) ==
             iter = [s \in SUBSET (DOMAIN facts) |->
                       IF s = {} THEN Unjudged
                       ELSE Judge(known, iter[s \ {Max(s)}], facts[Max(s)])]
           chosen == CHOOSE iter : Equation(iter)
<1>5. ValidatorLoop(facts, known) = chosen[DOMAIN facts].facts
  BY DEF ValidatorLoop, FoldLeft, MapThenFoldSet, Judge, Unjudged
<1>6. ASSUME NEW s \in SUBSET (1 .. n), s # {}
      PROVE  Max(s) \in 1 .. n /\ s \ {Max(s)} \in SUBSET (1 .. n)
  BY <1>1, <1>6, MaxFacts
<1>7. Equation(h)
  <2>1. ASSUME NEW s \in SUBSET (1 .. n)
        PROVE  h[s] = IF s = {} THEN Unjudged ELSE Judge(known, h[s \ {Max(s)}], facts[Max(s)])
    <3>1. CASE s = {}
      BY <1>4, <3>1 DEF Folds
    <3>2. CASE s # {}
      <4>1. h[s] = g[<<h[s \ {Max(s)}], facts[Max(s)]>>]
        BY <1>4, <3>2 DEF Folds
      <4>2. h[s \ {Max(s)}] \in Judged /\ facts[Max(s)] \in Fact
        BY <1>1, <1>4, <1>6, <3>2 DEF Folds
      <4>3. QED BY <1>3, <3>2, <4>1, <4>2
    <3>3. QED BY <3>1, <3>2
  <2>2. h = [s \in SUBSET (1 .. n) |-> h[s]]
    BY <1>4 DEF Folds
  <2>3. QED BY <1>1, <2>1, <2>2
<1>8. Equation(chosen)
  BY <1>7
<1> HIDE DEF chosen
<1> DEFINE made == [k \in 0 .. n |-> chosen[1 .. k]]
<1>9. chosen[1 .. 0] = Unjudged
  <2>1. 1 .. 0 = {} /\ {} \in SUBSET (DOMAIN facts)
    OBVIOUS
  <2>2. QED BY <1>8, <2>1
<1>10. ASSUME NEW k \in 1 .. n
       PROVE  chosen[1 .. k] = Judge(known, chosen[1 .. k - 1], facts[k])
  <2>1. k \in Nat /\ k # 0 /\ 1 .. k \in SUBSET (DOMAIN facts)
    BY <1>1
  <2>2. 1 .. k # {} /\ Max(1 .. k) = k /\ (1 .. k) \ {k} = 1 .. k - 1
    BY <2>1, MaxInterval
  <2>3. QED BY <1>8, <2>1, <2>2
<1>11. /\ made[0] = Unjudged /\ made[n].facts = ValidatorLoop(facts, known)
       /\ \A k \in 1 .. n : made[k] = Judge(known, made[k - 1], facts[k])
  BY <1>1, <1>5, <1>9, <1>10
<1> HIDE DEF made
<1>12. QED BY <1>11 DEF n

(* The validator's loop accepts, of the facts without a flaw, the first with each
   claim: the claims it has accepted are those of the flawless facts so far. *)
THEOREM ValidatorMatches ==
  ASSUME NEW facts \in Seq(Fact), NEW known
  PROVE  Validate(facts, known) = ValidatorLoop(facts, known)
<1> DEFINE n == Len(facts)
           judged == Validate(facts, known)
           sound(i) == Flaw(facts[i], known) = "none"
           claims(k) == {facts[i].claim : i \in {j \in 1 .. k : sound(j)}}
<1>1. PICK made : /\ made[0] = Unjudged /\ made[n].facts = ValidatorLoop(facts, known)
                  /\ \A k \in 1 .. n : made[k] = Judge(known, made[k - 1], facts[k])
  BY ValidatorLoopSteps
<1>2. /\ n \in Nat /\ DOMAIN facts = 1 .. n /\ \A i \in 1 .. n : facts[i] \in Fact
      /\ judged \in Seq(Fact) /\ DOMAIN judged = 1 .. n
  BY ValidateKeeps
<1>3. ASSUME NEW k \in 1 .. n
      PROVE  /\ judged[k] = [facts[k] EXCEPT !.verdict =
                               ValidateFact(facts[k], known, claims(k - 1))]
             /\ sound(k) /\ ValidateFact(facts[k], known, claims(k - 1)) # "accepted"
                  => facts[k].claim \in claims(k - 1)
             /\ ValidateFact(facts[k], known, claims(k - 1)) = "accepted" => sound(k)
  <2> DEFINE repeated == \E j \in 1 .. k - 1 : /\ facts[j].claim = facts[k].claim
                                               /\ Flaw(facts[j], known) = "none"
             flaw == Flaw(facts[k], known)
             verdict == ValidateFact(facts[k], known, claims(k - 1))
  <2>1. judged[k] = [facts[k] EXCEPT !.verdict =
                       IF flaw # "none" THEN flaw
                       ELSE IF repeated THEN "duplicate" ELSE "accepted"]
    BY <1>2 DEF Validate
  <2>2. repeated <=> facts[k].claim \in claims(k - 1)
    OBVIOUS
  <2>3. verdict = IF flaw # "none" THEN flaw
                  ELSE IF facts[k].claim \in claims(k - 1) THEN "duplicate" ELSE "accepted"
    BY DEF ValidateFact, Flaw
  <2>4. flaw # "accepted"
    BY DEF Flaw
  <2> HIDE DEF repeated, claims, verdict, flaw
  <2>5. judged[k] = [facts[k] EXCEPT !.verdict = verdict]
    BY <2>1, <2>2, <2>3
  <2>6. /\ flaw = "none" /\ verdict # "accepted" => facts[k].claim \in claims(k - 1)
        /\ verdict = "accepted" => flaw = "none"
    BY <2>3, <2>4
  <2>7. QED BY <2>5, <2>6 DEF verdict, flaw
<1>4. ASSUME NEW k \in 1 .. n
      PROVE  claims(k) = IF sound(k) THEN claims(k - 1) \cup {facts[k].claim}
                         ELSE claims(k - 1)
  <2>1. {j \in 1 .. k : sound(j)} = IF sound(k) THEN {j \in 1 .. k - 1 : sound(j)} \cup {k}
                                    ELSE {j \in 1 .. k - 1 : sound(j)}
    <3>1. \A j : j \in 1 .. k <=> j \in 1 .. k - 1 \/ j = k
      BY <1>2
    <3>2. k \notin 1 .. k - 1
      BY <1>2
    <3> HIDE DEF n
    <3>3. QED BY <3>1, <3>2
  <2>2. QED BY <2>1
<1> HIDE DEF n, judged, claims
<1> DEFINE Good == {k \in 0 .. n : /\ made[k].facts = SubSeq(judged, 1, k)
                                  /\ made[k].claims = claims(k)}
<1>5. 0 \in Good
  <2>1. SubSeq(judged, 1, 0) = <<>> /\ 0 \in 0 .. n
    BY <1>2
  <2>2. claims(0) = {}
    BY DEF claims
  <2>3. made[0].facts = <<>> /\ made[0].claims = {}
    BY <1>1 DEF Unjudged
  <2>4. QED BY <2>1, <2>2, <2>3
<1>6. ASSUME NEW k \in 1 .. n, k - 1 \in Good PROVE k \in Good
  <2> DEFINE verdict == ValidateFact(facts[k], known, claims(k - 1))
             done == made[k - 1]
  <2>0. done.facts = SubSeq(judged, 1, k - 1) /\ done.claims = claims(k - 1)
    BY <1>6
  <2>1. /\ made[k].facts = Append(SubSeq(judged, 1, k - 1), [facts[k] EXCEPT !.verdict = verdict])
        /\ made[k].claims = IF verdict = "accepted" THEN claims(k - 1) \cup {facts[k].claim}
                            ELSE claims(k - 1)
    <3>1. made[k] = Judge(known, done, facts[k])
      BY <1>1
    <3>2. /\ made[k].facts = Append(done.facts, [facts[k] EXCEPT !.verdict =
                                ValidateFact(facts[k], known, done.claims)])
          /\ made[k].claims = IF ValidateFact(facts[k], known, done.claims) = "accepted"
                              THEN done.claims \cup {facts[k].claim} ELSE done.claims
      <4> HIDE DEF done
      <4> QED BY <3>1 DEF Judge
    <3> HIDE DEF done
    <3>3. QED BY <2>0, <3>2
  <2>2. judged[k] = [facts[k] EXCEPT !.verdict = verdict]
    BY <1>3
  <2>3. Append(SubSeq(judged, 1, k - 1), judged[k]) = SubSeq(judged, 1, k)
    BY <1>2
  <2>4. made[k].claims = claims(k)
    <3>1. verdict = "accepted" <=> sound(k) /\ verdict = "accepted"
      BY <1>3
    <3>2. sound(k) /\ verdict # "accepted" => facts[k].claim \in claims(k - 1)
      BY <1>3
    <3>3. claims(k) = IF sound(k) THEN claims(k - 1) \cup {facts[k].claim} ELSE claims(k - 1)
      BY <1>4
    <3> HIDE DEF verdict, sound
    <3>4. QED BY <2>1, <3>1, <3>2, <3>3
  <2>5. k \in 0 .. n
    BY <1>2
  <2>6. QED BY <2>1, <2>2, <2>3, <2>4, <2>5
<1>7. n \in Good
  <2>1. Good \in SUBSET (0 .. n) /\ n \in 0 .. n
    BY <1>2
  <2> HIDE DEF Good
  <2>2. QED BY <1>2, <1>5, <1>6, <2>1, Induction
<1>8. SubSeq(judged, 1, n) = judged
  BY <1>2
<1>9. QED BY <1>1, <1>7, <1>8 DEF judged

-----------------------------------------------------------------------------
(* The reducer's loop. *)
LEMMA MergeLoopSteps ==
  ASSUME NEW facts \in Seq(Fact)
  PROVE  \E made : /\ made[0] = <<>> /\ made[Len(facts)] = MergeLoop(facts, <<>>)
                   /\ \A k \in 1 .. Len(facts) : made[k] = Upsert(made[k - 1], facts[k])
<1> DEFINE n == Len(facts)
           g == [p \in Seq(Fact) \X Fact |-> Upsert(p[1], p[2])]
<1>1. n \in Nat /\ DOMAIN facts = 1 .. n /\ \A i \in 1 .. n : facts[i] \in Fact
  OBVIOUS
<1>2. g \in [Seq(Fact) \X Fact -> Seq(Fact)] /\ <<>> \in Seq(Fact)
  <2>1. ASSUME NEW a \in Seq(Fact), NEW b \in Fact PROVE Upsert(a, b) \in Seq(Fact)
    <3>1. [i \in DOMAIN a |-> IF a[i].id = b.id THEN b ELSE a[i]] \in Seq(Fact)
      OBVIOUS
    <3>2. QED BY <3>1 DEF Upsert
  <2>2. QED BY <2>1
<1>3. \A a \in Seq(Fact), b \in Fact : g[<<a, b>>] = Upsert(a, b)
  OBVIOUS
<1> HIDE DEF n, g
<1>4. PICK h : Folds(h, Seq(Fact), <<>>, g, facts, n)
  BY <1>1, <1>2, FoldExists
<1> DEFINE Equation(iter) ==
             iter = [s \in SUBSET (DOMAIN facts) |->
                       IF s = {} THEN <<>>
                       ELSE Upsert(iter[s \ {Max(s)}], facts[Max(s)])]
           chosen == CHOOSE iter : Equation(iter)
<1>5. MergeLoop(facts, <<>>) = chosen[DOMAIN facts]
  <2>1. facts \o <<>> = facts
    OBVIOUS
  <2>2. QED BY <2>1 DEF MergeLoop, FoldLeft, MapThenFoldSet
<1>6. ASSUME NEW s \in SUBSET (1 .. n), s # {}
      PROVE  Max(s) \in 1 .. n /\ s \ {Max(s)} \in SUBSET (1 .. n)
  BY <1>1, <1>6, MaxFacts
<1>7. Equation(h)
  <2>1. ASSUME NEW s \in SUBSET (1 .. n)
        PROVE  h[s] = IF s = {} THEN <<>> ELSE Upsert(h[s \ {Max(s)}], facts[Max(s)])
    <3>1. CASE s = {}
      BY <1>4, <3>1 DEF Folds
    <3>2. CASE s # {}
      <4>1. h[s] = g[<<h[s \ {Max(s)}], facts[Max(s)]>>]
        BY <1>4, <3>2 DEF Folds
      <4>2. h[s \ {Max(s)}] \in Seq(Fact) /\ facts[Max(s)] \in Fact
        BY <1>1, <1>4, <1>6, <3>2 DEF Folds
      <4>3. QED BY <1>3, <3>2, <4>1, <4>2
    <3>3. QED BY <3>1, <3>2
  <2>2. h = [s \in SUBSET (1 .. n) |-> h[s]]
    BY <1>4 DEF Folds
  <2>3. QED BY <1>1, <2>1, <2>2
<1>8. Equation(chosen)
  BY <1>7
<1> HIDE DEF chosen
<1> DEFINE made == [k \in 0 .. n |-> chosen[1 .. k]]
<1>9. chosen[1 .. 0] = <<>>
  <2>1. 1 .. 0 = {} /\ {} \in SUBSET (DOMAIN facts)
    OBVIOUS
  <2>2. QED BY <1>8, <2>1
<1>10. ASSUME NEW k \in 1 .. n
       PROVE  chosen[1 .. k] = Upsert(chosen[1 .. k - 1], facts[k])
  <2>1. k \in Nat /\ k # 0 /\ 1 .. k \in SUBSET (DOMAIN facts)
    BY <1>1
  <2>2. 1 .. k # {} /\ Max(1 .. k) = k /\ (1 .. k) \ {k} = 1 .. k - 1
    BY <2>1, MaxInterval
  <2>3. QED BY <1>8, <2>1, <2>2
<1>11. /\ made[0] = <<>> /\ made[n] = MergeLoop(facts, <<>>)
       /\ \A k \in 1 .. n : made[k] = Upsert(made[k - 1], facts[k])
  BY <1>1, <1>5, <1>9, <1>10
<1> HIDE DEF made
<1>12. QED BY <1>11 DEF n

(* What the reducer's loop has after k steps: the ids so far, each at the place
   of its first fact and with the content of its latest one. *)
LEMMA MergeFoldMatches ==
  ASSUME NEW all \in Seq(Fact)
  PROVE  MergeById(all, <<>>) = MergeLoop(all, <<>>)
<1> DEFINE n == Len(all)
           ids == IdKeys(all)
           first == FirstPositions(ids)
           upto(k) == first \cap (1 .. k)
           IsLatest(k, i, j) == ids[j] = ids[i] /\ \A m \in j + 1 .. k : ids[m] # ids[i]
           latest(k) == [i \in 1 .. n |-> IF i \in 1 .. k
                                          THEN all[CHOOSE j \in 1 .. k : IsLatest(k, i, j)]
                                          ELSE all[i]]
           merged(k) == InOrder(latest(k), upto(k))
<1>1. PICK made : /\ made[0] = <<>> /\ made[n] = MergeLoop(all, <<>>)
                  /\ \A k \in 1 .. n : made[k] = Upsert(made[k - 1], all[k])
  BY MergeLoopSteps
<1>2. /\ n \in Nat /\ DOMAIN all = 1 .. n /\ DOMAIN ids = 1 .. n
      /\ \A i \in 1 .. n : all[i] \in Fact /\ ids[i] = all[i].id
  BY DEF IdKeys
<1>3. first \subseteq 1 .. n
  BY <1>2, FirstPositionsOnce
<1>4. MergeById(all, <<>>) = merged(n)
  <2>1. all \o <<>> = all
    OBVIOUS
  <2>2. MergeById(all, <<>>) =
          InOrder([i \in DOMAIN all |->
                     all[CHOOSE j \in DOMAIN all :
                           ids[j] = ids[i] /\ \A k \in j + 1 .. n : ids[k] # ids[i]]], first)
    BY <2>1 DEF MergeById
  <2>3. [i \in DOMAIN all |->
           all[CHOOSE j \in DOMAIN all :
                 ids[j] = ids[i] /\ \A k \in j + 1 .. n : ids[k] # ids[i]]] = latest(n)
    BY <1>2
  <2>4. upto(n) = first
    BY <1>3
  <2>5. QED BY <2>2, <2>3, <2>4
<1>5. ASSUME NEW k \in 1 .. n, NEW i \in 1 .. k
      PROVE  \E j \in 1 .. k : IsLatest(k, i, j) /\ \A l \in 1 .. k : IsLatest(k, i, l) => l = j
  <2> DEFINE same == {j \in 1 .. k : ids[j] = ids[i]}
  <2>1. PICK j \in same : \A l \in same : l <= j
    <3>1. k \in Nat /\ same \in SUBSET (1 .. k) /\ same # {}
      OBVIOUS
    <3> HIDE DEF same
    <3>2. QED BY <3>1, GreatestElement
  <2>2. j \in 1 .. k /\ ids[j] = ids[i] /\ \A l \in 1 .. k : ids[l] = ids[i] => l <= j
    BY <2>1
  <2>3. IsLatest(k, i, j)
    <3>1. \A m \in j + 1 .. k : m \in 1 .. k /\ ~(m <= j)
      BY <2>2
    <3>2. QED BY <2>2, <3>1
  <2>4. ASSUME NEW l \in 1 .. k, IsLatest(k, i, l) PROVE l = j
    <3>1. j \notin l + 1 .. k /\ l <= j
      BY <2>2, <2>4
    <3>2. QED BY <2>2, <3>1
  <2>5. QED BY <2>2, <2>3, <2>4
<1> HIDE DEF n, ids, first
<1>6. ASSUME NEW k \in 1 .. n, NEW i \in 1 .. k
      PROVE  latest(k)[i] = IF ids[i] = ids[k] THEN all[k] ELSE latest(k - 1)[i]
  <2>0. i \in 1 .. n
    BY <1>2
  <2>1. i \in 1 .. n /\ latest(k)[i] = all[CHOOSE j \in 1 .. k : IsLatest(k, i, j)]
    BY <2>0
  <2>2. CASE ids[i] = ids[k]
    <3>1. k \in 1 .. k /\ IsLatest(k, i, k)
      BY <2>2
    <3>2. (CHOOSE j \in 1 .. k : IsLatest(k, i, j)) = k
      <4> HIDE DEF IsLatest
      <4> QED BY <1>5, <3>1
    <3>3. QED BY <2>1, <2>2, <3>2
  <2>3. CASE ids[i] # ids[k]
    <3>1. i # k
      BY <2>3
    <3>2. i \in 1 .. k - 1
      BY <3>1
    <3>3. ASSUME NEW j
          PROVE  j \in 1 .. k /\ IsLatest(k, i, j) <=> j \in 1 .. k - 1 /\ IsLatest(k - 1, i, j)
      <4>1. j \in 1 .. k <=> j \in 1 .. k - 1 \/ j = k
        OBVIOUS
      <4>2. ASSUME j \in 1 .. k - 1 PROVE IsLatest(k, i, j) <=> IsLatest(k - 1, i, j)
        <5>1. \A m : m \in j + 1 .. k <=> m \in j + 1 .. k - 1 \/ m = k
          BY <4>2
        <5>2. QED BY <2>3, <5>1
      <4>3. j = k => ~IsLatest(k, i, j)
        BY <2>3
      <4>4. k \notin 1 .. k - 1
        OBVIOUS
      <4> HIDE DEF IsLatest
      <4>5. QED BY <4>1, <4>2, <4>3, <4>4
    <3>4. (CHOOSE j \in 1 .. k : IsLatest(k, i, j))
            = (CHOOSE j \in 1 .. k - 1 : IsLatest(k - 1, i, j))
      <4> HIDE DEF IsLatest
      <4> QED BY <3>3
    <3>5. latest(k - 1)[i] = all[CHOOSE j \in 1 .. k - 1 : IsLatest(k - 1, i, j)]
      BY <2>1, <3>2
    <3>6. QED BY <2>1, <2>3, <3>4, <3>5
  <2>4. QED BY <2>2, <2>3
<1>7. ASSUME NEW k \in 0 .. n
      PROVE  /\ latest(k) \in Seq(Fact) /\ DOMAIN latest(k) = 1 .. n
             /\ \A i \in 1 .. k : latest(k)[i].id = ids[i]
  <2>1. ASSUME NEW i \in 1 .. k
        PROVE  i \in 1 .. n /\ latest(k)[i] \in Fact /\ latest(k)[i].id = ids[i]
    <3>1. i \in 1 .. n /\ k \in 1 .. n
      BY <1>2
    <3> DEFINE j == CHOOSE j \in 1 .. k : IsLatest(k, i, j)
    <3>2. j \in 1 .. k /\ IsLatest(k, i, j)
      <4> HIDE DEF IsLatest
      <4> QED BY <1>5, <3>1
    <3>3. latest(k)[i] = all[j]
      BY <3>1
    <3> HIDE DEF j
    <3>4. ids[j] = ids[i]
      BY <3>2
    <3>5. j \in 1 .. n
      BY <1>2, <3>1, <3>2
    <3>6. QED BY <1>2, <3>1, <3>3, <3>4, <3>5
  <2>2. ASSUME NEW i \in 1 .. n PROVE latest(k)[i] \in Fact
    <3>1. i \notin 1 .. k => latest(k)[i] = all[i]
      OBVIOUS
    <3> HIDE DEF latest
    <3>2. QED BY <1>2, <2>1, <3>1
  <2>3. latest(k) = [i \in 1 .. n |-> latest(k)[i]]
    OBVIOUS
  <2> HIDE DEF latest
  <2>4. latest(k) \in Seq(Fact) /\ DOMAIN latest(k) = 1 .. n
    BY <1>2, <2>2, <2>3
  <2>5. QED BY <2>1, <2>4
<1> HIDE DEF latest
<1> DEFINE Good == {k \in 0 .. n : made[k] = merged(k)}
<1>8. 0 \in Good
  <2>1. upto(0) = {} /\ 0 \in 0 .. n
    BY <1>2
  <2>2. latest(0) \in Seq(Fact)
    BY <1>7, <2>1
  <2>3. QED BY <1>1, <2>1, <2>2, InOrderNone
<1>9. ASSUME NEW k \in 1 .. n, k - 1 \in Good PROVE k \in Good
  <2> DEFINE P == upto(k - 1)
             old == latest(k - 1)
             new == latest(k)
             before == InOrder(old, P)
             seen == \E i \in P : ids[i] = ids[k]
  <2>1. k \in 0 .. n /\ k - 1 \in 0 .. n
    BY <1>2
  <2>2. /\ old \in Seq(Fact) /\ DOMAIN old = 1 .. n /\ new \in Seq(Fact) /\ DOMAIN new = 1 .. n
        /\ \A i \in 1 .. k - 1 : old[i].id = ids[i]
        /\ \A i \in 1 .. k : new[i] = IF ids[i] = ids[k] THEN all[k] ELSE old[i]
    BY <1>6, <1>7, <2>1
  <2>3. /\ P \in SUBSET (1 .. n) /\ P \subseteq 1 .. k - 1 /\ P \subseteq 1 .. k
        /\ \A i \in P : i < k
        /\ P \in SUBSET (DOMAIN old) /\ P \in SUBSET (DOMAIN new)
    <3>1. P \in SUBSET (1 .. n) /\ P \subseteq 1 .. k - 1 /\ P \subseteq 1 .. k
      BY <1>3
    <3> HIDE DEF P, old, new
    <3>2. \A i \in P : i < k
      BY <3>1
    <3>3. QED BY <2>2, <3>1, <3>2
  <2>4. made[k] = Upsert(before, all[k])
    BY <1>1, <1>9
  <2>5. IF seen THEN upto(k) = P ELSE upto(k) = P \cup {k}
    BY <1>2, FirstPositionsGrow DEF first
  <2> HIDE DEF P, old, new, upto
  <2>6. /\ before \in Seq(Fact) /\ Len(before) = Cardinality(P) /\ Cardinality(P) \in Nat
        /\ InOrder(new, P) \in Seq(Fact) /\ Len(InOrder(new, P)) = Cardinality(P)
    BY <2>2, <2>3, InOrderTakes
  <2>7. ToSet(before) = {old[i] : i \in P}
    BY <2>2, <2>3, InOrderElements
  <2>8. \A m \in 1 .. Cardinality(P) :
          \E i \in P : before[m] = old[i] /\ InOrder(new, P)[m] = new[i]
    <3>1. /\ old \in Seq(Fact) /\ new \in Seq(Fact) /\ DOMAIN new = DOMAIN old
          /\ P \in SUBSET (DOMAIN old)
      BY <2>2, <2>3
    <3>2. \A S : \A list, other \in Seq(S) : \A Q \in SUBSET (DOMAIN list) :
            DOMAIN other = DOMAIN list
            => \A m \in 1 .. Cardinality(Q) :
                 \E i \in Q : InOrder(list, Q)[m] = list[i] /\ InOrder(other, Q)[m] = other[i]
      BY InOrderTogether
    <3>3. QED BY <3>1, <3>2
  <2> HIDE DEF before
  <2>9. all[k].id \in Ids(before) <=> seen
    <3>1. Ids(before) = {f.id : f \in ToSet(before)}
      BY DEF Ids, ToSet
    <3>2. Ids(before) = {ids[i] : i \in P}
      <4>1. \A i \in P : old[i].id = ids[i]
        BY <2>2, <2>3
      <4>2. Ids(before) = {old[i].id : i \in P}
        BY <2>7, <3>1
      <4>3. QED BY <4>1, <4>2
    <3>3. QED BY <1>2, <3>2
  <2>10. ASSUME seen PROVE made[k] = merged(k)
    <3> DEFINE updated == [m \in DOMAIN before |->
                             IF before[m].id = all[k].id THEN all[k] ELSE before[m]]
    <3>1. made[k] = updated
      BY <2>4, <2>9, <2>10 DEF Upsert
    <3>2. ASSUME NEW m \in 1 .. Cardinality(P) PROVE InOrder(new, P)[m] = updated[m]
      <4>1. PICK i \in P : before[m] = old[i] /\ InOrder(new, P)[m] = new[i]
        BY <2>8
      <4>2. updated[m] = IF before[m].id = all[k].id THEN all[k] ELSE before[m]
        BY <2>6
      <4>3. old[i].id = ids[i] /\ all[k].id = ids[k]
        BY <1>2, <2>2, <2>3
      <4>4. new[i] = IF ids[i] = ids[k] THEN all[k] ELSE old[i]
        BY <2>2, <2>3
      <4> HIDE DEF updated
      <4>5. QED BY <4>1, <4>2, <4>3, <4>4
    <3>3. InOrder(new, P) = updated
      <4>1. updated \in [1 .. Cardinality(P) -> Fact \cup {all[k]}]
        BY <2>6
      <4> HIDE DEF updated
      <4>2. QED BY <2>6, <3>2, <4>1
    <3>4. merged(k) = InOrder(new, P)
      BY <2>5, <2>10 DEF new
    <3>5. QED BY <3>1, <3>3, <3>4
  <2>11. ASSUME ~seen PROVE made[k] = merged(k)
    <3>1. made[k] = Append(before, all[k])
      BY <2>4, <2>9, <2>11 DEF Upsert
    <3>2. merged(k) = InOrder(new, P \cup {k})
      BY <2>5, <2>11 DEF new
    <3>3. InOrder(new, P \cup {k}) = Append(InOrder(new, P), new[k])
      <4>1. P \in SUBSET (DOMAIN new) /\ k \in DOMAIN new
        BY <2>2, <2>3
      <4>2. QED BY <2>2, <2>3, <4>1, InOrderAppends
    <3>4. new[k] = all[k]
      BY <2>2
    <3>5. \A m \in 1 .. Cardinality(P) : InOrder(new, P)[m] = before[m]
      BY <2>2, <2>3, <2>8, <2>11
    <3>6. InOrder(new, P) = before
      BY <2>6, <3>5
    <3>7. QED BY <3>1, <3>2, <3>3, <3>4, <3>6
  <2>12. QED BY <2>1, <2>10, <2>11
<1>10. n \in Good
  <2>1. Good \in SUBSET (0 .. n) /\ n \in 0 .. n
    BY <1>2
  <2> HIDE DEF Good
  <2>2. QED BY <1>2, <1>8, <1>9, <2>1, Induction
<1>11. QED BY <1>1, <1>4, <1>10

-----------------------------------------------------------------------------
Runs(x, list, d) == \A i \in 1 .. d : x[i] = Upsert(x[i - 1], list[i])

(* Two runs of the loop over the same facts that start alike end alike. *)
LEMMA SameSteps ==
  ASSUME NEW list, NEW x, NEW y, NEW d \in Nat, x[0] = y[0],
         Runs(x, list, d), Runs(y, list, d)
  PROVE  x[d] = y[d]
<1> DEFINE Good == {i \in 0 .. d : x[i] = y[i]}
<1>1. 0 \in Good
  OBVIOUS
<1>2. ASSUME NEW i \in 1 .. d, i - 1 \in Good PROVE i \in Good
  <2>1. x[i - 1] = y[i - 1] /\ i \in 0 .. d
    BY <1>2
  <2>2. x[i] = Upsert(x[i - 1], list[i]) /\ y[i] = Upsert(y[i - 1], list[i])
    BY DEF Runs
  <2>3. QED BY <2>1, <2>2
<1>3. d \in Good
  <2>1. Good \in SUBSET (0 .. d) /\ d \in 0 .. d
    OBVIOUS
  <2> HIDE DEF Good
  <2>2. QED BY <1>1, <1>2, <2>1, Induction
<1>4. QED BY <1>3

(* The loop copies a list that repeats no id. *)
LEMMA DistinctStays ==
  ASSUME NEW list \in Seq(Fact), NEW n \in 0 .. Len(list), NEW x, x[0] = <<>>,
         \A i, j \in 1 .. n : list[i].id = list[j].id => i = j,
         \A k \in 1 .. n : x[k] = Upsert(x[k - 1], list[k])
  PROVE  x[n] = SubSeq(list, 1, n)
<1> DEFINE Good == {k \in 0 .. n : x[k] = SubSeq(list, 1, k)}
<1>1. 0 \in Good
  <2>1. SubSeq(list, 1, 0) = <<>> /\ 0 \in 0 .. n
    OBVIOUS
  <2>2. QED BY <2>1
<1>2. ASSUME NEW k \in 1 .. n, k - 1 \in Good PROVE k \in Good
  <2> DEFINE before == SubSeq(list, 1, k - 1)
  <2>1. x[k] = Upsert(before, list[k]) /\ k \in 0 .. n
    <3>1. x[k - 1] = before
      BY <1>2
    <3> HIDE DEF before
    <3>2. QED BY <3>1
  <2>2. /\ DOMAIN before = 1 .. k - 1 /\ \A i \in 1 .. k - 1 : before[i] = list[i]
        /\ Append(before, list[k]) = SubSeq(list, 1, k)
    OBVIOUS
  <2> HIDE DEF before
  <2>3. list[k].id \notin Ids(before)
    <3>1. \A i \in 1 .. k - 1 : list[i].id # list[k].id
      OBVIOUS
    <3>2. \A i \in DOMAIN before : before[i].id # list[k].id
      BY <2>2, <3>1
    <3>3. QED BY <3>2 DEF Ids
  <2>4. QED BY <2>1, <2>2, <2>3 DEF Upsert
<1>3. n \in Good
  <2>1. n \in Nat /\ Good \in SUBSET (0 .. n) /\ n \in 0 .. n
    OBVIOUS
  <2> HIDE DEF Good
  <2>2. QED BY <1>1, <1>2, <2>1, Induction
<1>4. QED BY <1>3

(* merge_by_id is the reducer's loop over both lists. *)
LEMMA JoinedLists ==
  ASSUME NEW old \in Seq(Fact), NEW update \in Seq(Fact)
  PROVE  /\ MergeById(old, update) = MergeLoop(old \o update, <<>>)
         /\ MergeLoop(old, update) = MergeLoop(old \o update, <<>>)
<1> DEFINE all == old \o update
<1>1. all \in Seq(Fact) /\ all \o <<>> = all
  OBVIOUS
<1>2. MergeById(old, update) = MergeById(all, <<>>)
  BY <1>1 DEF MergeById
<1>3. MergeLoop(old, update) = MergeLoop(all, <<>>)
  BY <1>1, Zenon DEF MergeLoop
<1>4. MergeById(all, <<>>) = MergeLoop(all, <<>>)
  BY <1>1, MergeFoldMatches
<1>5. QED BY <1>2, <1>3, <1>4

THEOREM MergeMatches ==
  ASSUME NEW old \in Seq(Fact), NEW update \in Seq(Fact)
  PROVE  MergeById(old, update) = MergeLoop(old, update)
BY JoinedLists

(* Updates of the state may be merged one by one or as one list. *)
THEOREM MergeAssociates ==
  ASSUME NEW old \in Seq(Fact), NEW update \in Seq(Fact), NEW rest \in Seq(Fact)
  PROVE  MergeById(MergeById(old, update), rest) = MergeById(old, update \o rest)
<1> DEFINE s == old \o (update \o rest)
           u == old \o update
           m == MergeById(old, update)
           t == m \o rest
           N == Len(u)
           M == Len(m)
           D == Len(rest)
<1>1. /\ m \in Seq(Fact) /\ u \in Seq(Fact) /\ s \in Seq(Fact) /\ t \in Seq(Fact)
      /\ update \o rest \in Seq(Fact)
      /\ \A i, j \in DOMAIN m : m[i].id = m[j].id => i = j
  BY MergeKeeps
<1>2. PICK ofs : /\ ofs[0] = <<>> /\ ofs[Len(s)] = MergeLoop(s, <<>>)
                 /\ \A k \in 1 .. Len(s) : ofs[k] = Upsert(ofs[k - 1], s[k])
  BY <1>1, MergeLoopSteps
<1>3. PICK ofu : /\ ofu[0] = <<>> /\ ofu[N] = MergeLoop(u, <<>>)
                 /\ \A k \in 1 .. N : ofu[k] = Upsert(ofu[k - 1], u[k])
  BY <1>1, MergeLoopSteps
<1>4. PICK oft : /\ oft[0] = <<>> /\ oft[Len(t)] = MergeLoop(t, <<>>)
                 /\ \A k \in 1 .. Len(t) : oft[k] = Upsert(oft[k - 1], t[k])
  BY <1>1, MergeLoopSteps
<1>5. /\ ofs[Len(s)] = MergeById(old, update \o rest) /\ ofu[N] = m
      /\ oft[Len(t)] = MergeById(m, rest)
  <2>1. MergeById(old, update \o rest) = MergeLoop(s, <<>>)
    BY <1>1, JoinedLists
  <2>2. m = MergeLoop(u, <<>>)
    BY <1>1, JoinedLists
  <2>3. MergeById(m, rest) = MergeLoop(t, <<>>)
    <3> HIDE DEF m
    <3> QED BY <1>1, JoinedLists
  <2>4. QED BY <1>2, <1>3, <1>4, <2>1, <2>2, <2>3
<1>6. /\ N \in Nat /\ M \in Nat /\ D \in Nat /\ Len(s) = N + D /\ Len(t) = M + D
      /\ \A i \in 1 .. N : s[i] = u[i]
      /\ \A i \in 1 .. D : s[N + i] = rest[i] /\ t[M + i] = rest[i]
      /\ \A i \in 1 .. M : t[i] = m[i]
      /\ DOMAIN m = 1 .. M /\ SubSeq(t, 1, M) = m
  <2> HIDE DEF m
  <2> QED BY <1>1
<1> HIDE DEF s, u, m, t, N, M, D
<1>7. ofs[N] = m
  <2>1. Runs(ofs, u, N) /\ Runs(ofu, u, N)
    <3>1. \A i \in 1 .. N : i \in 1 .. Len(s) /\ s[i] = u[i]
      BY <1>6
    <3>2. QED BY <1>2, <1>3, <3>1 DEF Runs
  <2>2. N \in Nat /\ ofs[0] = ofu[0]
    BY <1>2, <1>3, <1>6
  <2>3. ofs[N] = ofu[N]
    BY <2>1, <2>2, SameSteps
  <2>4. QED BY <1>5, <2>3
<1>8. oft[M] = m
  <2>1. M \in 0 .. Len(t) /\ \A i, j \in 1 .. M : t[i].id = t[j].id => i = j
    <3>1. M \in Nat /\ D \in Nat /\ Len(t) = M + D
      BY <1>6
    <3>2. \A i, j \in 1 .. M : m[i].id = m[j].id => i = j
      BY <1>1, <1>6
    <3>3. \A i \in 1 .. M : t[i] = m[i]
      BY <1>6
    <3>4. QED BY <3>1, <3>2, <3>3
  <2>2. \A k \in 1 .. M : oft[k] = Upsert(oft[k - 1], t[k])
    <3>1. \A k \in 1 .. M : k \in 1 .. Len(t)
      BY <1>6
    <3>2. QED BY <1>4, <3>1
  <2>3. oft[M] = SubSeq(t, 1, M)
    BY <1>1, <1>4, <2>1, <2>2, DistinctStays
  <2>4. QED BY <1>6, <2>3
<1>9. oft[M + D] = ofs[N + D]
  <2> DEFINE x == [i \in 0 .. D |-> oft[M + i]]
             y == [i \in 0 .. D |-> ofs[N + i]]
  <2>1. D \in Nat /\ M \in Nat /\ N \in Nat
    BY <1>6
  <2>2. x[0] = m /\ y[0] = m
    <3>1. 0 \in 0 .. D /\ M + 0 = M /\ N + 0 = N
      BY <2>1
    <3>2. QED BY <1>7, <1>8, <3>1
  <2>3. ASSUME NEW i \in 1 .. D
        PROVE  x[i] = Upsert(x[i - 1], rest[i]) /\ y[i] = Upsert(y[i - 1], rest[i])
    <3> DEFINE j == M + i
               k == N + i
    <3>1. j \in 1 .. Len(t) /\ k \in 1 .. Len(s) /\ t[j] = rest[i] /\ s[k] = rest[i]
      BY <1>6
    <3>2. i - 1 \in 0 .. D /\ i \in 0 .. D /\ M + (i - 1) = j - 1 /\ N + (i - 1) = k - 1
      BY <2>1
    <3>3. x[i] = oft[j] /\ x[i - 1] = oft[j - 1] /\ y[i] = ofs[k] /\ y[i - 1] = ofs[k - 1]
      BY <3>2
    <3> HIDE DEF x, y, j, k
    <3>4. QED BY <1>2, <1>4, <3>1, <3>3
  <2>4. x[D] = oft[M + D] /\ y[D] = ofs[N + D]
    BY <2>1
  <2> HIDE DEF x, y
  <2>5. x[D] = y[D]
    <3>1. Runs(x, rest, D) /\ Runs(y, rest, D)
      BY <2>3 DEF Runs
    <3>2. QED BY <2>1, <2>2, <3>1, SameSteps
  <2>6. QED BY <2>4, <2>5
<1>10. QED BY <1>5, <1>6, <1>9 DEF m

-----------------------------------------------------------------------------
(* The invariants of the run, for lists of any length: its states are lists of
   facts, and for those the theorems above say more. *)
LEMMA ListsOfFacts == Spec => [](left \in Seq(Fact) /\ right \in Seq(Fact))
<1> DEFINE Lists == left \in Seq(Fact) /\ right \in Seq(Fact)
<1>1. Init => Lists
  BY DEF Init
<1>2. Lists /\ [Next]_vars => Lists'
  <2> SUFFICES ASSUME Lists, [Next]_vars PROVE Lists'
    OBVIOUS
  <2>1. CASE ExtendLeft
    BY <2>1, LoopsAssumption DEF ExtendLeft
  <2>2. CASE ExtendRight
    BY <2>2, LoopsAssumption DEF ExtendRight
  <2>3. CASE UNCHANGED vars
    BY <2>3 DEF vars
  <2>4. QED BY <2>1, <2>2, <2>3 DEF Next
<1>3. QED BY <1>1, <1>2, PTL DEF Spec

(* merge_by_id computes MergeById, and batches of updates may be merged one by
   one or at once: how LangGraph groups the outputs of the workers is immaterial. *)
THEOREM MergeSafe == Spec => []MergeMatchesLoop
<1>1. left \in Seq(Fact) /\ right \in Seq(Fact) => MergeMatchesLoop
  <2> SUFFICES ASSUME left \in Seq(Fact), right \in Seq(Fact) PROVE MergeMatchesLoop
    OBVIOUS
  <2>1. MergeById(left, right) = MergeLoop(left, right)
    BY MergeMatches
  <2>2. ASSUME NEW n \in 0 .. Len(right)
        PROVE  MergeById(MergeById(left, SubSeq(right, 1, n)), SubSeq(right, n + 1, Len(right)))
                 = MergeById(left, right)
    <3> DEFINE update == SubSeq(right, 1, n)
               rest == SubSeq(right, n + 1, Len(right))
    <3>1. update \in Seq(Fact) /\ rest \in Seq(Fact) /\ update \o rest = right
      <4>1. Len(right) \in Nat /\ n \in 0 .. Len(right) /\ SubSeq(right, 1, Len(right)) = right
        OBVIOUS
      <4>2. SubSeq(right, 1, n) \o SubSeq(right, n + 1, Len(right)) = SubSeq(right, 1, Len(right))
        <5>1. /\ right \in Seq(Fact) /\ 1 \in 1 .. Len(right) + 1
              /\ n \in 1 - 1 .. Len(right) /\ Len(right) \in n .. Len(right)
          BY <4>1
        <5>2. QED BY <5>1, ConcatAdjacentSubSeq, Zenon
      <4>3. \A i \in 1 .. n : i \in 1 .. Len(right) /\ right[i] \in Fact
        OBVIOUS
      <4>4. \A i \in n + 1 .. Len(right) : i \in 1 .. Len(right) /\ right[i] \in Fact
        OBVIOUS
      <4>5. update \in Seq(Fact) /\ rest \in Seq(Fact)
        BY <4>1, <4>3, <4>4, SubSeqProperties
      <4>6. QED BY <4>1, <4>2, <4>5
    <3> HIDE DEF update, rest
    <3>2. MergeById(MergeById(left, update), rest) = MergeById(left, update \o rest)
      BY <3>1, MergeAssociates
    <3>3. QED BY <3>1, <3>2 DEF update, rest
  <2>3. QED BY <2>1, <2>2 DEF MergeMatchesLoop
<1>2. QED BY <1>1, ListsOfFacts, PTL

(* The join's filter and the validator's pass compute UniqueQuotes and Validate. *)
THEOREM PassesSafe == Spec => []PassesMatchLoops
<1>1. left \in Seq(Fact) /\ right \in Seq(Fact) => PassesMatchLoops
  <2> SUFFICES ASSUME left \in Seq(Fact), right \in Seq(Fact) PROVE PassesMatchLoops
    OBVIOUS
  <2>1. left \o right \in Seq(Fact)
    OBVIOUS
  <2>2. QED BY <2>1, UniqueMatches, ValidatorMatches DEF PassesMatchLoops
<1>2. QED BY <1>1, ListsOfFacts, PTL
=============================================================================
