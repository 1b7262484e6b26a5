------------------------- MODULE ModelPolicy_proofs -------------------------
(***************************************************************************)
(* Theorems about the choices of models, for any catalog, deployments,     *)
(* requests, numbers of facts, prompts and answers: what was learned never *)
(* costs anything, money never changes which model is chosen, who asks for *)
(* more is never given a weaker tier, no run overspends, and a run that    *)
(* ends without a warning has given a sample of each model that answered   *)
(* its plan or report.  The shared averages keep the promises of           *)
(* LearningStore because the runs of this module are such runs as          *)
(* LearningStore is proved for.  First, the sort key of Routing orders the *)
(* eligible models of any catalog.                                         *)
(***************************************************************************)
EXTENDS ModelPolicy, LearningStore_proofs, FiniteSetTheorems, WellFoundedInduction

-----------------------------------------------------------------------------
(* A finite set that is ordered, with ties, has a first element: one before
   which come as few others as possible. *)
LEMMA FirstExists ==
  ASSUME NEW S, IsFiniteSet(S), S # {}, NEW R,
         \A a, b \in S : <<a, b>> \in R \/ <<b, a>> \in R,
         \A a, b, c \in S : <<a, b>> \in R /\ <<b, c>> \in R => <<a, c>> \in R
  PROVE  \E a \in S : \A b \in S : <<a, b>> \in R
<1> DEFINE Before(a) == {b \in S : <<a, b>> \notin R}
           rank == [a \in S |-> Cardinality(Before(a))]
           ranks == {rank[a] : a \in S}
<1>1. \A a \in S : IsFiniteSet(Before(a)) /\ rank[a] \in Nat
  BY FS_Subset, FS_CardinalityType
<1>2. ranks \subseteq Nat /\ ranks # {}
  BY <1>1
<1>3. PICK n \in ranks : \A m \in ranks : ~(<<m, n>> \in OpToRel(<, Nat))
  BY <1>2, NatLessThanWellFounded, WFMin
<1>4. PICK a \in S : rank[a] = n
  BY <1>3
<1>5. \A b \in S : ~(rank[b] < rank[a])
  BY <1>1, <1>3, <1>4 DEF OpToRel
<1>6. ASSUME NEW b \in S, <<a, b>> \notin R PROVE FALSE
  <2>1. Before(b) \subseteq Before(a)
    BY <1>6
  <2>2. b \in Before(a) /\ b \notin Before(b)
    BY <1>6
  <2>3. Cardinality(Before(b)) < Cardinality(Before(a))
    <3> DEFINE T == Before(b)
               U == Before(a)
    <3>1. IsFiniteSet(U) /\ IsFiniteSet(T) /\ T \in SUBSET U /\ T # U
      BY <1>1, <2>1, <2>2
    <3> HIDE DEF T, U
    <3>2. Cardinality(T) <= Cardinality(U) /\ Cardinality(T) # Cardinality(U)
      BY <3>1, FS_Subset
    <3>3. Cardinality(T) \in Nat /\ Cardinality(U) \in Nat
      BY <3>1, FS_CardinalityType
    <3>4. Cardinality(T) < Cardinality(U)
      BY <3>2, <3>3
    <3>5. QED BY <3>4 DEF T, U
  <2>4. QED BY <1>5, <2>3
<1>7. QED BY <1>6

(* Fractions with natural numerators and positive denominators. *)
Fraction == Nat \X (Nat \ {0})

LEMMA FractionsOrdered ==
  ASSUME NEW p \in Fraction, NEW q \in Fraction, NEW s \in Fraction
  PROVE  /\ AtMost(p, q) \/ AtMost(q, p)
         /\ AtMost(p, q) /\ AtMost(q, s) => AtMost(p, s)
<1>1. /\ p[1] \in Nat /\ q[1] \in Nat /\ s[1] \in Nat
      /\ p[2] \in Nat \ {0} /\ q[2] \in Nat \ {0} /\ s[2] \in Nat \ {0}
  BY DEF Fraction
<1>2. \A a, b, c, d, e, f \in Nat : b # 0 /\ d # 0 /\ f # 0 /\ a * d <= c * b /\ c * f <= e * d
        => a * f <= e * b
  <2> SUFFICES ASSUME NEW a \in Nat, NEW b \in Nat, NEW c \in Nat, NEW d \in Nat,
                      NEW e \in Nat, NEW f \in Nat, b # 0, d # 0, f # 0,
                      a * d <= c * b, c * f <= e * d
               PROVE  a * f <= e * b
    OBVIOUS
  <2>1. (a * d) * f <= (c * b) * f
    OBVIOUS
  <2>2. (c * f) * b <= (e * d) * b
    OBVIOUS
  <2>3. d * (a * f) <= d * (e * b)
    BY <2>1, <2>2
  <2> DEFINE x == a * f
             y == e * b
  <2>4. x \in Nat /\ y \in Nat /\ d * x <= d * y
    BY <2>3
  <2> HIDE DEF x, y
  <2>5. x <= y
    <3> SUFFICES ASSUME y + 1 <= x PROVE FALSE
      BY <2>4
    <3>1. d * (y + 1) <= d * x
      BY <2>4
    <3>2. d * y + d <= d * x
      BY <3>1, <2>4
    <3>3. d * x \in Nat /\ d * y \in Nat
      BY <2>4
    <3>4. QED BY <2>4, <3>2, <3>3
  <2>6. QED BY <2>5 DEF x, y
<1>3. p[1] * q[2] \in Nat /\ q[1] * p[2] \in Nat
  BY <1>1
<1>4. AtMost(p, q) \/ AtMost(q, p)
  BY <1>3 DEF AtMost
<1>5. ASSUME AtMost(p, q), AtMost(q, s) PROVE AtMost(p, s)
  <2>1. p[1] * q[2] <= q[1] * p[2] /\ q[1] * s[2] <= s[1] * q[2]
    BY <1>5 DEF AtMost
  <2>2. p[1] * s[2] <= s[1] * p[2]
    <3> DEFINE a == p[1]  b == p[2]  c == q[1]  d == q[2]  e == s[1]  f == s[2]
    <3>1. /\ a \in Nat /\ b \in Nat /\ c \in Nat /\ d \in Nat /\ e \in Nat /\ f \in Nat
          /\ b # 0 /\ d # 0 /\ f # 0 /\ a * d <= c * b /\ c * f <= e * d
      BY <1>1, <2>1
    <3> HIDE DEF a, b, c, d, e, f
    <3>2. a * f <= e * b
      BY <3>1, <1>2
    <3>3. QED BY <3>2 DEF a, b, c, d, e, f
  <2>3. QED BY <2>2 DEF AtMost
<1>6. QED BY <1>4, <1>5

-----------------------------------------------------------------------------
(* The aliases of the catalog are ordered by their place in the sorted list. *)
LEMMA AliasesOrdered ==
  ASSUME NEW a \in ModelName, NEW b \in ModelName, NEW c \in ModelName
  PROVE  /\ Sorted(a, b) \/ Sorted(b, a)
         /\ Sorted(a, b) /\ Sorted(b, c) => Sorted(a, c)
<1>1. /\ DOMAIN Alphabetical \subseteq Nat
      /\ \A i, j \in DOMAIN Alphabetical : Alphabetical[i] = Alphabetical[j] => i = j
      /\ \A x \in ModelName : \E i \in DOMAIN Alphabetical : Alphabetical[i] = x
  <2>1. DOMAIN Alphabetical = 1 .. Len(Alphabetical) /\ Len(Alphabetical) \in Nat
    BY CatalogAssumption
  <2>2. \A i, j \in DOMAIN Alphabetical : Alphabetical[i] = Alphabetical[j] => i = j
    BY CatalogAssumption DEF IsInjective
  <2>3. ToSet(Alphabetical) = ModelName
    BY CatalogAssumption DEF ModelName
  <2>4. \A x \in ModelName : \E i \in DOMAIN Alphabetical : Alphabetical[i] = x
    BY <2>3 DEF ToSet
  <2>5. QED BY <2>1, <2>2, <2>4
<1>2. PICK i \in DOMAIN Alphabetical : Alphabetical[i] = a
  BY <1>1
<1>3. PICK j \in DOMAIN Alphabetical : Alphabetical[j] = b
  BY <1>1
<1>4. Sorted(a, b) \/ Sorted(b, a)
  BY <1>1, <1>2, <1>3 DEF Sorted
<1>5. ASSUME Sorted(a, b), Sorted(b, c) PROVE Sorted(a, c)
  <2>1. PICK m, n \in DOMAIN Alphabetical : m <= n /\ Alphabetical[m] = a /\ Alphabetical[n] = b
    BY <1>5 DEF Sorted
  <2>2. PICK p, q \in DOMAIN Alphabetical : p <= q /\ Alphabetical[p] = b /\ Alphabetical[q] = c
    BY <1>5 DEF Sorted
  <2>3. n = p
    BY <1>1, <2>1, <2>2
  <2>4. QED BY <1>1, <2>1, <2>2, <2>3 DEF Sorted
<1>6. QED BY <1>4, <1>5

LEMMA CatalogFacts ==
  /\ IsFiniteSet(ToSet(Catalog))
  /\ \A spec \in ToSet(Catalog) : /\ spec.alias \in ModelName /\ spec.alias # NoModel
                                  /\ spec.input \in Nat /\ spec.output \in Nat
                                  /\ SpecOf[spec.alias] = spec
  /\ \A alias \in ModelName : SpecOf[alias] \in ToSet(Catalog) /\ SpecOf[alias].alias = alias
<1>1. DOMAIN Catalog = 1 .. Len(Catalog) /\ Len(Catalog) \in Nat
  BY CatalogAssumption
<1>2. Catalog \in Surjection(1 .. Len(Catalog), ToSet(Catalog))
  BY <1>1, CatalogAssumption DEF Surjection, ToSet
<1>3. IsFiniteSet(ToSet(Catalog))
  BY <1>1, <1>2, FS_Interval, FS_Surjection
<1>4. \A spec \in ToSet(Catalog) : /\ spec.alias \in ModelName /\ spec.alias # NoModel
                                  /\ spec.input \in Nat /\ spec.output \in Nat
  BY CatalogAssumption DEF ToSet, ModelName
<1>5. \A spec, other \in ToSet(Catalog) : spec.alias = other.alias => spec = other
  BY CatalogAssumption DEF ToSet
<1>6. ASSUME NEW alias \in ModelName
      PROVE  SpecOf[alias] \in ToSet(Catalog) /\ SpecOf[alias].alias = alias
  <2>1. \E spec \in ToSet(Catalog) : spec.alias = alias
    BY DEF ToSet, ModelName
  <2>2. SpecOf[alias] = CHOOSE spec \in ToSet(Catalog) : spec.alias = alias
    BY DEF SpecOf
  <2>3. QED BY <2>1, <2>2
<1>7. \A spec \in ToSet(Catalog) : SpecOf[spec.alias] = spec
  BY <1>4, <1>5, <1>6
<1>8. QED BY <1>3, <1>4, <1>6, <1>7

-----------------------------------------------------------------------------
(* A preference for every one of the specs. *)
Known(specs, preference) == \A spec \in specs : preference[spec.alias] \in Fraction

(* The sort key orders the models of the catalog: any two compare, and what comes
   first of three does not go round. *)
LEMMA KeyOrders ==
  ASSUME NEW ctx, ctx.tokens \in Nat, ctx.maxOutput \in Nat, NEW preference,
         NEW a \in ToSet(Catalog), NEW b \in ToSet(Catalog), NEW c \in ToSet(Catalog),
         Known({a, b, c}, preference)
  PROVE  /\ ComesFirst(a, b, ctx, preference) \/ ComesFirst(b, a, ctx, preference)
         /\ ComesFirst(a, b, ctx, preference) /\ ComesFirst(b, c, ctx, preference)
              => ComesFirst(a, c, ctx, preference)
<1> DEFINE x == CostIn(a, ctx)
           y == CostIn(b, ctx)
           z == CostIn(c, ctx)
           p == preference[a.alias]
           q == preference[b.alias]
           s == preference[c.alias]
<1>1. x \in Nat /\ y \in Nat /\ z \in Nat
  BY CatalogFacts DEF CostIn, ProjectedCost
<1>2. /\ AtMost(p, q) \/ AtMost(q, p)
      /\ AtMost(s, q) /\ AtMost(q, p) => AtMost(s, p)
      /\ AtMost(p, s) /\ AtMost(s, q) => AtMost(p, q)
      /\ AtMost(q, p) /\ AtMost(p, s) => AtMost(q, s)
  BY FractionsOrdered DEF Known
<1>3. /\ Sorted(a.alias, b.alias) \/ Sorted(b.alias, a.alias)
      /\ Sorted(a.alias, b.alias) /\ Sorted(b.alias, c.alias) => Sorted(a.alias, c.alias)
  BY AliasesOrdered, CatalogFacts
<1>4. ComesFirst(a, b, ctx, preference) \/ ComesFirst(b, a, ctx, preference)
  <2>1. x < y \/ y < x \/ x = y
    BY <1>1
  <2>2. CASE x < y
    BY <2>2 DEF ComesFirst
  <2>3. CASE y < x
    BY <2>3 DEF ComesFirst
  <2>4. CASE x = y
    BY <1>2, <1>3, <2>4, Zenon DEF ComesFirst
  <2>5. QED BY <2>1, <2>2, <2>3, <2>4
<1>5. ASSUME ComesFirst(a, b, ctx, preference), ComesFirst(b, c, ctx, preference)
      PROVE  ComesFirst(a, c, ctx, preference)
  <2>1. (x < y \/ x = y) /\ (y < z \/ y = z)
    BY <1>5 DEF ComesFirst
  <2>2. x < z \/ (x = z /\ ~(x < y) /\ ~(y < z))
    <3> HIDE DEF x, y, z
    <3>1. QED BY <1>1, <2>1
  <2>3. CASE x < z
    BY <2>3 DEF ComesFirst
  <2>4. CASE x = z /\ ~(x < y) /\ ~(y < z)
    <3>1. /\ AtMost(q, p) /\ (AtMost(p, q) => Sorted(a.alias, b.alias))
          /\ AtMost(s, q) /\ (AtMost(q, s) => Sorted(b.alias, c.alias))
      BY <1>5, <2>4 DEF ComesFirst
    <3>2. AtMost(s, p) /\ (AtMost(p, s) => AtMost(p, q) /\ AtMost(q, s))
      BY <1>2, <3>1
    <3>3. AtMost(p, s) => Sorted(a.alias, c.alias)
      BY <1>3, <3>1, <3>2
    <3>4. QED BY <2>4, <3>2, <3>3 DEF ComesFirst
  <2>5. QED BY <2>2, <2>3, <2>4
<1>6. QED BY <1>4, <1>5

(* For any settings, prompt and preferences: routing finds no model only when the
   filters leave none, and otherwise one they leave, the cheapest. *)
THEOREM SelectsCheapest ==
  ASSUME NEW ctx, ctx.tokens \in Nat, ctx.maxOutput \in Nat, NEW tier, NEW preference,
         Known(Eligible(ctx, tier), preference)
  PROVE  LET alias == Select(ctx, tier, preference)
         IN IF alias = NoModel THEN Eligible(ctx, tier) = {}
            ELSE /\ alias \in ModelName /\ SpecOf[alias] \in Eligible(ctx, tier)
                 /\ \A spec \in Eligible(ctx, tier) :
                      CostIn(SpecOf[alias], ctx) <= CostIn(spec, ctx)
<1> DEFINE S == Eligible(ctx, tier)
           R == {pair \in S \X S : ComesFirst(pair[1], pair[2], ctx, preference)}
           First(a) == \A b \in S : ComesFirst(a, b, ctx, preference)
<1>1. S \subseteq ToSet(Catalog) /\ IsFiniteSet(S)
  BY CatalogFacts, FS_Subset DEF Eligible
<1>2. CASE S = {}
  BY <1>2 DEF Select
<1>3. CASE S # {}
  <2>1. \A a, b, c \in S : Known({a, b, c}, preference)
    BY DEF Known
  <2>2. \A a, b \in S : <<a, b>> \in R <=> ComesFirst(a, b, ctx, preference)
    OBVIOUS
  <2>3. /\ \A a, b \in S : <<a, b>> \in R \/ <<b, a>> \in R
        /\ \A a, b, c \in S : <<a, b>> \in R /\ <<b, c>> \in R => <<a, c>> \in R
    BY <1>1, <2>1, <2>2, KeyOrders
  <2>4. \E a \in S : \A b \in S : <<a, b>> \in R
    <3> HIDE DEF S, R
    <3>1. QED BY <1>1, <1>3, <2>3, FirstExists
  <2>5. \E a \in S : First(a)
    BY <2>2, <2>4
  <2> DEFINE first == CHOOSE a \in S : First(a)
  <2>6. first \in S /\ First(first)
    BY <2>5
  <2>7. Select(ctx, tier, preference) = first.alias
    BY <1>3 DEF Select
  <2> HIDE DEF first
  <2>8. /\ first.alias \in ModelName /\ first.alias # NoModel
        /\ SpecOf[first.alias] = first
    BY <1>1, <2>6, CatalogFacts
  <2>9. \A spec \in S : CostIn(first, ctx) <= CostIn(spec, ctx)
    <3>1. \A spec \in S : CostIn(first, ctx) \in Nat /\ CostIn(spec, ctx) \in Nat
      BY <1>1, <2>6, CatalogFacts DEF CostIn, ProjectedCost
    <3>2. QED BY <2>6, <3>1 DEF ComesFirst
  <2>10. QED BY <2>6, <2>7, <2>8, <2>9
<1>4. QED BY <1>2, <1>3

-----------------------------------------------------------------------------
(* A sum of points that grows does not shrink when it is clamped. *)
LEMMA ClampGrows ==
  ASSUME NEW m \in Int, NEW n \in Int
  PROVE  Clamp(m) \in 0 .. 5 /\ (m <= n => Clamp(m) <= Clamp(n))
BY DEF Clamp

LEMMA TierGrows ==
  ASSUME NEW m \in Int, NEW n \in Int, m <= n
  PROVE  TierRank[TierOf(m)] <= TierRank[TierOf(n)]
BY DEF TierOf, TierRank

(* What it means to ask for more, depth and risk each for itself. *)
LEMMA MoreAsked ==
  ASSUME NEW p \in Request, NEW q \in Request, AsksMore(p, q)
  PROVE  /\ p.depth \in Depth /\ q.depth \in Depth /\ p.risk \in Risk /\ q.risk \in Risk
         /\ q.depth = "deep" => p.depth = "deep"
         /\ q.depth = "standard" => p.depth \in {"standard", "deep"}
         /\ q.risk = "high" => p.risk = "high"
         /\ q.risk = "medium" => p.risk \in {"medium", "high"}
<1>1. /\ p.depth \in Depth /\ q.depth \in Depth /\ p.risk \in Risk /\ q.risk \in Risk
      /\ DepthRank[q.depth] <= DepthRank[p.depth] /\ RiskRank[q.risk] <= RiskRank[p.risk]
  BY DEF AsksMore, Request
<1>2. /\ DepthRank["brief"] = 0 /\ DepthRank["standard"] = 1 /\ DepthRank["deep"] = 2
      /\ RiskRank["low"] = 0 /\ RiskRank["medium"] = 1 /\ RiskRank["high"] = 2
  BY DEF DepthRank, RiskRank
<1>3. QED BY <1>1, <1>2 DEF Depth, Risk

(* Each of the five scores grows with what is asked, so their sum does. *)
LEMMA TotalGrows ==
  ASSUME NEW question \in Question, NEW p \in Request, NEW q \in Request, AsksMore(p, q)
  PROVE  /\ Total(question, p) \in Int /\ Total(question, q) \in Int
         /\ Total(question, q) <= Total(question, p)
<1>1. /\ ReasoningDepth(question, p) \in 0 .. 5 /\ ReasoningDepth(question, q) \in 0 .. 5
      /\ ReasoningDepth(question, q) <= ReasoningDepth(question, p)
  <2> DEFINE sum(x) == Points(question.reasoning, 2) + Points(question.words > 18, 1)
                      + Points(x.depth = "deep", 2) + Points(x.depth = "standard", 1)
             m == sum(q)
             n == sum(p)
  <2>1. m \in Int /\ n \in Int /\ m <= n
    BY MoreAsked DEF Points
  <2>2. ReasoningDepth(question, q) = Clamp(m) /\ ReasoningDepth(question, p) = Clamp(n)
    BY DEF ReasoningDepth
  <2> HIDE DEF m, n
  <2>3. QED BY <2>1, <2>2, ClampGrows
<1>2. /\ ContextSize(question, p) \in 0 .. 5 /\ ContextSize(question, q) \in 0 .. 5
      /\ ContextSize(question, q) <= ContextSize(question, p)
  <2> DEFINE sum(x) == 1 + Points(question.words >= 12, 1)
                      + Points(question.words >= 24, 1) + Points(question.hint = "both", 1)
                      + Points(x.depth = "deep", 1)
             m == sum(q)
             n == sum(p)
  <2>1. m \in Int /\ n \in Int /\ m <= n
    BY MoreAsked DEF Points
  <2>2. ContextSize(question, q) = Clamp(m) /\ ContextSize(question, p) = Clamp(n)
    BY DEF ContextSize
  <2> HIDE DEF m, n
  <2>3. QED BY <2>1, <2>2, ClampGrows
<1>3. /\ ToolNeed(question, p) \in 0 .. 5 /\ ToolNeed(question, q) \in 0 .. 5
      /\ ToolNeed(question, q) <= ToolNeed(question, p)
  <2> DEFINE sum(x) == 1 + Points(question.hint = "both", 1)
                      + Points(question.current, 1) + Points(x.depth = "deep", 1)
             m == sum(q)
             n == sum(p)
  <2>1. m \in Int /\ n \in Int /\ m <= n
    BY MoreAsked DEF Points
  <2>2. ToolNeed(question, q) = Clamp(m) /\ ToolNeed(question, p) = Clamp(n)
    BY DEF ToolNeed
  <2> HIDE DEF m, n
  <2>3. QED BY <2>1, <2>2, ClampGrows
<1>4. /\ RiskPoints(question, p) \in 0 .. 5 /\ RiskPoints(question, q) \in 0 .. 5
      /\ RiskPoints(question, q) <= RiskPoints(question, p)
  <2> DEFINE sum(x) == 1 + Points(x.risk = "medium", 1)
                      + Points(x.risk = "high", 3) + Points(question.risky, 2)
             m == sum(q)
             n == sum(p)
  <2>1. m \in Int /\ n \in Int /\ m <= n
    BY MoreAsked DEF Points
  <2>2. RiskPoints(question, q) = Clamp(m) /\ RiskPoints(question, p) = Clamp(n)
    BY DEF RiskPoints
  <2> HIDE DEF m, n
  <2>3. QED BY <2>1, <2>2, ClampGrows
<1>5. /\ AccuracyNeed(question, p) \in 0 .. 5 /\ AccuracyNeed(question, q) \in 0 .. 5
      /\ AccuracyNeed(question, q) <= AccuracyNeed(question, p)
  <2> DEFINE sum(x) == 1 + Points(x.risk = "high", 2)
                      + Points(question.exact, 1) + Points(x.depth = "deep", 1)
             m == sum(q)
             n == sum(p)
  <2>1. m \in Int /\ n \in Int /\ m <= n
    BY MoreAsked DEF Points
  <2>2. AccuracyNeed(question, q) = Clamp(m) /\ AccuracyNeed(question, p) = Clamp(n)
    BY DEF AccuracyNeed
  <2> HIDE DEF m, n
  <2>3. QED BY <2>1, <2>2, ClampGrows
<1>6. QED BY <1>1, <1>2, <1>3, <1>4, <1>5 DEF Total

(* Nor does a report ask for less with more facts. *)
LEMMA WritingGrows ==
  ASSUME NEW text \in Question, NEW p \in Request, NEW q \in Request, AsksMore(p, q),
         NEW m \in Nat, NEW n \in Nat, n <= m
  PROVE  /\ WritingTotal(text, p, m) \in Int /\ WritingTotal(text, q, n) \in Int
         /\ WritingTotal(text, q, n) <= WritingTotal(text, p, m)
<1> DEFINE asked == WritingQuestion(text)
           a == Total(asked, q)
           b == Total(asked, p)
<1>1. asked \in Question
  <2> DEFINE longer == [text EXCEPT !.words = @ + 7]
             hinted == [longer EXCEPT !.hint = "documents"]
  <2>1. longer \in Question
    BY DEF Question
  <2>2. hinted \in Question
    BY <2>1 DEF Question
  <2>3. [hinted EXCEPT !.exact = TRUE] \in Question
    BY <2>2 DEF Question
  <2>4. asked = [hinted EXCEPT !.exact = TRUE]
    BY DEF WritingQuestion, Question
  <2>5. QED BY <2>3, <2>4
<1> HIDE DEF asked
<1>2. a \in Int /\ b \in Int /\ a <= b
  BY <1>1, TotalGrows
<1>3. /\ WritingTotal(text, q, n) = IF n > 8 /\ a < 25 THEN a + 1 ELSE a
      /\ WritingTotal(text, p, m) = IF m > 8 /\ b < 25 THEN b + 1 ELSE b
  BY DEF WritingTotal, asked
<1> HIDE DEF a, b
<1>4. QED BY <1>2, <1>3

LEMMA AskedGrows ==
  ASSUME NEW purpose, NEW text \in Question, NEW p \in Request, NEW q \in Request,
         AsksMore(p, q), NEW m \in Nat, NEW n \in Nat, n <= m
  PROVE  TierRank[TierAsked(purpose, text, q, n)] <= TierRank[TierAsked(purpose, text, p, m)]
<1>1. TierRank[TierOf(Total(text, q))] <= TierRank[TierOf(Total(text, p))]
  BY TotalGrows, TierGrows
<1>2. TierRank[TierOf(WritingTotal(text, q, n))] <= TierRank[TierOf(WritingTotal(text, p, m))]
  BY WritingGrows, TierGrows
<1>3. TierRank[PlanningTier(q)] <= TierRank[PlanningTier(p)]
  BY MoreAsked DEF PlanningTier, TierRank, Depth
<1>4. CASE purpose = "planning"
  BY <1>3, <1>4 DEF TierAsked
<1>5. CASE purpose = "subquestion"
  BY <1>1, <1>5 DEF TierAsked
<1>6. CASE purpose \notin {"planning", "subquestion"}
  BY <1>2, <1>6 DEF TierAsked
<1>7. QED BY <1>4, <1>5, <1>6

-----------------------------------------------------------------------------
(* The states of a run, in which what it has learned is a fraction for each alias
   it has asked about. *)
PreferencesRead == UNION {[aliases -> Fraction] : aliases \in SUBSET ModelName}

RunState ==
  [pc : {"route", "reading", "call", "failed"}, step : Nat \ {0}, spent : Nat,
   attempts : Seq(Name), tier : Tier, remaining : Int, tokens : Nat, todo : SUBSET ModelName,
   preference : PreferencesRead, facts : Nat, alias : ModelName \cup {NoModel},
   calls : Nat]

(* What the initial state settles for good. *)
Settled ==
  /\ settings.maxOutput \in Nat
  /\ \A r \in Run :
       /\ OrderOf(r) \in Request
       /\ order[r].budget \in Nat
       /\ order[r].question \in Question /\ order[r].beginning \in Question
       /\ order[r].purposes \in Seq({"planning", "subquestion", "writing"})

(* What a run asks for at a step. *)
Asks(r, s) ==
  LET purpose == order[r].purposes[s.step]
  IN TierAsked(purpose,
               IF purpose = "writing" THEN order[r].beginning ELSE order[r].question,
               OrderOf(r), s.facts)

(* A run never spends more than its budget, lists an alias once among those it
   learns about, has asked about every eligible model it does not have still to
   ask about, and calls a model of the catalog. *)
RunSound(r, s) ==
  /\ s.spent <= order[r].budget + Allowance
  /\ \A i, j \in 1 .. Len(s.attempts) : s.attempts[i] = s.attempts[j] => i = j
  /\ s.pc \in {"reading", "call"} => s.step \in 1 .. Len(order[r].purposes)
  /\ s.pc = "call" => s.alias # NoModel
  /\ s.pc = "reading" =>
       /\ s.tier = Asks(r, s)
       /\ \A spec \in Eligible(Context(s.remaining, s.tokens), s.tier) :
            spec.alias \in s.todo \cup DOMAIN s.preference

(* Nothing eligible is cheaper than what was chosen. *)
Cheapest(c) ==
  LET eligible == Eligible(Context(c.remaining, c.tokens), c.tier)
  IN IF c.alias = NoModel THEN eligible = {}
     ELSE /\ SpecOf[c.alias] \in eligible
          /\ \A spec \in eligible :
               CostOfChoice(c) <= CostIn(spec, Context(c.remaining, c.tokens))

ChoiceSound(c) ==
  /\ c.tokens \in Nat /\ c.remaining \in Int /\ c.alias \in ModelName \cup {NoModel}
  /\ c.order \in Request /\ c.text \in Question /\ c.facts \in Nat
  /\ c.tier = TierAsked(c.purpose, c.text, c.order, c.facts)
  /\ Cheapest(c)

PolicyInv ==
  /\ Settled
  /\ run \in [Run -> RunState]
  /\ \A r \in Run : RunSound(r, run[r])
  /\ \A c \in choices : ChoiceSound(c)

-----------------------------------------------------------------------------
(* A step changes one run; it is enough to look at that one, and at what it
   chooses. *)
LEMMA OneRun ==
  ASSUME PolicyInv, NEW r \in Run, NEW new \in RunState, RunSound(r, new),
         run' = [run EXCEPT ![r] = new], UNCHANGED <<settings, order>>,
         \A c \in choices' : c \in choices \/ ChoiceSound(c)
  PROVE  PolicyInv'
<1>1. Settled' /\ run' \in [Run -> RunState]
  BY DEF PolicyInv, Settled, OrderOf
<1>2. ASSUME NEW s \in Run PROVE RunSound(s, run[s])'
  <2>1. RunSound(s, run'[s])
    BY DEF PolicyInv
  <2>2. QED BY <2>1 DEF RunSound, Asks, OrderOf, Context
<1>3. ASSUME NEW c \in choices' PROVE ChoiceSound(c)'
  <2>1. ChoiceSound(c)
    BY DEF PolicyInv
  <2>2. QED BY <2>1 DEF ChoiceSound, Cheapest, CostOfChoice, Context
<1>4. QED BY <1>1, <1>2, <1>3 DEF PolicyInv

(* A run that goes on to route, with what it has spent and called. *)
LEMMA GoesOn ==
  ASSUME NEW r \in Run, NEW step \in Nat \ {0}, NEW spent \in Nat, NEW attempts \in Seq(Name),
         spent <= order[r].budget + Allowance,
         \A i, j \in 1 .. Len(attempts) : attempts[i] = attempts[j] => i = j
  PROVE  /\ AtRouting(step, spent, attempts) \in RunState
         /\ RunSound(r, AtRouting(step, spent, attempts))
<1>1. NoPreference \in PreferencesRead
  <2>1. NoPreference \in [{} -> Fraction]
    BY DEF NoPreference
  <2>2. QED BY <2>1 DEF PreferencesRead
<1>2. AtRouting(step, spent, attempts) \in RunState
  BY <1>1 DEF AtRouting, RunState, Tier, DefaultTokens
<1>3. QED BY <1>2 DEF AtRouting, RunSound

(* What a run asks for, as its purposes are listed. *)
LEMMA TierAskedTyped ==
  ASSUME PolicyInv, NEW r \in Run, NEW facts
  PROVE  TierAsked(Purpose(r), TextOf(r), OrderOf(r), facts) \in Tier
BY DEF TierAsked, Tier, TierOf, PlanningTier

LEMMA RouteStep ==
  ASSUME PolicyInv, NEW r \in Run, Route(r)
  PROVE  PolicyInv'
<1> DEFINE remaining == Remaining(r)
           tier(facts) == TierAsked(Purpose(r), TextOf(r), OrderOf(r), facts)
           todo(facts, tokens) ==
             {spec.alias : spec \in Eligible(Context(remaining, tokens), tier(facts))}
           new(facts, tokens) ==
             [run[r] EXCEPT !.pc = "reading", !.tier = tier(facts), !.remaining = remaining,
                            !.tokens = tokens, !.facts = facts, !.todo = todo(facts, tokens)]
<1>1. PICK facts \in FactsFor(r), tokens \in TokensFor(r) :
        run' = [run EXCEPT ![r] = new(facts, tokens)]
  BY DEF Route
<1>2. run[r] \in RunState /\ RunSound(r, run[r]) /\ run[r].pc = "route"
  BY DEF PolicyInv, Route
<1>3. run[r].step \in 1 .. Len(order[r].purposes) /\ Len(order[r].purposes) \in Nat
  BY <1>2 DEF Route, PolicyInv, Settled, RunState
<1>4. facts \in Nat /\ tokens \in Nat
  <2>1. FactCounts \subseteq Nat /\ PlanningTokens \subseteq Nat
    BY PolicyAssumption
  <2>2. QED BY <2>1 DEF FactsFor, TokensFor, DefaultTokens
<1>5. todo(facts, tokens) \in SUBSET ModelName
  BY CatalogFacts DEF Eligible
<1>6. remaining \in Int
  BY <1>2 DEF PolicyInv, Settled, RunState, Remaining
<1>7. tier(facts) \in Tier
  BY TierAskedTyped
<1>8. tier(facts) = TierAsked(order[r].purposes[run[r].step],
                IF order[r].purposes[run[r].step] = "writing" THEN order[r].beginning
                ELSE order[r].question, OrderOf(r), facts)
  BY DEF Purpose, TextOf
<1> HIDE DEF remaining, tier
<1>9. \A spec \in Eligible(Context(remaining, tokens), tier(facts)) :
        spec.alias \in todo(facts, tokens)
  OBVIOUS
<1> HIDE DEF todo
<1>10. /\ new(facts, tokens) \in RunState /\ new(facts, tokens).pc = "reading"
       /\ new(facts, tokens).tier = tier(facts) /\ new(facts, tokens).remaining = remaining
       /\ new(facts, tokens).tokens = tokens /\ new(facts, tokens).facts = facts
       /\ new(facts, tokens).todo = todo(facts, tokens)
       /\ new(facts, tokens).step = run[r].step /\ new(facts, tokens).spent = run[r].spent
       /\ new(facts, tokens).attempts = run[r].attempts
  BY <1>2, <1>4, <1>5, <1>6, <1>7 DEF RunState
<1> HIDE DEF new
<1>11. RunSound(r, new(facts, tokens))
  BY <1>2, <1>3, <1>8, <1>9, <1>10 DEF RunSound, Asks
<1>12. UNCHANGED <<settings, order, choices>>
  BY DEF Route
<1>13. QED BY <1>1, <1>10, <1>11, <1>12, OneRun DEF PolicyInv

(* A preference is a fraction, whatever was learned and whatever a model cost. *)
LEMMA PreferenceFraction ==
  ASSUME NEW row \in Row, NEW points \in Fraction
  PROVE  Preference(row, points) \in Fraction
<1> DEFINE sum == row.scale + row.latency
           s == row.scale
           x == points[1]
           y == points[2]
           den == (s * sum) * y
           num == (5 * row.pass * sum + 2 * s * s) * y + x * (s * sum)
<1>1. row.pass \in Nat /\ s \in Nat \ {0} /\ sum \in Nat \ {0}
  BY DEF Row
<1>2. x \in Nat /\ y \in Nat \ {0}
  BY DEF Fraction
<1>3. den \in Nat \ {0}
  <2>1. \A m, n \in Nat \ {0} : m * n \in Nat \ {0}
    OBVIOUS
  <2> HIDE DEF s, sum, y
  <2>2. s * sum \in Nat \ {0}
    BY <2>1, <1>1
  <2>3. QED BY <2>1, <2>2, <1>2
<1>4. num \in Nat
  <2> HIDE DEF s, sum, x, y
  <2>1. \A a, b \in Nat : a * b \in Nat /\ a + b \in Nat
    OBVIOUS
  <2>2. 5 * row.pass \in Nat /\ 2 * s \in Nat /\ s * sum \in Nat
    BY <1>1, <2>1
  <2>3. (5 * row.pass) * sum \in Nat /\ (2 * s) * s \in Nat /\ x * (s * sum) \in Nat
    BY <1>1, <1>2, <2>1, <2>2
  <2>4. (5 * row.pass * sum + 2 * s * s) * y \in Nat
    BY <1>2, <2>1, <2>3
  <2>5. QED BY <2>1, <2>3, <2>4
<1>5. Preference(row, points) = IF row.samples = 0 THEN <<0, 1>> ELSE <<num, den>>
  BY DEF Preference
<1> HIDE DEF num, den
<1>6. QED BY <1>3, <1>4, <1>5 DEF Fraction

LEMMA ReadStep ==
  ASSUME PolicyInv, LearnTyped, NEW r \in Run, ReadPreference(r)
  PROVE  PolicyInv'
<1>0. PICK i \in DOMAIN Catalog :
        \E points \in PointsOf(Catalog[i].alias) :
          run' = [run EXCEPT
             ![r].todo = @ \ {Catalog[i].alias},
             ![r].preference = WithPreference(@, Catalog[i].alias, points)]
  BY DEF ReadPreference
<1>1. PICK points \in PointsOf(Catalog[i].alias) :
        run' = [run EXCEPT
             ![r].todo = @ \ {Catalog[i].alias},
             ![r].preference = WithPreference(@, Catalog[i].alias, points)]
  BY <1>0
<1> DEFINE a == Catalog[i].alias
           old == run[r].preference
           preference == WithPreference(old, a, points)
           new == [run[r] EXCEPT !.todo = @ \ {a}, !.preference = preference]
<1>2. run[r] \in RunState /\ RunSound(r, run[r]) /\ run[r].pc = "reading"
  BY DEF PolicyInv, ReadPreference
<1>3. PICK aliases \in SUBSET ModelName : old \in [aliases -> Fraction]
  BY <1>2 DEF RunState, PreferencesRead
<1>4. a \in ModelName /\ Preference(learn[a], points) \in Fraction
  <2>1. points \in Fraction
    BY PolicyAssumption DEF PointsOf, Fraction
  <2>2. a \in ModelName /\ learn[a] \in Row
    BY PolicyAssumption DEF LearnTyped, ModelName
  <2>3. QED BY <2>1, <2>2, PreferenceFraction
<1>5. preference = [b \in {a} \cup aliases |->
                      IF b = a THEN Preference(learn[a], points) ELSE old[b]]
  BY <1>3 DEF WithPreference
<1> HIDE DEF preference
<1>6. preference \in [{a} \cup aliases -> Fraction] /\ DOMAIN preference = {a} \cup DOMAIN old
  BY <1>3, <1>4, <1>5
<1>7. preference \in PreferencesRead
  <2>1. {a} \cup aliases \in SUBSET ModelName
    BY <1>4
  <2>2. QED BY <2>1, <1>6 DEF PreferencesRead
<1>8. run' = [run EXCEPT ![r] = new]
  BY <1>1, <1>2 DEF PolicyInv, RunState, preference
<1>9. /\ new \in RunState /\ new.pc = "reading" /\ new.tier = run[r].tier
      /\ new.remaining = run[r].remaining /\ new.tokens = run[r].tokens
      /\ new.todo = run[r].todo \ {a} /\ new.preference = preference
      /\ new.step = run[r].step /\ new.spent = run[r].spent
      /\ new.attempts = run[r].attempts /\ new.facts = run[r].facts
  BY <1>2, <1>7 DEF RunState
<1> HIDE DEF new, a
<1>10. RunSound(r, new)
  BY <1>2, <1>6, <1>9 DEF RunSound, Asks
<1>11. UNCHANGED <<settings, order, choices>>
  BY DEF ReadPreference
<1>12. QED BY <1>8, <1>9, <1>10, <1>11, OneRun DEF PolicyInv

(* A run that fails has spent what it had spent. *)
LEMMA FailStep ==
  ASSUME PolicyInv, NEW r \in Run, PreferenceFails(r)
  PROVE  PolicyInv'
<1> DEFINE new == [run[r] EXCEPT !.pc = "failed"]
<1>1. run[r] \in RunState /\ RunSound(r, run[r])
  BY DEF PolicyInv
<1>2. /\ new \in RunState /\ new.pc = "failed" /\ new.spent = run[r].spent
      /\ new.attempts = run[r].attempts
  BY <1>1 DEF RunState
<1>3. run' = [run EXCEPT ![r] = new] /\ UNCHANGED <<settings, order, choices>>
  BY DEF PreferenceFails
<1> HIDE DEF new
<1>4. RunSound(r, new)
  BY <1>1, <1>2 DEF RunSound
<1>5. QED BY <1>2, <1>3, <1>4, OneRun

LEMMA ChooseStep ==
  ASSUME PolicyInv, NEW r \in Run, Choose(r)
  PROVE  PolicyInv'
<1> DEFINE s == run[r]
           ctx == ContextOf(r)
           alias == Select(ctx, s.tier, s.preference)
           goes == alias = NoModel \/ (Purpose(r) = "writing" /\ s.facts = 0)
           here == AtRouting(s.step, s.spent, s.attempts)
           next == AtRouting(s.step + 1, s.spent, s.attempts)
           call == [here EXCEPT !.pc = "call", !.alias = alias]
           new == IF goes THEN next ELSE call
           choice == [purpose |-> Purpose(r), order |-> OrderOf(r), tier |-> s.tier,
                      text |-> TextOf(r), facts |-> s.facts, tokens |-> s.tokens,
                      remaining |-> s.remaining, alias |-> alias]
<1>1. /\ s \in RunState /\ RunSound(r, s) /\ s.pc = "reading" /\ s.todo = {}
      /\ run' = [run EXCEPT ![r] = new] /\ choices' = choices \cup {choice}
      /\ UNCHANGED <<settings, order>>
  BY DEF PolicyInv, Choose, NextPurpose
<1>2. /\ s.step \in 1 .. Len(order[r].purposes) /\ s.step \in Nat \ {0}
      /\ s.tokens \in Nat /\ s.remaining \in Int /\ s.spent \in Nat /\ s.attempts \in Seq(Name)
      /\ s.spent <= order[r].budget + Allowance
      /\ \A i, j \in 1 .. Len(s.attempts) : s.attempts[i] = s.attempts[j] => i = j
  BY <1>1 DEF RunSound, RunState
<1>3. ctx.tokens \in Nat /\ ctx.maxOutput \in Nat /\ ctx = Context(s.remaining, s.tokens)
  BY <1>2 DEF ContextOf, Context, PolicyInv, Settled
<1>4. Known(Eligible(ctx, s.tier), s.preference)
  <2>1. \A spec \in Eligible(ctx, s.tier) : spec.alias \in DOMAIN s.preference
    BY <1>1, <1>3 DEF RunSound
  <2>2. PICK aliases : s.preference \in [aliases -> Fraction]
    BY <1>1 DEF RunState, PreferencesRead
  <2>3. QED BY <2>1, <2>2 DEF Known
<1>5. IF alias = NoModel THEN Eligible(ctx, s.tier) = {}
      ELSE /\ alias \in ModelName /\ SpecOf[alias] \in Eligible(ctx, s.tier)
           /\ \A spec \in Eligible(ctx, s.tier) :
                CostIn(SpecOf[alias], ctx) <= CostIn(spec, ctx)
  <2> HIDE DEF ctx
  <2>1. QED BY <1>3, <1>4, SelectsCheapest
<1> HIDE DEF ctx, alias
<1>6. ChoiceSound(choice)
  <2>1. /\ choice.purpose = Purpose(r) /\ choice.order = OrderOf(r) /\ choice.tier = s.tier
        /\ choice.text = TextOf(r) /\ choice.facts = s.facts /\ choice.tokens = s.tokens
        /\ choice.remaining = s.remaining /\ choice.alias = alias
    OBVIOUS
  <2> HIDE DEF choice
  <2>2. Cheapest(choice)
    BY <1>3, <1>5, <2>1 DEF Cheapest, CostOfChoice
  <2>3. OrderOf(r) \in Request /\ TextOf(r) \in Question /\ s.facts \in Nat
    BY <1>1 DEF PolicyInv, Settled, TextOf, RunState
  <2>4. s.tier = TierAsked(Purpose(r), TextOf(r), OrderOf(r), s.facts)
    BY <1>1 DEF RunSound, Asks, Purpose, TextOf
  <2>5. QED BY <1>2, <1>5, <2>1, <2>2, <2>3, <2>4 DEF ChoiceSound
<1>7. new \in RunState /\ RunSound(r, new)
  <2>1. /\ here \in RunState /\ RunSound(r, here) /\ next \in RunState /\ RunSound(r, next)
    <3>1. s.step + 1 \in Nat \ {0}
      BY <1>2
    <3>2. QED BY <1>2, <3>1, GoesOn
  <2>2. here.step = s.step
    BY DEF AtRouting
  <2> HIDE DEF here, next
  <2>3. CASE goes
    BY <2>1, <2>3
  <2>4. CASE ~goes
    <3>1. alias \in ModelName /\ alias # NoModel
      BY <1>5, <2>4
    <3>2. /\ call \in RunState /\ call.pc = "call" /\ call.alias = alias
          /\ call.step = s.step /\ call.spent = here.spent /\ call.attempts = here.attempts
      BY <2>1, <2>2, <3>1 DEF RunState
    <3> HIDE DEF call
    <3>3. RunSound(r, call)
      BY <1>2, <2>1, <3>1, <3>2 DEF RunSound
    <3>4. QED BY <2>4, <3>2, <3>3
  <2>5. QED BY <2>3, <2>4
<1> HIDE DEF new, choice
<1>8. \A c \in choices' : c \in choices \/ ChoiceSound(c)
  BY <1>1, <1>6
<1>9. QED BY <1>1, <1>7, <1>8, OneRun

(* After a call, or instead of it, with what the run has spent and called then. *)
LEMMA CallOver ==
  ASSUME PolicyInv, NEW r \in Run, run[r].pc = "call", NEW spent \in Nat,
         NEW attempts \in Seq(Name),
         spent <= order[r].budget + Allowance,
         \A i, j \in 1 .. Len(attempts) : attempts[i] = attempts[j] => i = j,
         run' = [run EXCEPT ![r] = AfterCall(r, spent, attempts)] \/
           run' = [run EXCEPT ![r] = AtRouting(run[r].step + 1, spent, attempts)],
         UNCHANGED <<settings, order, choices>>
  PROVE  PolicyInv'
<1> DEFINE next == AtRouting(run[r].step + 1, spent, attempts)
           same == [run[r] EXCEPT !.calls = @ + 1, !.spent = spent, !.attempts = attempts]
<1>1. run[r] \in RunState /\ RunSound(r, run[r])
  BY DEF PolicyInv
<1>2. next \in RunState /\ RunSound(r, next)
  <2>1. run[r].step + 1 \in Nat \ {0}
    BY <1>1 DEF RunState
  <2>2. QED BY <2>1, GoesOn
<1>3. same \in RunState /\ RunSound(r, same)
  <2>1. /\ same \in RunState /\ same.pc = "call" /\ same.step = run[r].step
        /\ same.spent = spent /\ same.attempts = attempts /\ same.alias = run[r].alias
    <3>1. run[r].calls + 1 \in Nat /\ run[r].pc = "call"
      BY <1>1 DEF RunState
    <3>2. [run[r] EXCEPT !.calls = @ + 1] \in RunState
      BY <1>1, <3>1 DEF RunState
    <3>3. QED BY <1>1, <3>1, <3>2 DEF RunState
  <2> HIDE DEF same
  <2>2. QED BY <1>1, <2>1 DEF RunSound
<1>4. run' = [run EXCEPT ![r] = next] \/ run' = [run EXCEPT ![r] = same]
  BY DEF AfterCall
<1> HIDE DEF next, same
<1>5. QED BY <1>2, <1>3, <1>4, OneRun

LEMMA CallSteps ==
  ASSUME PolicyInv, NEW r \in Run, NotCalled(r) \/ CallRefused(r) \/ CallFails(r)
  PROVE  PolicyInv'
<1>1. /\ run[r] \in RunState /\ RunSound(r, run[r]) /\ run[r].pc = "call"
      /\ UNCHANGED <<settings, order, choices>>
      /\ \/ run' = [run EXCEPT ![r] = AfterCall(r, run[r].spent, run[r].attempts)]
         \/ run' = [run EXCEPT ![r] =
                      AtRouting(run[r].step + 1, run[r].spent, run[r].attempts)]
  BY DEF NotCalled, CallRefused, CallFails, PolicyInv, NextPurpose
<1>2. /\ run[r].spent \in Nat /\ run[r].attempts \in Seq(Name)
      /\ run[r].spent <= order[r].budget + Allowance
      /\ \A i, j \in 1 .. Len(run[r].attempts) :
           run[r].attempts[i] = run[r].attempts[j] => i = j
  BY <1>1 DEF RunState, RunSound
<1>3. QED BY <1>1, <1>2, CallOver

(* An alias that is not in the list yet can be added to it. *)
LEMMA AddedOnce ==
  ASSUME NEW list \in Seq(Name), \A i, j \in 1 .. Len(list) : list[i] = list[j] => i = j,
         NEW a \in Name, a \notin ToSet(list)
  PROVE  /\ Append(list, a) \in Seq(Name)
         /\ \A i, j \in 1 .. Len(Append(list, a)) :
              Append(list, a)[i] = Append(list, a)[j] => i = j
<1> DEFINE more == Append(list, a)
           n == Len(list)
<1>1. /\ n \in Nat /\ more \in Seq(Name) /\ Len(more) = n + 1 /\ more[n + 1] = a
      /\ \A i \in 1 .. n : more[i] = list[i]
  OBVIOUS
<1>2. \A i \in 1 .. n : list[i] # a
  BY DEF ToSet
<1> HIDE DEF more
<1>3. ASSUME NEW i \in 1 .. Len(more), NEW j \in 1 .. Len(more), more[i] = more[j]
      PROVE  i = j
  <2>1. CASE i \in 1 .. n /\ j \in 1 .. n
    BY <1>1, <1>3, <2>1
  <2>2. CASE i = n + 1 /\ j = n + 1
    BY <2>2
  <2>3. CASE (i = n + 1 /\ j \in 1 .. n) \/ (i \in 1 .. n /\ j = n + 1)
    BY <1>1, <1>2, <1>3, <2>3
  <2>4. QED BY <1>1, <2>1, <2>2, <2>3
<1>4. QED BY <1>1, <1>3

(* The charge is at most what the call was allowed to cost. *)
LEMMA AnswerStep ==
  ASSUME PolicyInv, NEW r \in Run, CallAnswers(r)
  PROVE  PolicyInv'
<1> DEFINE s == run[r]
           spec == SpecOf[s.alias]
           list == s.attempts
<1>1. /\ s \in RunState /\ RunSound(r, s) /\ s.pc = "call"
      /\ UNCHANGED <<settings, order, choices>>
  BY DEF CallAnswers, PolicyInv
<1>2. PICK tokens \in PromptTokens, usage \in Usages :
        LET worst == WorstCost(spec, tokens)
            actual == ProjectedCost(spec, UsageTokens(usage[1], tokens),
                                    UsageTokens(usage[2], 1))
        IN /\ worst <= (order[r].budget - s.spent) + Allowance
           /\ run' = [run EXCEPT ![r] =
                AfterCall(r, s.spent + Charged(worst, actual), Attempts(r))]
  BY DEF CallAnswers
<1> DEFINE worst == WorstCost(spec, tokens)
           actual == ProjectedCost(spec, UsageTokens(usage[1], tokens),
                                   UsageTokens(usage[2], 1))
           spent == s.spent + Charged(worst, actual)
<1>3. /\ s.alias \in Name
      /\ spec.input \in Nat /\ spec.output \in Nat
  <2>1. s.alias \in ModelName
    BY <1>1 DEF RunState, RunSound
  <2>2. spec \in ToSet(Catalog) /\ spec.alias = s.alias
    BY <2>1, CatalogFacts
  <2>3. QED BY <2>1, <2>2, CatalogFacts, PolicyAssumption
<1>4. worst \in Nat /\ actual \in Nat
  <2>1. tokens \in Nat /\ usage[1] \in Nat /\ usage[2] \in Nat /\ settings.maxOutput \in Nat
    BY PolicyAssumption DEF PolicyInv, Settled
  <2>2. UsageTokens(usage[1], tokens) \in Nat /\ UsageTokens(usage[2], 1) \in Nat
    BY <2>1 DEF UsageTokens
  <2>3. \A m, n \in Nat : ProjectedCost(spec, m, n) \in Nat
    <3>1. \A i, j, m, n \in Nat : m * i + n * j \in Nat
      OBVIOUS
    <3>2. QED BY <1>3, <3>1 DEF ProjectedCost
  <2> HIDE DEF spec
  <2>4. QED BY <2>1, <2>2, <2>3 DEF WorstCost
<1>5. /\ s.spent \in Nat /\ list \in Seq(Name) /\ order[r].budget \in Nat
      /\ \A i, j \in 1 .. Len(list) : list[i] = list[j] => i = j
  BY <1>1 DEF RunState, RunSound, PolicyInv, Settled
<1>6. worst <= (order[r].budget - s.spent) + Allowance
  BY <1>2
<1>7. run' = [run EXCEPT ![r] = AfterCall(r, spent, Attempts(r))]
  BY <1>2
<1> HIDE DEF worst, actual, spec
<1>8. spent \in Nat /\ spent <= order[r].budget + Allowance
  <2>1. Charged(worst, actual) \in Nat /\ Charged(worst, actual) <= worst
    BY <1>4 DEF Charged
  <2> DEFINE charged == Charged(worst, actual)
             budget == order[r].budget
             before == s.spent
  <2>2. charged \in Nat /\ charged <= worst /\ spent = before + charged
    BY <2>1
  <2>3. budget \in Nat /\ before \in Nat /\ worst <= (budget - before) + Allowance
    BY <1>5, <1>6
  <2> HIDE DEF charged, budget, before, spent
  <2>4. spent \in Nat /\ spent <= budget + Allowance
    BY <1>4, <2>2, <2>3, CatalogAssumption
  <2>5. QED BY <2>4 DEF budget
<1>9. /\ Attempts(r) \in Seq(Name)
      /\ \A i, j \in 1 .. Len(Attempts(r)) : Attempts(r)[i] = Attempts(r)[j] => i = j
  <2>1. CASE Attempts(r) = list
    BY <1>5, <2>1
  <2>2. CASE Attempts(r) = Append(list, s.alias) /\ s.alias \notin ToSet(list)
    BY <1>3, <1>5, <2>2, AddedOnce
  <2>3. QED BY <2>1, <2>2 DEF Attempts
<1> HIDE DEF spent
<1>10. QED BY <1>1, <1>7, <1>8, <1>9, CallOver

-----------------------------------------------------------------------------
LEMMA PolicyStarts == PolicyInit => PolicyInv
<1> SUFFICES ASSUME PolicyInit PROVE PolicyInv
  OBVIOUS
<1>1. PICK start \in Starts : settings = start.settings /\ order = start.order
  BY DEF PolicyInit
<1>2. Settled
  BY <1>1, PolicyAssumption DEF Settled, OrderOf, Request
<1>3. ASSUME NEW r \in Run
      PROVE  AtRouting(1, 0, <<>>) \in RunState /\ RunSound(r, AtRouting(1, 0, <<>>))
  <2>1. 0 <= order[r].budget + Allowance
    BY <1>2, CatalogAssumption DEF Settled
  <2> DEFINE none == <<>>
  <2>2. none \in Seq(Name) /\ \A i, j \in 1 .. Len(none) : none[i] = none[j] => i = j
    OBVIOUS
  <2> HIDE DEF none
  <2>3. AtRouting(1, 0, none) \in RunState /\ RunSound(r, AtRouting(1, 0, none))
    BY <2>1, <2>2, GoesOn
  <2>4. QED BY <2>3 DEF none
<1>4. QED BY <1>2, <1>3 DEF PolicyInv, PolicyInit

(* What a run does is, for the averages, a step of LearningStore or none. *)
LEMMA RunLearns ==
  ASSUME PolicyInv, [PolicyNext]_policyVars
  PROVE  [LearnNext]_learnVars
<1>1. ASSUME NEW r \in Run, PolicyStep(r) PROVE [LearnNext]_learnVars
  <2>1. CASE Learn(r)
    <3>1. PICK passed \in BOOLEAN : BeginLearning(r, run[r].attempts, passed)
      BY <2>1 DEF Learn
    <3>2. /\ run[r].attempts \in Seq(Name)
          /\ \A i, j \in DOMAIN run[r].attempts :
               run[r].attempts[i] = run[r].attempts[j] => i = j
      <4>1. /\ run[r].attempts \in Seq(Name)
            /\ \A i, j \in 1 .. Len(run[r].attempts) :
                 run[r].attempts[i] = run[r].attempts[j] => i = j
        BY DEF PolicyInv, RunState, RunSound
      <4>2. DOMAIN run[r].attempts = 1 .. Len(run[r].attempts)
        BY <4>1
      <4>3. QED BY <4>1, <4>2
    <3>3. QED BY <3>1, <3>2 DEF LearnNext
  <2>2. CASE LearnStep(r)
    BY <2>2 DEF LearnNext
  <2>3. CASE UNCHANGED learnVars
    BY <2>3
  <2>4. QED
    BY <1>1, <2>1, <2>2, <2>3
       DEF PolicyStep, Route, ReadPreference, PreferenceFails, Choose, NotCalled,
           CallRefused, CallFails, CallAnswers
<1>2. CASE UNCHANGED policyVars
  BY <1>2 DEF policyVars, learnVars
<1>3. QED BY <1>1, <1>2 DEF PolicyNext, Completed

LEMMA PolicySteps ==
  ASSUME PolicyInv, LearnTyped, [PolicyNext]_policyVars
  PROVE  PolicyInv'
<1>1. CASE UNCHANGED <<settings, order, run, choices>>
  <2>1. Settled' /\ run' \in [Run -> RunState]
    BY <1>1 DEF PolicyInv, Settled, OrderOf
  <2>2. ASSUME NEW r \in Run PROVE RunSound(r, run[r])'
    <3>1. RunSound(r, run[r])
      BY DEF PolicyInv
    <3>2. QED BY <1>1, <3>1 DEF RunSound, Asks, OrderOf, Context
  <2>3. ASSUME NEW c \in choices' PROVE ChoiceSound(c)'
    <3>1. ChoiceSound(c)
      BY <1>1 DEF PolicyInv
    <3>2. QED BY <1>1, <3>1 DEF ChoiceSound, Cheapest, CostOfChoice, Context
  <2>4. QED BY <2>1, <2>2, <2>3 DEF PolicyInv
<1>2. ASSUME NEW r \in Run, PolicyStep(r) PROVE PolicyInv'
  BY <1>1, <1>2, RouteStep, ReadStep, FailStep, ChooseStep, CallSteps, AnswerStep DEF PolicyStep, Learn
<1>3. QED BY <1>1, <1>2 DEF PolicyNext, Completed, policyVars

(* The invariant, together with that of the averages. *)
THEOREM PolicyInvariant == PolicySpec => [](PolicyInv /\ LearnInv)
<1>1. PolicyInit => PolicyInv /\ LearnInv
  BY PolicyStarts, InitLearn DEF PolicyInit
<1>2. PolicyInv /\ LearnInv /\ [PolicyNext]_policyVars => (PolicyInv /\ LearnInv)'
  <2>1. LearnInv /\ [LearnNext]_learnVars => LearnInv'
    BY LearnSteps
  <2>2. QED BY <2>1, PolicySteps, RunLearns DEF LearnInv
<1>3. QED BY <1>1, <1>2, PTL DEF PolicySpec

-----------------------------------------------------------------------------
(* What the node of a run has still to do. *)
Left(r) == {learner[r].todo[i] : i \in FirstLeft(r) .. Len(learner[r].todo)}

(* The node is at work only when the run has nothing else to do.  It has stored, or
   has still to do, each of the models that were called, and no other; when it is
   done without a warning none is left. *)
LearnedSoFar(r) ==
  LET called == ToSet(run[r].attempts)
  IN /\ learner[r].pc # "idle" =>
          run[r].pc = "route" /\ run[r].step > Len(order[r].purposes)
     /\ Stored(r) \subseteq called
     /\ Busy(r) => Left(r) \subseteq called /\ called \subseteq Stored(r) \cup Left(r)
     /\ learner[r].pc = "done" /\ ~learner[r].warned => called \subseteq Stored(r)

LearnedInv == \A r \in Run : LearnedSoFar(r)

(* A run whose node is not yet at work may do anything. *)
LEMMA OthersLearned ==
  ASSUME PolicyInv, LearnInv, LearnedInv, NEW r \in Run, learner[r].pc = "idle", NEW new,
         run' = [run EXCEPT ![r] = new], UNCHANGED <<order, learnVars>>
  PROVE  LearnedInv'
<1>1. ASSUME NEW s \in Run, s # r PROVE LearnedSoFar(s)'
  <2>1. LearnedSoFar(s) /\ run'[s] = run[s]
    BY <1>1 DEF LearnedInv, PolicyInv
  <2>2. QED BY <2>1 DEF LearnedSoFar, Left, Stored, Busy, FirstLeft, learnVars
<1>2. LearnedSoFar(r)'
  <2>1. learner'[r].pc = "idle" /\ stored' = stored
    BY DEF learnVars
  <2>2. Stored(r)' = {}
    BY <2>1 DEF LearnInv, Orderly, Stored
  <2>3. QED BY <2>1, <2>2 DEF LearnedSoFar, Busy
<1>3. QED BY <1>1, <1>2 DEF LearnedInv

(* The node's first step. *)
LEMMA LearnedBegins ==
  ASSUME PolicyInv, LearnInv, LearnedInv, NEW r \in Run, Learn(r)
  PROVE  LearnedSoFar(r)'
<1> DEFINE list == run[r].attempts
<1>1. PICK passed \in BOOLEAN : BeginLearning(r, list, passed)
  BY DEF Learn
<1>2. /\ run' = run /\ order' = order /\ stored' = stored /\ learner[r].pc = "idle"
      /\ run[r].pc = "route" /\ run[r].step > Len(order[r].purposes)
  BY <1>1 DEF Learn, BeginLearning
<1>3. learner'[r].todo = list /\ learner'[r].pc = IF list = <<>> THEN "done" ELSE "read"
  BY <1>1 DEF BeginLearning, LearnInv, LearnTyped, Learner
<1>4. Stored(r)' = {}
  BY <1>2 DEF LearnInv, Orderly, Stored
<1>5. list \in Seq(Name) /\ (list = <<>> => ToSet(list) = {})
  BY DEF PolicyInv, RunState, ToSet
<1>6. CASE list = <<>>
  BY <1>2, <1>3, <1>4, <1>5, <1>6 DEF LearnedSoFar, Busy
<1>7. CASE list # <<>>
  <2>1. Left(r)' = {list[i] : i \in 1 .. Len(list)}
    BY <1>3, <1>7 DEF Left, FirstLeft
  <2>2. Left(r)' = ToSet(list)
    BY <1>5, <2>1 DEF ToSet
  <2>3. QED BY <1>2, <1>3, <1>4, <1>7, <2>2 DEF LearnedSoFar, Busy
<1>8. QED BY <1>6, <1>7

(* Its other steps: an alias is stored before it is given up. *)
LEMMA LearnedGoesOn ==
  ASSUME PolicyInv, LearnInv, LearnedInv, NEW r \in Run, LearnStep(r), UNCHANGED <<run, order>>
  PROVE  LearnedSoFar(r)'
<1> DEFINE todo == learner[r].todo
           called == ToSet(run[r].attempts)
<1>1. /\ learner \in [Run -> Learner] /\ learner[r] \in Learner /\ todo \in Seq(Name)
      /\ stored \in [Name -> SUBSET Run] /\ (Busy(r) => todo # <<>>)
  BY DEF LearnInv, LearnTyped, Learner, Orderly
<1>2. LearnedSoFar(r)
  BY DEF LearnedInv
<1>3. CASE ReadRow(r)
  <2>1. /\ learner[r].pc = "read" /\ learner'[r].pc = "write" /\ learner'[r].todo = todo
        /\ stored' = stored
    BY <1>1, <1>3 DEF ReadRow, Learner
  <2>2. Left(r)' = Left(r) /\ Stored(r)' = Stored(r)
    BY <2>1 DEF Left, FirstLeft, Stored
  <2>3. QED BY <1>2, <2>1, <2>2 DEF LearnedSoFar, Busy
<1>4. CASE WriteRow(r)
  <2> DEFINE a == Head(todo)
  <2>1. /\ learner[r].pc = "write" /\ learner'[r].pc = "back" /\ learner'[r].todo = todo
        /\ stored' = [stored EXCEPT ![a] = @ \cup {r}]
    BY <1>1, <1>4 DEF WriteRow, Learner
  <2>2. /\ Len(todo) \in Nat /\ Len(todo) >= 1 /\ a = todo[1] /\ a \in Name
    BY <1>1, <2>1 DEF Busy
  <2>3. Stored(r)' = Stored(r) \cup {a}
    BY <1>1, <2>1, <2>2 DEF Stored
  <2>4. Left(r) = {todo[i] : i \in 1 .. Len(todo)}
    BY <2>1 DEF Left, FirstLeft
  <2>5. Left(r)' = {todo[i] : i \in 2 .. Len(todo)}
    BY <2>1 DEF Left, FirstLeft
  <2>6. Left(r) = Left(r)' \cup {a}
    <3> HIDE DEF todo, a
    <3>1. 1 .. Len(todo) = {1} \cup (2 .. Len(todo))
      BY <2>2
    <3>2. QED BY <2>2, <2>4, <2>5, <3>1
  <2>7. QED BY <1>2, <2>1, <2>3, <2>6 DEF LearnedSoFar, Busy
<1>5. CASE ReadBack(r)
  <2>1. /\ learner[r].pc = "back" /\ learner'[r].todo = Tail(todo) /\ stored' = stored
        /\ learner'[r].pc = IF Len(todo) = 1 THEN "done" ELSE "read"
        /\ learner'[r].warned = learner[r].warned
    BY <1>1, <1>5 DEF ReadBack, Learner
  <2>2. /\ Len(todo) \in Nat /\ Len(todo) >= 1 /\ Len(Tail(todo)) = Len(todo) - 1
        /\ \A i \in 1 .. Len(todo) - 1 : Tail(todo)[i] = todo[i + 1]
    BY <1>1, <2>1 DEF Busy
  <2>3. Left(r) = {todo[i] : i \in 2 .. Len(todo)} /\ Stored(r)' = Stored(r)
    BY <2>1 DEF Left, FirstLeft, Stored
  <2>4. Busy(r)
    BY <2>1 DEF Busy
  <2>5. CASE Len(todo) = 1
    <3>1. Left(r) = {}
      BY <2>3, <2>5
    <3>2. QED BY <1>2, <2>1, <2>3, <2>4, <2>5, <3>1 DEF LearnedSoFar, Busy
  <2>6. CASE Len(todo) # 1
    <3>1. Left(r)' = {Tail(todo)[i] : i \in 1 .. Len(todo) - 1}
      BY <2>1, <2>2, <2>6 DEF Left, FirstLeft
    <3>2. Left(r)' = Left(r)
      <4> HIDE DEF todo
      <4>1. \A i \in 1 .. Len(todo) - 1 : i + 1 \in 2 .. Len(todo)
        BY <2>2
      <4>2. \A i \in 2 .. Len(todo) : i - 1 \in 1 .. Len(todo) - 1 /\ (i - 1) + 1 = i
        BY <2>2
      <4>3. Left(r)' \subseteq Left(r)
        BY <2>2, <2>3, <3>1, <4>1
      <4>4. Left(r) \subseteq Left(r)'
        BY <2>2, <2>3, <3>1, <4>2
      <4>5. QED BY <4>3, <4>4
    <3>3. QED BY <1>2, <2>1, <2>3, <2>4, <2>6, <3>2 DEF LearnedSoFar, Busy
  <2>7. QED BY <2>5, <2>6
<1>6. CASE StoreFails(r)
  <2>1. /\ Busy(r) /\ learner'[r].pc = "done" /\ learner'[r].warned /\ stored' = stored
    BY <1>1, <1>6 DEF StoreFails, Busy, Learner
  <2>2. Stored(r)' = Stored(r)
    BY <2>1 DEF Stored
  <2>3. QED BY <1>2, <2>1, <2>2 DEF LearnedSoFar, Busy
<1>7. QED BY <1>3, <1>4, <1>5, <1>6 DEF LearnStep

(* A step of the node writes for its own run only. *)
LEMMA OthersStored ==
  ASSUME PolicyInv, LearnInv, LearnedInv, NEW r \in Run, UNCHANGED <<run, order>>,
         Learn(r) \/ LearnStep(r), NEW s \in Run, s # r
  PROVE  LearnedSoFar(s)'
<1>1. learner \in [Run -> Learner] /\ stored \in [Name -> SUBSET Run]
  BY DEF LearnInv, LearnTyped
<1>2. learner'[s] = learner[s]
  BY <1>1 DEF Learn, BeginLearning, LearnStep, ReadRow, WriteRow, ReadBack, StoreFails
<1>3. Stored(s)' = Stored(s)
  <2>1. CASE WriteRow(r)
    <3>1. \A a \in Name : s \in stored'[a] <=> s \in stored[a]
      BY <1>1, <2>1 DEF WriteRow
    <3>2. QED BY <3>1 DEF Stored
  <2>2. CASE stored' = stored
    BY <2>2 DEF Stored
  <2>3. QED
    BY <2>1, <2>2 DEF Learn, BeginLearning, LearnStep, ReadRow, ReadBack, StoreFails
<1>4. LearnedSoFar(s)
  BY DEF LearnedInv
<1>5. QED BY <1>2, <1>3, <1>4 DEF LearnedSoFar, Left, Busy, FirstLeft

LEMMA LearnedStarts == PolicyInit => LearnedInv
<1> SUFFICES ASSUME PolicyInit, NEW r \in Run PROVE LearnedSoFar(r)
  BY DEF LearnedInv
<1>1. learner[r].pc = "idle" /\ Stored(r) = {}
  BY DEF PolicyInit, LearnInit, Stored
<1>2. QED BY <1>1 DEF LearnedSoFar, Busy

LEMMA LearnedSteps ==
  ASSUME PolicyInv, LearnInv, LearnedInv, [PolicyNext]_policyVars
  PROVE  LearnedInv'
<1>1. ASSUME NEW r \in Run, PolicyStep(r) PROVE LearnedInv'
  <2>1. CASE Learn(r) \/ (LearnStep(r) /\ UNCHANGED <<settings, order, run, choices>>)
    <3>1. UNCHANGED <<run, order>> /\ (Learn(r) \/ LearnStep(r))
      BY <2>1 DEF Learn
    <3>2. LearnedSoFar(r)'
      BY <3>1, LearnedBegins, LearnedGoesOn
    <3>3. \A s \in Run : s # r => LearnedSoFar(s)'
      BY <3>1, OthersStored
    <3>4. QED BY <3>2, <3>3 DEF LearnedInv
  <2>2. CASE ~(Learn(r) \/ (LearnStep(r) /\ UNCHANGED <<settings, order, run, choices>>))
    <3>1. /\ UNCHANGED <<order, learnVars>>
          /\ run[r].pc # "route" \/ run[r].step <= Len(order[r].purposes)
      BY <1>1, <2>2
         DEF PolicyStep, Route, ReadPreference, PreferenceFails, Choose, NotCalled,
             CallRefused, CallFails, CallAnswers
    <3>2. \E new : run' = [run EXCEPT ![r] = new]
      BY <1>1, <2>2
         DEF PolicyStep, Route, ReadPreference, PreferenceFails, Choose, NotCalled,
             CallRefused, CallFails, CallAnswers
    <3>3. learner[r].pc = "idle"
      <4>1. run[r].step \in Nat /\ Len(order[r].purposes) \in Nat
        BY DEF PolicyInv, RunState, Settled
      <4>2. LearnedSoFar(r)
        BY DEF LearnedInv
      <4>3. QED BY <3>1, <4>1, <4>2 DEF LearnedSoFar
    <3>4. QED BY <3>1, <3>2, <3>3, OthersLearned
  <2>3. QED BY <2>1, <2>2
<1>2. CASE UNCHANGED policyVars
  BY <1>2 DEF policyVars, learnVars, LearnedInv, LearnedSoFar, Left, Stored, Busy, FirstLeft
<1>3. QED BY <1>1, <1>2 DEF PolicyNext, Completed

(* What a run tells about learning is true, whatever the store does to it and
   however the runs interleave. *)
THEOREM LearnedSafe == PolicySpec => []LearnedUnlessWarned
<1>1. PolicyInit => LearnedInv
  BY LearnedStarts
<1>2. PolicyInv /\ LearnInv /\ LearnedInv /\ [PolicyNext]_policyVars => LearnedInv'
  BY LearnedSteps
<1>3. LearnedInv /\ LearnInv => LearnedUnlessWarned
  <2> SUFFICES ASSUME LearnedInv, LearnInv, NEW r \in Run
               PROVE  /\ Stored(r) \subseteq ToSet(run[r].attempts)
                      /\ learner[r].pc = "done" /\ ~learner[r].warned =>
                           Stored(r) = ToSet(run[r].attempts)
                      /\ run[r].pc = "failed" => Stored(r) = {}
    BY DEF LearnedUnlessWarned
  <2>1. LearnedSoFar(r)
    BY DEF LearnedInv
  <2>2. learner[r].pc = "idle" => Stored(r) = {}
    BY DEF LearnInv, Orderly, Stored
  <2>3. QED BY <2>1, <2>2 DEF LearnedSoFar
<1>4. QED BY <1>1, <1>2, <1>3, PolicyInvariant, PTL DEF PolicySpec

-----------------------------------------------------------------------------
(* The runs of the service are runs as the store is proved for: every step of
   theirs is one of LearningStore, or leaves the averages alone. *)
THEOREM PolicyImplementsLearning == PolicySpec => LearnSpec
<1>1. PolicyInit => LearnInit
  BY DEF PolicyInit
<1>2. PolicyInv /\ [PolicyNext]_policyVars => [LearnNext]_learnVars
  BY RunLearns
<1>3. QED BY <1>1, <1>2, PolicyInvariant, PTL DEF PolicySpec, LearnSpec

(* However the runs interleave: averages stay averages, and a sample is lost only
   when two updates of one alias overlapped. *)
THEOREM AveragesSafe == PolicySpec => [](AveragesInRange /\ SamplesLostOnlyByOverlap)
BY PolicyImplementsLearning, RatesSafe, SamplesSafe, PTL

(* Types; no run spends more than the budget of its request. *)
THEOREM PolicyTyped == PolicySpec => []PolicyTypeOK
<1>1. PolicyInv /\ LearnInv => PolicyTypeOK
  <2> SUFFICES ASSUME PolicyInv, LearnInv PROVE PolicyTypeOK
    OBVIOUS
  <2>1. LearnTypeOK
    BY DEF LearnInv, LearnTyped, LearnTypeOK, Orderly, Busy
  <2>2. ASSUME NEW r \in Run PROVE run[r].spent \in 0 .. order[r].budget + Allowance
    <3>1. run[r].spent \in Nat /\ run[r].spent <= order[r].budget + Allowance
      BY DEF PolicyInv, RunState, RunSound
    <3>2. order[r].budget + Allowance \in Nat
      BY CatalogAssumption DEF PolicyInv, Settled
    <3>3. QED BY <3>1, <3>2
  <2>3. \A c \in choices : c.alias \in ModelName \cup {NoModel}
    BY DEF PolicyInv, ChoiceSound
  <2>4. QED BY <2>1, <2>2, <2>3 DEF PolicyTypeOK
<1>2. QED BY <1>1, PolicyInvariant, PTL

(* What was learned never makes a run pay more. *)
THEOREM PreferencesSafe == PolicySpec => []PreferenceCostsNothing
<1>1. PolicyInv => PreferenceCostsNothing
  BY DEF PolicyInv, ChoiceSound, Cheapest, PreferenceCostsNothing
<1>2. QED BY <1>1, PolicyInvariant, PTL

(* Of two choices the one with less money left is among what the other had to
   choose from, and a model that costs less than an affordable one is affordable
   too; a free one is always. *)
LEMMA PoorerFound ==
  ASSUME NEW c, NEW d, ChoiceSound(c), ChoiceSound(d), settings.maxOutput \in Nat,
         c.tier = d.tier, c.tokens = d.tokens, c.alias # NoModel, d.alias # NoModel,
         c.remaining <= d.remaining
  PROVE  CostOfChoice(c) = CostOfChoice(d)
<1> DEFINE poor == Context(c.remaining, c.tokens)
           rich == Context(d.remaining, c.tokens)
           p == SpecOf[c.alias]
           q == SpecOf[d.alias]
           Cost(spec) == ProjectedCost(spec, c.tokens, settings.maxOutput)
           Fits(spec, left) == ~(spec.paid /\ Cost(spec) > left + Allowance)
           Passes(spec) == /\ spec.provider \in settings.providers
                           /\ "chat" \in spec.capabilities /\ ~(spec.window < c.tokens)
                           /\ spec.tier = c.tier
                           /\ ~(spec.premium /\ ~settings.allowPremium)
<1>1. \A spec : CostIn(spec, poor) = Cost(spec) /\ CostIn(spec, rich) = Cost(spec)
  BY DEF CostIn, Context
<1>2. ASSUME NEW left, NEW spec
      PROVE  spec \in Eligible(Context(left, c.tokens), c.tier) <=>
               spec \in ToSet(Catalog) /\ Passes(spec) /\ Fits(spec, left)
  <2> DEFINE ctx == Context(left, c.tokens)
  <2>1. /\ ctx.providers = settings.providers /\ ctx.allowPremium = settings.allowPremium
        /\ ctx.maxOutput = settings.maxOutput /\ ctx.remaining = left /\ ctx.tokens = c.tokens
        /\ ctx.disabled = {} /\ ctx.capability = "chat"
    BY DEF Context
  <2> HIDE DEF ctx
  <2>2. RejectReason(spec, ctx, c.tier) = "none" <=> Passes(spec) /\ Fits(spec, left)
    BY <2>1 DEF RejectReason, Available
  <2>3. QED BY <2>2 DEF Eligible, ctx
<1>3. \A spec : /\ spec \in Eligible(poor, c.tier) <=>
                     spec \in ToSet(Catalog) /\ Passes(spec) /\ Fits(spec, c.remaining)
                /\ spec \in Eligible(rich, c.tier) <=>
                     spec \in ToSet(Catalog) /\ Passes(spec) /\ Fits(spec, d.remaining)
  BY <1>2
<1>4. /\ p \in Eligible(poor, c.tier) /\ q \in Eligible(rich, c.tier)
      /\ CostOfChoice(c) = Cost(p) /\ CostOfChoice(d) = Cost(q)
      /\ \A spec \in Eligible(poor, c.tier) : Cost(p) <= Cost(spec)
      /\ \A spec \in Eligible(rich, c.tier) : Cost(q) <= Cost(spec)
  BY <1>1 DEF ChoiceSound, Cheapest, CostOfChoice
<1>5. \A spec \in ToSet(Catalog) : Cost(spec) \in Nat /\ (~spec.paid => Cost(spec) = 0)
  <2> SUFFICES ASSUME NEW spec \in ToSet(Catalog)
               PROVE  Cost(spec) \in Nat /\ (~spec.paid => Cost(spec) = 0)
    OBVIOUS
  <2>1. /\ spec.input \in Nat /\ spec.output \in Nat
        /\ ~spec.paid => spec.input = 0 /\ spec.output = 0
    BY CatalogAssumption DEF ToSet
  <2>2. c.tokens \in Nat
    BY DEF ChoiceSound
  <2>3. QED BY <2>1, <2>2 DEF ProjectedCost
<1> HIDE DEF poor, rich, p, q, Cost, Passes
<1>6. p \in ToSet(Catalog) /\ q \in ToSet(Catalog) /\ Cost(p) \in Nat /\ Cost(q) \in Nat
  BY <1>3, <1>4, <1>5
<1>7. c.remaining \in Int /\ d.remaining \in Int /\ Allowance \in Nat
  BY CatalogAssumption DEF ChoiceSound
<1>8. Cost(q) <= Cost(p)
  <2>1. p \in Eligible(rich, c.tier)
    BY <1>3, <1>4, <1>6, <1>7
  <2>2. QED BY <2>1, <1>4
<1>9. Cost(p) <= Cost(q)
  <2>1. CASE p.paid
    <3>1. Cost(p) <= c.remaining + Allowance
      BY <2>1, <1>3, <1>4, <1>6, <1>7
    <3>2. q \in Eligible(poor, c.tier)
      BY <3>1, <1>3, <1>4, <1>6, <1>7, <1>8
    <3>3. QED BY <3>2, <1>4
  <2>2. CASE ~p.paid
    BY <2>2, <1>5, <1>6
  <2>3. QED BY <2>1, <2>2
<1>10. QED BY <1>4, <1>6, <1>8, <1>9

(* Money decides whether a model is found, never which. *)
THEOREM MoneySafe == PolicySpec => []MoneyNeverChangesModel
<1>1. PolicyInv => MoneyNeverChangesModel
  <2> SUFFICES ASSUME PolicyInv, NEW c \in choices, NEW d \in choices, c.tier = d.tier,
                      c.tokens = d.tokens, c.alias # NoModel, d.alias # NoModel
               PROVE  CostOfChoice(c) = CostOfChoice(d)
    BY DEF MoneyNeverChangesModel
  <2>1. ChoiceSound(c) /\ ChoiceSound(d) /\ settings.maxOutput \in Nat
    BY DEF PolicyInv, Settled
  <2>2. c.remaining <= d.remaining \/ d.remaining <= c.remaining
    BY <2>1 DEF ChoiceSound
  <2>3. QED BY <2>1, <2>2, PoorerFound
<1>2. QED BY <1>1, PolicyInvariant, PTL

(* Who asks for more is never given a weaker tier. *)
THEOREM DeeperSafe == PolicySpec => []DeeperNeverWeaker
<1>1. PolicyInv => DeeperNeverWeaker
  BY AskedGrows DEF PolicyInv, ChoiceSound, DeeperNeverWeaker
<1>2. QED BY <1>1, PolicyInvariant, PTL
=============================================================================
