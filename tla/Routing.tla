------------------------------ MODULE Routing ------------------------------
(***************************************************************************)
(* Selection of a model (llm/routing.py) from a catalog (llm/catalog.py):  *)
(* filters in a fixed order, then the lowest projected cost, the best      *)
(* learned preference, the first name.                                     *)
(*                                                                         *)
(* Prices are in thousandths of a dollar per million tokens, so costs are  *)
(* in billionths of a dollar.  A preference is a fraction <<num, den>>.    *)
(***************************************************************************)
EXTENDS Integers, Sequences, SequencesExt

CONSTANTS Catalog,      \* the models, in the order of the catalog
          Alphabetical, \* their aliases, sorted
          Allowance     \* the tolerance of the comparison with the budget

NoModel == "none"

(* Aliases are unique and sorted, and every price is a natural number; a model that is not
   paid has none. *)
ASSUME CatalogAssumption ==
  /\ Allowance \in Nat
  /\ Catalog \in Seq(ToSet(Catalog)) /\ Alphabetical \in Seq(ToSet(Alphabetical))
  /\ \A i, j \in DOMAIN Catalog : Catalog[i].alias = Catalog[j].alias => i = j
  /\ \A i \in DOMAIN Catalog :
       /\ Catalog[i].alias # NoModel
       /\ Catalog[i].input \in Nat /\ Catalog[i].output \in Nat
       /\ ~Catalog[i].paid => Catalog[i].input = 0 /\ Catalog[i].output = 0
  /\ ToSet(Alphabetical) = {Catalog[i].alias : i \in DOMAIN Catalog}
  /\ IsInjective(Alphabetical)

ModelName == {Catalog[i].alias : i \in DOMAIN Catalog}

(* get_spec *)
SpecOf == [alias \in ModelName |-> CHOOSE spec \in ToSet(Catalog) : spec.alias = alias]

(* ModelSpec.projected_cost *)
ProjectedCost(spec, input, output) == input * spec.input + output * spec.output

(* A context: the providers that have a key or are switched on, premium models
   allowed or not, the limit of output tokens, what is left of the budget,
   tokens expected in, aliases switched off, the capability asked for. *)
Available(spec, ctx) == spec.provider \in ctx.providers

RejectReason(spec, ctx, tier) ==
  LET cost == ProjectedCost(spec, ctx.tokens, ctx.maxOutput)
  IN IF spec.provider # "fake" /\ ~Available(spec, ctx) THEN "provider_unavailable"
     ELSE IF spec.alias \in ctx.disabled \/ ~Available(spec, ctx) THEN "disabled"
     ELSE IF ctx.capability \notin spec.capabilities THEN "capability_mismatch"
     ELSE IF spec.window < ctx.tokens THEN "context_too_small"
     ELSE IF spec.tier # tier THEN "tier_mismatch"
     ELSE IF spec.premium /\ ~ctx.allowPremium THEN "premium_blocked"
     ELSE IF spec.paid /\ cost > ctx.remaining + Allowance THEN "over_budget"
     ELSE "none"

(* The models that pass every filter. *)
Eligible(ctx, tier) == {spec \in ToSet(Catalog) : RejectReason(spec, ctx, tier) = "none"}

CostIn(spec, ctx) == ProjectedCost(spec, ctx.tokens, ctx.maxOutput)

AtMost(p, q) == p[1] * q[2] <= q[1] * p[2]

Sorted(a, b) ==
  \E i, j \in DOMAIN Alphabetical : i <= j /\ Alphabetical[i] = a /\ Alphabetical[j] = b

(* Mutants of ComesFirst: the dearest model that fits the budget comes first;
   preference is looked at before cost. *)
DearestFirst(a, b, ctx, preference) ==
  \/ CostIn(a, ctx) > CostIn(b, ctx)
  \/ CostIn(a, ctx) = CostIn(b, ctx) /\ Sorted(a.alias, b.alias)

PreferenceFirst(a, b, ctx, preference) ==
  /\ AtMost(preference[b.alias], preference[a.alias])
  /\ AtMost(preference[a.alias], preference[b.alias]) =>
       \/ CostIn(a, ctx) < CostIn(b, ctx)
       \/ CostIn(a, ctx) = CostIn(b, ctx) /\ Sorted(a.alias, b.alias)

(* The sort key: cost, minus preference, alias. *)
ComesFirst(a, b, ctx, preference) ==
  \/ CostIn(a, ctx) < CostIn(b, ctx)
  \/ /\ CostIn(a, ctx) = CostIn(b, ctx)
     /\ AtMost(preference[b.alias], preference[a.alias])
     /\ AtMost(preference[a.alias], preference[b.alias]) => Sorted(a.alias, b.alias)

(* select_alias: the first of the eligible models, or none. *)
Select(ctx, tier, preference) ==
  LET eligible == Eligible(ctx, tier)
  IN IF eligible = {} THEN NoModel
     ELSE (CHOOSE a \in eligible : \A b \in eligible : ComesFirst(a, b, ctx, preference)).alias
=============================================================================
