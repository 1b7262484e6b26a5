---------------------------- MODULE ResearchLoop ----------------------------
(***************************************************************************)
(* One run of the research graph (graph/builder.py) from START to the      *)
(* writer: intake, planner, router, supervisor, the workers in parallel,   *)
(* join, validator and coverage gate, which may go back to the supervisor. *)
(* LangGraph runs one node at a time except for the workers, which it runs *)
(* together and joins; if a worker raises, the invocation raises and the   *)
(* run fails (node "failed").                                              *)
(***************************************************************************)
EXTENDS Workers

CONSTANTS Requests,    \* allowed_sources a request may have
          Plans,       \* source hints, by sub-question, a planning model may write
          PlanAlias,   \* models the deployment has for planning: subset of Alias
          RouteAlias,  \* models it has for sub-questions: subset of Alias
          RouteCost,   \* worst-case cost the router projects for a paid model
          MaxRounds    \* settings.max_research_rounds

ASSUME LoopAssumption ==
  /\ Requests \subseteq {"web", "documents", "both"}
  /\ Plans \subseteq [Sub -> {"web", "documents", "both"}]
  /\ PlanAlias \subseteq Alias /\ RouteAlias \subseteq Alias
  /\ RouteCost \in Nat \ {0}
  /\ MaxRounds \in Nat \ {0}

VARIABLES node,         \* the graph node to run next
          allowed,      \* request.allowed_sources
          hint,         \* source_hint of each sub-question
          facts,        \* state["facts"]
          provenance,   \* state["provenance"]
          covered,      \* covered flag of each sub-question
          retry,        \* state["retry_sub_question_ids"]
          round,        \* state["research_round"]
          shownRound,   \* research_round in the run registry
          limitations,  \* state["limitations"]
          complete      \* state["coverage_complete"]

graphState == <<hint, facts, provenance, covered, retry, round, shownRound, limitations,
                complete>>
vars == <<workerVars, node, allowed, graphState>>

Node == {"intake", "planner", "planning", "router", "supervisor", "workers", "validator",
         "gate", "writer", "writing", "final_qa", "learning_update", "end", "failed"}

Limitation == {"coverage_limited_by_rounds", "coverage_limited_by_budget",
               "coverage_limited_by_route", "coverage_limited_by_sources",
               "insufficient_evidence_for_some_subquestions", "insufficient_evidence"}

TypeOK ==
  /\ WorkersTypeOK /\ Ledger!TypeOK
  /\ node \in Node
  /\ allowed \in {"web", "documents", "both"}
  /\ hint \in [Sub -> {"web", "documents", "both"}]
  /\ facts \in Seq(Fact)
  /\ provenance \in [Ref -> Text \cup {NoText}]
  /\ covered \in [Sub -> BOOLEAN]
  /\ retry \subseteq Sub
  /\ round \in 0 .. MaxRounds /\ shownRound \in 0 .. MaxRounds
  /\ limitations \subseteq Limitation
  /\ complete \in BOOLEAN

Init ==
  /\ WorkersInit
  /\ node = "intake"
  /\ allowed \in Requests
  /\ hint = [s \in Sub |-> "both"]
  /\ facts = <<>> /\ provenance = NoProvenance
  /\ covered = [s \in Sub |-> FALSE]
  /\ retry = {} /\ round = 0 /\ shownRound = 0
  /\ limitations = {} /\ complete = FALSE

-----------------------------------------------------------------------------
(* request_intake: marks the run as running. *)
Intake ==
  /\ node = "intake" /\ node' = "planner"
  /\ UNCHANGED <<workerVars, allowed, graphState>>

(* select_alias: a model of the deployment that fits the remaining budget, or
   none when no model does. "none" in the pool stands for a tier in which the
   deployment has no model. *)
Eligible(pool) ==
  LET fits == {a \in pool :
                 a = "paid" => RouteCost <= Ledger!Remaining(ThisRun) + Tolerance}
  IN IF fits = {} THEN {"none"} ELSE fits

(* _coerce_hint: a plan never names a source the request does not allow. *)
Coerced(hints) ==
  IF allowed = "both" THEN hints ELSE [s \in Sub |-> allowed]

(* _fallback_plan *)
FallbackHints == [s \in Sub |-> allowed]

PlanMade(hints) ==
  /\ hint' = hints
  /\ node' = "router"
  /\ UNCHANGED <<allowed, facts, provenance, covered, retry, round, shownRound,
                 limitations, complete>>

(* planner: without a model, or when its worst-case cost is rejected, the
   deterministic plan is used. *)
PlanWithoutModel ==
  /\ node = "planner"
  /\ \E a \in Eligible(PlanAlias) :
       a = "none" \/ ~Ledger!Affordable(ThisRun, CostOf(a))
  /\ PlanMade(FallbackHints)
  /\ UNCHANGED workerVars

AskForPlan ==
  /\ node = "planner" /\ node' = "planning"
  /\ \E a \in Eligible(PlanAlias) \ {"none"} :
       Ledger!Reserve(ThisRun, GraphNode, CostOf(a), a = "paid") /\ Bill(0)
  /\ UNCHANGED <<toolUses, calls, table, route, worker, allowed, graphState>>

(* The model's plan is used when it parses; otherwise the fallback is. *)
PlanAnswers ==
  /\ node = "planning"
  /\ \E actual \in IF reservations[GraphNode].held > 0 THEN Bills ELSE {0} :
       Ledger!Settle(GraphNode, actual) /\ Bill(actual)
  /\ \E hints \in {Coerced(p) : p \in Plans} \cup {FallbackHints} : PlanMade(hints)
  /\ UNCHANGED <<toolUses, calls, table, route, worker>>

PlanFails ==
  /\ node = "planning"
  /\ Ledger!Release(GraphNode) /\ Bill(0)
  /\ PlanMade(FallbackHints)
  /\ UNCHANGED <<toolUses, calls, table, route, worker>>

(* complexity_router: every sub-question is routed against the same reading
   of the remaining budget. *)
Router ==
  /\ node = "router" /\ node' = "supervisor"
  /\ route' \in [Sub -> Eligible(RouteAlias)]
  /\ UNCHANGED <<ledger, toolUses, calls, table, worker, allowed, graphState>>

(* _hints_for *)
Sources(s) ==
  {k \in {"web", "documents"} : allowed \in {k, "both"} /\ hint[s] \in {k, "both"}}

(* Mutant of Dispatched: a retry dispatches every sub-question again. *)
DispatchedAgain == {t \in Task : TaskKind(t) \in Sources(TaskSub(t))}

(* The workers dispatch_workers sends: for the sub-questions to retry, or for
   those not covered. *)
Dispatched ==
  {t \in Task : /\ TaskKind(t) \in Sources(TaskSub(t))
                /\ IF retry # {} THEN TaskSub(t) \in retry ELSE ~covered[TaskSub(t)]}

(* research_supervisor and dispatch_workers. *)
Supervisor ==
  /\ node = "supervisor" /\ node' = "workers"
  /\ round' = IF round = 0 THEN 1 ELSE round
  /\ shownRound' = round'
  /\ worker' = [t \in Task |-> IF t \in Dispatched THEN Goto(Idle, "begin") ELSE Idle]
  /\ UNCHANGED <<ledger, toolUses, calls, table, route, allowed, hint, facts, provenance,
                 covered, retry, limitations, complete>>

Work(t) ==
  /\ node = "workers"
  /\ WorkerStep(t)
  /\ UNCHANGED <<node, allowed, graphState>>

(* What the reducers make of the outputs of all workers, in send order. *)
GatheredFacts == MergeById(facts, FlattenSeq([t \in Task |-> worker[t].facts]))

GatheredProvenance ==
  [r \in Ref |->
     LET from == {t \in Task : worker[t].sources[r] # NoText}
     IN IF from = {} THEN provenance[r] ELSE worker[Max(from)].sources[r]]

(* All workers have returned; research_join filters the facts, and the
   reducer merges its result into the state. (The set binds the gathered facts
   once.) *)
Join ==
  /\ node = "workers" /\ node' = "validator"
  /\ \A t \in Task : worker[t].pc \in {"idle", "done"}
  /\ \E gathered \in {GatheredFacts} :
       facts' = MergeById(gathered, UniqueQuotes(gathered))
  /\ provenance' = GatheredProvenance
  /\ worker' = [t \in Task |-> Idle]
  /\ UNCHANGED <<ledger, toolUses, calls, table, route, allowed, hint, covered, retry,
                 round, shownRound, limitations, complete>>

(* A worker raised: workers that have not begun may be cancelled, the others
   run to their end, and the invocation raises. *)
Abort ==
  /\ node = "workers" /\ node' = "failed"
  /\ \E t \in Task : At(t, "raised")
  /\ \A t \in Task : worker[t].pc \in {"idle", "begin", "done", "raised"}
  /\ UNCHANGED <<workerVars, allowed, graphState>>

(* Mutant of KnownTexts: the table's rows come first. *)
KnownTextsTableFirst == MergeProvenance(provenance, table)

(* validator: the state's provenance first, then rows only the table has. *)
KnownTexts == MergeProvenance(table, provenance)

Validator ==
  /\ node = "validator" /\ node' = "gate"
  /\ facts' = Validate(facts, KnownTexts)
  /\ UNCHANGED <<workerVars, allowed, hint, provenance, covered, retry, round, shownRound,
                 limitations, complete>>

Uncovered == {s \in Sub : ~IsCovered(s, facts)}

(* _budget_allows_retry *)
BudgetAllowsRetry ==
  Ledger!Remaining(ThisRun) > 0 \/ ~\E s \in Uncovered : route[s] = "paid"

(* Mutant of CanRetry: one round too many. *)
CanRetryOnceMore == Uncovered # {} /\ round <= MaxRounds /\ BudgetAllowsRetry

CanRetry == Uncovered # {} /\ round < MaxRounds /\ BudgetAllowsRetry

(* Mutant of NextRound: a retry does not count as a round. *)
NextRoundUncounted == round
NextRound == IF CanRetry THEN round + 1 ELSE round

(* Mutant of Limitations: a run that may not retry says it is out of rounds. *)
LimitationsByRounds == {"coverage_limited_by_rounds"}

Limitations ==
  {l \in Limitation :
     CASE l = "coverage_limited_by_rounds" -> round >= MaxRounds
       [] l = "coverage_limited_by_budget" -> Ledger!Remaining(ThisRun) <= 0
       [] l = "coverage_limited_by_route" -> \E s \in Uncovered : route[s] = "none"
       [] l = "coverage_limited_by_sources" -> allowed # "both"
       [] l = "insufficient_evidence_for_some_subquestions" -> TRUE
       [] OTHER -> FALSE}

(* coverage_gate and route_after_coverage. *)
Gate ==
  /\ node = "gate"
  /\ covered' = [s \in Sub |-> s \notin Uncovered]
  /\ complete' = (Uncovered = {})
  /\ retry' = IF CanRetry THEN Uncovered ELSE {}
  /\ round' = NextRound
  /\ shownRound' = round'
  /\ limitations' = limitations \cup
       (IF CanRetry \/ Uncovered = {} THEN {} ELSE Limitations)
  /\ node' = IF CanRetry THEN "supervisor" ELSE "writer"
  /\ UNCHANGED <<workerVars, allowed, hint, facts, provenance>>

(* The writer takes over, or the run has failed. *)
Ended == node \in {"writer", "failed"} /\ UNCHANGED vars

LoopStep ==
  \/ Intake \/ PlanWithoutModel \/ AskForPlan \/ PlanAnswers \/ PlanFails
  \/ Router \/ Supervisor \/ (\E t \in Task : Work(t)) \/ Join \/ Abort
  \/ Validator \/ Gate

Next == LoopStep \/ Ended

Spec == Init /\ [][Next]_vars

(* Every external call has a timeout and every node is run by the graph's
   loop or by a thread of its own: none of them stops for ever. *)
Fairness == WF_vars(Next) /\ \A t \in Task : WF_vars(Work(t))
FairSpec == Spec /\ Fairness

-----------------------------------------------------------------------------
Accepted(i) == facts[i].verdict = "accepted"

(* A fact the report may cite is grounded: the state's provenance holds a text
   of its source in which the quote occurs, the claim is about its
   sub-question, and no other accepted fact makes the same claim; also after a
   second round has replaced facts and texts. *)
AcceptedGrounded ==
  node \in {"gate", "writer"} =>
    \A i \in DOMAIN facts : Accepted(i) =>
      /\ provenance[RefOf(facts[i])] = QuoteOf(facts[i])
      /\ Overlaps(facts[i].claim, SubOf(facts[i]))
      /\ \A j \in DOMAIN facts : Accepted(j) /\ facts[j].claim = facts[i].claim => j = i

(* No fact comes from a source the run has not recorded: while a worker holds
   a candidate its source is in the worker's output and in the table, and once
   joined it is in the state, each fact once. *)
FactsHaveSources ==
  /\ \A t \in Task : \A f \in ToSet(worker[t].facts) :
       worker[t].sources[RefOf(f)] # NoText /\ table[RefOf(f)] # NoText
  /\ \A f \in ToSet(facts) : provenance[RefOf(f)] # NoText /\ table[RefOf(f)] # NoText
  /\ \A i, j \in DOMAIN facts : facts[i].id = facts[j].id => i = j

(* The writer is told of missing coverage exactly when it is missing: its
   flags say which sub-questions have an accepted fact about them, and every
   reason named is a true one. *)
HandoverHonest ==
  node = "writer" =>
    /\ \A s \in Sub : covered[s] <=> \E i \in DOMAIN facts :
         Accepted(i) /\ SubOf(facts[i]) = s
    /\ complete <=> \A s \in Sub : covered[s]
    /\ complete <=> limitations = {}
    /\ "coverage_limited_by_rounds" \in limitations => round = MaxRounds
    /\ "coverage_limited_by_budget" \in limitations =>
         spent[ThisRun] + reserved[ThisRun] >= Budget
    /\ "coverage_limited_by_route" \in limitations =>
         \E s \in Sub : ~covered[s] /\ route[s] = "none"

(* Between calls no money stays set aside: every path through a worker, the
   planner or the writer that reserved has settled or released, unless the run
   fails. *)
NothingLeftReserved ==
  node \notin {"planning", "workers", "writing", "failed"} =>
    /\ reserved[ThisRun] = 0
    /\ \A c \in Caller : reservations[c] = NoReservation

(* A further round is for the uncovered sub-questions only: no step adds,
   drops or rewrites a fact of a covered one (its verdict may change). *)
FactsAbout(s, seq) == {<<f.id, f.claim>> : f \in {g \in ToSet(seq) : SubOf(g) = s}}
CoveredLeftAlone ==
  [][\A s \in Sub : covered[s] => FactsAbout(s, facts') = FactsAbout(s, facts)]_vars

(* The loop keeps the promise it makes to the writer. *)
Contract ==
  INSTANCE CoverageContract
    WITH phase <- CASE node = "writer" -> "writing"
                    [] node = "failed" -> "failed"
                    [] OTHER -> "researching",
         judged <- IF node = "writer" \/ round = 0 THEN round ELSE round - 1,
         covered <- {s \in Sub : covered[s]},
         disclosed <- limitations # {}
KeepsContract == Contract!Spec

(* Every run ends: it reaches the writer, whatever models, pages and searches
   that fail in the controlled way do; only after a worker raised it fails. *)
RunEnds ==
  <>[](node = IF \E t \in Task : At(t, "raised") THEN "failed" ELSE "writer")

-----------------------------------------------------------------------------
(* What the documentation says and the code does not do; each is refuted. *)

(* "Preserve successful results if another worker fails": a failing tool never
   fails the run. *)
NoRunFailsForATool == node # "failed"

(* "Research Join ... deduplicates equivalent records": after the join no two
   facts have the same source and quote. *)
JoinDeduplicates ==
  node = "validator" =>
    \A i, j \in DOMAIN facts :
      RefOf(facts[i]) = RefOf(facts[j]) /\ QuoteOf(facts[i]) = QuoteOf(facts[j]) => i = j

(* "its normalized claim has not already been accepted": a claim accepted in
   an earlier round is not accepted again for another fact. *)
FirstClaimWins ==
  [][\A f \in ToSet(facts), g \in ToSet(facts') :
       f.verdict = "accepted" /\ g.verdict = "accepted" /\ f.claim = g.claim
         => f.id = g.id]_vars

(* "Never silently spend above the enforced request ceiling": what the vendors
   charge for a run stays within its budget. *)
BilledWithinBudget == billed <= Budget + Tolerance
=============================================================================
