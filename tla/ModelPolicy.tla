---------------------------- MODULE ModelPolicy ----------------------------
(***************************************************************************)
(* How runs choose models, call them and learn from them: the routing of   *)
(* nodes/planner.py, nodes/complexity_router.py and nodes/writer.py with   *)
(* generate_paid of nodes/common.py, over the learning store that all runs *)
(* share.                                                                  *)
(*                                                                         *)
(* A run goes through its purposes one after another and calls the model   *)
(* it chose once, for a sub-question once for each passage that needs a    *)
(* summary; the parallel calls of workers are in Workers.  The runs here   *)
(* share no money: each has the budget of its own request.  Of the         *)
(* database's failures these are here: those of the learning store.        *)
(* Telemetry, which nothing reads back, is left out.                       *)
(***************************************************************************)
EXTENDS Scoring, Routing, LearningStore

CONSTANTS Starts,         \* [settings, order, table]: a deployment's settings, what
                          \* each run is asked, what is learned already
          FactCounts,     \* numbers of facts the writer may have
          MaxSummaries,   \* summaries that tool uses allow a sub-question
          CostPoints,     \* what an average of costs may add to a preference
          PlanningTokens, \* tokens route_planning may expect
          PromptTokens,   \* tokens of a prompt, as generate_paid estimates them
          Usages          \* tokens in and out that an answer may report; 0: none

ASSUME PolicyAssumption ==
  /\ Name = ModelName
  /\ MaxSummaries \in Nat \ {0}
  /\ CostPoints \subseteq Nat \X (Nat \ {0})
  /\ FactCounts \subseteq Nat /\ PlanningTokens \subseteq Nat /\ PromptTokens \subseteq Nat
  /\ Usages \subseteq Nat \X Nat
  /\ \A start \in Starts :
       /\ start.table \in EarlierRows /\ start.settings.maxOutput \in Nat
       /\ \A r \in Run :
            /\ start.order[r].depth \in Depth /\ start.order[r].risk \in Risk
            /\ start.order[r].budget \in Nat
            /\ start.order[r].question \in Question /\ start.order[r].beginning \in Question
            /\ start.order[r].purposes \in Seq({"planning", "subquestion", "writing"})

VARIABLES settings,
          order,    \* each run: its request, the text of its sub-questions and the
                    \* beginning of its own as Scoring sees them, and what models
                    \* are routed for, in order
          run,      \* each run: where it is, its money, what it is choosing
          choices   \* history: the choices of all runs

policyVars == <<settings, order, run, choices, learnVars>>

DefaultTokens == 1200
NoPreference == [alias \in {} |-> <<0, 1>>]

(* A run about to route for its step-th purpose, after what it spent and what
   answered it so far. *)
AtRouting(step, spent, attempts) ==
  [pc |-> "route", step |-> step, spent |-> spent, attempts |-> attempts, tier |-> "cheap",
   remaining |-> 0, tokens |-> DefaultTokens, todo |-> {}, preference |-> NoPreference,
   facts |-> 0, alias |-> NoModel, calls |-> 0]

PolicyInit ==
  /\ LearnInit
  /\ \E start \in Starts :
       /\ learn = start.table /\ settings = start.settings
       /\ order = start.order
  /\ run = [r \in Run |-> AtRouting(1, 0, <<>>)]
  /\ choices = {}

-----------------------------------------------------------------------------
(* RoutingContext, as the nodes fill it. *)
Context(remaining, tokens) ==
  [providers |-> settings.providers, allowPremium |-> settings.allowPremium,
   maxOutput |-> settings.maxOutput, remaining |-> remaining, tokens |-> tokens,
   disabled |-> {}, capability |-> "chat"]

ContextOf(r) == Context(run[r].remaining, run[r].tokens)

Purpose(r) == order[r].purposes[run[r].step]
OrderOf(r) == [depth |-> order[r].depth, risk |-> order[r].risk]

(* The writer has the beginning of the request's question scored. *)
TextOf(r) == IF Purpose(r) = "writing" THEN order[r].beginning ELSE order[r].question

TierAsked(purpose, text, request, facts) ==
  CASE purpose = "planning" -> PlanningTier(request)
    [] purpose = "subquestion" -> TierOf(Total(text, request))
    [] OTHER -> TierOf(WritingTotal(text, request, facts))

FactsFor(r) == IF Purpose(r) = "writing" THEN FactCounts ELSE {0}
TokensFor(r) == IF Purpose(r) = "planning" THEN PlanningTokens ELSE {DefaultTokens}

(* remaining, of a run that has nothing reserved. *)
Remaining(r) ==
  IF run[r].spent <= order[r].budget THEN order[r].budget - run[r].spent ELSE 0

(* What is left of the budget is read, then the catalog is filtered. *)
Route(r) ==
  /\ run[r].pc = "route" /\ run[r].step <= Len(order[r].purposes)
  /\ \E facts \in FactsFor(r), tokens \in TokensFor(r) :
       LET tier == TierAsked(Purpose(r), TextOf(r), OrderOf(r), facts)
           eligible == Eligible(Context(Remaining(r), tokens), tier)
       IN run' = [run EXCEPT ![r] =
            [@ EXCEPT !.pc = "reading", !.tier = tier, !.remaining = Remaining(r),
                      !.tokens = tokens, !.facts = facts,
                      !.todo = {spec.alias : spec \in eligible}]]
  /\ UNCHANGED <<settings, order, choices, learnVars>>

(* A free model never cost anything. *)
PointsOf(a) == IF SpecOf[a].paid THEN CostPoints ELSE {<<3, 1>>}

WithPreference(preference, a, points) ==
  [b \in {a} \cup DOMAIN preference |->
     IF b = a THEN Preference(learn[a], points) ELSE preference[b]]

(* learning.get, for one eligible model after the other, as the catalog has them. *)
ReadPreference(r) ==
  /\ run[r].pc = "reading"
  /\ \E i \in DOMAIN Catalog :
       LET a == Catalog[i].alias
       IN /\ a \in run[r].todo
          /\ \A j \in 1 .. i - 1 : Catalog[j].alias \notin run[r].todo
          /\ \E points \in PointsOf(a) :
               run' = [run EXCEPT ![r].todo = @ \ {a},
                                  ![r].preference = WithPreference(@, a, points)]
  /\ UNCHANGED <<settings, order, choices, learnVars>>

(* learning.get raises: no node catches that, and the run fails. *)
PreferenceFails(r) ==
  /\ StoreFaults
  /\ run[r].pc = "reading" /\ run[r].todo # {}
  /\ run' = [run EXCEPT ![r].pc = "failed"]
  /\ UNCHANGED <<settings, order, choices, learnVars>>

NextPurpose(state) == AtRouting(state.step + 1, state.spent, state.attempts)

(* The first of the sorted models, or the deterministic fallback, which is also
   what a report without facts is. *)
Choose(r) ==
  /\ run[r].pc = "reading" /\ run[r].todo = {}
  /\ LET alias == Select(ContextOf(r), run[r].tier, run[r].preference)
     IN /\ run' = [run EXCEPT ![r] =
                     IF alias = NoModel \/ (Purpose(r) = "writing" /\ run[r].facts = 0)
                     THEN NextPurpose(@)
                     ELSE [AtRouting(@.step, @.spent, @.attempts) EXCEPT
                             !.pc = "call", !.alias = alias]]
        /\ choices' = choices \cup
             {[purpose |-> Purpose(r), order |-> OrderOf(r), tier |-> run[r].tier,
               text |-> TextOf(r), facts |-> run[r].facts, tokens |-> run[r].tokens,
               remaining |-> run[r].remaining, alias |-> alias]}
  /\ UNCHANGED <<settings, order, learnVars>>

(* No other passage of the sub-question needs a summary. *)
NotCalled(r) ==
  /\ run[r].pc = "call" /\ Purpose(r) = "subquestion"
  /\ run' = [run EXCEPT ![r] = NextPurpose(@)]
  /\ UNCHANGED <<settings, order, choices, learnVars>>

(* After a call: the next passage, while there are tool uses left, or the next
   purpose. *)
AfterCall(r, spent, attempts) ==
  IF Purpose(r) = "subquestion" /\ run[r].calls + 1 < MaxSummaries
  THEN [run[r] EXCEPT !.calls = @ + 1, !.spent = spent, !.attempts = attempts]
  ELSE AtRouting(run[r].step + 1, spent, attempts)

WorstCost(spec, tokens) == ProjectedCost(spec, tokens, settings.maxOutput)

(* The prompt is longer than routing expected, and does not fit the budget. *)
CallRefused(r) ==
  /\ run[r].pc = "call"
  /\ \E tokens \in PromptTokens :
       WorstCost(SpecOf[run[r].alias], tokens) >
         (order[r].budget - run[r].spent) + Allowance
  /\ run' = [run EXCEPT ![r] = AfterCall(r, run[r].spent, run[r].attempts)]
  /\ UNCHANGED <<settings, order, choices, learnVars>>

(* A provider error, after the reservation: nothing is charged or learned. *)
CallFails(r) ==
  /\ run[r].pc = "call"
  /\ \E tokens \in PromptTokens :
       WorstCost(SpecOf[run[r].alias], tokens) <=
         (order[r].budget - run[r].spent) + Allowance
  /\ run' = [run EXCEPT ![r] = AfterCall(r, run[r].spent, run[r].attempts)]
  /\ UNCHANGED <<settings, order, choices, learnVars>>

(* _usage_tokens: usage that is missing or zero is estimated, at least as 1. *)
UsageTokens(reported, estimate) == IF reported = 0 THEN estimate ELSE reported

(* Mutant of Charged: settled at whatever the vendor reports. *)
ChargedInFull(worst, actual) == actual

(* settle: by usage, up to what was reserved. *)
Charged(worst, actual) == IF actual < worst THEN actual ELSE worst

(* Only the planner and the writer keep their attempts for learning. *)
Attempts(r) ==
  LET kept == run[r].attempts
  IN IF Purpose(r) = "subquestion" \/ run[r].alias \in ToSet(kept) THEN kept
     ELSE Append(kept, run[r].alias)

CallAnswers(r) ==
  /\ run[r].pc = "call"
  /\ \E tokens \in PromptTokens, usage \in Usages :
       LET spec == SpecOf[run[r].alias]
           worst == WorstCost(spec, tokens)
           actual == ProjectedCost(spec, UsageTokens(usage[1], tokens),
                                   UsageTokens(usage[2], 1))
       IN /\ worst <= (order[r].budget - run[r].spent) + Allowance
          /\ run' = [run EXCEPT ![r] =
               AfterCall(r, run[r].spent + Charged(worst, actual), Attempts(r))]
  /\ UNCHANGED <<settings, order, choices, learnVars>>

(* The graph reaches its last node. *)
Learn(r) ==
  /\ run[r].pc = "route" /\ run[r].step > Len(order[r].purposes)
  /\ \E passed \in BOOLEAN : BeginLearning(r, run[r].attempts, passed)
  /\ UNCHANGED <<settings, order, run, choices>>

PolicyStep(r) ==
  \/ Route(r) \/ ReadPreference(r) \/ PreferenceFails(r) \/ Choose(r) \/ NotCalled(r)
  \/ CallRefused(r) \/ CallFails(r) \/ CallAnswers(r) \/ Learn(r)
  \/ LearnStep(r) /\ UNCHANGED <<settings, order, run, choices>>

Ended(r) == learner[r].pc = "done" \/ run[r].pc = "failed"

Completed == (\A r \in Run : Ended(r)) /\ UNCHANGED policyVars

PolicyNext == (\E r \in Run : PolicyStep(r)) \/ Completed

(* A run's thread goes on; calls and the database answer or raise. *)
PolicySpec ==
  /\ PolicyInit /\ [][PolicyNext]_policyVars
  /\ \A r \in Run : WF_policyVars(PolicyStep(r))

-----------------------------------------------------------------------------
PolicyTypeOK ==
  /\ LearnTypeOK
  /\ \A r \in Run : run[r].spent \in 0 .. order[r].budget + Allowance
  /\ \A c \in choices : c.alias \in ModelName \cup {NoModel}

CostOfChoice(c) == CostIn(SpecOf[c.alias], Context(c.remaining, c.tokens))

(* Whatever the other runs write while a run reads preferences one by one, what
   was learned only breaks ties: no eligible model is cheaper than the chosen
   one, and none is chosen only when none is eligible. *)
PreferenceCostsNothing ==
  \A c \in choices :
    LET eligible == Eligible(Context(c.remaining, c.tokens), c.tier)
    IN IF c.alias = NoModel THEN eligible = {}
       ELSE /\ SpecOf[c.alias] \in eligible
            /\ \A spec \in eligible :
                 CostOfChoice(c) <= CostIn(spec, Context(c.remaining, c.tokens))

(* Money decides whether there is a model, not which: for the same tier and
   prompt a richer run gets no dearer model than a poorer one, and the poorer
   one gets no weaker model but that model or none. *)
MoneyNeverChangesModel ==
  \A c, d \in choices :
    c.tier = d.tier /\ c.tokens = d.tokens /\ c.alias # NoModel /\ d.alias # NoModel
      => CostOfChoice(c) = CostOfChoice(d)

(* A request that asks for more depth or carries more risk is never given to a
   weaker tier, for the same purpose and text; nor is a report with more facts. *)
DeeperNeverWeaker ==
  \A c, d \in choices :
    /\ c.purpose = d.purpose /\ c.text = d.text /\ AsksMore(c.order, d.order)
    /\ d.facts <= c.facts
    => TierRank[d.tier] <= TierRank[c.tier]

Stored(r) == {a \in Name : r \in stored[a]}

(* What a run tells about learning is true.  Only models that answered its plan or
   its report are given a sample of it.  If its last node ended without a warning
   each of them was; after a warning some may lack it, and a run that failed has
   given none.  (Two runs may still overwrite each other's samples: that is
   SamplesLostOnlyByOverlap.) *)
LearnedUnlessWarned ==
  \A r \in Run :
    /\ Stored(r) \subseteq ToSet(run[r].attempts)
    /\ learner[r].pc = "done" /\ ~learner[r].warned => Stored(r) = ToSet(run[r].attempts)
    /\ run[r].pc = "failed" => Stored(r) = {}

(* However often the store raises, every run comes to an end: it gets through its
   last node, or it fails when a preference cannot be read. *)
EveryRunEnds == \A r \in Run : <>Ended(r)

=============================================================================
