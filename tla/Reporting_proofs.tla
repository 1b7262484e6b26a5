-------------------------- MODULE Reporting_proofs --------------------------
(***************************************************************************)
(* Theorems about whole runs, from the request to the checked report: the  *)
(* invariant of the loop also holds while the report is written, and what  *)
(* leaves the graph is honest about gaps, rejected claims and sources.     *)
(***************************************************************************)
EXTENDS Reporting, ResearchLoop_proofs

-----------------------------------------------------------------------------
(* The accepted facts are those of the state, and only those. *)
LEMMA AcceptedElements ==
  ASSUME facts \in Seq(Fact)
  PROVE  /\ AcceptedFacts \in Seq(Fact)
         /\ \A i \in DOMAIN facts : facts[i].verdict = "accepted" =>
              \E j \in DOMAIN AcceptedFacts : AcceptedFacts[j] = facts[i]
         /\ \A j \in DOMAIN AcceptedFacts : AcceptedFacts[j] \in ToSet(facts)
<1> DEFINE P == {i \in DOMAIN facts : Accepted(i)}
<1>1. P \in SUBSET (DOMAIN facts)
  OBVIOUS
<1>2. /\ AcceptedFacts \in Seq(Fact)
      /\ ToSet(AcceptedFacts) = {facts[i] : i \in P}
  BY <1>1, InOrderTakes, InOrderElements DEF AcceptedFacts
<1>3. \A i \in DOMAIN facts : facts[i].verdict = "accepted" => facts[i] \in ToSet(AcceptedFacts)
  BY <1>2 DEF Accepted
<1>4. ToSet(AcceptedFacts) \subseteq ToSet(facts)
  BY <1>2 DEF ToSet
<1>5. QED
  BY <1>2, <1>3, <1>4 DEF ToSet

(* The list of sources names the source of every accepted fact, once. *)
LEMMA SourcesListed ==
  ASSUME facts \in Seq(Fact)
  PROVE  /\ ReportSources \in Seq(Ref)
         /\ IsInjective(ReportSources)
         /\ ToSet(ReportSources) = RefsOf(AcceptedFacts)
         /\ AcceptedFacts = <<>> => DOMAIN ReportSources = {}
<1> DEFINE refs == [i \in DOMAIN AcceptedFacts |-> RefOf(AcceptedFacts[i])]
           P == FirstPositions(refs)
           n == Len(AcceptedFacts)
<1>1. AcceptedFacts \in Seq(Fact)
  BY AcceptedElements
<1>2. n \in Nat /\ DOMAIN AcceptedFacts = 1 .. n
  BY <1>1
<1>3. ASSUME NEW i \in DOMAIN AcceptedFacts
      PROVE  refs[i] = RefOf(AcceptedFacts[i]) /\ refs[i] \in Ref
  <2>1. AcceptedFacts[i] \in ToSet(AcceptedFacts)
    BY DEF ToSet
  <2>2. QED BY <1>1, <2>1, FactParts
<1>4. refs \in Seq(Ref) /\ DOMAIN refs = 1 .. n
  BY <1>2, <1>3
<1>5. ReportSources = InOrder(refs, P)
  BY DEF ReportSources
<1> HIDE DEF refs, n
<1>6. /\ P \in SUBSET (DOMAIN refs)
      /\ \A i \in 1 .. n : \E f \in P : refs[f] = refs[i]
      /\ \A f, g \in P : refs[f] = refs[g] => f = g
  BY <1>2, <1>4, FirstPositionsOnce
<1> HIDE DEF P
<1>7. ReportSources \in Seq(Ref) /\ IsInjective(ReportSources)
  BY <1>4, <1>5, <1>6, InOrderTakes, InOrderInjective
<1>8. ToSet(ReportSources) = {refs[i] : i \in P}
  <2>1. refs \in Seq(Ref) /\ P \in SUBSET (DOMAIN refs)
    BY <1>4, <1>6
  <2>2. ToSet(InOrder(refs, P)) = {refs[i] : i \in P}
    BY <2>1, InOrderElements, Zenon
  <2>3. QED BY <1>5, <2>2
<1>9. {refs[i] : i \in P} = RefsOf(AcceptedFacts)
  BY <1>2, <1>3, <1>4, <1>6 DEF RefsOf
<1>10. ASSUME AcceptedFacts = <<>> PROVE DOMAIN ReportSources = {}
  <2>1. RefsOf(AcceptedFacts) = {}
    BY <1>10 DEF RefsOf
  <2>2. QED BY <1>8, <1>9, <2>1 DEF ToSet
<1>11. QED BY <1>7, <1>8, <1>9, <1>10

-----------------------------------------------------------------------------
(* The texts the writer may make of the facts of the state. *)
Texts(text, limits) == text \in Drafts \/ text = Template(limits)

LEMMA ClaimsAreClaims ==
  ASSUME NEW list \in Seq(Fact) PROVE ClaimsOf(list) \subseteq Claim
<1>1. \A i \in DOMAIN list : list[i] \in Fact
  OBVIOUS
<1>2. QED BY <1>1 DEF ClaimsOf, Fact

LEMMA TextsTyped ==
  ASSUME facts \in Seq(Fact), NEW limits, NEW text, Texts(text, limits)
  PROVE  text \in Report /\ text.sources = ReportSources
<1>1. ReportSources \in {q \in Seq(Ref) : IsInjective(q)}
  BY SourcesListed
<1>2. ClaimsOf(AcceptedFacts) \subseteq Claim
  BY AcceptedElements, ClaimsAreClaims
<1>3. \A f \in ToSet(facts) : f.claim \in Claim
  <2>1. \A f \in ToSet(facts) : f \in Fact
    BY DEF ToSet
  <2>2. QED BY <2>1 DEF Fact
<1>4. DOMAIN ReportSources \subseteq Nat /\ Len(ReportSources) \in Nat
  BY <1>1
<1>5. \A cites \in SUBSET Nat : \A claims : Brackets(cites, claims) \subseteq Nat
  BY DEF Brackets, StrayNumber
<1>6. CASE text = Template(limits)
  <2>1. Brackets(DOMAIN ReportSources, ClaimsOf(AcceptedFacts)) \subseteq Nat
    BY <1>4, <1>5
  <2>2. (limits # {} \/ ClaimsOf(AcceptedFacts) = {}) \in BOOLEAN
    OBVIOUS
  <2>3. QED BY <1>1, <1>2, <1>6, <2>1, <2>2 DEF Template, Report
<1>7. CASE text \in Drafts
  <2>1. PICK d \in [writer : {"model"}, sections : {Sub, Sub \ {1}},
                    claims : {ClaimsOf(AcceptedFacts)} \cup {{f.claim} : f \in ToSet(facts)},
                    cites : {{}, DOMAIN ReportSources,
                             DOMAIN ReportSources \cup {Len(ReportSources) + 1}},
                    strayLink : BOOLEAN, disclosed : BOOLEAN, sources : {ReportSources}] :
               text = [d EXCEPT !.cites = Brackets(d.cites, d.claims)]
    BY <1>7 DEF Drafts
  <2>2. d.sections \subseteq Sub /\ d.claims \subseteq Claim
    BY <1>2, <1>3
  <2>3. d.cites \in SUBSET Nat
    BY <1>4
  <2>4. Brackets(d.cites, d.claims) \subseteq Nat
    BY <1>5, <2>3
  <2>5. QED BY <1>1, <2>1, <2>2, <2>4 DEF Report
<1>8. QED BY <1>6, <1>7 DEF Texts

-----------------------------------------------------------------------------
(* What is true of the report on its way out. *)
Draft == {"final_qa", "learning_update", "end"}
Checked == {"learning_update", "end"}

ReportOK ==
  /\ report \in Report /\ qa \in {"pending", "approved", "not_approved"}
  /\ node \in Draft => report.sources = ReportSources
  /\ node \in {"writer", "writing"} \cup Draft => complete \/ limitations # {}
  /\ node \in Checked =>
       /\ complete \/ report.disclosed
       /\ \A f \in ToSet(facts) : f.claim \in report.claims => f.claim \in ClaimsOf(AcceptedFacts)
       /\ qa = "approved" => report.cites = DOMAIN report.sources

RunInv == LoopInv /\ ReportOK

(* What the writer leaves alone. *)
LEMMA WrittenKeeps ==
  ASSUME RunInv, node \in {"writer", "writing"}, MoneyOK', billed' \in Nat,
         NEW text, Written(text), Texts(text, limitations) \/ Texts(text, ToWrite)
  PROVE  RunInv'
<1>1. /\ node' = "final_qa" /\ report' = text /\ limitations' = ToWrite
      /\ UNCHANGED <<toolUses, calls, table, route, worker, allowed, hint, facts, provenance>>
      /\ UNCHANGED <<covered, retry, round, shownRound, complete, qa>>
  BY DEF Written
<1>2. limitations' \subseteq Limitation /\ limitations \subseteq limitations'
  BY <1>1 DEF ToWrite, RunInv, LoopInv, Typed, GraphTyped, Limitation
<1>3. WorkersTyped' /\ WorkersOK' /\ GraphTyped'
  BY <1>1, <1>2 DEF RunInv, LoopInv, Typed, WorkersTyped, WorkersOK, GraphTyped, Node
<1>4. CallsOK' /\ SourcesOK' /\ FocusOK'
  BY <1>1 DEF RunInv, LoopInv, CallsOK, SourcesOK, FocusOK
<1>5. RoundsOK' /\ AcceptedGrounded' /\ HandoverHonest'
  BY <1>1 DEF RoundsOK, Researching, AcceptedGrounded, HandoverHonest
<1>6. ReportOK'
  <2>1. facts \in Seq(Fact)
    BY DEF RunInv, LoopInv, Typed, GraphTyped
  <2>2. text \in Report /\ text.sources = ReportSources
    BY <2>1, TextsTyped
  <2>3. ReportSources' = ReportSources
    BY <1>1 DEF ReportSources, AcceptedFacts, Accepted
  <2>4. complete' \/ limitations' # {}
    BY <1>1, <1>2 DEF RunInv, ReportOK
  <2>5. QED BY <1>1, <2>2, <2>3, <2>4 DEF RunInv, ReportOK, Draft, Checked
<1>7. QED BY <1>3, <1>4, <1>5, <1>6 DEF RunInv, LoopInv, Typed

(* The writer's calls use the ledger as the planner's do. *)
LEMMA AskMoney ==
  ASSUME RunInv, AskWriter PROVE MoneyOK' /\ [Ledger!Next]_(Ledger!ledger) /\ billed' \in Nat
<1>1. UNCHANGED worker /\ node \notin {"workers", "failed"} /\ node' = "writing"
  BY DEF AskWriter
<1>2. PICK a \in Eligible(WriteAlias) :
        Ledger!Reserve(ThisRun, GraphNode, CostOf(a), a = "paid")
  BY DEF AskWriter
<1>3. CostOf(a) \in Amounts /\ (a = "paid") \in BOOLEAN
  BY ReportingAssumption, EligibleTyped, MoneyFacts
<1>4. \E amount \in Amounts, paid \in BOOLEAN : Ledger!Reserve(ThisRun, GraphNode, amount, paid)
  BY <1>2, <1>3, Zenon
<1>5. billed' \in Nat
  BY DEF AskWriter, Bill, RunInv, LoopInv, Typed, WorkersTyped
<1>6. QED BY <1>1, <1>4, <1>5, MoneyGraph DEF RunInv, LoopInv

LEMMA AnswerMoney ==
  ASSUME RunInv, WriterAnswers \/ WriterFails
  PROVE  MoneyOK' /\ [Ledger!Next]_(Ledger!ledger) /\ billed' \in Nat
<1>1. UNCHANGED worker /\ node = "writing"
  BY DEF WriterAnswers, WriterFails, Written
<1>2. \E actual \in Costs : Ledger!Settle(GraphNode, actual) /\ Bill(actual)
  <2>1. CASE WriterAnswers
    BY <2>1 DEF WriterAnswers, Costs
  <2>2. CASE WriterFails
    BY <2>2 DEF WriterFails, Ledger!Release, Costs
  <2>3. QED BY <2>1, <2>2
<1>3. billed' \in Nat
  BY <1>2, WorkersAssumption DEF Bill, Costs, RunInv, LoopInv, Typed, WorkersTyped
<1>4. QED BY <1>1, <1>2, <1>3, MoneyGraph DEF RunInv, LoopInv

(* A step that takes no money and leaves the workers alone. *)
LEMMA QuietMoney ==
  ASSUME RunInv, WriteTemplate \/ FinalQA \/ LearningUpdate
  PROVE  MoneyOK' /\ [Ledger!Next]_(Ledger!ledger) /\ billed' \in Nat
<1>1. /\ UNCHANGED <<ledger, worker>> /\ node \in {"writer", "final_qa", "learning_update"}
      /\ node' \in Draft
  BY DEF WriteTemplate, Written, FinalQA, LearningUpdate, workerVars, Draft
<1>2. UNCHANGED money /\ billed' \in Nat
  BY <1>1 DEF ledger, money, RunInv, LoopInv, Typed, WorkersTyped
<1>3. QED BY <1>1, <1>2, MoneyIdle DEF RunInv, LoopInv, Draft

-----------------------------------------------------------------------------
(* Only node and the report change: the loop's invariant stays. *)
LEMMA LoopRests ==
  ASSUME RunInv, MoneyOK', UNCHANGED <<workerVars, allowed, graphState>>,
         node' \in {"writing"} \cup Checked
  PROVE  LoopInv'
<1>1. /\ UNCHANGED <<ledger, billed, toolUses, calls, table, route, worker, allowed, hint>>
      /\ UNCHANGED <<facts, provenance, covered, retry, round, shownRound, limitations>>
      /\ UNCHANGED complete
  BY DEF workerVars, graphState, ledger
<1>2. Typed'
  BY <1>1 DEF RunInv, LoopInv, Typed, WorkersTyped, WorkersOK, GraphTyped, Node, Checked
<1>3. CallsOK' /\ SourcesOK' /\ FocusOK'
  BY <1>1 DEF RunInv, LoopInv, CallsOK, SourcesOK, FocusOK
<1>4. RoundsOK' /\ AcceptedGrounded' /\ HandoverHonest'
  BY DEF RoundsOK, Researching, AcceptedGrounded, HandoverHonest, Checked
<1>5. QED BY <1>2, <1>3, <1>4 DEF LoopInv

LEMMA AskStep == ASSUME RunInv, AskWriter PROVE RunInv'
<1>1. /\ node = "writer" /\ node' = "writing"
      /\ UNCHANGED <<report, qa, limitations, complete>>
  BY DEF AskWriter, graphState, reportVars
<1>2. MoneyOK'
  BY AskMoney
<1>3. UNCHANGED <<worker, toolUses, calls, table, route, allowed, graphState>> /\ billed' \in Nat
  BY AskMoney DEF AskWriter
<1>4. Typed'
  BY <1>1, <1>3 DEF RunInv, LoopInv, Typed, WorkersTyped, WorkersOK, GraphTyped, graphState, Node
<1>5. CallsOK' /\ SourcesOK' /\ FocusOK'
  BY <1>3 DEF RunInv, LoopInv, CallsOK, SourcesOK, FocusOK, graphState
<1>6. RoundsOK' /\ AcceptedGrounded' /\ HandoverHonest'
  BY <1>1 DEF RoundsOK, Researching, AcceptedGrounded, HandoverHonest
<1>7. ReportOK'
  BY <1>1 DEF RunInv, ReportOK, Draft, Checked
<1>8. QED BY <1>2, <1>4, <1>5, <1>6, <1>7 DEF RunInv, LoopInv

(* Whatever QA lets through or puts in place of a draft is honest: a good draft
   has no warning and no rejected claim, and the template tells accepted claims
   only and discloses limitations. *)
LEMMA QAStep == ASSUME RunInv, FinalQA PROVE RunInv'
<1> DEFINE good == Warnings(report) = {} /\ ~Leaks(report)
           safe == Template(limitations)
<1>1. /\ node = "final_qa" /\ node' = "learning_update"
      /\ report' = (IF good THEN report ELSE safe)
      /\ qa' = (IF good \/ Warnings(safe) = {} THEN "approved" ELSE "not_approved")
      /\ UNCHANGED <<facts, limitations, complete>>
  BY DEF FinalQA, graphState
<1>2. LoopInv'
  BY QuietMoney, LoopRests DEF FinalQA, Checked
<1>3. facts \in Seq(Fact)
  BY DEF RunInv, LoopInv, Typed, GraphTyped
<1>4. report \in Report /\ report.sources = ReportSources
  BY <1>1 DEF RunInv, ReportOK, Draft
<1>5. safe \in Report /\ safe.sources = ReportSources
  BY <1>3, TextsTyped DEF Texts
<1>6. AcceptedFacts' = AcceptedFacts /\ ReportSources' = ReportSources
  BY <1>1 DEF ReportSources, AcceptedFacts, Accepted
<1>7. complete \/ limitations # {}
  BY <1>1 DEF RunInv, ReportOK, Draft
<1>8. complete \/ report'.disclosed
  <2>1. CASE good
    <3>1. "missing_limitations" \notin Warnings(report)
      BY <2>1
    <3>2. limitations = {} \/ report.disclosed
      BY <3>1 DEF Warnings, Warning
    <3>3. QED BY <1>1, <1>7, <2>1, <3>2
  <2>2. CASE ~good
    <3>1. safe.disclosed = (limitations # {} \/ ClaimsOf(AcceptedFacts) = {})
      BY DEF Template
    <3>2. QED BY <1>1, <1>7, <2>2, <3>1
  <2>3. QED BY <2>1, <2>2
<1>9. \A f \in ToSet(facts) : f.claim \in report'.claims => f.claim \in ClaimsOf(AcceptedFacts)
  <2>1. CASE good
    <3> SUFFICES ASSUME NEW f \in ToSet(facts), f.claim \in report.claims
                 PROVE  f.claim \in ClaimsOf(AcceptedFacts)
      BY <1>1, <2>1
    <3>1. PICK i \in DOMAIN facts : facts[i] = f
      BY DEF ToSet
    <3>2. facts[i].verdict = "accepted"
      BY <2>1, <3>1 DEF Leaks
    <3>3. PICK j \in DOMAIN AcceptedFacts : AcceptedFacts[j] = f
      BY <1>3, <3>1, <3>2, AcceptedElements
    <3>4. QED BY <3>3 DEF ClaimsOf
  <2>2. CASE ~good
    BY <1>1, <2>2 DEF Template
  <2>3. QED BY <2>1, <2>2
<1>10. ASSUME NEW text, text \in Report, text.sources = ReportSources, Warnings(text) = {}
       PROVE  text.cites = DOMAIN text.sources
  <2>1. text.cites \subseteq DOMAIN text.sources
    <3>1. "citation_without_source" \notin Warnings(text)
      BY <1>10
    <3>2. QED BY <3>1 DEF Warnings, Warning
  <2>2. DOMAIN text.sources \subseteq text.cites \/ AcceptedFacts = <<>>
    <3>1. "source_not_cited" \notin Warnings(text)
      BY <1>10
    <3>2. QED BY <3>1 DEF Warnings, Warning
  <2>3. AcceptedFacts = <<>> => DOMAIN text.sources = {}
    BY <1>3, <1>10, SourcesListed
  <2>4. QED BY <2>1, <2>2, <2>3
<1>11. qa' = "approved" => report'.cites = DOMAIN report'.sources
  <2>1. CASE good
    BY <1>1, <1>4, <1>10, <2>1
  <2>2. CASE ~good /\ Warnings(safe) = {}
    BY <1>1, <1>5, <1>10, <2>2
  <2>3. CASE ~good /\ Warnings(safe) # {}
    BY <1>1, <2>3
  <2>4. QED BY <2>1, <2>2, <2>3
<1>12. /\ report' \in Report /\ report'.sources = ReportSources'
       /\ qa' \in {"approved", "not_approved"}
  BY <1>1, <1>4, <1>5, <1>6
<1>13. ReportOK'
  <2> HIDE DEF good, safe
  <2> QED BY <1>1, <1>6, <1>7, <1>8, <1>9, <1>11, <1>12 DEF ReportOK, ClaimsOf, Checked, Draft
<1>14. QED BY <1>2, <1>13 DEF RunInv

LEMMA LearningStep == ASSUME RunInv, LearningUpdate PROVE RunInv'
<1>1. /\ node = "learning_update" /\ node' = "end"
      /\ UNCHANGED <<report, qa, facts, limitations, complete>>
  BY DEF LearningUpdate, graphState, reportVars
<1>2. LoopInv'
  BY QuietMoney, LoopRests DEF LearningUpdate, Checked
<1>3. UNCHANGED <<ReportSources, AcceptedFacts>>
  BY <1>1 DEF ReportSources, AcceptedFacts, Accepted
<1>4. ReportOK'
  BY <1>1, <1>3 DEF RunInv, ReportOK, Draft, Checked, ClaimsOf
<1>5. QED BY <1>2, <1>4 DEF RunInv

(* The loop ends at the writer, and what it hands over is disclosed. *)
LEMMA ResearchStep ==
  ASSUME RunInv, LoopStep, UNCHANGED reportVars PROVE RunInv'
<1>1. LoopInv'
  BY LoopInvStep DEF RunInv
<1>2. node' \in Researching \cup {"writer"}
  BY DEF LoopStep, Intake, PlanWithoutModel, AskForPlan, PlanAnswers, PlanFails, PlanMade, Router,
         Supervisor, Work, Join, Abort, Validator, Gate, Researching
<1>3. node' \notin {"writing"} \cup Draft
  BY <1>2 DEF Researching, Draft
<1>4. node' = "writer" => complete' \/ limitations' # {}
  BY <1>1 DEF LoopInv, HandoverHonest
<1>5. ReportOK'
  BY <1>3, <1>4 DEF RunInv, ReportOK, reportVars, Draft, Checked
<1>6. QED BY <1>1, <1>5 DEF RunInv

LEMMA RunInvInit == RunInit => RunInv
<1> SUFFICES ASSUME RunInit PROVE RunInv
  OBVIOUS
<1>1. LoopInv
  BY LoopInvInit DEF RunInit
<1>2. NoReport \in Report
  <2>1. <<>> \in {q \in Seq(Ref) : IsInjective(q)}
    BY DEF IsInjective
  <2>2. QED BY <2>1 DEF NoReport, Report
<1>3. ReportOK
  BY <1>2 DEF RunInit, Init, ReportOK, Draft, Checked
<1>4. QED BY <1>1, <1>3 DEF RunInv

LEMMA RunInvStep ==
  ASSUME RunInv, RunNext
  PROVE  RunInv' /\ [Ledger!Next]_(Ledger!ledger)
<1>1. CASE LoopStep /\ UNCHANGED reportVars
  BY <1>1, ResearchStep, MoneyStep DEF RunInv, LoopInv
<1>2. CASE WriteTemplate
  <2>1. Written(Template(ToWrite)) /\ Texts(Template(ToWrite), ToWrite) /\ node = "writer"
    BY <1>2 DEF WriteTemplate, Texts
  <2>2. QED BY <1>2, <2>1, QuietMoney, WrittenKeeps
<1>3. CASE AskWriter
  BY <1>3, AskStep, AskMoney
<1>4. CASE WriterAnswers \/ WriterFails
  <2>1. PICK text : Written(text) /\ Texts(text, limitations)
    BY <1>4 DEF WriterAnswers, WriterFails, Texts
  <2>2. node = "writing"
    BY <1>4 DEF WriterAnswers, WriterFails
  <2>3. QED BY <1>4, <2>1, <2>2, AnswerMoney, WrittenKeeps
<1>5. CASE FinalQA
  BY <1>5, QAStep, QuietMoney
<1>6. CASE LearningUpdate
  BY <1>6, LearningStep, QuietMoney
<1>7. CASE Over
  <2>1. UNCHANGED vars /\ UNCHANGED reportVars
    BY <1>7 DEF Over, runVars
  <2>2. LoopInv'
    BY <2>1, LoopInvStutters DEF RunInv
  <2>3. ReportOK'
    BY <2>1 DEF RunInv, ReportOK, reportVars, vars, graphState, ReportSources, AcceptedFacts,
                Accepted, ClaimsOf
  <2>4. UNCHANGED Ledger!ledger
    BY <2>1 DEF vars, workerVars, ledger, Ledger!ledger
  <2>5. QED BY <2>2, <2>3, <2>4 DEF RunInv
<1>8. QED BY <1>1, <1>2, <1>3, <1>4, <1>5, <1>6, <1>7 DEF RunNext

LEMMA RunInvStutters ==
  ASSUME RunInv, UNCHANGED runVars PROVE RunInv' /\ [Ledger!Next]_(Ledger!ledger)
<1>1. UNCHANGED vars /\ UNCHANGED reportVars
  BY DEF runVars
<1>2. LoopInv'
  BY <1>1, LoopInvStutters DEF RunInv
<1>3. ReportOK'
  BY <1>1 DEF RunInv, ReportOK, reportVars, vars, graphState, ReportSources, AcceptedFacts,
              Accepted, ClaimsOf
<1>4. UNCHANGED Ledger!ledger
  BY <1>1 DEF vars, workerVars, ledger, Ledger!ledger
<1>5. QED BY <1>2, <1>3, <1>4 DEF RunInv

(* A run keeps the loop's invariant to its end, and its report is honest on its
   way out. *)
THEOREM RunInvariant == RunSpec => []RunInv
<1>1. RunInit => RunInv
  BY RunInvInit
<1>2. RunInv /\ [RunNext]_runVars => RunInv'
  BY RunInvStep, RunInvStutters
<1>3. QED BY <1>1, <1>2, PTL DEF RunSpec

(* Every variable of a run and every part of its report has its type; the list
   of sources has no duplicates. *)
THEOREM RunTypeCorrect == RunSpec => []ReportTypeOK
<1>1. RunInv => ReportTypeOK
  BY LoopInvTypes DEF RunInv, ReportOK, ReportTypeOK
<1>2. QED BY <1>1, RunInvariant, PTL

(* A gap the gate found is disclosed by whatever report leaves the graph,
   whichever of the model, the template and final QA made it. *)
THEOREM RunDisclosesGaps == RunSpec => []GapsDisclosed
<1>1. RunInv => GapsDisclosed
  BY DEF RunInv, ReportOK, GapsDisclosed, Checked
<1>2. QED BY <1>1, RunInvariant, PTL

(* A claim only rejected facts make reaches no report. *)
THEOREM RunKeepsRejectedOut == RunSpec => []RejectedStaysOut
<1>1. RunInv => RejectedStaysOut
  BY DEF RunInv, ReportOK, RejectedStaysOut, Checked
<1>2. QED BY <1>1, RunInvariant, PTL

(* What an approved report cites is what it lists: each source of an accepted
   fact, once. *)
THEOREM RunCitesSources == RunSpec => []ApprovedCitesSources
<1>1. RunInv => ApprovedCitesSources
  <2> SUFFICES ASSUME RunInv, node = "end", qa = "approved"
               PROVE  /\ report.cites = DOMAIN report.sources
                      /\ IsInjective(report.sources)
                      /\ ToSet(report.sources) = RefsOf(AcceptedFacts)
    BY DEF ApprovedCitesSources
  <2>1. report.cites = DOMAIN report.sources /\ report.sources = ReportSources
    BY DEF RunInv, ReportOK, Draft, Checked
  <2>2. facts \in Seq(Fact)
    BY DEF RunInv, LoopInv, Typed, GraphTyped
  <2>3. QED BY <2>1, <2>2, SourcesListed
<1>2. QED BY <1>1, RunInvariant, PTL

(* The loop's results hold in whole runs too: what the gate and the writer see as
   accepted is grounded. *)
THEOREM RunGrounded == RunSpec => []AcceptedGrounded
<1>1. RunInv => AcceptedGrounded
  BY DEF RunInv, LoopInv
<1>2. QED BY <1>1, RunInvariant, PTL

(* What the gate disclosed was true when the writer got it. *)
THEOREM RunHonest == RunSpec => []HandoverHonest
<1>1. RunInv => HandoverHonest
  BY DEF RunInv, LoopInv
<1>2. QED BY <1>1, RunInvariant, PTL

(* Between calls no money stays set aside, those of the writer included. *)
THEOREM RunReleases == RunSpec => []NothingLeftReserved
<1>1. RunInv => NothingLeftReserved
  BY NothingHeld DEF RunInv, LoopInv
<1>2. QED BY <1>1, RunInvariant, PTL

(* A whole run uses the ledger by its operations only. *)
THEOREM RunUsesLedger == RunSpec => LedgerSpec
<1>1. RunInit => Ledger!Init
  BY DEF RunInit, Init, WorkersInit
<1>2. RunInv /\ [RunNext]_runVars => [Ledger!Next]_(Ledger!ledger)
  BY RunInvStep, RunInvStutters
<1>3. QED BY <1>1, <1>2, RunInvariant, PTL DEF RunSpec, LedgerSpec, Ledger!Spec

(* No step of a run, up to its end, touches what is known of a covered
   sub-question. *)
THEOREM RunLeavesCovered == RunSpec => CoveredLeftAlone
<1>1. RunInv /\ [RunNext]_runVars =>
        [\A s \in Sub : covered[s] => FactsAbout(s, facts') = FactsAbout(s, facts)]_vars
  <2> SUFFICES ASSUME RunInv, RunNext, NEW s \in Sub, covered[s]
               PROVE  FactsAbout(s, facts') = FactsAbout(s, facts)
    BY DEF runVars
  <2>1. CASE LoopStep
    BY <2>1, CoveredStep DEF RunInv, LoopInv
  <2>2. CASE ~LoopStep
    BY <2>2 DEF RunNext, WriteTemplate, AskWriter, WriterAnswers, WriterFails, Written, FinalQA,
                LearningUpdate, Over, runVars, vars, graphState
  <2>3. QED BY <2>1, <2>2
<1>2. QED BY <1>1, RunInvariant, PTL DEF RunSpec, CoveredLeftAlone
=============================================================================
