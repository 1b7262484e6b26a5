----------------------------- MODULE Reporting -----------------------------
(***************************************************************************)
(* What a run makes of its facts: nodes/writer.py, nodes/final_qa.py and   *)
(* the end of nodes/learning_update.py, composed with the research loop    *)
(* that hands over to them.  What learning_update stores is in             *)
(* LearningStore.                                                          *)
(*                                                                         *)
(* A report is its Markdown text, reduced to what QA looks for in it, and  *)
(* the list of sources beside it.  The code lists sources from the         *)
(* accepted facts, never from the text.                                    *)
(***************************************************************************)
EXTENDS ResearchLoop

CONSTANTS WriteAlias,  \* models the deployment has for writing: subset of Alias
          Numbered     \* claims whose wording has a number in square brackets

ASSUME ReportingAssumption ==
  /\ WriteAlias \subseteq Alias
  /\ Numbered \subseteq Claim

VARIABLES report,  \* state["report"] without its QA result
          qa       \* report.qa_status

reportVars == <<report, qa>>
runVars == <<vars, reportVars>>

(* A number that is no source's: a report that contains it cites no source. *)
StrayNumber == 0

(* writer: who wrote it; sections: sub-questions with a heading; claims: claims
   that occur; cites: numbers in square brackets; strayLink: it names a source
   that is not approved; disclosed: it has the heading Limitations, or the word
   "insufficient"; sources: the list of sources. *)
Report ==
  [writer : {"template", "model"}, sections : SUBSET Sub, claims : SUBSET Claim,
   cites : SUBSET Nat, strayLink : BOOLEAN, disclosed : BOOLEAN,
   sources : {q \in Seq(Ref) : IsInjective(q)}]

NoReport == [writer |-> "template", sections |-> {}, claims |-> {}, cites |-> {},
             strayLink |-> FALSE, disclosed |-> FALSE, sources |-> <<>>]

RunInit == Init /\ report = NoReport /\ qa = "pending"

-----------------------------------------------------------------------------
AcceptedFacts == InOrder(facts, {i \in DOMAIN facts : Accepted(i)})
ClaimsOf(list) == {list[i].claim : i \in DOMAIN list}
RefsOf(list) == {RefOf(list[i]) : i \in DOMAIN list}

(* Mutant of ReportSources: a source is listed for each fact. *)
SourcesRepeated == [i \in DOMAIN AcceptedFacts |-> RefOf(AcceptedFacts[i])]

(* _sources: each source of an accepted fact once, in the order of the facts. *)
ReportSources ==
  LET refs == [i \in DOMAIN AcceptedFacts |-> RefOf(AcceptedFacts[i])]
  IN InOrder(refs, FirstPositions(refs))

(* The numbers that stand in square brackets in a text with these claims. *)
Brackets(cites, claims) ==
  cites \cup (IF claims \cap Numbered = {} THEN {} ELSE {StrayNumber})

(* Mutant of Template: the limitations of the state are not passed on. *)
TemplateUndisclosed(limits) ==
  LET sources == ReportSources
      claims == ClaimsOf(AcceptedFacts)
  IN [writer |-> "template", sections |-> Sub, claims |-> claims,
      cites |-> Brackets(DOMAIN sources, claims), strayLink |-> FALSE,
      disclosed |-> claims = {}, sources |-> sources]

(* template_report: a section for each sub-question, in which every accepted
   fact about it is told with the number of its source, then the numbered list. *)
Template(limits) ==
  LET sources == ReportSources
      claims == ClaimsOf(AcceptedFacts)
  IN [writer |-> "template", sections |-> Sub, claims |-> claims,
      cites |-> Brackets(DOMAIN sources, claims), strayLink |-> FALSE,
      disclosed |-> limits # {} \/ claims = {}, sources |-> sources]

(* The drafts a model may write that _parse_llm_report takes: it may leave out
   the heading of a section, repeat any claim, cite too little or too much, name
   any source, and be silent about limitations. *)
Drafts ==
  LET sources == ReportSources
      accepted == ClaimsOf(AcceptedFacts)
      drafts == [writer : {"model"}, sections : {Sub, Sub \ {1}},
                 claims : {accepted} \cup {{f.claim} : f \in ToSet(facts)},
                 cites : {{}, DOMAIN sources, DOMAIN sources \cup {Len(sources) + 1}},
                 strayLink : BOOLEAN, disclosed : BOOLEAN, sources : {sources}]
  IN {[d EXCEPT !.cites = Brackets(d.cites, d.claims)] : d \in drafts}

-----------------------------------------------------------------------------
(* Without a fact the writer adds a limitation of its own. *)
ToWrite == IF AcceptedFacts = <<>> THEN limitations \cup {"insufficient_evidence"}
           ELSE limitations

Written(text) ==
  /\ node' = "final_qa"
  /\ report' = text
  /\ limitations' = ToWrite
  /\ UNCHANGED <<toolUses, calls, table, route, worker, allowed, hint, facts, provenance,
                 covered, retry, round, shownRound, complete, qa>>

(* writer without a call: there is no fact, no model fits, or its worst-case
   cost is rejected. *)
WriteTemplate ==
  /\ node = "writer"
  /\ \/ AcceptedFacts = <<>>
     \/ \E a \in Eligible(WriteAlias) :
          a = "none" \/ ~Ledger!Affordable(ThisRun, CostOf(a))
  /\ Written(Template(ToWrite))
  /\ UNCHANGED ledger

AskWriter ==
  /\ node = "writer" /\ node' = "writing"
  /\ AcceptedFacts # <<>>
  /\ \E a \in Eligible(WriteAlias) \ {"none"} :
       Ledger!Reserve(ThisRun, GraphNode, CostOf(a), a = "paid") /\ Bill(0)
  /\ UNCHANGED <<toolUses, calls, table, route, worker, allowed, graphState, reportVars>>

(* The draft is taken if it parses; otherwise the template stays. *)
WriterAnswers ==
  /\ node = "writing"
  /\ \E actual \in IF reservations[GraphNode].held > 0 THEN Bills ELSE {0} :
       Ledger!Settle(GraphNode, actual) /\ Bill(actual)
  /\ \E text \in Drafts \cup {Template(limitations)} : Written(text)

(* Mutant of WriterFails: the reservation is not released. *)
WriterFailsHolding ==
  /\ node = "writing"
  /\ Written(Template(limitations))
  /\ UNCHANGED ledger

WriterFails ==
  /\ node = "writing"
  /\ Ledger!Release(GraphNode) /\ Bill(0)
  /\ Written(Template(limitations))

-----------------------------------------------------------------------------
Warning == {"missing_section", "citation_without_source", "source_not_cited",
            "duplicate_sources", "unknown_link", "missing_limitations",
            "missing_insufficient_disclosure"}

(* run_qa. It is given the accepted facts only, so the test for rejected claims
   it contains never finds one. *)
Warnings(text) ==
  {w \in Warning :
     CASE w = "missing_section" -> text.sections # Sub
       [] w = "citation_without_source" -> ~(text.cites \subseteq DOMAIN text.sources)
       [] w = "source_not_cited" -> ~(DOMAIN text.sources \subseteq text.cites)
                                      /\ AcceptedFacts # <<>>
       [] w = "duplicate_sources" ->
            Len(text.sources) # Cardinality(ToSet(text.sources))
       [] w = "unknown_link" -> ~(ToSet(text.sources) \subseteq RefsOf(AcceptedFacts))
       [] w = "missing_limitations" -> limitations # {} /\ ~text.disclosed
       [] OTHER -> AcceptedFacts = <<>> /\ ~text.disclosed}

(* Mutant of Leaks: the test as run_qa makes it, on the accepted facts. *)
LeaksAmongAccepted(text) ==
  \E i \in DOMAIN AcceptedFacts :
    AcceptedFacts[i].verdict # "accepted" /\ AcceptedFacts[i].claim \in text.claims

(* The claim of a rejected fact occurs in the text. *)
Leaks(text) ==
  \E i \in DOMAIN facts : facts[i].verdict # "accepted" /\ facts[i].claim \in text.claims

(* Mutant of FinalQA: the template that replaces a draft is not checked. *)
FinalQATrustsTemplate ==
  /\ node = "final_qa" /\ node' = "learning_update"
  /\ LET good == Warnings(report) = {} /\ ~Leaks(report)
     IN report' = IF good THEN report ELSE Template(limitations)
  /\ qa' = "approved"
  /\ UNCHANGED <<workerVars, allowed, graphState>>

(* final_qa: a report with any warning is replaced by the template, of which only
   run_qa's own warnings count. *)
FinalQA ==
  /\ node = "final_qa" /\ node' = "learning_update"
  /\ LET good == Warnings(report) = {} /\ ~Leaks(report)
     IN /\ report' = IF good THEN report ELSE Template(limitations)
        /\ qa' = IF good \/ Warnings(Template(limitations)) = {}
                 THEN "approved" ELSE "not_approved"
  /\ UNCHANGED <<workerVars, allowed, graphState>>

LearningUpdate ==
  /\ node = "learning_update" /\ node' = "end"
  /\ UNCHANGED <<workerVars, allowed, graphState, reportVars>>

Over == node \in {"end", "failed"} /\ UNCHANGED runVars

RunNext ==
  \/ LoopStep /\ UNCHANGED reportVars
  \/ WriteTemplate \/ AskWriter \/ WriterAnswers \/ WriterFails
  \/ FinalQA \/ LearningUpdate \/ Over

RunSpec == RunInit /\ [][RunNext]_runVars

-----------------------------------------------------------------------------
ReportTypeOK == TypeOK /\ report \in Report /\ qa \in {"pending", "approved", "not_approved"}

(* Coverage the gate found missing is disclosed by whatever report leaves the
   graph: the model's draft, the template, or the template that replaced it. *)
GapsDisclosed == node = "end" /\ ~complete => report.disclosed

(* A claim that only rejected facts make is in no report, although the template
   that replaces a draft is not searched for rejected claims again. *)
RejectedStaysOut ==
  node = "end" =>
    \A f \in ToSet(facts) : f.claim \in report.claims =>
      f.claim \in ClaimsOf(AcceptedFacts)

(* In an approved report the numbers cited are those of the listed sources, each
   listed once and the source of an accepted fact. *)
ApprovedCitesSources ==
  node = "end" /\ qa = "approved" =>
    /\ report.cites = DOMAIN report.sources
    /\ IsInjective(report.sources)
    /\ ToSet(report.sources) = RefsOf(AcceptedFacts)

-----------------------------------------------------------------------------
(* What the documentation says and the code does not do: "Final QA
   deterministically verifies ... unknown links"; an approved report names no
   source that is not approved. *)
ApprovedLinksKnown == node = "end" /\ qa = "approved" => ~report.strayLink
=============================================================================
