------------------------------ MODULE Workers ------------------------------
(***************************************************************************)
(* The web and document workers of one run: nodes/web_search_worker.py,    *)
(* nodes/document_search_worker.py, the summarizer they share and          *)
(* generate_paid.  LangGraph runs every dispatched worker in a thread of   *)
(* its own; they share the budget ledger, the tool-use counter and the     *)
(* provenance table, so a step below is what happens between two accesses  *)
(* to one of these, or the answer of an external call.                     *)
(*                                                                         *)
(* Task 2s-1 is the web worker of sub-question s, task 2s its document     *)
(* worker: the order of the tasks is the order in which dispatch_workers   *)
(* sends them.  A worker has at most one reservation, so the task is its   *)
(* id; GraphNode reserves as caller 0.  Warnings, progress events and      *)
(* telemetry rows are left out.                                            *)
(***************************************************************************)
EXTENDS Evidence

CONSTANTS Budget,        \* request.max_cost_usd
          Tolerance,     \* of BudgetLedger
          CallCost,      \* worst-case cost of one call of a paid model
          Bills,         \* costs a paid call can report
          SearchCost,    \* settings.tavily_cost_usd; 0: not set, or fixture mode
          SearchErrors,  \* how a search can fail: subset of {"controlled", "transport"}
          ToolLimit,     \* ToolUseCounter.limit
          HitLists,      \* hit lists (their first two) a web search can return
          Pages,         \* URL -> the <<final URL, text>> a fetch of it can return
          DocRows,       \* sub -> the citations (first three) the index returns for it
          ChunkText,     \* citation -> text of the chunk
          LongText,      \* texts of more than 500 characters
          NoReservation  \* of BudgetLedger

ThisRun == "run"

ASSUME WorkersAssumption ==
  /\ Budget \in Nat /\ Tolerance \in Nat
  /\ CallCost \in Nat /\ CallCost > Tolerance
  /\ Bills \subseteq Nat
  /\ SearchCost \in Nat /\ (SearchCost > 0 => SearchCost > Tolerance)
  /\ SearchErrors \subseteq {"controlled", "transport"}
  /\ ToolLimit \in Nat
  /\ HitLists \subseteq UNION {[1 .. n -> DOMAIN Pages] : n \in 0 .. 2}
  /\ DOMAIN Pages \subseteq Ref
  /\ \A url \in DOMAIN Pages : Pages[url] \subseteq Ref \X Text
  /\ DocRows \in [Sub -> UNION {[1 .. n -> DOMAIN ChunkText] : n \in 0 .. 3}]
  /\ DOMAIN ChunkText \subseteq Ref
  /\ \A ref \in DOMAIN ChunkText : ChunkText[ref] \in Text
  /\ LongText \subseteq Text
  /\ NoReservation \notin [run : {ThisRun}, held : Nat]

Task == 1 .. 2 * SubCount
TaskSub(t) == (t + 1) \div 2
TaskKind(t) == IF t % 2 = 1 THEN "web" ELSE "documents"

(* The graph's own node, planner or writer, as a caller of the ledger. *)
GraphNode == 0
Caller == Task \cup {GraphNode}

VARIABLES spent, reserved, reservations, paidCalls,  \* BudgetLedger
          billed,    \* history: what vendors charged for this run's calls
          toolUses,  \* ToolUseCounter._counts of this run
          calls,     \* history: tool calls that were really made, by sub-question
          table,     \* the persisted provenance rows of this run
          route,     \* the model chosen for each sub-question
          worker     \* local state of each worker

Ledger == INSTANCE BudgetLedger
            WITH Run <- {ThisRun}, Id <- Caller, Ceiling <- [r \in {ThisRun} |-> Budget],
                 Amount <- {0, CallCost, SearchCost}, Actual <- Bills \cup {0, SearchCost}

ledger == <<spent, reserved, reservations, paidCalls, billed>>
workerVars == <<ledger, toolUses, calls, table, route, worker>>

Alias == {"none", "free", "paid"}
CostOf(alias) == IF alias = "paid" THEN CallCost ELSE 0

Step == {"idle", "begin", "meter", "search", "fetch", "fetching", "passage", "condense",
         "reserve", "generate", "done", "raised"}

(* hits: what is still to be read, the current item first; source and text
   of the current item; facts and sources: what the worker will return. *)
Idle == [pc |-> "idle", hits |-> <<>>, source |-> NoText, text |-> NoText,
         facts |-> <<>>, sources |-> NoProvenance]

WorkersTypeOK ==
  /\ billed \in Nat
  /\ toolUses \in [Sub -> 0 .. ToolLimit]
  /\ calls \in [Sub -> Nat]
  /\ table \in [Ref -> Text \cup {NoText}]
  /\ route \in [Sub -> Alias]
  /\ \A t \in Task :
       /\ worker[t].pc \in Step
       /\ worker[t].hits \in Seq(Ref) /\ Len(worker[t].hits) <= 3
       /\ worker[t].source \in Ref \cup {NoText}
       /\ worker[t].text \in Text \cup {NoText}
       /\ worker[t].facts \in Seq(Fact)
       /\ worker[t].sources \in [Ref -> Text \cup {NoText}]

WorkersInit ==
  /\ Ledger!Init /\ billed = 0
  /\ toolUses = [s \in Sub |-> 0]
  /\ calls = [s \in Sub |-> 0]
  /\ table = NoProvenance
  /\ route = [s \in Sub |-> "none"]
  /\ worker = [t \in Task |-> Idle]

-----------------------------------------------------------------------------
At(t, step) == worker[t].pc = step

Goto(w, step) == [w EXCEPT !.pc = step]

(* ToolUseCounter.consume(): counts a use, or refuses at the limit. *)
CanConsume(s) == toolUses[s] < ToolLimit
Consume(s) == toolUses' = [toolUses EXCEPT ![s] = @ + 1]

(* The vendor's charge, which is what the caller reports when it settles. *)
Bill(amount) == billed' = billed + amount

Call(s) == calls' = [calls EXCEPT ![s] = @ + 1]

(* The worker is through with its current item. *)
NextItem(t, w) ==
  [w EXCEPT !.hits = Tail(@), !.source = NoText, !.text = NoText,
            !.pc = IF Len(w.hits) = 1 THEN "done"
                   ELSE IF TaskKind(t) = "web" THEN "fetch" ELSE "passage"]

(* The worker adds a fact about its current item. *)
Conclude(t, claim) ==
  LET w == worker[t]
      fact == Candidate(TaskSub(t), w.source, w.text, claim)
  IN worker' = [worker EXCEPT ![t] = NextItem(t, [w EXCEPT !.facts = Append(@, fact)])]

OwnClaim(t, text) == IF TaskKind(t) = "web" THEN WebClaim(TaskSub(t))
                     ELSE DocumentClaim(TaskSub(t), text)

(* provenance.add(), then a long text goes to the summarizer, and of a short
   one the worker writes the claim itself. *)
Record(t, ref, text) ==
  LET w == [worker[t] EXCEPT !.source = ref, !.text = text,
                             !.sources = [@ EXCEPT ![ref] = text]]
      fact == Candidate(TaskSub(t), ref, text, OwnClaim(t, text))
  IN /\ table' = [table EXCEPT ![ref] = text]
     /\ worker' = [worker EXCEPT ![t] =
          IF text \in LongText THEN Goto(w, "condense")
          ELSE NextItem(t, [w EXCEPT !.facts = Append(@, fact)])]

-----------------------------------------------------------------------------
(* The first tool use: the worker ends here at the limit. A document search
   reads the local index, and ends here when it finds nothing. *)
BeginWeb(t) ==
  /\ At(t, "begin") /\ TaskKind(t) = "web" /\ CanConsume(TaskSub(t))
  /\ Consume(TaskSub(t))
  /\ worker' = [worker EXCEPT ![t] =
       Goto(@, IF SearchCost > 0 THEN "meter" ELSE "search")]
  /\ UNCHANGED <<ledger, calls, table, route>>

BeginDocuments(t) ==
  /\ At(t, "begin") /\ TaskKind(t) = "documents" /\ CanConsume(TaskSub(t))
  /\ Consume(TaskSub(t)) /\ Call(TaskSub(t))
  /\ LET rows == DocRows[TaskSub(t)]
     IN worker' = [worker EXCEPT ![t] =
          [@ EXCEPT !.hits = rows, !.pc = IF rows = <<>> THEN "done" ELSE "passage"]]
  /\ UNCHANGED <<ledger, table, route>>

BeginAtLimit(t) ==
  /\ At(t, "begin") /\ ~CanConsume(TaskSub(t))
  /\ worker' = [worker EXCEPT ![t] = Goto(@, "done")]
  /\ UNCHANGED <<ledger, toolUses, calls, table, route>>

(* A metered search reserves its price, or is given up. *)
MeterSearch(t) ==
  /\ At(t, "meter")
  /\ IF Ledger!Affordable(ThisRun, SearchCost)
     THEN /\ Ledger!Reserve(ThisRun, t, SearchCost, TRUE) /\ Bill(0)
          /\ worker' = [worker EXCEPT ![t] = Goto(@, "search")]
     ELSE /\ worker' = [worker EXCEPT ![t] = Goto(@, "done")]
          /\ UNCHANGED ledger
  /\ UNCHANGED <<toolUses, calls, table, route>>

(* Mutant of SearchAnswers: the price is charged, the hold is forgotten. *)
SearchChargedUnsettled(t) ==
  /\ At(t, "search") /\ Call(TaskSub(t))
  /\ \E hits \in HitLists :
       worker' = [worker EXCEPT ![t] =
         [@ EXCEPT !.hits = hits, !.pc = IF hits = <<>> THEN "done" ELSE "fetch"]]
  /\ spent' = [spent EXCEPT ![ThisRun] = @ + SearchCost] /\ Bill(SearchCost)
  /\ UNCHANGED <<reserved, reservations, paidCalls, toolUses, table, route>>

(* The search returns, and a metered one is settled at its price. *)
SearchAnswers(t) ==
  /\ At(t, "search") /\ Call(TaskSub(t))
  /\ \E hits \in HitLists :
       worker' = [worker EXCEPT ![t] =
         [@ EXCEPT !.hits = hits, !.pc = IF hits = <<>> THEN "done" ELSE "fetch"]]
  /\ Ledger!Settle(t, SearchCost) /\ Bill(SearchCost)
  /\ UNCHANGED <<toolUses, table, route>>

(* A controlled error (AARError) ends the worker with a warning. *)
SearchFails(t) ==
  /\ At(t, "search") /\ Call(TaskSub(t))
  /\ "controlled" \in SearchErrors
  /\ worker' = [worker EXCEPT ![t] = Goto(@, "done")]
  /\ Ledger!Release(t) /\ Bill(0)
  /\ UNCHANGED <<toolUses, table, route>>

(* Any other exception, such as a connection error or timeout of the HTTP
   client, is not caught: it leaves the worker and the reservation. *)
SearchRaises(t) ==
  /\ At(t, "search") /\ Call(TaskSub(t))
  /\ "transport" \in SearchErrors
  /\ worker' = [worker EXCEPT ![t] = Goto(@, "raised")]
  /\ UNCHANGED <<ledger, toolUses, table, route>>

(* One tool use per page; at the limit the worker stops reading hits. *)
TakeHit(t) ==
  /\ At(t, "fetch")
  /\ IF CanConsume(TaskSub(t))
     THEN /\ Consume(TaskSub(t))
          /\ worker' = [worker EXCEPT ![t] = Goto(@, "fetching")]
     ELSE /\ worker' = [worker EXCEPT ![t] = [@ EXCEPT !.hits = <<>>, !.pc = "done"]]
          /\ UNCHANGED toolUses
  /\ UNCHANGED <<ledger, calls, table, route>>

(* The fetch raises, is blocked, or returns an empty page. *)
FetchFails(t) ==
  /\ At(t, "fetching") /\ Call(TaskSub(t))
  /\ worker' = [worker EXCEPT ![t] = NextItem(t, @)]
  /\ UNCHANGED <<ledger, toolUses, table, route>>

FetchAnswers(t) ==
  /\ At(t, "fetching") /\ Call(TaskSub(t))
  /\ \E page \in Pages[Head(worker[t].hits)] : Record(t, page[1], page[2])
  /\ UNCHANGED <<ledger, toolUses, route>>

TakePassage(t) ==
  /\ At(t, "passage")
  /\ LET ref == Head(worker[t].hits) IN Record(t, ref, ChunkText[ref])
  /\ UNCHANGED <<ledger, toolUses, calls, route>>

(* Mutant of Condense: a summary is not counted as a tool use. *)
CondenseUncounted(t) ==
  /\ At(t, "condense")
  /\ IF CanConsume(TaskSub(t)) /\ route[TaskSub(t)] # "none"
     THEN worker' = [worker EXCEPT ![t] = Goto(@, "reserve")]
     ELSE Conclude(t, QuotedClaim(worker[t].source, worker[t].text))
  /\ UNCHANGED <<ledger, toolUses, calls, table, route>>

(* A summary is one more tool use; without one left, or without a model, the
   claim needs no call. *)
Condense(t) ==
  /\ At(t, "condense")
  /\ IF CanConsume(TaskSub(t))
     THEN /\ Consume(TaskSub(t))
          /\ IF route[TaskSub(t)] = "none"
             THEN Conclude(t, QuotedClaim(worker[t].source, worker[t].text))
             ELSE worker' = [worker EXCEPT ![t] = Goto(@, "reserve")]
     ELSE /\ Conclude(t, OwnClaim(t, worker[t].text))
          /\ UNCHANGED toolUses
  /\ UNCHANGED <<ledger, calls, table, route>>

(* generate_paid(): reserve, call, settle; a rejected reservation and a
   provider error both mean no summary. *)
ReserveModel(t) ==
  /\ At(t, "reserve")
  /\ LET cost == CostOf(route[TaskSub(t)])
     IN IF Ledger!Affordable(ThisRun, cost)
        THEN /\ Ledger!Reserve(ThisRun, t, cost, cost > 0) /\ Bill(0)
             /\ worker' = [worker EXCEPT ![t] = Goto(@, "generate")]
        ELSE /\ Conclude(t, QuotedClaim(worker[t].source, worker[t].text))
             /\ UNCHANGED ledger
  /\ UNCHANGED <<toolUses, calls, table, route>>

Reported(alias) == IF alias = "paid" THEN Bills ELSE {0}

ModelAnswers(t) ==
  /\ At(t, "generate") /\ Call(TaskSub(t))
  /\ \E actual \in Reported(route[TaskSub(t)]) : Ledger!Settle(t, actual) /\ Bill(actual)
  /\ \E wording \in Wording :
       Conclude(t, SummaryClaim(worker[t].source, worker[t].text, wording))
  /\ UNCHANGED <<toolUses, table, route>>

(* Mutant of ModelFails: the reservation is not released. *)
ModelFailsHolding(t) ==
  /\ At(t, "generate") /\ Call(TaskSub(t))
  /\ Conclude(t, QuotedClaim(worker[t].source, worker[t].text))
  /\ UNCHANGED <<ledger, toolUses, table, route>>

(* A provider error releases the reservation; the passage is quoted. *)
ModelFails(t) ==
  /\ At(t, "generate") /\ Call(TaskSub(t))
  /\ Ledger!Release(t) /\ Bill(0)
  /\ Conclude(t, QuotedClaim(worker[t].source, worker[t].text))
  /\ UNCHANGED <<toolUses, table, route>>

WorkerStep(t) ==
  \/ BeginWeb(t) \/ BeginDocuments(t) \/ BeginAtLimit(t)
  \/ MeterSearch(t) \/ SearchAnswers(t) \/ SearchFails(t) \/ SearchRaises(t)
  \/ TakeHit(t) \/ FetchFails(t) \/ FetchAnswers(t) \/ TakePassage(t)
  \/ Condense(t) \/ ReserveModel(t) \/ ModelAnswers(t) \/ ModelFails(t)

-----------------------------------------------------------------------------
(* However the web and the document worker of a sub-question interleave, and
   over all rounds, no more than ToolLimit tool calls are made for it. *)
CallsWithinLimit == \A s \in Sub : calls[s] <= ToolLimit

(* The ledger, as the workers and the planner use it, implements the ledger's
   own specification: every access is one atomic operation of it. *)
LedgerSpec == Ledger!Spec
=============================================================================
