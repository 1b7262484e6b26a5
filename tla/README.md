# TLA+ models of the Colitec research agent

This directory specifies the control of the agentic research service in
`src/src/aar/`: its shared budget, its parallel search workers, the research
graph that loops over them until the evidence suffices and then writes and
checks a report, the choice of models and what the service learns about them,
and the process that starts, serves runs, streams and requests, and may die at
any moment.  TLC checks the modules on small instances; TLAPS proves the main
safety theorems about the ledger, the life of runs, the service, the index, the
averages and the choice of models for every instance.

    tlc -config Service.cfg MCService            check one run (see "Runs")
    tlapm BudgetLedger_proofs.tla                check one proof module

## The system

A client posts a question.  The API stores a row, starts a thread, and the
thread drives one compiled LangGraph graph:

    START -> request_intake -> planner -> complexity_router -> research_supervisor
          -> {web_search_worker, document_search_worker}*   (parallel, one Send each)
          -> research_join -> validator -> coverage_gate -> (research_supervisor | writer)
          -> final_qa -> learning_update -> END

Meanwhile the client follows an event stream that polls two tables.

| component | state | operations | interacts with |
|---|---|---|---|
| Budget ledger `storage/budget.py` | spent, reserved and paid calls per run; outstanding reservations; one lock | remaining, reserve, settle, release | workers, planner, router, gate |
| Tool-use counter `storage/tools_counter.py` | uses per (run, sub-question); one lock | consume | both workers of a sub-question |
| Workers `nodes/web_search_worker.py`, `document_search_worker.py`, `summarizer.py`, `common.py` | local: hits to read, candidate facts, sources | search, fetch, quote, summarize | ledger, counter, provenance table, model client, web tools, document index |
| Graph state `graph/state.py` | facts, provenance, coverage flags, round, limitations | reducers merge_by_id and merge_provenance | every node |
| Research loop `graph/builder.py`, `nodes/*` up to the gate | the graph state | one node at a time, workers in parallel | ledger, registry |
| Provenance ledger `storage/provenance.py` | one row per (run, source) | add (upsert), list_for_run | workers, validator |
| Writer, final QA, learning `nodes/writer.py`, `final_qa.py`, `learning_update.py` | report, QA result | compose, check, fall back to the template, record | model client, learning store, event log |
| Run service, registry, events, API `api/`, `storage/registry.py`, `storage/events.py` | rows, event log, threads, connections | create, execute, update, append, stream, answer status and report | the graph, the ledger, clients |
| Routing and scoring `llm/routing.py`, `scoring.py`, `catalog.py` | none (pure) | score, reject, select | planner, router |
| Learning store `storage/learning.py` | averages and a sample count per alias, shared by all runs | get, update | learning_update, routing |
| Document index `storage/documents.py`, `graph/runtime.py` | documents and chunks | seed, index, search | document worker |
| Model client, adapters, web tools, URL checks `llm/client.py`, `llm/adapters/`, `tools/` | none | external calls | workers |
| Telemetry `storage/telemetry.py` | append-only rows | record, summary | every node |

### What is hard in it, and what makes each component correct

* **Ledger.** Callers of several runs reserve in parallel and settle late, twice
  or with any cost.  Correct: the running total equals what is outstanding;
  spent plus reserved never passes the ceiling; a zero budget buys nothing.
* **Workers.** Every way out of a paid call must settle or release exactly what
  it reserved.  Two workers share a sub-question's four tool uses.  A fact must
  not outlive or precede its source.
* **Graph state.** Outputs merge in an order that is not the order they were
  produced in, over two rounds that reuse fact ids.  Correct: merging does not
  depend on grouping, and what the validator accepted is grounded in a text the
  run holds.
* **Loop.** Retry depends on coverage, round and budget at once.  Correct: each
  round is judged once, rounds are bounded, covered sub-questions are left alone,
  and the writer is told of missing coverage exactly when some is missing.
* **Run life cycle.** Completion is announced inside the graph but recorded
  outside it; failure is recorded, then announced; a stream reads log and row in
  two steps; a restart drops the threads.  Correct: a run is decided at most
  once, a success has its result, a failure anyone hears of is on record, a
  stream tells its run's events in order and all of them, and it ends.
* **Writer and QA.** A model's draft is free text; QA replaces a draft with any
  warning by the template and checks that again, but not in the same way.
  Correct: whatever the model wrote, the report that leaves the graph discloses
  missing coverage and tells no claim that was only rejected, and an approved one
  cites exactly its listed sources, each of them the source of an accepted fact.
* **Requests.**  The answer to `GET /api/report` is put together from three
  readings, the cost told from two tables of which one dies with the process.
  Correct: an answer is never ahead of the record it is about, and a decided run
  is told with all it was charged.
* **Routing.**  Preferences are read alias by alias while other runs write them;
  money is read before the prompt exists.  Correct: what was learned only breaks
  ties, money decides whether there is a model and not which, and who asks for
  more is never given less.
* **Learning store.**  `update` reads under one lock and writes under another.
  The node that stores catches what the store raises, the nodes that route do not.
  Correct: averages stay averages, a sample is lost only by an overlap or with a
  warning, and every run ends.
* **Start.**  Seeding is skipped when there is any text, indexing when there is
  any document.  Correct: a process that is up has something to search, and what
  is indexed is what the files have.

`PROJECT.json` lists each hazard at its line with the properties aimed at it.

## Modules

| module | models | built on |
|---|---|---|
| `SpendingCap` | what a budget promises: holds and resolutions within a cap | |
| `BudgetLedger` | `BudgetLedger` under arbitrary callers | refines `SpendingCap` |
| `BudgetLedger_proofs` | its theorems | `BudgetLedger` |
| `Evidence` | facts, quotes, claims, the reducers, the join's filter, the validator, coverage | |
| `Evidence_proofs` | theorems about the reducers, the filter and the validator | `Evidence` |
| `EvidenceLoops` | the same functions as the loops the code is written in | `Evidence` |
| `EvidenceLoops_proofs` | the loops compute these functions, for lists of any length | `EvidenceLoops`, `Evidence_proofs` |
| `Workers` | both workers step by step, with ledger, counter and provenance table | `Evidence`, an instance of `BudgetLedger` |
| `CoverageContract` | what the loop promises the writer | |
| `ResearchLoop` | the graph from START to the writer | `Workers`; refines `CoverageContract` and the ledger's own specification |
| `ResearchLoop_proofs` | theorems about the loop and its workers | `ResearchLoop`, `Evidence_proofs` |
| `Reporting` | writer, final QA and the end of the graph | `ResearchLoop` |
| `Reporting_proofs` | theorems about whole runs and their reports | `Reporting`, `ResearchLoop_proofs` |
| `RunOutcome` | a run is accepted, then decided once | |
| `RunLifecycle` | thread, row, event log and event streams of runs | refines `RunOutcome` |
| `CorpusIndex` | the start of the process: seeding and indexing | |
| `Service` | the process: start, runs, streams, costs, requests, deaths | `RunLifecycle`, `CorpusIndex`; refines both |
| `Service_proofs` | theorems about the life of runs, the start and the service | `Service` |
| `Scoring` | scores and tiers | |
| `Routing` | filters and order of models, for any catalog | |
| `Catalog` | the catalog of the code | |
| `LearningStore` | averages under concurrent updates | |
| `LearningStore_proofs` | its theorems | `LearningStore` |
| `ModelPolicy` | runs that choose models, call them and learn | `Scoring`, `Routing`, `LearningStore`; refines the latter |
| `ModelPolicy_proofs` | theorems about the selection of a model and about runs that select | `ModelPolicy` and `LearningStore_proofs` |
| `MC*` | values for TLC | |

### How they correspond to the code

**BudgetLedger.**  `spent`, `reserved`, `reservations`, `paidCalls` are the four
dictionaries.  Each method holds the lock throughout, so it is one action.
`reserve` raising `BudgetRejected` is `~Affordable`.  The action operators are
used by the clients' modules; `Next` is the ledger under any client, including
one that settles a reservation twice.

**Evidence.**  A text, a reference and a claim are values: a claim names what it
was made from (`WebClaim`, `QuotedClaim`, `SummaryClaim` with a wording the model
chose), and `OnTopic`/`Overlaps` decide what the validator's word-overlap test
would.  A fact's id is its sub-question, source and quote, which `_fact_id` hashes.
The functions on lists are defined by what their results contain: `InOrder` takes
the elements at a set of positions, `FirstPositions` are those where a key occurs
for the first time.  `MergeById` has the last content at the first place of an id,
as the dictionary in `merge_by_id` does; `Validate` judges each fact against the claims accepted
before it, with the flaws in the code's order.

**Workers.**  One process per dispatched worker.  A step is what happens between
two accesses to shared state, or an external answer: reserve the price of a
search (`MeterSearch`), the search's answer or failure, take a tool use for a
page (`TakeHit`), its text (`FetchAnswers`), the decision whether to summarize
(`Condense`), `generate_paid`'s reservation (`ReserveModel`) and its two
outcomes.  An exception that is not an `AARError` leaves the worker with its
reservation (`SearchRaises`).  `calls` and `billed` are history variables.

**ResearchLoop.**  `node` is the next graph node; each node is an action that
makes all the state changes of its function, with the routing function that
follows it.  `Join` applies the reducers to all workers' outputs in send order,
filters, and lets the reducer merge the filtered list back, which is what a
returned value does in LangGraph.

**Reporting.**  A whole run: the steps of `ResearchLoop` up to `writer`, then
`WriteTemplate` (no fact, no model or no money) or `AskWriter`, whose answer is
any draft `_parse_llm_report` takes.  A report is a record of what `run_qa` looks
for in the Markdown: the headings it has, the claims it tells, the numbers in
square brackets, whether it discloses limits.  `Warnings` are `run_qa`'s tests in
its order, `Leaks` is what `final_qa` adds to them for a draft and not for the
template.  `Numbered` are claims whose wording has a bracketed number of its own:
`run_qa` takes that for a citation.

**RunLifecycle.**  `thread[r]` is where `RunService.execute` and the graph are;
rows and log survive `Crash`, threads and connections do not.  A connection
alternates between reading the log and, when that gave nothing new, reading the
row, as `event_publisher` does.

**CorpusIndex.**  `build_runtime` step by step: `StartUp` (is there any text?),
a copy as two steps per text, because `shutil.copy` can be cut in between, `Count`
(is there any document?), one transaction per document.  A text that was cut is
never completed, because the directory is then not empty: that is the code's
behaviour, which `SearchableOnceUp` states together with what it still promises.

**Service.**  `RunLifecycle` and `CorpusIndex` in one process: `ProcessDies` is
the crash of both, and takes ledger, threads, connections and requests along;
rows, log, files and index stay.  `Succeed` and `Fail` are the life cycle's steps
that record an outcome together with the cost that `execute` takes from the
ledger.  A request is a record of what it has read so far: `AskReport`,
`ReadResult` and `ReadReport` are the three readings of `get_report`, `AskStatus`
and `ReadLedger` those of `get_run`.

**Scoring, Routing, Catalog.**  Pure operators: the five clamped scores of a
question reduced to what the rules look at, the tier table, `RejectReason` with
the filters in the code's order, `ComesFirst` for the sort key.  Preferences are
exact fractions and prices integers.  `Catalog` lists the code's models.

**LearningStore.**  A row keeps averages multiplied by a common `scale`, so that
the weights 0.3 and 0.7 are exact.  The two accesses of `update` are `ReadRow` and
`WriteRow`; what it reads to return is `ReadBack`.  `StoreFails` is any exception,
which the node catches and which ends its loop over the aliases.  What the average
of costs adds to a preference is an input of `Preference`: models may tie at any
cost, free or paid.  `stored`, `contended` and `earlier` are history.

**ModelPolicy.**  A run goes through its purposes (plan, a sub-question, the
report): `Route` reads what is left of the budget and filters, `ReadPreference`
reads one alias after another, `Choose` takes the first.  `learning.get` is called
by no node that would catch what it raises, so `PreferenceFails` ends the run, while
an `update` that raises (`StoreFails`) only leaves a warning.  Then the call is refused,
fails, is not needed or answers, for a sub-question once for each passage to
summarise, and `Learn` begins the last node with the aliases that answered the planner
and the writer, each once.  `choices` is history.

## Runs

Passing runs:

| run | shows | instance |
|---|---|---|
| `ledger` | The totals are exact, the ceilings hold, no paid call on a zero budget; the ledger implements `SpendingCap` | two runs (one with ceiling 0), three ids, amounts from negative to unaffordable, costs below, at and above the hold |
| `evidence_loops` | The declarative operators equal the code's loops; merging is the same in any grouping | all pairs of lists of up to 2 and 3 sample facts with clashing ids, quotes and claims |
| `tool_race` | Tool-use limit, every fact has its source, the contract with the writer, and every run ends | one sub-question, both workers, two hits and two chunks each, limit 4, two rounds, searches that fail in both ways |
| `report` | Accepted facts are grounded, the hand-over is honest, covered sub-questions are left alone, nothing stays reserved and the loop uses the ledger by its rules; the report discloses gaps, repeats no rejected claim and cites its sources | two sub-questions whose searches find nothing, one page with three versions or another page; metered searches, paid summaries and 6 units, which do not pay for everything; any draft |
| `service` | Order, success, failure and outcome of runs; answers and costs are consistent with the record; the index agrees with the files and there is something to search; every run is decided, every stream ends, the process comes up | two texts; two runs with a stream and a death; a run charged twice with a request, and two deaths; a run and three deaths that may fall into the start |
| `routing` | Averages stay averages and samples are lost only by overlap or with a warning; preferences cost nothing, money never changes the model, more depth, risk or facts never get a weaker tier, no run overspends; every run ends, at its last node or because a preference could not be read | the code's catalog, a store that may raise at any access; two runs in six deployments: free models, free models with two requests to plan and answer and two to write, paid models with earlier averages, both kinds, and two paid models of the same cost |

Runs that TLC finds violated; each states what the project's own documents say
and is a finding in `PROJECT.json`:

| run | statement | what happens |
|---|---|---|
| `transport` | a failing tool never fails the run | a connection error of the search is no `AARError` and fails the run, whatever others have found |
| `join` | after the join no two facts have the same source and quote | the reducer merges the filtered list into the unfiltered one |
| `claims` | a claim once accepted is not accepted for another fact | the second round judges anew, and the rewritten earlier fact wins |
| `report_links` | an approved report names no unknown source | QA looks at the list of sources, which is made from the facts, and never at the draft's links |
| `bill` | what vendors charge stays within the budget | `settle` books at most the reservation; the rest is in no total |
| `early_end` | a client told of completion finds the report | completion is announced by the last node, the result stored after the graph returns |

### Bounds, and why they are enough

`MaxPaidCalls` (MC module of the ledger) stops a counter nothing reads but
`ZeroBudgetNoPaidCalls`; all amounts relate to the ceiling in every way the
comparison can tell apart.  Two sub-questions are enough for every interaction
between sub-questions, because the validator, the join and the gate relate facts
pairwise; with one, the race for tool uses needs both worker kinds and more items
than uses.  `ToolLimit` 4, `MaxRounds` 2, two hits and three chunks are the
code's own values; two wordings are enough for a rewritten claim.  In
`RunLifecycle`, two runs interleave in one log; `MaxProgress` (the number of
progress events of a run) is 1, so that an event of either run can lie before,
between and after what a stream has told.  A second stream would share nothing
with the first.

`Loads` bounds what is asked of a `Service`.  Its three loads put beside each
other what need not be multiplied: streams do not read costs, requests do not
read the log, and neither happens during the start.  Two charges and two deaths
let a cost be read before, between and after the charges by a process that did or
did not make them; three deaths can cut copying, counting and indexing in one
behaviour, and two texts leave one whole and one cut or absent.  What the loads
separate the proofs join: they hold for any load.

`Starts` are the deployments, requests and earlier averages of `ModelPolicy`,
chosen so that the choice lies between free models, between paid ones, both, or
paid ones of the same cost (with `max_output_tokens` as large as the prompt,
`openrouter-qwen` and `bedrock-nova-lite` tie); so that the budget pays for one model
of the tier, for both, or for none; and so that one question is asked with two depths,
and one report with two depths and risks.  The writer's text is cut, so its words are
an input of their own (`beginning`).  `MaxSummaries` is what the tool limit of 4
allows beside the document search.  `CostPoints` has two values, so that
what earlier costs add can decide a tie or not.  Two runs are enough for updates to
overlap.  Latencies of 0 and 1 second, 0 or 9 facts (below and above the
boundary of 8) and prompts below and above what routing expected are the cases
the code distinguishes.  Scoring, the order of models and the averages are proved
without these bounds.

### Fairness

`ResearchLoop`: the graph's loop runs the next node, and each worker has its own
thread; every external call has a timeout, so weak fairness of `Next` and of each
worker.  Nothing is assumed about which answer comes.  `RunLifecycle`: weak
fairness of each thread's and each connection's next step; no fairness of faults,
crashes, disconnects or clients.  `Service` adds weak fairness of the start and of
each request's next reading: a started process goes on, and somebody starts it
again; since deaths are bounded by the load, `ComesUp` says that the start needs
only a process that lives long enough.  `ModelPolicy`: weak fairness of each run's
thread; it may find the store raising at every access, and ends, at its last node or
as a failed run.  The graph takes finitely many steps (that is `RunEnds` of the loop),
which `MaxProgress` stands for.  A run whose process died
is never resumed; `RunsDecided` and `StreamsEnd` say so: they promise a decision
or an end *unless the thread is lost*, and a stream reopened on such a run polls
for ever.

## Proofs

All proved with the SMT, Zenon and PTL backends, nothing assumed but the named
assumptions on the constants.

**`BudgetLedger_proofs`** (assuming `LedgerAssumption` and, for the zero budget,
`PriceAssumption`: no price is as small as the float tolerance).  `TypeCorrect`
is inductive by itself.  `ReservedIsOutstanding` says that a running total equals
a sum over a dictionary.  The sum is written as the number of *money units*, pairs
of a reservation and an index, so that reserving adds and settling removes a
disjoint set and the cardinality lemmas of `FiniteSetTheorems` give the
arithmetic (`ReserveAddsUnits`, `SettleDropsUnits`).  It is also what makes the
ceiling inductive: `settle` computes `max(0, reserved - held)`, and only because
`reserved` is at least the hold does the clamp never act; otherwise spent plus
reserved could grow.  The inductive invariant joins type, exactness, ceiling and
the zero-budget fact; `LedgerImplementsCap` uses it to show each step is a hold, a
resolution or a stutter of `SpendingCap`.

**`Service_proofs`**, the life of runs.  The code never reads a row to decide what to write
next: it is the place of the thread that keeps it from deciding twice.  The
inductive invariant `RowInv` therefore says for each place what the row and the
log already hold (`Placed`), beside the result that `succeeded`, result and
`run_completed` go together and that `run_failed` is logged only for rows that
say so (`Recorded`).  From it follow `SuccessSafe` and, by mapping rows to
outcomes, `DecidedOnce` (the refinement of `RunOutcome`).  `StreamInv` says of
each connection (`Sound`) that the ids it told are increasing and are exactly the
log's ids of its run up to the cursor.  It is preserved by a step of a run because
the log only grows at its end and rows never leave `failed` (`LaterSound`), and
by a delivery because the least new event is sent (`DeliverSound`).  `OrderSafe`,
`FailureSafe` and `TypeCorrect` follow.

**`Service_proofs`**, the start (`PackagedAssumption`).  `CorpusInv` says for each phase
which texts and documents there must be (`PhaseInv`), and what more there is while
no start was cut short (`UncutInv`).  That a directory with any text and an index
with any document are left as they are is sound only together: texts are copied
while nothing is indexed.  `IndexSafe` and `SearchSafe` follow.

**`Service_proofs`**, the service (also `ServiceAssumption`).  `ServiceImplementsLifecycle` and
`ServiceImplementsCorpus` show each step of the composition to be a step of its
parts or a stutter; by these, `ServiceSafe` carries every theorem of the parts,
the refinement of `RunOutcome` among them, over to the service.  `CostSafe` needs
`MoneyInv`: the ledger of a run has everything it was charged or, after a crash,
nothing, and everything as long as its own thread lives, which is the only one to
write the cost; a decided row has it.  `AnswersSafe` needs `AnswerInv`: what an
unfinished request has read is still true, because rows only move forward, which
`RowInv` of the life cycle gives.

**`LearningStore_proofs`** (`StoreAssumption`, `EarlierAssumption`).  That a
sample is lost only by overlap is a statement about the copy a run holds between
its two accesses: `CopySound` says it is the row as the runs in `seen` left it,
and that on an uncontended row nobody else has written; `Orderly`, that no run
has yet stored a sample of an alias it still has to do, which is why a run counts
once.

**`ModelPolicy_proofs`**, first part (`CatalogAssumption`).  The sort key compares a cost, a
fraction and a place in a list; `KeyOrders` proves it total and transitive
(`FractionsOrdered`, `AliasesOrdered`), and `FirstExists` that a finite set so
ordered has a first element: the one before which come fewest.  So the `CHOOSE`
of `Select` is never arbitrary, and `SelectsCheapest` holds for any catalog.

**`ModelPolicy_proofs`**, the runs (also `PolicyAssumption`).  `PolicyInv` says that a
reading run has asked, or has still to ask, about every model that the filters
left, that its tier is what its request asks for, that it has spent no more than
its budget, and that every past choice was the cheapest.  `TotalGrows` proves the
sum of scores monotone in the request, from which `DeeperSafe`.  `MoneySafe` is
an argument about two choices of different runs: whatever costs less than an
affordable model is affordable (`PoorerFound`).  `PolicyImplementsLearning` shows
that the runs are such as `LearningStore` is proved for, so its theorems hold of
them.  `LearnedSafe` needs `LearnedInv`: while the last node is at work, each alias
that answered is stored or still to do, and no other is; a run that is elsewhere, or
has failed, has stored nothing (`LearnedSoFar`).

**`Evidence_proofs`** (`EvidenceAssumption`).  Lists of any length need an
induction; the library's induction theorems take an operator, which the provers
cannot instantiate, so each induction is an argument about a least counterexample
(`LeastElement`, from the well-foundedness of inclusion among finite sets).
`RankOnto` and `InOrderTakes` show that the `CHOOSE` in `InOrder` finds the next
position every time, so that a selection has each chosen element once and no
other.  From these `MergeKeeps` (every id of either list once, newer content
wins, nothing is added), `UniqueQuotesKeeps`, `FlattenKeeps` (joining the workers'
outputs) and `ValidateGrounds`: the verdicts are chosen by an order of checks, and
only the last one is `accepted`.

**`EvidenceLoops_proofs`** (also `LoopsAssumption`).  A fold of the community modules
is a function chosen by its recursive equation.  `FoldExists` shows that there is
one, element by element, so that the choice satisfies the equation and a loop is
known by its steps (`MergeLoopSteps`, `UniqueLoopSteps`, `ValidatorLoopSteps`; the
provers cannot take the operation of a fold as a parameter, so there is one for each
loop).  `Induction`, over a set and not an operator, then gives what the loop has
after `k` elements: the facts at the first positions up to `k` (`UniqueMatches`),
the verdicts up to `k` and the claims of the flawless facts among them
(`ValidatorMatches`), each id with its latest content up to `k`
(`MergeFoldMatches`).  `MergeAssociates` follows by running the loop over the joined
list and over the merged one: the latter repeats no id, so the loop copies it
(`DistinctStays`) and from there on both take the same steps (`SameSteps`).

**`ResearchLoop_proofs`** (`EvidenceAssumption`, `WorkersAssumption`,
`LoopAssumption`).  `LoopInv` is the conjunction of parts that each have a lemma
for all steps:

* `Typed` with `WorkerOK`: a worker has an item while it reads, of its own kind,
  writes about a source it has recorded, and all its facts are about its
  sub-question and cite sources it has recorded.  `WorkerMoves` sums up what any
  step of a worker does to what is shared (`Counts`, `Records`, `Spends`), so that
  the other parts need not look at the twelve actions again.
* `MoneyOK`: the invariant of the ledger, carried over to its instance, and
  `HoldsOK`: who holds a reservation is at one of the places from which it is
  settled or released, or has raised.  With one run, the reserved total is the
  number of units of all callers (`Units`); no holder, nothing reserved.
* `CallsOK`: calls made, plus one for each of the two workers that has counted a
  use and not yet called, are at most the counted uses.  `CallsWithinLimit` itself
  is not inductive: a worker about to call would break it.
* `SourcesOK`: what a worker's or the state's ledger knows the table knows; joined
  facts cite what the state's ledger knows, once each.
* `FocusOK`: a covered sub-question has no worker, and an idle worker no facts;
  with `MergeKeeps` this gives `CoveredLeftAlone`.
* `RoundsOK`: rounds count from 1 while there are results, and nothing is disclosed
  before the last judgement; with it each step is one of `CoverageContract`, or
  none (`ContractStep`).

`AcceptedGrounded` follows at the validator from `ValidateGrounds`, because
`KnownTexts` prefers the state's text and `SourcesOK` says there is one.

**`Reporting_proofs`** (also `ReportingAssumption`).  The same invariant through
the writer, final QA and the end (`RunInv`), with `ReportOK`: from the writer on,
missing coverage has a limitation; a report's list of sources is the one made of
the accepted facts, each once (`SourcesListed`); and what QA lets through or puts
in place of a draft discloses, tells accepted claims and cites what it lists.
The assumption on drafts is only what the parser guarantees.

**Only model-checked:** liveness (`RunEnds`, `RunsDecided`, `StreamsEnd`,
`ComesUp`, `EveryRunEnds`), which needs `ENABLED`.

**A caution about the prover.**  In the SMT translation of `tlapm` 1.4.5 the length of
a value that is no sequence is still a natural number, and a function of length `n`
has the domain `1 .. n`; where `Len` and a function with another domain meet in one
leaf, this can prove too much.  No proof here rests on it: every leaf that SMT
proves was also proved with that axiom restricted to what is true, that a function
with the domain `1 .. n` has the length `n`.

## What the models leave out

* Money is whole units; floats round.  `Tolerance` is the `1e-12` of `reserve`.
* Normalisation of quotes and claims, hashes and their collisions: texts and
  claims are compared as values.  The flaw "missing quote" exists in the
  validator but no worker makes a fact without a quote.
* Warnings, progress events and telemetry inside the loop; the events a run
  appends are in `RunLifecycle`.
* In `ResearchLoop` the router may choose any model of the deployment that fits
  the remaining budget, so what holds there is independent of scores, preferences
  and catalog, which are in `ModelPolicy`; there, in turn, a run calls one model
  after the other, for one sub-question or several that its purposes list, and the
  race of its workers for money is in `Workers`.
* Failures of the database in `ModelPolicy` other than those of the learning store:
  a run that cannot write telemetry or an event fails as well.  That a run may fail at any
  point is in `RunLifecycle` and `Service`.
* The words of a question: which marker lists it matches is an input of `Scoring`.
* How the average of costs in the learning store develops: what it adds to the
  preference of a paid model is any of `CostPoints`, whenever it is read.  Averages are
  exact; floats round.
* A reading of the event log delivers one event per step; as the log only grows
  at its end this tells a client the same.
* The report's text, but for what QA looks for in it: a draft's headings,
  claims, citations and disclosure are chosen freely, its wording is not kept.
  The heading "Limitations" and the word "insufficient", either of which is
  enough for QA, are one flag.  Missing summaries and source headings do not occur:
  the parser refuses such drafts and the template has both.
* Feedback (one upsert that nothing reads), `/health`, and the synchronous
  execution that only tests switch on.
* Which chunks a search finds: they are inputs of the workers.
* The web page, except that it fetches the report on `run_completed`.
* A request in flight when the process dies is not answered; the client's retry
  is another request.

### Not modelled

* Database, settings, schemas, errors, text helpers: connections, declarations
  and string functions without state of their own.  What they validate is in the
  inputs that the models enumerate.
* Web tools and URL checks: the redirect loop with its limits and the address
  checks are sequential functions of one answer; the workers see only their
  outcome (`FetchAnswers`, `SearchFails`).
* Adapters of model providers: one request and the parsing of its answer; the
  callers see an answer with its usage, or an error.
* Telemetry: rows that nothing in the service reads back, and sums over them.  The
  summary's calls by tier and premium rate count every row that has an alias as a
  model call, also those of the router's choices and of calls that no money could be
  reserved for (a hazard in `PROJECT.json` without a property).

## Plan

Done in this order: ledger, evidence, workers, loop, run life cycle, the proofs
of the ledger and of the life cycle, reporting, learning store, scoring and
routing, start of the process, the service as their composition, the proofs of
all of them.  Next:

1. `Service` with the graph of `ResearchLoop` in place of the steps of a run that
   `RunLifecycle` has, at least as a refinement mapping of a single run.
