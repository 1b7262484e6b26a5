------------------------ MODULE ResearchLoop_proofs ------------------------
(***************************************************************************)
(* Theorems about the research loop and its workers, for any sub-questions,*)
(* sources, texts, budget, tool limit and number of rounds.                *)
(*                                                                         *)
(* Each part of the invariant has a lemma for the steps of the loop        *)
(* (LoopStep), so that Reporting_proofs, whose runs make the same steps,   *)
(* can use it.                                                             *)
(***************************************************************************)
EXTENDS ResearchLoop, Evidence_proofs

-----------------------------------------------------------------------------
(* The two tasks of a sub-question. *)
LEMMA TaskFacts ==
  /\ \A t \in Task : TaskSub(t) \in Sub /\ TaskKind(t) \in {"web", "documents"}
  /\ \A s \in Sub : /\ 2 * s - 1 \in Task /\ 2 * s \in Task
                    /\ TaskSub(2 * s - 1) = s /\ TaskSub(2 * s) = s
  /\ \A t \in Task : t = 2 * TaskSub(t) - 1 \/ t = 2 * TaskSub(t)
  /\ GraphNode \notin Task
BY EvidenceAssumption DEF Task, TaskSub, TaskKind, Sub, GraphNode

(* The claims workers write about a passage. *)
LEMMA ClaimsTyped ==
  ASSUME NEW s \in Sub, NEW ref \in Ref, NEW text \in Text
  PROVE  /\ WebClaim(s) \in Claim
         /\ DocumentClaim(s, text) \in Claim
         /\ QuotedClaim(ref, text) \in Claim
         /\ \A wording \in Wording : SummaryClaim(ref, text, wording) \in Claim
BY DEF Claim

LEMMA CandidateTyped ==
  ASSUME NEW s \in Sub, NEW ref \in Ref, NEW text \in Text, NEW claim \in Claim
  PROVE  /\ Candidate(s, ref, text, claim) \in Fact
         /\ SubOf(Candidate(s, ref, text, claim)) = s
         /\ RefOf(Candidate(s, ref, text, claim)) = ref
BY DEF Candidate, Fact, FactId, Verdict, SubOf, RefOf

-----------------------------------------------------------------------------
(* What is true of a worker's local state, whatever the others do: it reads an
   item only while there is one, of its own kind; it writes about a source it
   has recorded; and its facts are about its sub-question and cite sources it
   has recorded. *)
WorkerState ==
  [pc : Step, hits : Seq(Ref), source : Ref \cup {NoText}, text : Text \cup {NoText},
   facts : Seq(Fact), sources : [Ref -> Text \cup {NoText}]]

Places(t) == IF TaskKind(t) = "web" THEN DOMAIN Pages ELSE DOMAIN ChunkText

Writing == {"condense", "reserve", "generate"}
Reading == {"fetch", "fetching", "passage"} \cup Writing

ReadsOwn(t, w) ==
  /\ w.hits \in Seq(Places(t)) /\ Len(w.hits) <= 3
  /\ w.pc \in Reading => w.hits # <<>>
  /\ w.pc \in {"meter", "search", "fetch", "fetching"} => TaskKind(t) = "web"
  /\ w.pc = "passage" => TaskKind(t) = "documents"

CitesRecorded(t, w) ==
  /\ w.pc \in Writing =>
       w.source \in Ref /\ w.text \in Text /\ w.sources[w.source] # NoText
  /\ \A f \in ToSet(w.facts) : SubOf(f) = TaskSub(t) /\ w.sources[RefOf(f)] # NoText

WorkerOK(t, w) == w \in WorkerState /\ ReadsOwn(t, w) /\ CitesRecorded(t, w)

LEMMA PlacesAreRefs == \A t \in Task : Places(t) \subseteq Ref
BY WorkersAssumption, TaskFacts DEF Places

LEMMA TailFacts ==
  ASSUME NEW S, NEW s \in Seq(S), s # <<>>
  PROVE  /\ Head(s) \in S
         /\ Tail(s) \in Seq(S) /\ Len(Tail(s)) = Len(s) - 1 /\ Len(s) \in Nat
         /\ Len(s) # 1 => Tail(s) # <<>>
<1>1. Len(s) \in Nat /\ Len(s) # 0
  OBVIOUS
<1>2. Tail(s) \in Seq(S) /\ Len(Tail(s)) = Len(s) - 1 /\ Head(s) \in S
  BY <1>1
<1>3. ASSUME Tail(s) = <<>> PROVE Len(s) = 1
  <2>1. Len(<<>>) = 0
    OBVIOUS
  <2>2. Len(Tail(s)) = 0
    BY <1>3, <2>1, Zenon
  <2> DEFINE m == Len(s)
             n == Len(Tail(s))
  <2>3. m \in Nat /\ n = m - 1 /\ n = 0
    BY <1>1, <1>2, <2>2
  <2> HIDE DEF m, n
  <2>4. m = 1
    BY <2>3
  <2>5. QED BY <2>4 DEF m
<1>4. QED
  BY <1>1, <1>2, <1>3

(* A worker without an item, a fact or a source. *)
LEMMA EmptyOK ==
  ASSUME NEW t \in Task, NEW pc \in {"idle", "begin"}, NEW none, none = <<>>
  PROVE  WorkerOK(t, [pc |-> pc, hits |-> none, source |-> NoText, text |-> NoText,
                      facts |-> none, sources |-> NoProvenance])
<1> DEFINE w == [pc |-> pc, hits |-> none, source |-> NoText, text |-> NoText,
                 facts |-> none, sources |-> NoProvenance]
<1>1. none \in Seq(Ref) /\ none \in Seq(Places(t)) /\ none \in Seq(Fact) /\ Len(none) = 0
  OBVIOUS
<1>2. ToSet(none) = {}
  BY DEF ToSet
<1>3. NoProvenance \in [Ref -> Text \cup {NoText}]
  BY DEF NoProvenance
<1>4. w \in WorkerState
  BY <1>1, <1>3 DEF WorkerState, Step
<1>5. w.pc = pc /\ w.hits = none /\ w.facts = none
  OBVIOUS
<1>6. pc \notin Reading /\ pc \notin Writing
      /\ pc \notin {"meter", "search", "fetch", "fetching"} /\ pc # "passage"
  BY DEF Reading, Writing
<1> HIDE DEF w
<1>7. QED
  BY <1>1, <1>2, <1>4, <1>5, <1>6 DEF WorkerOK, ReadsOwn, CitesRecorded, w

LEMMA IdleOK == ASSUME NEW t \in Task PROVE WorkerOK(t, Idle) /\ WorkerOK(t, Goto(Idle, "begin"))
<1>1. Idle = [pc |-> "idle", hits |-> <<>>, source |-> NoText, text |-> NoText,
              facts |-> <<>>, sources |-> NoProvenance]
  BY DEF Idle
<1>2. Goto(Idle, "begin") =
        [pc |-> "begin", hits |-> <<>>, source |-> NoText, text |-> NoText,
         facts |-> <<>>, sources |-> NoProvenance]
  BY DEF Goto, Idle
<1>3. QED
  BY <1>1, <1>2, EmptyOK

(* The worker moves on to its next item. *)
LEMMA NextItemOK ==
  ASSUME NEW t \in Task, NEW w, WorkerOK(t, w), w.hits # <<>>
  PROVE  /\ WorkerOK(t, NextItem(t, w))
         /\ NextItem(t, w).sources = w.sources
         /\ NextItem(t, w).facts = w.facts
         /\ NextItem(t, w).pc \in {"done", "fetch", "passage"}
<1> DEFINE rest == Tail(w.hits)
           pc == IF Len(w.hits) = 1 THEN "done"
                 ELSE IF TaskKind(t) = "web" THEN "fetch" ELSE "passage"
<1>1. w \in WorkerState /\ w.hits \in Seq(Places(t)) /\ w.hits \in Seq(Ref) /\ Len(w.hits) <= 3
  BY DEF WorkerOK, WorkerState, ReadsOwn
<1>2. /\ rest \in Seq(Ref) /\ rest \in Seq(Places(t)) /\ Len(rest) <= 3
      /\ Len(w.hits) # 1 => rest # <<>>
  BY <1>1, TailFacts
<1>3. /\ pc \in {"done", "fetch", "passage"}
      /\ pc = "fetch" => TaskKind(t) = "web" /\ rest # <<>>
      /\ pc = "passage" => TaskKind(t) = "documents" /\ rest # <<>>
  <2>1. TaskKind(t) \in {"web", "documents"}
    BY TaskFacts
  <2> HIDE DEF rest
  <2>2. QED BY <1>2, <2>1
<1> DEFINE next == [w EXCEPT !.hits = rest, !.source = NoText, !.text = NoText, !.pc = pc]
<1>4. NextItem(t, w) = next
  BY DEF NextItem
<1> HIDE DEF rest, pc
<1>5. pc \in Step
  BY <1>3 DEF Step
<1>6. /\ next \in WorkerState /\ next.pc = pc /\ next.hits = rest
      /\ next.facts = w.facts /\ next.sources = w.sources
  <2>1. next = [w EXCEPT !.hits = rest, !.source = NoText, !.text = NoText, !.pc = pc]
    OBVIOUS
  <2> HIDE DEF next
  <2>2. w \in WorkerState /\ rest \in Seq(Ref) /\ pc \in Step
    BY <1>1, <1>2, <1>5
  <2>3. QED BY <2>1, <2>2 DEF WorkerState
<1> HIDE DEF next
<1>7. ReadsOwn(t, next)
  BY <1>2, <1>3, <1>6 DEF ReadsOwn, Reading, Writing
<1>8. CitesRecorded(t, next)
  BY <1>3, <1>6 DEF WorkerOK, CitesRecorded, Writing
<1>9. QED
  BY <1>3, <1>4, <1>6, <1>7, <1>8 DEF WorkerOK

(* The worker adds a fact about its current item. *)
LEMMA ConcludeOK ==
  ASSUME NEW t \in Task, NEW w, WorkerOK(t, w), w.hits # <<>>,
         w.source \in Ref, w.text \in Text, w.sources[w.source] # NoText,
         NEW claim \in Claim
  PROVE  LET fact == Candidate(TaskSub(t), w.source, w.text, claim)
             done == NextItem(t, [w EXCEPT !.facts = Append(@, fact)])
         IN /\ WorkerOK(t, done) /\ done.sources = w.sources
            /\ done.pc \in {"done", "fetch", "passage"}
<1> DEFINE fact == Candidate(TaskSub(t), w.source, w.text, claim)
           more == Append(w.facts, fact)
           w1 == [w EXCEPT !.facts = more]
<1>1. fact \in Fact /\ SubOf(fact) = TaskSub(t) /\ RefOf(fact) = w.source
  BY CandidateTyped, TaskFacts
<1>2. w \in WorkerState /\ w.facts \in Seq(Fact)
  BY DEF WorkerOK, WorkerState
<1>3. more \in Seq(Fact) /\ ToSet(more) = ToSet(w.facts) \cup {fact}
  <2> HIDE DEF fact
  <2> QED BY <1>1, <1>2, AppendElements
<1> HIDE DEF fact, more
<1>4. /\ w1 \in WorkerState /\ w1.facts = more /\ w1.pc = w.pc /\ w1.hits = w.hits
      /\ w1.source = w.source /\ w1.text = w.text /\ w1.sources = w.sources
  BY <1>2, <1>3 DEF WorkerState
<1> HIDE DEF w1
<1>5. WorkerOK(t, w1)
  BY <1>1, <1>3, <1>4 DEF WorkerOK, ReadsOwn, CitesRecorded
<1>6. WorkerOK(t, NextItem(t, w1)) /\ NextItem(t, w1).sources = w.sources
      /\ NextItem(t, w1).pc \in {"done", "fetch", "passage"}
  BY <1>4, <1>5, NextItemOK
<1>7. QED
  BY <1>6 DEF w1, more, fact

LEMMA GotoOK ==
  ASSUME NEW t \in Task, NEW w, WorkerOK(t, w), NEW pc \in Step,
         pc \in Reading => w.hits # <<>>,
         pc \in {"meter", "search", "fetch", "fetching"} => TaskKind(t) = "web",
         pc = "passage" => TaskKind(t) = "documents",
         pc \in Writing => w.pc \in Writing
  PROVE  /\ WorkerOK(t, Goto(w, pc))
         /\ Goto(w, pc).pc = pc /\ Goto(w, pc).sources = w.sources
<1> DEFINE w2 == Goto(w, pc)
<1>1. w \in WorkerState
  BY DEF WorkerOK
<1>2. /\ w2 \in WorkerState /\ w2.pc = pc /\ w2.hits = w.hits /\ w2.source = w.source
      /\ w2.text = w.text /\ w2.facts = w.facts /\ w2.sources = w.sources
  BY <1>1 DEF Goto, WorkerState
<1> HIDE DEF w2
<1>3. ReadsOwn(t, w2)
  BY <1>2 DEF WorkerOK, ReadsOwn
<1>4. CitesRecorded(t, w2)
  BY <1>2 DEF WorkerOK, CitesRecorded
<1>5. QED
  BY <1>2, <1>3, <1>4 DEF WorkerOK, w2

(* The worker gets a list of items. *)
LEMMA HitsOK ==
  ASSUME NEW t \in Task, NEW w, WorkerOK(t, w), NEW w2 \in WorkerState,
         w2.facts = w.facts, w2.sources = w.sources,
         w2.hits \in Seq(Places(t)), Len(w2.hits) <= 3,
         w2.pc \in {"done", "fetch", "passage"}, w2.pc # "done" => w2.hits # <<>>,
         w2.pc = "fetch" => TaskKind(t) = "web",
         w2.pc = "passage" => TaskKind(t) = "documents"
  PROVE  WorkerOK(t, w2)
<1>1. ReadsOwn(t, w2)
  BY DEF ReadsOwn, Reading, Writing
<1>2. CitesRecorded(t, w2)
  BY DEF WorkerOK, CitesRecorded, Writing
<1>3. QED
  BY <1>1, <1>2 DEF WorkerOK

(* The worker records the source and text of its current item. *)
LEMMA RecordOK ==
  ASSUME NEW t \in Task, worker \in [Task -> WorkerState], WorkerOK(t, worker[t]),
         worker[t].hits # <<>>, NEW ref \in Ref, NEW text \in Text, Record(t, ref, text)
  PROVE  \E w2 : /\ worker' = [worker EXCEPT ![t] = w2] /\ WorkerOK(t, w2)
                 /\ w2.pc \in {"condense", "done", "fetch", "passage"}
                 /\ w2.sources = [worker[t].sources EXCEPT ![ref] = text]
<1> DEFINE more == [worker[t].sources EXCEPT ![ref] = text]
           w == [worker[t] EXCEPT !.source = ref, !.text = text, !.sources = more]
           claim == OwnClaim(t, text)
           fact == Candidate(TaskSub(t), ref, text, claim)
           short == NextItem(t, [w EXCEPT !.facts = Append(@, fact)])
<1>1. worker[t] \in WorkerState /\ worker[t].sources \in [Ref -> Text \cup {NoText}]
  BY DEF WorkerState
<1>2. /\ more \in [Ref -> Text \cup {NoText}] /\ more[ref] # NoText
      /\ \A r \in Ref : worker[t].sources[r] # NoText => more[r] # NoText
  BY <1>1, EvidenceAssumption
<1>3. \A f \in ToSet(worker[t].facts) : RefOf(f) \in Ref
  <2>1. worker[t].facts \in Seq(Fact)
    BY <1>1 DEF WorkerState
  <2>2. \A f \in ToSet(worker[t].facts) : f \in Fact
    BY <2>1 DEF ToSet
  <2>3. QED BY <2>2 DEF Fact, FactId, RefOf
<1>4. worker' = [worker EXCEPT ![t] = IF text \in LongText THEN Goto(w, "condense") ELSE short]
  BY DEF Record
<1>5. claim \in Claim
  BY TaskFacts, ClaimsTyped DEF OwnClaim
<1> HIDE DEF more, claim
<1>6. /\ w \in WorkerState /\ w.pc = worker[t].pc /\ w.hits = worker[t].hits
      /\ w.source = ref /\ w.text = text /\ w.facts = worker[t].facts /\ w.sources = more
  BY <1>1, <1>2 DEF WorkerState
<1> HIDE DEF w
<1>7. WorkerOK(t, w)
  BY <1>2, <1>3, <1>6 DEF WorkerOK, ReadsOwn, CitesRecorded
<1>8. CASE text \in LongText
  <2> DEFINE w2 == Goto(w, "condense")
  <2>1. w \in WorkerState
    BY <1>6
  <2>2. /\ w2 \in WorkerState /\ w2.pc = "condense" /\ w2.hits = w.hits
        /\ w2.source = ref /\ w2.text = text /\ w2.facts = w.facts /\ w2.sources = more
    BY <1>6 DEF Goto, WorkerState, Step
  <2> HIDE DEF w2
  <2>3. ReadsOwn(t, w2)
    BY <1>6, <1>7, <2>2 DEF WorkerOK, ReadsOwn
  <2>4. CitesRecorded(t, w2)
    BY <1>2, <1>6, <1>7, <2>2 DEF WorkerOK, CitesRecorded
  <2>5. worker' = [worker EXCEPT ![t] = w2]
    BY <1>4, <1>8 DEF w2
  <2>6. QED
    BY <2>2, <2>3, <2>4, <2>5 DEF WorkerOK, more
<1>9. CASE text \notin LongText
  <2>1. worker' = [worker EXCEPT ![t] = short]
    BY <1>4, <1>9
  <2>2. /\ WorkerOK(t, short) /\ short.sources = w.sources
        /\ short.pc \in {"done", "fetch", "passage"}
    <3>1. fact = Candidate(TaskSub(t), w.source, w.text, claim)
      BY <1>6
    <3> HIDE DEF fact
    <3>2. w.hits # <<>> /\ w.source \in Ref /\ w.text \in Text /\ w.sources[w.source] # NoText
      BY <1>2, <1>6
    <3>3. QED BY <1>5, <1>7, <3>1, <3>2, ConcludeOK
  <2> HIDE DEF short
  <2>3. QED
    BY <1>6, <2>1, <2>2 DEF more
<1>10. QED BY <1>8, <1>9

-----------------------------------------------------------------------------
(* The values of the variables that no other lemma is about. *)
WorkersTyped ==
  /\ billed \in Nat
  /\ toolUses \in [Sub -> 0 .. ToolLimit] /\ calls \in [Sub -> Nat]
  /\ table \in [Ref -> Text \cup {NoText}]
  /\ route \in [Sub -> Alias]

WorkersOK == worker \in [Task -> WorkerState] /\ \A t \in Task : WorkerOK(t, worker[t])

(* A worker between a use it has counted and the call it counted it for. *)
Owing == {"meter", "search", "fetching", "reserve", "generate"}
Owed(pc) == IF pc \in Owing THEN 1 ELSE 0

(* A worker that may have money set aside. *)
Holding == {"search", "generate", "raised"}

Amounts == {0, CallCost, SearchCost}
Costs == Bills \cup {0, SearchCost}
money == <<spent, reserved, reservations, paidCalls>>

(* What a step of worker t that leaves it as w2 does to what is shared. *)
Counts(t, w2) ==
  \E use \in {0, 1}, call \in {0, 1} :
    /\ toolUses[TaskSub(t)] + use <= ToolLimit
    /\ toolUses' = [toolUses EXCEPT ![TaskSub(t)] = @ + use]
    /\ calls' = [calls EXCEPT ![TaskSub(t)] = @ + call]
    /\ call + Owed(w2.pc) <= use + Owed(worker[t].pc)

Records(t, w2) ==
  /\ table' \in [Ref -> Text \cup {NoText}]
  /\ \A r \in Ref : table[r] # NoText => table'[r] # NoText
  /\ \A r \in Ref : w2.sources[r] # NoText =>
       worker[t].sources[r] # NoText \/ table'[r] # NoText

Spends(t, w2) ==
  /\ billed' \in Nat
  /\ \/ UNCHANGED money /\ (worker[t].pc \in Holding => w2.pc \in Holding)
     \/ /\ w2.pc \in Holding
        /\ \E amount \in Amounts, paid \in BOOLEAN : Ledger!Reserve(ThisRun, t, amount, paid)
     \/ \E actual \in Costs : Ledger!Settle(t, actual)

Moved(t, w2) ==
  /\ worker' = [worker EXCEPT ![t] = w2] /\ WorkerOK(t, w2)
  /\ worker[t].pc # "idle" /\ w2.pc # "idle"
  /\ Counts(t, w2) /\ Records(t, w2) /\ Spends(t, w2)
  /\ UNCHANGED route

(* The steps that leave a shared thing alone. *)
LEMMA NoCount ==
  ASSUME WorkersTyped, NEW t \in Task, NEW w2, UNCHANGED <<toolUses, calls>>,
         Owed(w2.pc) <= Owed(worker[t].pc)
  PROVE  Counts(t, w2)
<1>1. TaskSub(t) \in Sub
  BY TaskFacts
<1>2. toolUses[TaskSub(t)] \in 0 .. ToolLimit /\ calls[TaskSub(t)] \in Nat /\ ToolLimit \in Nat
  BY <1>1, WorkersAssumption DEF WorkersTyped
<1>3. /\ toolUses' = [toolUses EXCEPT ![TaskSub(t)] = @ + 0]
      /\ calls' = [calls EXCEPT ![TaskSub(t)] = @ + 0]
  BY <1>1, <1>2 DEF WorkersTyped
<1>4. 0 + Owed(w2.pc) <= 0 + Owed(worker[t].pc)
  BY DEF Owed
<1>5. toolUses[TaskSub(t)] + 0 <= ToolLimit
  BY <1>2
<1>6. QED BY <1>3, <1>4, <1>5, Zenon DEF Counts

LEMMA CountUse ==
  ASSUME WorkersTyped, NEW t \in Task, NEW w2, CanConsume(TaskSub(t)), Consume(TaskSub(t)),
         UNCHANGED calls
  PROVE  Counts(t, w2)
<1>1. TaskSub(t) \in Sub
  BY TaskFacts
<1>2. toolUses[TaskSub(t)] \in 0 .. ToolLimit /\ calls[TaskSub(t)] \in Nat /\ ToolLimit \in Nat
  BY <1>1, WorkersAssumption DEF WorkersTyped
<1>3. /\ toolUses' = [toolUses EXCEPT ![TaskSub(t)] = @ + 1]
      /\ calls' = [calls EXCEPT ![TaskSub(t)] = @ + 0]
  BY <1>1, <1>2 DEF WorkersTyped, Consume
<1>4. 0 + Owed(w2.pc) <= 1 + Owed(worker[t].pc)
  BY DEF Owed
<1>5. toolUses[TaskSub(t)] + 1 <= ToolLimit
  BY <1>2 DEF CanConsume
<1>6. QED BY <1>3, <1>4, <1>5, Zenon DEF Counts

LEMMA CountCall ==
  ASSUME WorkersTyped, NEW t \in Task, NEW w2, Call(TaskSub(t)), UNCHANGED toolUses,
         worker[t].pc \in Owing, w2.pc \notin Owing
  PROVE  Counts(t, w2)
<1>1. TaskSub(t) \in Sub
  BY TaskFacts
<1>2. toolUses[TaskSub(t)] \in 0 .. ToolLimit /\ calls[TaskSub(t)] \in Nat /\ ToolLimit \in Nat
  BY <1>1, WorkersAssumption DEF WorkersTyped
<1>3. /\ toolUses' = [toolUses EXCEPT ![TaskSub(t)] = @ + 0]
      /\ calls' = [calls EXCEPT ![TaskSub(t)] = @ + 1]
  BY <1>1, <1>2 DEF WorkersTyped, Call
<1>4. 1 + Owed(w2.pc) <= 0 + Owed(worker[t].pc)
  BY DEF Owed
<1>5. toolUses[TaskSub(t)] + 0 <= ToolLimit
  BY <1>2
<1>6. QED BY <1>3, <1>4, <1>5, Zenon DEF Counts

LEMMA NoRecord ==
  ASSUME WorkersTyped, NEW t, NEW w2, UNCHANGED table, w2.sources = worker[t].sources
  PROVE  Records(t, w2)
BY DEF Records, WorkersTyped

LEMMA NoSpending ==
  ASSUME WorkersTyped, NEW t, NEW w2, UNCHANGED ledger,
         worker[t].pc \in Holding => w2.pc \in Holding
  PROVE  Spends(t, w2)
BY DEF Spends, WorkersTyped, ledger, money

LEMMA Settled ==
  ASSUME WorkersTyped, NEW t, NEW w2, NEW actual \in Costs, Ledger!Settle(t, actual),
         NEW fee \in Nat, Bill(fee)
  PROVE  Spends(t, w2)
<1>1. billed' \in Nat
  BY DEF WorkersTyped, Bill
<1>2. QED BY <1>1, Zenon DEF Spends

-----------------------------------------------------------------------------
(* One lemma for each step of a worker. *)
LEMMA BeginWebMoves ==
  ASSUME WorkersTyped, WorkersOK, NEW t \in Task, BeginWeb(t) PROVE \E w2 : Moved(t, w2)
<1> DEFINE pc == IF SearchCost > 0 THEN "meter" ELSE "search"
           w2 == Goto(worker[t], pc)
<1>1. /\ worker[t].pc = "begin" /\ TaskKind(t) = "web"
      /\ CanConsume(TaskSub(t)) /\ Consume(TaskSub(t))
      /\ UNCHANGED <<ledger, calls, table, route>>
      /\ worker' = [worker EXCEPT ![t] = w2]
  BY DEF BeginWeb, At
<1>2. pc \in Step /\ pc \in {"meter", "search"} /\ pc \notin Reading /\ pc \notin Writing
  BY DEF Step, Reading, Writing
<1> HIDE DEF pc
<1>3. WorkerOK(t, w2) /\ w2.pc = pc /\ w2.sources = worker[t].sources
  BY <1>1, <1>2, GotoOK DEF WorkersOK
<1> HIDE DEF w2
<1>4. Counts(t, w2)
  BY <1>1, CountUse
<1>5. Records(t, w2)
  BY <1>1, <1>3, NoRecord
<1>6. Spends(t, w2)
  BY <1>1, NoSpending DEF Holding
<1>7. QED BY <1>1, <1>2, <1>3, <1>4, <1>5, <1>6 DEF Moved

LEMMA BeginDocumentsMoves ==
  ASSUME WorkersTyped, WorkersOK, NEW t \in Task, BeginDocuments(t) PROVE \E w2 : Moved(t, w2)
<1> DEFINE s == TaskSub(t)
           rows == DocRows[s]
           pc == IF rows = <<>> THEN "done" ELSE "passage"
           w2 == [worker[t] EXCEPT !.hits = rows, !.pc = pc]
<1>1. /\ worker[t].pc = "begin" /\ TaskKind(t) = "documents"
      /\ CanConsume(s) /\ Consume(s) /\ Call(s)
      /\ UNCHANGED <<ledger, table, route>>
      /\ worker' = [worker EXCEPT ![t] = w2]
  BY DEF BeginDocuments, At
<1>2. s \in Sub
  BY TaskFacts
<1>3. rows \in Seq(Places(t)) /\ Len(rows) <= 3
  <2>1. Places(t) = DOMAIN ChunkText
    BY <1>1 DEF Places
  <2>2. PICK n \in 0 .. 3 : rows \in [1 .. n -> DOMAIN ChunkText]
    BY <1>2, WorkersAssumption
  <2> HIDE DEF rows
  <2>3. QED BY <2>1, <2>2
<1>4. pc \in {"done", "passage"} /\ (pc # "done" => rows # <<>>)
  OBVIOUS
<1> HIDE DEF rows, pc, s
<1>5. WorkerOK(t, w2) /\ w2.pc = pc /\ w2.sources = worker[t].sources
  <2>1. worker[t] \in WorkerState /\ rows \in Seq(Ref) /\ pc \in Step
    BY <1>3, <1>4, PlacesAreRefs DEF WorkersOK, Step
  <2>2. /\ w2 \in WorkerState /\ w2.pc = pc /\ w2.hits = rows
        /\ w2.facts = worker[t].facts /\ w2.sources = worker[t].sources
    BY <2>1 DEF WorkerState
  <2> HIDE DEF w2
  <2>3. QED BY <1>1, <1>3, <1>4, <2>2, HitsOK DEF WorkersOK
<1> HIDE DEF w2
<1>6. Counts(t, w2)
  <2>1. toolUses[s] \in 0 .. ToolLimit /\ ToolLimit \in Nat
    BY <1>2, WorkersAssumption DEF WorkersTyped
  <2>2. toolUses' = [toolUses EXCEPT ![s] = @ + 1] /\ calls' = [calls EXCEPT ![s] = @ + 1]
    BY <1>1 DEF Consume, Call
  <2>3. 1 + Owed(w2.pc) <= 1 + Owed(worker[t].pc)
    BY <1>1, <1>4, <1>5 DEF Owed, Owing
  <2>4. toolUses[s] + 1 <= ToolLimit
    BY <1>1, <2>1 DEF CanConsume
  <2>5. QED BY <2>2, <2>3, <2>4, Zenon DEF Counts, s
<1>7. Records(t, w2)
  BY <1>1, <1>5, NoRecord
<1>8. Spends(t, w2)
  BY <1>1, NoSpending DEF Holding
<1>9. QED BY <1>1, <1>4, <1>5, <1>6, <1>7, <1>8 DEF Moved

LEMMA BeginAtLimitMoves ==
  ASSUME WorkersTyped, WorkersOK, NEW t \in Task, BeginAtLimit(t) PROVE \E w2 : Moved(t, w2)
<1> DEFINE w2 == Goto(worker[t], "done")
<1>1. /\ worker[t].pc = "begin" /\ UNCHANGED <<ledger, toolUses, calls, table, route>>
      /\ worker' = [worker EXCEPT ![t] = w2]
  BY DEF BeginAtLimit, At
<1>2. "done" \in Step /\ "done" \notin Reading /\ "done" \notin Writing
  BY DEF Step, Reading, Writing
<1>3. WorkerOK(t, w2) /\ w2.pc = "done" /\ w2.sources = worker[t].sources
  BY <1>2, GotoOK DEF WorkersOK
<1> HIDE DEF w2
<1>4. Counts(t, w2)
  <2>1. Owed(w2.pc) <= Owed(worker[t].pc)
    BY <1>3 DEF Owed, Owing
  <2>2. QED BY <1>1, <2>1, NoCount
<1>5. Records(t, w2)
  BY <1>1, <1>3, NoRecord
<1>6. Spends(t, w2)
  BY <1>1, NoSpending DEF Holding
<1>7. QED BY <1>1, <1>3, <1>4, <1>5, <1>6 DEF Moved

LEMMA MeterSearchMoves ==
  ASSUME WorkersTyped, WorkersOK, NEW t \in Task, MeterSearch(t) PROVE \E w2 : Moved(t, w2)
<1>1. worker[t].pc = "meter" /\ UNCHANGED <<toolUses, calls, table, route>>
  BY DEF MeterSearch, At
<1>2. \A pc \in {"search", "done"} : pc \in Step /\ pc \notin Reading /\ pc \notin Writing
  BY DEF Step, Reading, Writing
<1>3. TaskKind(t) = "web"
  BY <1>1 DEF WorkersOK, WorkerOK, ReadsOwn
<1>4. ASSUME NEW pc \in {"search", "done"}
      PROVE  LET w2 == Goto(worker[t], pc)
             IN /\ WorkerOK(t, w2) /\ w2.pc = pc /\ Counts(t, w2) /\ Records(t, w2)
  <2> DEFINE w2 == Goto(worker[t], pc)
  <2>1. WorkerOK(t, w2) /\ w2.pc = pc /\ w2.sources = worker[t].sources
    BY <1>2, <1>3, GotoOK DEF WorkersOK
  <2> HIDE DEF w2
  <2>2. Counts(t, w2)
    <3>1. Owed(w2.pc) <= Owed(worker[t].pc)
      BY <1>1, <2>1 DEF Owed, Owing
    <3>2. QED BY <1>1, <3>1, NoCount
  <2>3. Records(t, w2)
    BY <1>1, <2>1, NoRecord
  <2>4. QED BY <2>1, <2>2, <2>3 DEF w2
<1>5. CASE Ledger!Affordable(ThisRun, SearchCost)
  <2> DEFINE w2 == Goto(worker[t], "search")
  <2>1. /\ Ledger!Reserve(ThisRun, t, SearchCost, TRUE) /\ Bill(0)
        /\ worker' = [worker EXCEPT ![t] = w2]
    BY <1>5 DEF MeterSearch
  <2>2. WorkerOK(t, w2) /\ w2.pc = "search" /\ Counts(t, w2) /\ Records(t, w2)
    BY <1>4
  <2> HIDE DEF w2
  <2>3. Spends(t, w2)
    <3>1. billed' \in Nat
      BY <2>1 DEF Bill, WorkersTyped
    <3>2. SearchCost \in Amounts /\ TRUE \in BOOLEAN
      BY DEF Amounts
    <3>3. w2.pc \in Holding
      BY <2>2 DEF Holding
    <3>4. QED BY <2>1, <3>1, <3>2, <3>3, Zenon DEF Spends
  <2>4. QED BY <1>1, <2>1, <2>2, <2>3 DEF Moved
<1>6. CASE ~Ledger!Affordable(ThisRun, SearchCost)
  <2> DEFINE w2 == Goto(worker[t], "done")
  <2>1. worker' = [worker EXCEPT ![t] = w2] /\ UNCHANGED ledger
    BY <1>6 DEF MeterSearch
  <2>2. WorkerOK(t, w2) /\ w2.pc = "done" /\ Counts(t, w2) /\ Records(t, w2)
    BY <1>4
  <2> HIDE DEF w2
  <2>3. Spends(t, w2)
    BY <1>1, <2>1, NoSpending DEF Holding
  <2>4. QED BY <1>1, <2>1, <2>2, <2>3 DEF Moved
<1>7. QED BY <1>5, <1>6

LEMMA SearchAnswersMoves ==
  ASSUME WorkersTyped, WorkersOK, NEW t \in Task, SearchAnswers(t) PROVE \E w2 : Moved(t, w2)
<1>1. /\ worker[t].pc = "search" /\ Call(TaskSub(t)) /\ UNCHANGED <<toolUses, table, route>>
      /\ Ledger!Settle(t, SearchCost) /\ Bill(SearchCost)
  BY DEF SearchAnswers, At
<1>2. PICK hits \in HitLists :
        worker' = [worker EXCEPT ![t] =
          [@ EXCEPT !.hits = hits, !.pc = IF hits = <<>> THEN "done" ELSE "fetch"]]
  BY DEF SearchAnswers
<1> DEFINE pc == IF hits = <<>> THEN "done" ELSE "fetch"
           w2 == [worker[t] EXCEPT !.hits = hits, !.pc = pc]
<1>3. worker' = [worker EXCEPT ![t] = w2]
  BY <1>2
<1>4. TaskKind(t) = "web"
  BY <1>1 DEF WorkersOK, WorkerOK, ReadsOwn
<1>5. hits \in Seq(Places(t)) /\ Len(hits) <= 3
  <2>1. Places(t) = DOMAIN Pages
    BY <1>4 DEF Places
  <2>2. PICK n \in 0 .. 2 : hits \in [1 .. n -> DOMAIN Pages]
    BY WorkersAssumption
  <2>3. QED BY <2>1, <2>2
<1>6. pc \in {"done", "fetch"} /\ (pc # "done" => hits # <<>>)
  OBVIOUS
<1> HIDE DEF pc
<1>7. WorkerOK(t, w2) /\ w2.pc = pc /\ w2.sources = worker[t].sources
  <2>1. worker[t] \in WorkerState /\ hits \in Seq(Ref) /\ pc \in Step
    BY <1>5, <1>6, PlacesAreRefs DEF WorkersOK, Step
  <2>2. /\ w2 \in WorkerState /\ w2.pc = pc /\ w2.hits = hits
        /\ w2.facts = worker[t].facts /\ w2.sources = worker[t].sources
    BY <2>1 DEF WorkerState
  <2> HIDE DEF w2
  <2>3. QED BY <1>4, <1>5, <1>6, <2>2, HitsOK DEF WorkersOK
<1> HIDE DEF w2
<1>8. Counts(t, w2)
  BY <1>1, <1>6, <1>7, CountCall DEF Owing
<1>9. Records(t, w2)
  BY <1>1, <1>7, NoRecord
<1>10. Spends(t, w2)
  BY <1>1, Settled, WorkersAssumption DEF Costs
<1>11. QED BY <1>1, <1>3, <1>6, <1>7, <1>8, <1>9, <1>10 DEF Moved

LEMMA SearchFailsMoves ==
  ASSUME WorkersTyped, WorkersOK, NEW t \in Task, SearchFails(t) PROVE \E w2 : Moved(t, w2)
<1> DEFINE w2 == Goto(worker[t], "done")
<1>1. /\ worker[t].pc = "search" /\ Call(TaskSub(t)) /\ UNCHANGED <<toolUses, table, route>>
      /\ Ledger!Settle(t, 0) /\ Bill(0) /\ worker' = [worker EXCEPT ![t] = w2]
  BY DEF SearchFails, At, Ledger!Release
<1>2. "done" \in Step /\ "done" \notin Reading /\ "done" \notin Writing
  BY DEF Step, Reading, Writing
<1>3. WorkerOK(t, w2) /\ w2.pc = "done" /\ w2.sources = worker[t].sources
  BY <1>2, GotoOK DEF WorkersOK
<1> HIDE DEF w2
<1>4. Counts(t, w2)
  BY <1>1, <1>3, CountCall DEF Owing
<1>5. Records(t, w2)
  BY <1>1, <1>3, NoRecord
<1>6. Spends(t, w2)
  BY <1>1, Settled DEF Costs
<1>7. QED BY <1>1, <1>3, <1>4, <1>5, <1>6 DEF Moved

LEMMA SearchRaisesMoves ==
  ASSUME WorkersTyped, WorkersOK, NEW t \in Task, SearchRaises(t) PROVE \E w2 : Moved(t, w2)
<1> DEFINE w2 == Goto(worker[t], "raised")
<1>1. /\ worker[t].pc = "search" /\ Call(TaskSub(t))
      /\ UNCHANGED <<ledger, toolUses, table, route>> /\ worker' = [worker EXCEPT ![t] = w2]
  BY DEF SearchRaises, At
<1>2. "raised" \in Step /\ "raised" \notin Reading /\ "raised" \notin Writing
  BY DEF Step, Reading, Writing
<1>3. WorkerOK(t, w2) /\ w2.pc = "raised" /\ w2.sources = worker[t].sources
  BY <1>2, GotoOK DEF WorkersOK
<1> HIDE DEF w2
<1>4. Counts(t, w2)
  BY <1>1, <1>3, CountCall DEF Owing
<1>5. Records(t, w2)
  BY <1>1, <1>3, NoRecord
<1>6. Spends(t, w2)
  BY <1>1, <1>3, NoSpending DEF Holding
<1>7. QED BY <1>1, <1>3, <1>4, <1>5, <1>6 DEF Moved

LEMMA TakeHitMoves ==
  ASSUME WorkersTyped, WorkersOK, NEW t \in Task, TakeHit(t) PROVE \E w2 : Moved(t, w2)
<1>1. worker[t].pc = "fetch" /\ UNCHANGED <<ledger, calls, table, route>>
  BY DEF TakeHit, At
<1>2. /\ worker[t] \in WorkerState /\ WorkerOK(t, worker[t]) /\ worker[t].hits # <<>>
      /\ TaskKind(t) = "web"
  BY <1>1 DEF WorkersOK, WorkerOK, ReadsOwn, Reading
<1>3. CASE CanConsume(TaskSub(t))
  <2> DEFINE w2 == Goto(worker[t], "fetching")
  <2>1. Consume(TaskSub(t)) /\ worker' = [worker EXCEPT ![t] = w2]
    BY <1>3 DEF TakeHit
  <2>2. "fetching" \in Step /\ "fetching" \in Reading /\ "fetching" \notin Writing
    BY DEF Step, Reading, Writing
  <2>3. WorkerOK(t, w2) /\ w2.pc = "fetching" /\ w2.sources = worker[t].sources
    BY <1>2, <2>2, GotoOK
  <2> HIDE DEF w2
  <2>4. Counts(t, w2)
    BY <1>1, <1>3, <2>1, CountUse
  <2>5. Records(t, w2)
    BY <1>1, <2>3, NoRecord
  <2>6. Spends(t, w2)
    BY <1>1, NoSpending DEF Holding
  <2>7. QED BY <1>1, <2>1, <2>3, <2>4, <2>5, <2>6 DEF Moved
<1>4. CASE ~CanConsume(TaskSub(t))
  <2> DEFINE w2 == [worker[t] EXCEPT !.hits = <<>>, !.pc = "done"]
  <2>1. worker' = [worker EXCEPT ![t] = w2] /\ UNCHANGED toolUses
    BY <1>4 DEF TakeHit
  <2>2. <<>> \in Seq(Ref) /\ "done" \in Step
    BY DEF Step
  <2>3. /\ w2 \in WorkerState /\ w2.pc = "done" /\ w2.hits = <<>>
        /\ w2.facts = worker[t].facts /\ w2.sources = worker[t].sources
    BY <1>2, <2>2 DEF WorkerState
  <2> HIDE DEF w2
  <2>4. WorkerOK(t, w2)
    <3>1. <<>> \in Seq(Places(t)) /\ Len(<<>>) = 0
      OBVIOUS
    <3>2. w2.hits \in Seq(Places(t)) /\ Len(w2.hits) <= 3
      BY <2>3, <3>1
    <3>3. QED BY <1>2, <2>3, <3>2, HitsOK
  <2>5. Counts(t, w2)
    <3>1. Owed(w2.pc) <= Owed(worker[t].pc)
      BY <1>1, <2>3 DEF Owed, Owing
    <3>2. QED BY <1>1, <2>1, <3>1, NoCount
  <2>6. Records(t, w2)
    BY <1>1, <2>3, NoRecord
  <2>7. Spends(t, w2)
    BY <1>1, NoSpending DEF Holding
  <2>8. QED BY <1>1, <2>1, <2>3, <2>4, <2>5, <2>6, <2>7 DEF Moved
<1>5. QED BY <1>3, <1>4

LEMMA FetchFailsMoves ==
  ASSUME WorkersTyped, WorkersOK, NEW t \in Task, FetchFails(t) PROVE \E w2 : Moved(t, w2)
<1> DEFINE w2 == NextItem(t, worker[t])
<1>1. /\ worker[t].pc = "fetching" /\ Call(TaskSub(t))
      /\ UNCHANGED <<ledger, toolUses, table, route>> /\ worker' = [worker EXCEPT ![t] = w2]
  BY DEF FetchFails, At
<1>2. WorkerOK(t, worker[t]) /\ worker[t].hits # <<>>
  BY <1>1 DEF WorkersOK, WorkerOK, ReadsOwn, Reading
<1>3. /\ WorkerOK(t, w2) /\ w2.sources = worker[t].sources
      /\ w2.pc \in {"done", "fetch", "passage"}
  BY <1>2, NextItemOK
<1> HIDE DEF w2
<1>4. Counts(t, w2)
  BY <1>1, <1>3, CountCall DEF Owing
<1>5. Records(t, w2)
  BY <1>1, <1>3, NoRecord
<1>6. Spends(t, w2)
  BY <1>1, NoSpending DEF Holding
<1>7. QED BY <1>1, <1>3, <1>4, <1>5, <1>6 DEF Moved

(* The table keeps what it has, and gets what the worker records. *)
LEMMA RecordRecords ==
  ASSUME WorkersTyped, NEW t \in Task, worker[t] \in WorkerState, NEW w2,
         NEW ref \in Ref, NEW text \in Text, table' = [table EXCEPT ![ref] = text],
         w2.sources = [worker[t].sources EXCEPT ![ref] = text]
  PROVE  Records(t, w2)
<1>1. worker[t].sources \in [Ref -> Text \cup {NoText}] /\ text # NoText
  BY EvidenceAssumption DEF WorkerState
<1>2. QED BY <1>1 DEF Records, WorkersTyped

LEMMA FetchAnswersMoves ==
  ASSUME WorkersTyped, WorkersOK, NEW t \in Task, FetchAnswers(t) PROVE \E w2 : Moved(t, w2)
<1>1. /\ worker[t].pc = "fetching" /\ Call(TaskSub(t))
      /\ UNCHANGED <<ledger, toolUses, route>>
  BY DEF FetchAnswers, At
<1>2. /\ worker \in [Task -> WorkerState] /\ worker[t] \in WorkerState
      /\ WorkerOK(t, worker[t]) /\ worker[t].hits # <<>>
      /\ TaskKind(t) = "web" /\ worker[t].hits \in Seq(Places(t))
  BY <1>1 DEF WorkersOK, WorkerOK, ReadsOwn, Reading
<1>3. Head(worker[t].hits) \in DOMAIN Pages
  BY <1>2, TailFacts DEF Places
<1>4. PICK page \in Pages[Head(worker[t].hits)] : Record(t, page[1], page[2])
  BY DEF FetchAnswers
<1>5. page[1] \in Ref /\ page[2] \in Text
  BY <1>3, <1>4, WorkersAssumption
<1>6. table' = [table EXCEPT ![page[1]] = page[2]]
  BY <1>4 DEF Record
<1>7. PICK w2 : /\ worker' = [worker EXCEPT ![t] = w2] /\ WorkerOK(t, w2)
                /\ w2.pc \in {"condense", "done", "fetch", "passage"}
                /\ w2.sources = [worker[t].sources EXCEPT ![page[1]] = page[2]]
  BY <1>2, <1>4, <1>5, RecordOK
<1>8. Counts(t, w2)
  BY <1>1, <1>7, CountCall DEF Owing
<1>9. Records(t, w2)
  <2>1. w2.sources = [worker[t].sources EXCEPT ![page[1]] = page[2]] /\ worker[t] \in WorkerState
    BY <1>2, <1>7
  <2>2. QED BY <1>5, <1>6, <2>1, RecordRecords
<1>10. Spends(t, w2)
  BY <1>1, NoSpending DEF Holding
<1>11. QED BY <1>1, <1>7, <1>8, <1>9, <1>10 DEF Moved

LEMMA TakePassageMoves ==
  ASSUME WorkersTyped, WorkersOK, NEW t \in Task, TakePassage(t) PROVE \E w2 : Moved(t, w2)
<1> DEFINE ref == Head(worker[t].hits)
           text == ChunkText[ref]
<1>1. /\ worker[t].pc = "passage" /\ UNCHANGED <<ledger, toolUses, calls, route>>
      /\ Record(t, ref, text)
  BY DEF TakePassage, At
<1>2. /\ worker \in [Task -> WorkerState] /\ worker[t] \in WorkerState
      /\ WorkerOK(t, worker[t]) /\ worker[t].hits # <<>>
      /\ TaskKind(t) = "documents" /\ worker[t].hits \in Seq(Places(t))
  BY <1>1 DEF WorkersOK, WorkerOK, ReadsOwn, Reading
<1>3. ref \in DOMAIN ChunkText
  BY <1>2, TailFacts DEF Places
<1>4. ref \in Ref /\ text \in Text
  BY <1>3, WorkersAssumption
<1> HIDE DEF ref, text
<1>5. table' = [table EXCEPT ![ref] = text]
  BY <1>1 DEF Record
<1>6. PICK w2 : /\ worker' = [worker EXCEPT ![t] = w2] /\ WorkerOK(t, w2)
                /\ w2.pc \in {"condense", "done", "fetch", "passage"}
                /\ w2.sources = [worker[t].sources EXCEPT ![ref] = text]
  BY <1>1, <1>2, <1>4, RecordOK
<1>7. Counts(t, w2)
  <2>1. Owed(w2.pc) <= Owed(worker[t].pc)
    BY <1>1, <1>6 DEF Owed, Owing
  <2>2. QED BY <1>1, <2>1, NoCount
<1>8. Records(t, w2)
  BY <1>2, <1>4, <1>5, <1>6, RecordRecords
<1>9. Spends(t, w2)
  BY <1>1, NoSpending DEF Holding
<1>10. QED BY <1>1, <1>6, <1>7, <1>8, <1>9 DEF Moved

(* The worker is through with the passage it writes about. *)
LEMMA ConcludeMoves ==
  ASSUME WorkersOK, NEW t \in Task, worker[t].pc \in Writing, NEW claim \in Claim,
         Conclude(t, claim)
  PROVE  \E w2 : /\ worker' = [worker EXCEPT ![t] = w2] /\ WorkerOK(t, w2)
                 /\ w2.sources = worker[t].sources
                 /\ w2.pc \in {"done", "fetch", "passage"}
<1> DEFINE w == worker[t]
           w2 == NextItem(t, [w EXCEPT !.facts =
                                Append(@, Candidate(TaskSub(t), w.source, w.text, claim))])
<1>1. worker' = [worker EXCEPT ![t] = w2]
  BY DEF Conclude
<1>2. /\ WorkerOK(t, w) /\ w.hits # <<>>
      /\ w.source \in Ref /\ w.text \in Text /\ w.sources[w.source] # NoText
  BY DEF WorkersOK, WorkerOK, ReadsOwn, CitesRecorded, Reading
<1>3. /\ WorkerOK(t, w2) /\ w2.sources = w.sources /\ w2.pc \in {"done", "fetch", "passage"}
  BY <1>2, ConcludeOK
<1> HIDE DEF w2
<1>4. QED BY <1>1, <1>3

(* The passage a worker writes about, and the claims it can write. *)
LEMMA WritingClaims ==
  ASSUME WorkersOK, NEW t \in Task, worker[t].pc \in Writing
  PROVE  /\ OwnClaim(t, worker[t].text) \in Claim
         /\ QuotedClaim(worker[t].source, worker[t].text) \in Claim
         /\ \A wording \in Wording :
              SummaryClaim(worker[t].source, worker[t].text, wording) \in Claim
<1>1. worker[t].source \in Ref /\ worker[t].text \in Text /\ TaskSub(t) \in Sub
  BY TaskFacts DEF WorkersOK, WorkerOK, CitesRecorded
<1>2. QED BY <1>1, ClaimsTyped DEF OwnClaim

LEMMA CondenseMoves ==
  ASSUME WorkersTyped, WorkersOK, NEW t \in Task, Condense(t) PROVE \E w2 : Moved(t, w2)
<1> DEFINE own == OwnClaim(t, worker[t].text)
           quoted == QuotedClaim(worker[t].source, worker[t].text)
<1>1. worker[t].pc = "condense" /\ UNCHANGED <<ledger, calls, table, route>>
  BY DEF Condense, At
<1>2. worker[t].pc \in Writing /\ worker[t].hits # <<>> /\ WorkerOK(t, worker[t])
  BY <1>1 DEF WorkersOK, WorkerOK, ReadsOwn, Reading, Writing
<1>3. own \in Claim /\ quoted \in Claim
  BY <1>2, WritingClaims
<1>4. ASSUME NEW w2, worker' = [worker EXCEPT ![t] = w2], WorkerOK(t, w2),
             w2.sources = worker[t].sources,
             w2.pc \in {"reserve", "done", "fetch", "passage"},
             \/ CanConsume(TaskSub(t)) /\ Consume(TaskSub(t))
             \/ UNCHANGED toolUses /\ w2.pc # "reserve"
      PROVE  Moved(t, w2)
  <2>1. Counts(t, w2)
    <3>1. CASE CanConsume(TaskSub(t)) /\ Consume(TaskSub(t))
      BY <1>1, <3>1, CountUse
    <3>2. CASE UNCHANGED toolUses /\ w2.pc # "reserve"
      <4>1. Owed(w2.pc) <= Owed(worker[t].pc)
        BY <1>1, <1>4, <3>2 DEF Owed, Owing
      <4>2. QED BY <1>1, <3>2, <4>1, NoCount
    <3>3. QED BY <1>4, <3>1, <3>2
  <2>2. Records(t, w2)
    BY <1>1, <1>4, NoRecord
  <2>3. Spends(t, w2)
    BY <1>1, NoSpending DEF Holding
  <2>4. QED BY <1>1, <1>4, <2>1, <2>2, <2>3 DEF Moved
<1> HIDE DEF own, quoted
<1>5. CASE CanConsume(TaskSub(t)) /\ route[TaskSub(t)] = "none"
  <2>1. Consume(TaskSub(t)) /\ Conclude(t, quoted)
    BY <1>5 DEF Condense, quoted
  <2>2. QED BY <1>2, <1>3, <1>4, <1>5, <2>1, ConcludeMoves
<1>6. CASE CanConsume(TaskSub(t)) /\ route[TaskSub(t)] # "none"
  <2> DEFINE w2 == Goto(worker[t], "reserve")
  <2>1. Consume(TaskSub(t)) /\ worker' = [worker EXCEPT ![t] = w2]
    BY <1>6 DEF Condense
  <2>2. "reserve" \in Step
    BY DEF Step
  <2>3. WorkerOK(t, w2) /\ w2.pc = "reserve" /\ w2.sources = worker[t].sources
    BY <1>2, <2>2, GotoOK
  <2> HIDE DEF w2
  <2>4. QED BY <1>4, <1>6, <2>1, <2>3
<1>7. CASE ~CanConsume(TaskSub(t))
  <2>1. UNCHANGED toolUses /\ Conclude(t, own)
    BY <1>7 DEF Condense, own
  <2>2. QED BY <1>2, <1>3, <1>4, <2>1, ConcludeMoves
<1>8. QED BY <1>5, <1>6, <1>7

LEMMA ReserveModelMoves ==
  ASSUME WorkersTyped, WorkersOK, NEW t \in Task, ReserveModel(t) PROVE \E w2 : Moved(t, w2)
<1> DEFINE cost == CostOf(route[TaskSub(t)])
           quoted == QuotedClaim(worker[t].source, worker[t].text)
<1>1. worker[t].pc = "reserve" /\ UNCHANGED <<toolUses, calls, table, route>>
  BY DEF ReserveModel, At
<1>2. worker[t].pc \in Writing /\ worker[t].hits # <<>> /\ WorkerOK(t, worker[t])
  BY <1>1 DEF WorkersOK, WorkerOK, ReadsOwn, Reading, Writing
<1>3. CASE Ledger!Affordable(ThisRun, cost)
  <2> DEFINE w2 == Goto(worker[t], "generate")
  <2>1. /\ Ledger!Reserve(ThisRun, t, cost, cost > 0) /\ Bill(0)
        /\ worker' = [worker EXCEPT ![t] = w2]
    BY <1>3 DEF ReserveModel
  <2>2. "generate" \in Step /\ "generate" \in Writing
    BY DEF Step, Writing
  <2>3. WorkerOK(t, w2) /\ w2.pc = "generate" /\ w2.sources = worker[t].sources
    BY <1>2, <2>2, GotoOK DEF Reading
  <2> HIDE DEF w2
  <2>4. Counts(t, w2)
    <3>1. Owed(w2.pc) <= Owed(worker[t].pc)
      BY <1>1, <2>3 DEF Owed, Owing
    <3>2. QED BY <1>1, <3>1, NoCount
  <2>5. Records(t, w2)
    BY <1>1, <2>3, NoRecord
  <2>6. Spends(t, w2)
    <3>1. billed' \in Nat
      BY <2>1 DEF Bill, WorkersTyped
    <3>2. cost \in Amounts /\ (cost > 0) \in BOOLEAN
      BY DEF Amounts, CostOf
    <3>3. w2.pc \in Holding
      BY <2>3 DEF Holding
    <3> HIDE DEF cost
    <3>4. QED BY <2>1, <3>1, <3>2, <3>3, Zenon DEF Spends
  <2>7. QED BY <1>1, <2>1, <2>3, <2>4, <2>5, <2>6 DEF Moved
<1>4. CASE ~Ledger!Affordable(ThisRun, cost)
  <2>1. Conclude(t, quoted) /\ UNCHANGED ledger
    BY <1>4 DEF ReserveModel
  <2>2. quoted \in Claim
    BY <1>2, WritingClaims
  <2> HIDE DEF quoted, cost
  <2>3. PICK w2 : /\ worker' = [worker EXCEPT ![t] = w2] /\ WorkerOK(t, w2)
                  /\ w2.sources = worker[t].sources
                  /\ w2.pc \in {"done", "fetch", "passage"}
    BY <1>2, <2>1, <2>2, ConcludeMoves
  <2>4. Counts(t, w2)
    <3>1. Owed(w2.pc) <= Owed(worker[t].pc)
      BY <1>1, <2>3 DEF Owed, Owing
    <3>2. QED BY <1>1, <3>1, NoCount
  <2>5. Records(t, w2)
    BY <1>1, <2>3, NoRecord
  <2>6. Spends(t, w2)
    BY <1>1, <2>1, NoSpending DEF Holding
  <2>7. QED BY <1>1, <2>3, <2>4, <2>5, <2>6 DEF Moved
<1>5. QED BY <1>3, <1>4

(* A call to a model is over, and its reservation settled. *)
LEMMA GeneratedMoves ==
  ASSUME WorkersTyped, WorkersOK, NEW t \in Task, worker[t].pc = "generate",
         Call(TaskSub(t)), UNCHANGED <<toolUses, table, route>>,
         NEW actual \in Costs, Ledger!Settle(t, actual), NEW fee \in Nat, Bill(fee),
         NEW claim \in Claim, Conclude(t, claim)
  PROVE  \E w2 : Moved(t, w2)
<1>1. worker[t].pc \in Writing
  BY DEF Writing
<1>2. PICK w2 : /\ worker' = [worker EXCEPT ![t] = w2] /\ WorkerOK(t, w2)
                /\ w2.sources = worker[t].sources
                /\ w2.pc \in {"done", "fetch", "passage"}
  BY <1>1, ConcludeMoves
<1>3. Counts(t, w2)
  BY <1>2, CountCall DEF Owing
<1>4. Records(t, w2)
  BY <1>2, NoRecord
<1>5. Spends(t, w2)
  BY Settled
<1>6. QED BY <1>2, <1>3, <1>4, <1>5 DEF Moved

LEMMA ModelAnswersMoves ==
  ASSUME WorkersTyped, WorkersOK, NEW t \in Task, ModelAnswers(t) PROVE \E w2 : Moved(t, w2)
<1>1. /\ worker[t].pc = "generate" /\ Call(TaskSub(t)) /\ UNCHANGED <<toolUses, table, route>>
  BY DEF ModelAnswers, At
<1>2. PICK actual \in Reported(route[TaskSub(t)]) : Ledger!Settle(t, actual) /\ Bill(actual)
  BY DEF ModelAnswers
<1>3. actual \in Costs /\ actual \in Nat
  BY WorkersAssumption DEF Reported, Costs
<1>4. PICK wording \in Wording :
        Conclude(t, SummaryClaim(worker[t].source, worker[t].text, wording))
  BY DEF ModelAnswers
<1>5. SummaryClaim(worker[t].source, worker[t].text, wording) \in Claim
  BY <1>1, WritingClaims DEF Writing
<1>6. QED BY <1>1, <1>2, <1>3, <1>4, <1>5, GeneratedMoves

LEMMA ModelFailsMoves ==
  ASSUME WorkersTyped, WorkersOK, NEW t \in Task, ModelFails(t) PROVE \E w2 : Moved(t, w2)
<1>1. /\ worker[t].pc = "generate" /\ Call(TaskSub(t)) /\ UNCHANGED <<toolUses, table, route>>
      /\ Ledger!Settle(t, 0) /\ Bill(0)
      /\ Conclude(t, QuotedClaim(worker[t].source, worker[t].text))
  BY DEF ModelFails, At, Ledger!Release
<1>2. 0 \in Costs /\ 0 \in Nat
  BY DEF Costs
<1>3. QuotedClaim(worker[t].source, worker[t].text) \in Claim
  BY <1>1, WritingClaims DEF Writing
<1>4. QED BY <1>1, <1>2, <1>3, GeneratedMoves

(* Every step of a worker. *)
LEMMA WorkerMoves ==
  ASSUME WorkersTyped, WorkersOK, NEW t \in Task, WorkerStep(t) PROVE \E w2 : Moved(t, w2)
BY BeginWebMoves, BeginDocumentsMoves, BeginAtLimitMoves, MeterSearchMoves,
   SearchAnswersMoves, SearchFailsMoves, SearchRaisesMoves, TakeHitMoves, FetchFailsMoves,
   FetchAnswersMoves, TakePassageMoves, CondenseMoves, ReserveModelMoves, ModelAnswersMoves,
   ModelFailsMoves DEF WorkerStep

-----------------------------------------------------------------------------
(* The ledger as this run uses it. Its one run has all reservations, so what
   it holds is a function from callers to amounts. *)
LedgerOK == Ledger!TypeOK /\ Ledger!ReservedIsOutstanding /\ Ledger!CeilingRespected

HeldNow ==
  [c \in Caller |-> IF reservations[c] = NoReservation THEN 0 ELSE reservations[c].held]
Units(held) == UNION {{c} \X (1 .. held[c]) : c \in DOMAIN held}

LEMMA UnitsCount ==
  ASSUME NEW c, NEW n \in Nat
  PROVE  IsFiniteSet({c} \X (1 .. n)) /\ Cardinality({c} \X (1 .. n)) = n
<1> DEFINE f == [k \in 1 .. n |-> <<c, k>>]
<1>1. f \in Bijection(1 .. n, {c} \X (1 .. n))
  <2>1. f \in [1 .. n -> {c} \X (1 .. n)] /\ \A k \in 1 .. n : f[k] = <<c, k>>
    OBVIOUS
  <2>2. DOMAIN f = 1 .. n
    OBVIOUS
  <2>3. \A u \in {c} \X (1 .. n) : \E k \in 1 .. n : u = <<c, k>>
    OBVIOUS
  <2> HIDE DEF f
  <2>4. \A j, k \in 1 .. n : f[j] = f[k] => j = k
    BY <2>1
  <2>5. QED
    BY <2>1, <2>2, <2>3, <2>4 DEF Bijection, Injection, IsInjective, Surjection
<1>2. ExistsBijection(1 .. n, {c} \X (1 .. n))
  BY <1>1 DEF ExistsBijection
<1>3. IsFiniteSet(1 .. n) /\ Cardinality(1 .. n) = n
  BY FS_Interval
<1>4. QED
  BY <1>2, <1>3, FS_Bijection

(* The amount of one caller counts among the units of all. *)
LEMMA UnitsApart ==
  ASSUME NEW held \in [Caller -> Nat], NEW c \in Caller, IsFiniteSet(Units(held)),
         NEW rest, rest = Units([held EXCEPT ![c] = 0])
  PROVE  /\ IsFiniteSet(rest) /\ Cardinality(rest) \in Nat
         /\ Cardinality(Units(held)) = Cardinality(rest) + held[c]
<1> DEFINE own == {c} \X (1 .. held[c])
<1>1. Units(held) = rest \cup own
  BY DEF Units
<1>2. rest \cap own = {}
  BY DEF Units
<1>3. IsFiniteSet(own) /\ Cardinality(own) = held[c]
  BY UnitsCount
<1>4. Cardinality(rest \cap own) = 0
  BY <1>2, FS_EmptySet, Zenon
<1> HIDE DEF own
<1>5. IsFiniteSet(rest) /\ Cardinality(rest) \in Nat
  BY <1>1, FS_Subset, FS_CardinalityType
<1>6. Cardinality(rest \cup own)
        = Cardinality(rest) + Cardinality(own) - Cardinality(rest \cap own)
  BY <1>3, <1>5, FS_Union
<1>7. QED BY <1>1, <1>3, <1>4, <1>5, <1>6

LEMMA UnitsFinite ==
  ASSUME NEW held \in [Caller -> Nat], NEW c \in Caller, IsFiniteSet(Units(held)), NEW n \in Nat
  PROVE  IsFiniteSet(Units([held EXCEPT ![c] = n]))
<1> DEFINE rest == Units([held EXCEPT ![c] = 0])
           new == {c} \X (1 .. n)
<1>1. Units([held EXCEPT ![c] = n]) = rest \cup new
  BY DEF Units
<1>2. IsFiniteSet(rest)
  BY UnitsApart
<1>3. IsFiniteSet(new)
  BY UnitsCount
<1> HIDE DEF rest, new
<1>4. QED BY <1>1, <1>2, <1>3, FS_Union

(* Changing one caller's amount changes the number of units by as much. *)
LEMMA UnitsChange ==
  ASSUME NEW held \in [Caller -> Nat], NEW c \in Caller, IsFiniteSet(Units(held)), NEW n \in Nat
  PROVE  /\ IsFiniteSet(Units([held EXCEPT ![c] = n]))
         /\ Cardinality(Units([held EXCEPT ![c] = n])) = Cardinality(Units(held)) - held[c] + n
         /\ held[c] <= Cardinality(Units(held))
<1> DEFINE next == [held EXCEPT ![c] = n]
           rest == Units([held EXCEPT ![c] = 0])
<1>1. next \in [Caller -> Nat] /\ next[c] = n /\ [next EXCEPT ![c] = 0] = [held EXCEPT ![c] = 0]
  OBVIOUS
<1>2. IsFiniteSet(Units(next))
  BY UnitsFinite
<1> HIDE DEF next
<1>3. rest = Units([next EXCEPT ![c] = 0])
  BY <1>1
<1> HIDE DEF rest
<1>4. Cardinality(rest) \in Nat /\ Cardinality(Units(held)) = Cardinality(rest) + held[c]
  BY UnitsApart DEF rest
<1>5. Cardinality(Units(next)) = Cardinality(rest) + n
  BY <1>1, <1>2, <1>3, UnitsApart
<1>6. held[c] \in Nat
  OBVIOUS
<1>7. QED BY <1>2, <1>4, <1>5, <1>6 DEF next

LEMMA HeldIsUnits ==
  ASSUME Ledger!TypeOK
  PROVE  /\ HeldNow \in [Caller -> Nat]
         /\ Ledger!HeldUnits(ThisRun) = Units(HeldNow)
<1>1. \A c \in Caller : reservations[c] # NoReservation =>
        reservations[c].run = ThisRun /\ reservations[c].held \in Nat
  BY DEF Ledger!TypeOK, Ledger!Reservation
<1>2. HeldNow \in [Caller -> Nat]
  BY <1>1 DEF HeldNow
<1>3. \A c \in Caller : reservations[c] = NoReservation => 1 .. HeldNow[c] = {}
  BY DEF HeldNow
<1>4. \A c \in Caller : reservations[c] # NoReservation =>
        1 .. HeldNow[c] = 1 .. reservations[c].held
  BY DEF HeldNow
<1>5. DOMAIN HeldNow = Caller
  BY DEF HeldNow
<1>6. Ledger!HeldUnits(ThisRun)
        = UNION {{c} \X (1 .. reservations[c].held) :
                   c \in {d \in Caller : reservations[d] # NoReservation}}
  BY <1>1 DEF Ledger!HeldUnits, Ledger!HeldBy, Ledger!UnitsOf, Ledger!Outstanding
<1> HIDE DEF HeldNow
<1>7. Units(HeldNow) = UNION {{c} \X (1 .. HeldNow[c]) : c \in Caller}
  BY <1>5 DEF Units
<1>8. ASSUME NEW u
      PROVE  (\E c \in Caller : u \in {c} \X (1 .. HeldNow[c]))
               <=> (\E c \in Caller : /\ reservations[c] # NoReservation
                                     /\ u \in {c} \X (1 .. reservations[c].held))
  BY <1>3, <1>4
<1>9. Units(HeldNow) = Ledger!HeldUnits(ThisRun)
  BY <1>6, <1>7, <1>8
<1>10. QED
  BY <1>2, <1>9

(* The instance has its own name for what FiniteSets defines. *)
LEMMA SameCardinality ==
  \A S : /\ Ledger!IsFiniteSet(S) <=> IsFiniteSet(S)
         /\ Ledger!Cardinality(S) = Cardinality(S)
BY DEF Ledger!IsFiniteSet, IsFiniteSet, Ledger!Cardinality, Cardinality

LEMMA LedgerInit == Ledger!Init => LedgerOK
<1> SUFFICES ASSUME Ledger!Init PROVE LedgerOK
  OBVIOUS
<1>1. Ledger!TypeOK
  BY DEF Ledger!Init, Ledger!TypeOK
<1>2. Ledger!ReservedIsOutstanding
  <2>1. ASSUME NEW r \in {ThisRun} PROVE Ledger!HeldUnits(r) = {}
    BY DEF Ledger!Init, Ledger!HeldUnits, Ledger!HeldBy, Ledger!Outstanding
  <2>2. QED
    BY <2>1, FS_EmptySet, SameCardinality DEF Ledger!ReservedIsOutstanding, Ledger!Init
<1>3. Ledger!CeilingRespected
  BY WorkersAssumption DEF Ledger!Init, Ledger!CeilingRespected
<1>4. QED BY <1>1, <1>2, <1>3 DEF LedgerOK

(* What LedgerOK says, in plain terms. *)
Plain ==
  /\ spent \in [{ThisRun} -> Nat] /\ reserved \in [{ThisRun} -> Nat]
  /\ reservations \in [Caller -> [run : {ThisRun}, held : Nat] \cup {NoReservation}]
  /\ paidCalls \in [{ThisRun} -> Nat]
  /\ IsFiniteSet(Units(HeldNow))
  /\ reserved[ThisRun] = Cardinality(Units(HeldNow))
  /\ spent[ThisRun] + reserved[ThisRun] <= Budget + Tolerance

LEMMA LedgerPlain == LedgerOK <=> Plain
<1>1. Ledger!TypeOK <=>
        /\ spent \in [{ThisRun} -> Nat] /\ reserved \in [{ThisRun} -> Nat]
        /\ reservations \in [Caller -> [run : {ThisRun}, held : Nat] \cup {NoReservation}]
        /\ paidCalls \in [{ThisRun} -> Nat]
  BY DEF Ledger!TypeOK, Ledger!Reservation
<1>2. Ledger!CeilingRespected <=> spent[ThisRun] + reserved[ThisRun] <= Budget + Tolerance
  BY DEF Ledger!CeilingRespected
<1>3. Ledger!ReservedIsOutstanding <=>
        /\ IsFiniteSet(Ledger!HeldUnits(ThisRun))
        /\ reserved[ThisRun] = Cardinality(Ledger!HeldUnits(ThisRun))
  BY SameCardinality DEF Ledger!ReservedIsOutstanding
<1>4. Ledger!TypeOK => Ledger!HeldUnits(ThisRun) = Units(HeldNow)
  BY HeldIsUnits
<1>5. QED BY <1>1, <1>2, <1>3, <1>4 DEF LedgerOK, Plain

LEMMA ReserveKeeps ==
  ASSUME LedgerOK, NEW c \in Caller, NEW amount \in Nat, NEW paid,
         Ledger!Reserve(ThisRun, c, amount, paid)
  PROVE  LedgerOK' /\ \A d \in Caller : d # c => reservations'[d] = reservations[d]
<1> DEFINE entry == [run |-> ThisRun, held |-> amount]
<1>1. /\ reservations[c] = NoReservation
      /\ reservations' = [reservations EXCEPT ![c] = entry]
      /\ reserved' = [reserved EXCEPT ![ThisRun] = @ + amount]
      /\ paidCalls' = [paidCalls EXCEPT ![ThisRun] = IF paid /\ amount > 0 THEN @ + 1 ELSE @]
      /\ spent' = spent
      /\ amount > 0 => spent[ThisRun] + reserved[ThisRun] + amount <= Budget + Tolerance
  BY DEF Ledger!Reserve, Ledger!Affordable, Ledger!Outstanding
<1>2. /\ spent \in [{ThisRun} -> Nat] /\ reserved \in [{ThisRun} -> Nat]
      /\ reservations \in [Caller -> [run : {ThisRun}, held : Nat] \cup {NoReservation}]
      /\ paidCalls \in [{ThisRun} -> Nat]
      /\ IsFiniteSet(Units(HeldNow))
      /\ reserved[ThisRun] = Cardinality(Units(HeldNow))
      /\ spent[ThisRun] + reserved[ThisRun] <= Budget + Tolerance
  BY LedgerPlain DEF Plain
<1>3. entry \in [run : {ThisRun}, held : Nat] /\ entry # NoReservation /\ entry.held = amount
  BY WorkersAssumption
<1> HIDE DEF entry
<1>4. /\ spent' \in [{ThisRun} -> Nat] /\ reserved' \in [{ThisRun} -> Nat]
      /\ reservations' \in [Caller -> [run : {ThisRun}, held : Nat] \cup {NoReservation}]
      /\ paidCalls' \in [{ThisRun} -> Nat]
  <2>1. reservations' \in [Caller -> [run : {ThisRun}, held : Nat] \cup {NoReservation}]
    BY <1>1, <1>2, <1>3
  <2>2. spent' \in [{ThisRun} -> Nat] /\ reserved' \in [{ThisRun} -> Nat]
    BY <1>1, <1>2
  <2>3. paidCalls' \in [{ThisRun} -> Nat]
    BY <1>1, <1>2
  <2>4. QED BY <2>1, <2>2, <2>3
<1>5. HeldNow \in [Caller -> Nat] /\ HeldNow[c] = 0
  BY <1>1, HeldIsUnits DEF LedgerOK, HeldNow
<1>6. HeldNow' = [HeldNow EXCEPT ![c] = amount]
  BY <1>1, <1>2, <1>3 DEF HeldNow
<1>7. /\ IsFiniteSet(Units(HeldNow'))
      /\ Cardinality(Units(HeldNow')) = Cardinality(Units(HeldNow)) + amount
  <2>1. /\ IsFiniteSet(Units([HeldNow EXCEPT ![c] = amount]))
        /\ Cardinality(Units([HeldNow EXCEPT ![c] = amount]))
             = Cardinality(Units(HeldNow)) - HeldNow[c] + amount
    BY <1>2, <1>5, UnitsChange
  <2>2. Cardinality(Units(HeldNow)) \in Nat
    BY <1>2
  <2>3. QED BY <1>5, <1>6, <2>1, <2>2
<1>8. reserved'[ThisRun] = Cardinality(Units(HeldNow'))
  BY <1>1, <1>2, <1>7
<1>9. spent'[ThisRun] + reserved'[ThisRun] <= Budget + Tolerance
  BY <1>1, <1>2, WorkersAssumption
<1>10. LedgerOK'
  <2>1. Plain'
    BY <1>4, <1>7, <1>8, <1>9 DEF Plain
  <2>2. QED BY <2>1, LedgerPlain, PTL
<1>11. QED BY <1>1, <1>2, <1>10

LEMMA SettleKeeps ==
  ASSUME LedgerOK, NEW c \in Caller, NEW actual \in Nat, Ledger!Settle(c, actual)
  PROVE  /\ LedgerOK' /\ reservations'[c] = NoReservation
         /\ \A d \in Caller : d # c => reservations'[d] = reservations[d]
<1>1. /\ spent \in [{ThisRun} -> Nat] /\ reserved \in [{ThisRun} -> Nat]
      /\ reservations \in [Caller -> [run : {ThisRun}, held : Nat] \cup {NoReservation}]
      /\ paidCalls \in [{ThisRun} -> Nat]
      /\ IsFiniteSet(Units(HeldNow))
      /\ reserved[ThisRun] = Cardinality(Units(HeldNow))
      /\ spent[ThisRun] + reserved[ThisRun] <= Budget + Tolerance
  BY LedgerPlain DEF Plain
<1>2. CASE reservations[c] = NoReservation
  <2>1. UNCHANGED money
    BY <1>2 DEF Ledger!Settle, Ledger!Outstanding, Ledger!ledger, money
  <2>2. UNCHANGED HeldNow
    BY <2>1 DEF HeldNow, money
  <2>3. Plain'
    BY <1>1, <2>1, <2>2 DEF Plain, money
  <2>4. LedgerOK'
    BY <2>3, LedgerPlain, PTL
  <2>5. QED BY <1>2, <2>1, <2>4 DEF money
<1>3. CASE reservations[c] # NoReservation
  <2> DEFINE h == reservations[c].held
             cost == Ledger!Charge(h, actual)
  <2>1. reservations[c].run = ThisRun /\ h \in Nat
    BY <1>1, <1>3
  <2>2. cost \in Nat /\ cost <= h
    BY <2>1 DEF Ledger!Charge, Ledger!Smaller, Ledger!Larger
  <2>3. /\ reservations' = [reservations EXCEPT ![c] = NoReservation]
        /\ reserved' = [reserved EXCEPT ![ThisRun] = Ledger!Larger(0, @ - h)]
        /\ spent' = [spent EXCEPT ![ThisRun] = @ + cost]
        /\ paidCalls' = paidCalls
    BY <1>3, <2>1 DEF Ledger!Settle, Ledger!Outstanding
  <2> HIDE DEF cost
  <2>4. HeldNow \in [Caller -> Nat] /\ HeldNow[c] = h
    BY <1>3, HeldIsUnits DEF LedgerOK, HeldNow
  <2>5. HeldNow' = [HeldNow EXCEPT ![c] = 0]
    BY <1>1, <2>3 DEF HeldNow
  <2> HIDE DEF h
  <2>6. /\ IsFiniteSet(Units(HeldNow')) /\ h <= Cardinality(Units(HeldNow))
        /\ Cardinality(Units(HeldNow')) = Cardinality(Units(HeldNow)) - h
    <3>1. /\ IsFiniteSet(Units([HeldNow EXCEPT ![c] = 0]))
          /\ Cardinality(Units([HeldNow EXCEPT ![c] = 0]))
               = Cardinality(Units(HeldNow)) - HeldNow[c] + 0
          /\ HeldNow[c] <= Cardinality(Units(HeldNow))
      BY <1>1, <2>4, UnitsChange
    <3>2. Cardinality(Units(HeldNow)) \in Nat
      BY <1>1
    <3>3. QED BY <2>1, <2>4, <2>5, <3>1, <3>2
  <2>7. /\ reserved[ThisRun] \in Nat /\ spent[ThisRun] \in Nat
        /\ h <= reserved[ThisRun]
    BY <1>1, <2>6
  <2>8. reserved' = [reserved EXCEPT ![ThisRun] = @ - h]
    <3>1. Ledger!Larger(0, reserved[ThisRun] - h) = reserved[ThisRun] - h
      BY <2>1, <2>7 DEF Ledger!Larger
    <3>2. QED BY <2>3, <3>1
  <2>9. /\ spent' \in [{ThisRun} -> Nat] /\ reserved' \in [{ThisRun} -> Nat]
        /\ reserved'[ThisRun] = reserved[ThisRun] - h
        /\ spent'[ThisRun] = spent[ThisRun] + cost
    BY <1>1, <2>1, <2>2, <2>3, <2>7, <2>8
  <2>10. reservations' \in [Caller -> [run : {ThisRun}, held : Nat] \cup {NoReservation}]
    BY <1>1, <2>3
  <2>11. spent'[ThisRun] + reserved'[ThisRun] <= Budget + Tolerance
    BY <1>1, <2>1, <2>2, <2>7, <2>9, WorkersAssumption
  <2>12. Plain'
    BY <1>1, <2>3, <2>6, <2>9, <2>10, <2>11 DEF Plain
  <2>13. LedgerOK'
    BY <2>12, LedgerPlain, PTL
  <2>14. QED BY <1>1, <2>3, <2>13
<1>4. QED BY <1>2, <1>3

LEMMA MoneyFacts ==
  /\ \A amount \in Amounts : amount \in Nat
  /\ \A actual \in Costs : actual \in Nat
  /\ \A alias \in Alias : CostOf(alias) \in Amounts
  /\ \A alias \in Alias : Reported(alias) \subseteq Costs
BY WorkersAssumption DEF Amounts, Costs, CostOf, Reported, Alias

(* A step in which at most one caller uses the ledger, and what it leaves of
   that caller's reservation. *)
Uses(c) ==
  \/ UNCHANGED money
  \/ \E amount \in Amounts, paid \in BOOLEAN : Ledger!Reserve(ThisRun, c, amount, paid)
  \/ \E actual \in Costs : Ledger!Settle(c, actual)

LEMMA UsesKeeps ==
  ASSUME LedgerOK, NEW c \in Caller, Uses(c)
  PROVE  LedgerOK' /\ \A d \in Caller : d # c => reservations'[d] = reservations[d]
<1>1. CASE UNCHANGED money
  <2>1. UNCHANGED HeldNow
    BY <1>1 DEF HeldNow, money
  <2>2. Plain'
    BY <1>1, <2>1, LedgerPlain DEF Plain, money
  <2>3. LedgerOK'
    BY <2>2, LedgerPlain, PTL
  <2>4. QED BY <1>1, <2>3 DEF money
<1>2. ASSUME NEW amount \in Amounts, NEW paid \in BOOLEAN,
             Ledger!Reserve(ThisRun, c, amount, paid)
      PROVE  LedgerOK' /\ \A d \in Caller : d # c => reservations'[d] = reservations[d]
  BY <1>2, MoneyFacts, ReserveKeeps
<1>3. ASSUME NEW actual \in Costs, Ledger!Settle(c, actual)
      PROVE  LedgerOK' /\ \A d \in Caller : d # c => reservations'[d] = reservations[d]
  BY <1>3, MoneyFacts, SettleKeeps
<1>4. QED BY <1>1, <1>2, <1>3 DEF Uses

(* Such a step is a step of the ledger's own specification, or none. *)
LEMMA UsesLedger ==
  ASSUME NEW c \in Caller, Uses(c) PROVE [Ledger!Next]_(Ledger!ledger)
<1>1. CASE UNCHANGED money
  BY <1>1 DEF money, Ledger!ledger
<1>2. ASSUME NEW amount \in Amounts, NEW paid \in BOOLEAN,
             Ledger!Reserve(ThisRun, c, amount, paid)
      PROVE  Ledger!Next
  BY <1>2 DEF Ledger!Next, Amounts
<1>3. ASSUME NEW actual \in Costs, Ledger!Settle(c, actual) PROVE Ledger!Next
  BY <1>3 DEF Ledger!Next, Costs
<1>4. QED BY <1>1, <1>2, <1>3 DEF Uses

-----------------------------------------------------------------------------
(* What the join makes of the workers' outputs. *)
LEMMA JoinedFacts ==
  ASSUME worker \in [Task -> WorkerState], facts \in Seq(Fact),
         NEW joined, joined = MergeById(GatheredFacts, UniqueQuotes(GatheredFacts))
  PROVE  /\ joined \in Seq(Fact)
         /\ \A i, j \in DOMAIN joined : joined[i].id = joined[j].id => i = j
         /\ Ids(facts) \subseteq Ids(joined)
         /\ \E found \in Seq(Fact) :
              /\ \A f \in ToSet(found) : \E t \in Task : f \in ToSet(worker[t].facts)
              /\ \A f \in ToSet(joined) :
                   f \in ToSet(found) \/ (f \in ToSet(facts) /\ f.id \notin Ids(found))
<1> DEFINE outputs == [t \in Task |-> worker[t].facts]
           found == FlattenSeq(outputs)
           unique == UniqueQuotes(GatheredFacts)
<1>1. \A t \in Task : worker[t].facts \in Seq(Fact)
  BY DEF WorkerState
<1>2. 2 * SubCount \in Nat /\ 2 * SubCount > 0 /\ Task = 1 .. 2 * SubCount
  BY EvidenceAssumption DEF Task
<1>3. outputs \in [1 .. 2 * SubCount -> Seq(Fact)]
  BY <1>1, <1>2
<1>4. /\ found \in Seq(Fact)
      /\ \A f \in ToSet(found) : \E t \in Task : f \in ToSet(worker[t].facts)
  <2>1. \A t \in Task : outputs[t] = worker[t].facts
    OBVIOUS
  <2> HIDE DEF outputs
  <2>2. /\ FlattenSeq(outputs) \in Seq(Fact)
        /\ \A f \in ToSet(FlattenSeq(outputs)) :
             \E t \in 1 .. 2 * SubCount : f \in ToSet(outputs[t])
    BY <1>2, <1>3, FlattenKeeps
  <2>3. QED BY <1>2, <2>1, <2>2
<1>5. GatheredFacts = MergeById(facts, found)
  BY DEF GatheredFacts
<1> HIDE DEF found
<1>6. /\ GatheredFacts \in Seq(Fact)
      /\ \A i, j \in DOMAIN GatheredFacts : GatheredFacts[i].id = GatheredFacts[j].id => i = j
      /\ Ids(GatheredFacts) = Ids(facts) \cup Ids(found)
      /\ \A f \in ToSet(GatheredFacts) :
           f \in ToSet(found) \/ (f \in ToSet(facts) /\ f.id \notin Ids(found))
  BY <1>4, <1>5, MergeKeeps
<1>7. unique \in Seq(Fact) /\ ToSet(unique) \subseteq ToSet(GatheredFacts)
  BY <1>6, UniqueQuotesKeeps
<1> HIDE DEF unique
<1>8. joined = MergeById(GatheredFacts, unique)
  BY DEF unique
<1>9. /\ joined \in Seq(Fact)
      /\ \A i, j \in DOMAIN joined : joined[i].id = joined[j].id => i = j
      /\ Ids(joined) = Ids(GatheredFacts) \cup Ids(unique)
  BY <1>6, <1>7, <1>8, MergeKeeps
<1>10. ToSet(joined) = ToSet(GatheredFacts)
  BY <1>6, <1>7, <1>8, MergeOwnKeeps
<1>11. QED BY <1>4, <1>6, <1>9, <1>10

LEMMA JoinedProvenance ==
  ASSUME worker \in [Task -> WorkerState], provenance \in [Ref -> Text \cup {NoText}]
  PROVE  /\ GatheredProvenance \in [Ref -> Text \cup {NoText}]
         /\ \A r \in Ref :
              \/ /\ \A t \in Task : worker[t].sources[r] = NoText
                 /\ GatheredProvenance[r] = provenance[r]
              \/ \E t \in Task : /\ worker[t].sources[r] # NoText
                                 /\ GatheredProvenance[r] = worker[t].sources[r]
<1>1. \A t \in Task : worker[t].sources \in [Ref -> Text \cup {NoText}]
  BY DEF WorkerState
<1>2. ASSUME NEW r \in Ref
      PROVE  \/ /\ \A t \in Task : worker[t].sources[r] = NoText
                /\ GatheredProvenance[r] = provenance[r]
             \/ \E t \in Task : /\ worker[t].sources[r] # NoText
                                /\ GatheredProvenance[r] = worker[t].sources[r]
  <2> DEFINE from == {t \in Task : worker[t].sources[r] # NoText}
  <2>1. GatheredProvenance[r]
          = IF from = {} THEN provenance[r] ELSE worker[Max(from)].sources[r]
    BY DEF GatheredProvenance
  <2>2. CASE from = {}
    BY <2>1, <2>2
  <2>3. CASE from # {}
    <3>1. from \in SUBSET (1 .. 2 * SubCount) /\ 2 * SubCount \in Nat
      BY EvidenceAssumption DEF Task
    <3> DEFINE IsTop(x) == \A y \in from : x >= y
    <3> HIDE DEF from
    <3>2. PICK x \in from : \A y \in from : y <= x
      BY <2>3, <3>1, GreatestElement
    <3>3. \A y \in from : y \in Int
      BY <3>1
    <3>4. IsTop(x)
      BY <3>2, <3>3
    <3>5. Max(from) = CHOOSE z \in from : IsTop(z)
      BY DEF Max
    <3> HIDE DEF IsTop
    <3>6. Max(from) \in from
      BY <3>2, <3>4, <3>5
    <3>7. QED BY <2>1, <2>3, <3>6 DEF from
  <2>4. QED BY <2>2, <2>3
<1>3. GatheredProvenance = [r \in Ref |-> GatheredProvenance[r]]
  BY DEF GatheredProvenance
<1>4. \A r \in Ref : GatheredProvenance[r] \in Text \cup {NoText}
  BY <1>1, <1>2
<1>5. GatheredProvenance \in [Ref -> Text \cup {NoText}]
  BY <1>3, <1>4
<1>6. QED BY <1>2, <1>5

-----------------------------------------------------------------------------
(* The values of the graph's variables. *)
GraphTyped ==
  /\ node \in Node
  /\ allowed \in {"web", "documents", "both"}
  /\ hint \in [Sub -> {"web", "documents", "both"}]
  /\ facts \in Seq(Fact)
  /\ provenance \in [Ref -> Text \cup {NoText}]
  /\ covered \in [Sub -> BOOLEAN]
  /\ retry \subseteq Sub
  /\ round \in 0 .. MaxRounds /\ shownRound \in 0 .. MaxRounds
  /\ limitations \subseteq Limitation
  /\ complete \in BOOLEAN

Typed == WorkersTyped /\ WorkersOK /\ GraphTyped

LEMMA TypedInit == Init => Typed
<1> SUFFICES ASSUME Init PROVE Typed
  OBVIOUS
<1>1. WorkersTyped
  BY WorkersAssumption DEF Init, WorkersInit, WorkersTyped, NoProvenance, Alias
<1>2. WorkersOK
  <2>1. worker = [t \in Task |-> Idle]
    BY DEF Init, WorkersInit
  <2>2. \A t \in Task : WorkerOK(t, Idle) /\ Idle \in WorkerState
    BY IdleOK DEF WorkerOK
  <2>3. QED BY <2>1, <2>2 DEF WorkersOK
<1>3. GraphTyped
  <2>1. node \in Node /\ allowed \in {"web", "documents", "both"}
    BY LoopAssumption DEF Init, Node
  <2>2. hint \in [Sub -> {"web", "documents", "both"}] /\ covered \in [Sub -> BOOLEAN]
    BY DEF Init
  <2>3. facts \in Seq(Fact) /\ provenance \in [Ref -> Text \cup {NoText}]
    BY DEF Init, NoProvenance
  <2>4. round \in 0 .. MaxRounds /\ shownRound \in 0 .. MaxRounds
    BY LoopAssumption DEF Init
  <2>5. retry \subseteq Sub /\ limitations \subseteq Limitation /\ complete \in BOOLEAN
    BY DEF Init
  <2>6. QED BY <2>1, <2>2, <2>3, <2>4, <2>5 DEF GraphTyped
<1>4. QED BY <1>1, <1>2, <1>3 DEF Typed

(* A step of a worker keeps the types. *)
LEMMA MovedTyped ==
  ASSUME WorkersTyped, WorkersOK, NEW t \in Task, NEW w2, Moved(t, w2)
  PROVE  WorkersTyped' /\ WorkersOK'
<1>1. /\ worker' = [worker EXCEPT ![t] = w2] /\ WorkerOK(t, w2)
      /\ Counts(t, w2) /\ Records(t, w2) /\ Spends(t, w2) /\ UNCHANGED route
  BY DEF Moved
<1>2. w2 \in WorkerState
  BY <1>1 DEF WorkerOK
<1>3. WorkersOK'
  BY <1>1, <1>2 DEF WorkersOK
<1>4. toolUses' \in [Sub -> 0 .. ToolLimit] /\ calls' \in [Sub -> Nat]
  <2> DEFINE s == TaskSub(t)
  <2>1. s \in Sub
    BY TaskFacts
  <2>2. toolUses[s] \in 0 .. ToolLimit /\ calls[s] \in Nat /\ ToolLimit \in Nat
    BY <2>1, WorkersAssumption DEF WorkersTyped
  <2>3. PICK use \in {0, 1}, call \in {0, 1} :
          /\ toolUses[s] + use <= ToolLimit
          /\ toolUses' = [toolUses EXCEPT ![s] = @ + use]
          /\ calls' = [calls EXCEPT ![s] = @ + call]
    BY <1>1 DEF Counts
  <2> HIDE DEF s
  <2>4. toolUses[s] + use \in 0 .. ToolLimit /\ calls[s] + call \in Nat
    BY <2>2, <2>3
  <2>5. QED BY <2>1, <2>3, <2>4 DEF WorkersTyped
<1>5. table' \in [Ref -> Text \cup {NoText}] /\ billed' \in Nat
  BY <1>1 DEF Records, Spends
<1>6. QED BY <1>1, <1>3, <1>4, <1>5 DEF WorkersTyped

LEMMA EligibleTyped ==
  ASSUME NEW pool \in SUBSET Alias PROVE Eligible(pool) \subseteq Alias
BY DEF Eligible, Alias

(* Every step of the loop keeps the types. *)
LEMMA TypedStep == ASSUME Typed, LoopStep PROVE Typed'
<1> USE DEF Typed
<1>1. CASE Intake
  BY <1>1 DEF Intake, workerVars, ledger, graphState, WorkersTyped, WorkersOK, GraphTyped, Node
<1>2. CASE PlanWithoutModel
  BY <1>2 DEF PlanWithoutModel, PlanMade, FallbackHints, workerVars, ledger, WorkersTyped,
              WorkersOK, GraphTyped, Node
<1>3. CASE AskForPlan
  BY <1>3 DEF AskForPlan, Bill, graphState, WorkersTyped, WorkersOK, GraphTyped, Node
<1>4. CASE PlanAnswers
  <2>1. PICK actual \in IF reservations[GraphNode].held > 0 THEN Bills ELSE {0} :
          Ledger!Settle(GraphNode, actual) /\ Bill(actual)
    BY <1>4 DEF PlanAnswers
  <2>2. billed' \in Nat
    BY <2>1, WorkersAssumption DEF Bill, WorkersTyped
  <2>3. \A p \in Plans : Coerced(p) \in [Sub -> {"web", "documents", "both"}]
    BY LoopAssumption DEF Coerced, GraphTyped
  <2>4. FallbackHints \in [Sub -> {"web", "documents", "both"}]
    BY DEF FallbackHints, GraphTyped
  <2>5. PICK hints \in {Coerced(p) : p \in Plans} \cup {FallbackHints} : PlanMade(hints)
    BY <1>4 DEF PlanAnswers
  <2>6. GraphTyped'
    BY <2>3, <2>4, <2>5 DEF PlanMade, GraphTyped, Node
  <2>7. QED
    BY <1>4, <2>2, <2>6 DEF PlanAnswers, WorkersTyped, WorkersOK
<1>5. CASE PlanFails
  BY <1>5 DEF PlanFails, PlanMade, FallbackHints, Bill, WorkersTyped, WorkersOK, GraphTyped,
              Node
<1>6. CASE Router
  <2>1. route' \in [Sub -> Alias]
    BY <1>6, LoopAssumption, EligibleTyped DEF Router
  <2>2. QED
    BY <1>6, <2>1 DEF Router, ledger, graphState, WorkersTyped, WorkersOK, GraphTyped, Node
<1>7. CASE Supervisor
  <2>1. WorkersOK'
    <3>1. worker' = [t \in Task |-> IF t \in Dispatched THEN Goto(Idle, "begin") ELSE Idle]
      BY <1>7 DEF Supervisor
    <3>2. \A t \in Task : /\ WorkerOK(t, Idle) /\ Idle \in WorkerState
                          /\ WorkerOK(t, Goto(Idle, "begin"))
                          /\ Goto(Idle, "begin") \in WorkerState
      BY IdleOK DEF WorkerOK
    <3>3. QED BY <3>1, <3>2 DEF WorkersOK
  <2>2. round' \in 0 .. MaxRounds /\ shownRound' = round'
    BY <1>7, LoopAssumption DEF Supervisor, GraphTyped
  <2>3. QED
    BY <1>7, <2>1, <2>2 DEF Supervisor, ledger, WorkersTyped, GraphTyped, Node
<1>8. ASSUME NEW t \in Task, Work(t) PROVE Typed'
  <2>1. WorkersTyped' /\ WorkersOK'
    BY <1>8, WorkerMoves, MovedTyped DEF Work
  <2>2. GraphTyped'
    BY <1>8 DEF Work, graphState, GraphTyped
  <2>3. QED BY <2>1, <2>2
<1>9. CASE Join
  <2>1. facts' = MergeById(GatheredFacts, UniqueQuotes(GatheredFacts))
    BY <1>9 DEF Join
  <2>2. facts' \in Seq(Fact)
    BY <2>1, JoinedFacts DEF WorkersOK, GraphTyped
  <2>3. provenance' \in [Ref -> Text \cup {NoText}]
    BY <1>9, JoinedProvenance DEF Join, WorkersOK, GraphTyped
  <2>4. WorkersOK'
    <3>1. worker' = [t \in Task |-> Idle]
      BY <1>9 DEF Join
    <3>2. \A t \in Task : WorkerOK(t, Idle) /\ Idle \in WorkerState
      BY IdleOK DEF WorkerOK
    <3>3. QED BY <3>1, <3>2 DEF WorkersOK
  <2>5. QED
    BY <1>9, <2>2, <2>3, <2>4 DEF Join, ledger, WorkersTyped, GraphTyped, Node
<1>10. CASE Abort
  BY <1>10 DEF Abort, workerVars, ledger, graphState, WorkersTyped, WorkersOK, GraphTyped, Node
<1>11. CASE Validator
  <2>1. facts' \in Seq(Fact)
    BY <1>11, ValidateKeeps DEF Validator, GraphTyped
  <2>2. QED
    BY <1>11, <2>1 DEF Validator, workerVars, ledger, WorkersTyped, WorkersOK, GraphTyped, Node
<1>12. CASE Gate
  <2>1. Uncovered \subseteq Sub /\ Limitations \subseteq Limitation
    BY DEF Uncovered, Limitations
  <2>2. round' \in 0 .. MaxRounds /\ shownRound' = round'
    BY <1>12, LoopAssumption DEF Gate, NextRound, CanRetry, GraphTyped
  <2>3. /\ covered' = [s \in Sub |-> s \notin Uncovered] /\ complete' = (Uncovered = {})
        /\ retry' = (IF CanRetry THEN Uncovered ELSE {})
        /\ limitations' = limitations \cup
             (IF CanRetry \/ Uncovered = {} THEN {} ELSE Limitations)
        /\ node' = (IF CanRetry THEN "supervisor" ELSE "writer")
        /\ UNCHANGED <<workerVars, allowed, hint, facts, provenance>>
    BY <1>12 DEF Gate
  <2>4. retry' \subseteq Sub /\ limitations' \subseteq Limitation
    BY <2>1, <2>3 DEF GraphTyped
  <2>5. covered' \in [Sub -> BOOLEAN] /\ complete' \in BOOLEAN /\ node' \in Node
    <3> HIDE DEF Typed
    <3>1. \A s \in Sub : (s \notin Uncovered) \in BOOLEAN
      OBVIOUS
    <3>2. node' \in Node
      BY <2>3 DEF Node
    <3>3. complete' \in BOOLEAN
      BY <2>3
    <3>4. QED BY <2>3, <3>1, <3>2, <3>3
  <2>6. QED
    BY <2>2, <2>3, <2>4, <2>5 DEF workerVars, ledger, WorkersTyped, WorkersOK, GraphTyped
<1>13. QED
  BY <1>1, <1>2, <1>3, <1>4, <1>5, <1>6, <1>7, <1>8, <1>9, <1>10, <1>11, <1>12 DEF LoopStep

-----------------------------------------------------------------------------
(* Money is set aside only while it can still be settled: a worker holds some
   between its request and the answer, or after it raised; the graph's own node
   while its model is asked. *)
HoldsOK ==
  /\ node \notin {"workers", "failed"} => \A t \in Task : worker[t].pc = "idle"
  /\ \A t \in Task : reservations[t] # NoReservation => worker[t].pc \in Holding
  /\ reservations[GraphNode] # NoReservation => node \in {"planning", "writing"}

MoneyOK == LedgerOK /\ HoldsOK

LEMMA CallerFacts ==
  GraphNode \in Caller /\ \A t \in Task : t \in Caller /\ t # GraphNode
BY TaskFacts DEF Caller

LEMMA MoneyInit == Init => MoneyOK
<1> SUFFICES ASSUME Init PROVE MoneyOK
  OBVIOUS
<1>1. LedgerOK
  BY LedgerInit DEF Init, WorkersInit
<1>2. \A c \in Caller : reservations[c] = NoReservation
  BY DEF Init, WorkersInit, Ledger!Init
<1>3. \A t \in Task : worker[t].pc = "idle"
  BY DEF Init, WorkersInit, Idle
<1>4. QED
  BY <1>1, <1>2, <1>3, CallerFacts DEF MoneyOK, HoldsOK

(* A node that leaves the workers and the ledger alone. *)
LEMMA MoneyIdle ==
  ASSUME MoneyOK, UNCHANGED money, UNCHANGED worker, node \notin {"planning", "writing"},
         node' \notin {"workers", "failed"} => node \notin {"workers", "failed"}
  PROVE  MoneyOK' /\ [Ledger!Next]_(Ledger!ledger)
<1>1. Uses(GraphNode) /\ GraphNode \in Caller
  BY CallerFacts DEF Uses
<1>2. LedgerOK' /\ [Ledger!Next]_(Ledger!ledger)
  BY <1>1, UsesKeeps, UsesLedger DEF MoneyOK
<1>3. HoldsOK'
  BY DEF MoneyOK, HoldsOK, money
<1>4. QED BY <1>2, <1>3 DEF MoneyOK

(* The graph's own node uses the ledger. *)
LEMMA MoneyGraph ==
  ASSUME MoneyOK, UNCHANGED worker, node \notin {"workers", "failed"},
         \/ /\ \E amount \in Amounts, paid \in BOOLEAN :
                 Ledger!Reserve(ThisRun, GraphNode, amount, paid)
            /\ node' \in {"planning", "writing"}
         \/ \E actual \in Costs : Ledger!Settle(GraphNode, actual)
  PROVE  MoneyOK' /\ [Ledger!Next]_(Ledger!ledger)
<1>1. GraphNode \in Caller /\ \A t \in Task : t \in Caller /\ t # GraphNode
  BY CallerFacts
<1>2. Uses(GraphNode)
  BY Zenon DEF Uses
<1>3. /\ LedgerOK' /\ [Ledger!Next]_(Ledger!ledger)
      /\ \A d \in Caller : d # GraphNode => reservations'[d] = reservations[d]
  BY <1>1, <1>2, UsesKeeps, UsesLedger DEF MoneyOK
<1>4. node' \in {"planning", "writing"} \/ reservations'[GraphNode] = NoReservation
  BY <1>1, MoneyFacts, SettleKeeps DEF MoneyOK
<1>5. HoldsOK'
  BY <1>1, <1>3, <1>4 DEF MoneyOK, HoldsOK
<1>6. QED BY <1>3, <1>5 DEF MoneyOK

(* A worker uses the ledger. *)
LEMMA MoneyWorker ==
  ASSUME MoneyOK, WorkersOK, NEW t \in Task, NEW w2, Moved(t, w2), UNCHANGED node,
         node = "workers"
  PROVE  MoneyOK' /\ [Ledger!Next]_(Ledger!ledger)
<1>1. t \in Caller /\ GraphNode \in Caller /\ t # GraphNode
  BY CallerFacts
<1>2. /\ worker' = [worker EXCEPT ![t] = w2] /\ worker \in [Task -> WorkerState]
      /\ Spends(t, w2)
  BY DEF Moved, WorkersOK
<1>3. Uses(t)
  BY <1>2, Zenon DEF Spends, Uses
<1>4. /\ LedgerOK' /\ [Ledger!Next]_(Ledger!ledger)
      /\ \A d \in Caller : d # t => reservations'[d] = reservations[d]
  BY <1>1, <1>3, UsesKeeps, UsesLedger DEF MoneyOK
<1>5. reservations'[t] # NoReservation => w2.pc \in Holding
  <2>1. CASE UNCHANGED money /\ (worker[t].pc \in Holding => w2.pc \in Holding)
    BY <2>1 DEF MoneyOK, HoldsOK, money
  <2>2. CASE w2.pc \in Holding
    BY <2>2
  <2>3. CASE \E actual \in Costs : Ledger!Settle(t, actual)
    BY <1>1, <2>3, MoneyFacts, SettleKeeps DEF MoneyOK
  <2>4. QED BY <1>2, <2>1, <2>2, <2>3 DEF Spends
<1>6. \A u \in Task : reservations'[u] # NoReservation => worker'[u].pc \in Holding
  BY <1>2, <1>4, <1>5, CallerFacts DEF MoneyOK, HoldsOK
<1>7. reservations'[GraphNode] = NoReservation
  BY <1>1, <1>4 DEF MoneyOK, HoldsOK
<1>8. HoldsOK'
  BY <1>6, <1>7 DEF HoldsOK
<1>9. QED BY <1>4, <1>8 DEF MoneyOK

(* The workers are sent out, or have all returned. *)
LEMMA MoneyCrew ==
  ASSUME MoneyOK, UNCHANGED money, node \notin {"planning", "writing"},
         \A t \in Task : worker[t].pc \notin Holding,
         node' = "workers" \/ \A t \in Task : worker'[t].pc = "idle"
  PROVE  MoneyOK' /\ [Ledger!Next]_(Ledger!ledger)
<1>1. Uses(GraphNode) /\ GraphNode \in Caller
  BY CallerFacts DEF Uses
<1>2. LedgerOK' /\ [Ledger!Next]_(Ledger!ledger)
  BY <1>1, UsesKeeps, UsesLedger DEF MoneyOK
<1>3. HoldsOK'
  BY DEF MoneyOK, HoldsOK, money
<1>4. QED BY <1>2, <1>3 DEF MoneyOK

LEMMA MoneyStep ==
  ASSUME Typed, MoneyOK, LoopStep PROVE MoneyOK' /\ [Ledger!Next]_(Ledger!ledger)
<1>1. CASE Intake \/ PlanWithoutModel \/ Router \/ Abort \/ Validator \/ Gate
  <2>1. UNCHANGED money /\ UNCHANGED worker /\ node \notin {"planning", "writing"}
    BY <1>1 DEF Intake, PlanWithoutModel, Router, Abort, Validator, Gate, workerVars, ledger,
                money
  <2>2. node' \notin {"workers", "failed"} => node \notin {"workers", "failed"}
    BY <1>1 DEF Intake, PlanWithoutModel, PlanMade, Router, Abort, Validator, Gate
  <2>3. QED BY <2>1, <2>2, MoneyIdle
<1>2. CASE AskForPlan
  <2>1. UNCHANGED worker /\ node \notin {"workers", "failed"} /\ node' = "planning"
    BY <1>2 DEF AskForPlan
  <2>2. PICK a \in Eligible(PlanAlias) :
          Ledger!Reserve(ThisRun, GraphNode, CostOf(a), a = "paid")
    BY <1>2 DEF AskForPlan
  <2>3. CostOf(a) \in Amounts /\ (a = "paid") \in BOOLEAN
    BY LoopAssumption, EligibleTyped, MoneyFacts
  <2>4. \E amount \in Amounts, paid \in BOOLEAN :
          Ledger!Reserve(ThisRun, GraphNode, amount, paid)
    BY <2>2, <2>3, Zenon
  <2>5. QED BY <2>1, <2>4, MoneyGraph
<1>3. CASE PlanAnswers
  <2>1. UNCHANGED worker /\ node \notin {"workers", "failed"}
    BY <1>3 DEF PlanAnswers
  <2>2. \E actual \in Costs : Ledger!Settle(GraphNode, actual)
    BY <1>3 DEF PlanAnswers, Costs
  <2>3. QED BY <2>1, <2>2, MoneyGraph
<1>4. CASE PlanFails
  <2>1. UNCHANGED worker /\ node \notin {"workers", "failed"} /\ Ledger!Settle(GraphNode, 0)
    BY <1>4 DEF PlanFails, Ledger!Release
  <2>2. \E actual \in Costs : Ledger!Settle(GraphNode, actual)
    BY <2>1 DEF Costs
  <2>3. QED BY <2>1, <2>2, MoneyGraph
<1>5. CASE Supervisor
  <2>1. UNCHANGED money /\ node = "supervisor" /\ node' = "workers"
    BY <1>5 DEF Supervisor, ledger, money
  <2>2. \A t \in Task : worker[t].pc \notin Holding
    BY <2>1 DEF MoneyOK, HoldsOK, Holding
  <2>3. QED BY <2>1, <2>2, MoneyCrew
<1>6. CASE Join
  <2>1. UNCHANGED money /\ node = "workers" /\ worker' = [t \in Task |-> Idle]
    BY <1>6 DEF Join, ledger, money
  <2>2. \A t \in Task : worker[t].pc \notin Holding
    BY <1>6 DEF Join, Holding
  <2>3. \A t \in Task : worker'[t].pc = "idle"
    BY <2>1 DEF Idle
  <2>4. QED BY <2>1, <2>2, <2>3, MoneyCrew
<1>7. ASSUME NEW t \in Task, Work(t) PROVE MoneyOK' /\ [Ledger!Next]_(Ledger!ledger)
  <2>1. \E w2 : Moved(t, w2)
    BY <1>7, WorkerMoves DEF Work, Typed
  <2>2. QED BY <1>7, <2>1, MoneyWorker DEF Work, Typed
<1>8. QED
  BY <1>1, <1>2, <1>3, <1>4, <1>5, <1>6, <1>7 DEF LoopStep

-----------------------------------------------------------------------------
(* Every call that was made, or that a worker is about to make, was counted
   as a use before. *)
CallsOK ==
  \A s \in Sub :
    calls[s] + Owed(worker[2 * s - 1].pc) + Owed(worker[2 * s].pc) <= toolUses[s]

LEMMA CallsInit == Init => CallsOK
<1> SUFFICES ASSUME Init, NEW s \in Sub
             PROVE  calls[s] + Owed(worker[2 * s - 1].pc) + Owed(worker[2 * s].pc) <= toolUses[s]
  BY DEF CallsOK
<1>1. 2 * s - 1 \in Task /\ 2 * s \in Task
  BY TaskFacts
<1>2. calls[s] = 0 /\ toolUses[s] = 0 /\ \A t \in Task : worker[t].pc = "idle"
  BY DEF Init, WorkersInit, Idle
<1>3. Owed("idle") = 0
  BY DEF Owed, Owing
<1>4. QED BY <1>1, <1>2, <1>3

(* A step in which no worker owes a call that it did not owe before. *)
LEMMA CallsStill ==
  ASSUME Typed, CallsOK, UNCHANGED <<toolUses, calls>>,
         \A t \in Task : worker'[t].pc = worker[t].pc \/ worker'[t].pc \notin Owing
  PROVE  CallsOK'
<1> SUFFICES ASSUME NEW s \in Sub
             PROVE  calls[s] + Owed(worker'[2 * s - 1].pc) + Owed(worker'[2 * s].pc)
                      <= toolUses[s]
  BY DEF CallsOK
<1>1. 2 * s - 1 \in Task /\ 2 * s \in Task
  BY TaskFacts
<1>2. \A t \in Task : Owed(worker'[t].pc) <= Owed(worker[t].pc) /\ Owed(worker'[t].pc) \in {0, 1}
                        /\ Owed(worker[t].pc) \in {0, 1}
  BY DEF Owed
<1>3. calls[s] \in Nat /\ toolUses[s] \in Nat
  BY WorkersAssumption DEF Typed, WorkersTyped
<1>4. calls[s] + Owed(worker[2 * s - 1].pc) + Owed(worker[2 * s].pc) <= toolUses[s]
  BY DEF CallsOK
<1>5. QED BY <1>1, <1>2, <1>3, <1>4

LEMMA CallsWorker ==
  ASSUME Typed, CallsOK, NEW t \in Task, NEW w2, Moved(t, w2) PROVE CallsOK'
<1> SUFFICES ASSUME NEW s \in Sub
             PROVE  calls'[s] + Owed(worker'[2 * s - 1].pc) + Owed(worker'[2 * s].pc)
                      <= toolUses'[s]
  BY DEF CallsOK
<1>1. /\ 2 * s - 1 \in Task /\ 2 * s \in Task /\ s \in Nat
      /\ TaskSub(2 * s - 1) = s /\ TaskSub(2 * s) = s
      /\ t = 2 * TaskSub(t) - 1 \/ t = 2 * TaskSub(t)
      /\ TaskSub(t) \in Sub
  BY TaskFacts DEF Sub
<1>2. worker' = [worker EXCEPT ![t] = w2] /\ worker \in [Task -> WorkerState]
  BY DEF Moved, Typed, WorkersOK
<1>3. calls[s] \in Nat /\ toolUses[s] \in Nat
  BY WorkersAssumption DEF Typed, WorkersTyped
<1>4. PICK use \in {0, 1}, call \in {0, 1} :
        /\ toolUses' = [toolUses EXCEPT ![TaskSub(t)] = @ + use]
        /\ calls' = [calls EXCEPT ![TaskSub(t)] = @ + call]
        /\ call + Owed(w2.pc) <= use + Owed(worker[t].pc)
  BY DEF Moved, Counts
<1>5. \A pc : Owed(pc) \in {0, 1}
  BY DEF Owed
<1>6. calls[s] + Owed(worker[2 * s - 1].pc) + Owed(worker[2 * s].pc) <= toolUses[s]
  BY DEF CallsOK
<1> DEFINE first == Owed(worker[2 * s - 1].pc)
           second == Owed(worker[2 * s].pc)
           before == Owed(worker[t].pc)
           after == Owed(w2.pc)
<1>7. first \in {0, 1} /\ second \in {0, 1} /\ before \in {0, 1} /\ after \in {0, 1}
  BY <1>5
<1>8. CASE TaskSub(t) # s
  <2>1. t # 2 * s - 1 /\ t # 2 * s
    BY <1>1, <1>8
  <2>2. calls'[s] = calls[s] /\ toolUses'[s] = toolUses[s]
    BY <1>4, <1>8
  <2>3. worker'[2 * s - 1] = worker[2 * s - 1] /\ worker'[2 * s] = worker[2 * s]
    BY <1>1, <1>2, <2>1
  <2>4. QED BY <1>6, <2>2, <2>3
<1>9. CASE TaskSub(t) = s /\ t = 2 * s - 1
  <2>1. calls'[s] = calls[s] + call /\ toolUses'[s] = toolUses[s] + use
    BY <1>4, <1>9 DEF Typed, WorkersTyped
  <2>2. t # 2 * s
    BY <1>1, <1>9
  <2>3. worker'[2 * s - 1] = w2 /\ worker'[2 * s] = worker[2 * s]
    BY <1>1, <1>2, <1>9, <2>2
  <2>4. first = before
    BY <1>9
  <2> HIDE DEF first, second, before, after
  <2>5. calls[s] + call + after + second <= toolUses[s] + use
    <3>1. call + after <= use + before /\ calls[s] + first + second <= toolUses[s]
      BY <1>4, <1>6 DEF first, second, before, after
    <3>2. QED BY <1>3, <1>7, <2>4, <3>1
  <2>6. QED BY <2>1, <2>3, <2>5 DEF after, second
<1>10. CASE TaskSub(t) = s /\ t = 2 * s
  <2>1. calls'[s] = calls[s] + call /\ toolUses'[s] = toolUses[s] + use
    BY <1>4, <1>10 DEF Typed, WorkersTyped
  <2>2. t # 2 * s - 1
    BY <1>1, <1>10
  <2>3. worker'[2 * s] = w2 /\ worker'[2 * s - 1] = worker[2 * s - 1]
    BY <1>1, <1>2, <1>10, <2>2
  <2>4. second = before
    BY <1>10
  <2> HIDE DEF first, second, before, after
  <2>5. calls[s] + call + first + after <= toolUses[s] + use
    <3>1. call + after <= use + before /\ calls[s] + first + second <= toolUses[s]
      BY <1>4, <1>6 DEF first, second, before, after
    <3>2. QED BY <1>3, <1>7, <2>4, <3>1
  <2>6. QED BY <2>1, <2>3, <2>5 DEF after, first
<1>11. QED BY <1>1, <1>8, <1>9, <1>10

LEMMA CallsStep == ASSUME Typed, CallsOK, LoopStep PROVE CallsOK'
<1>1. CASE \/ Intake \/ PlanWithoutModel \/ AskForPlan \/ PlanAnswers \/ PlanFails \/ Router
           \/ Abort \/ Validator \/ Gate
  <2>1. UNCHANGED <<toolUses, calls, worker>>
    BY <1>1 DEF Intake, PlanWithoutModel, AskForPlan, PlanAnswers, PlanFails, Router, Abort,
                Validator, Gate, workerVars
  <2>2. QED BY <2>1, CallsStill
<1>2. CASE Supervisor
  <2>1. UNCHANGED <<toolUses, calls>>
        /\ worker' = [t \in Task |-> IF t \in Dispatched THEN Goto(Idle, "begin") ELSE Idle]
    BY <1>2 DEF Supervisor
  <2>2. Idle.pc = "idle" /\ Goto(Idle, "begin").pc = "begin"
    BY DEF Idle, Goto
  <2>3. \A t \in Task : worker'[t].pc \in {"idle", "begin"}
    BY <2>1, <2>2
  <2>4. QED BY <2>1, <2>3, CallsStill DEF Owing
<1>3. CASE Join
  <2>1. UNCHANGED <<toolUses, calls>> /\ worker' = [t \in Task |-> Idle]
    BY <1>3 DEF Join
  <2>2. \A t \in Task : worker'[t].pc = "idle"
    BY <2>1 DEF Idle
  <2>3. QED BY <2>1, <2>2, CallsStill DEF Owing
<1>4. ASSUME NEW t \in Task, Work(t) PROVE CallsOK'
  BY <1>4, WorkerMoves, CallsWorker DEF Work, Typed
<1>5. QED BY <1>1, <1>2, <1>3, <1>4 DEF LoopStep

LEMMA CallsBound == Typed /\ CallsOK => CallsWithinLimit
<1> SUFFICES ASSUME Typed, CallsOK, NEW s \in Sub PROVE calls[s] <= ToolLimit
  BY DEF CallsWithinLimit
<1>1. calls[s] \in Nat /\ toolUses[s] \in 0 .. ToolLimit /\ ToolLimit \in Nat
  BY WorkersAssumption DEF Typed, WorkersTyped
<1>2. \A pc : Owed(pc) \in {0, 1}
  BY DEF Owed
<1>3. calls[s] + Owed(worker[2 * s - 1].pc) + Owed(worker[2 * s].pc) <= toolUses[s]
  BY DEF CallsOK
<1>4. QED BY <1>1, <1>2, <1>3

-----------------------------------------------------------------------------
(* What workers and the state say of a source, the table has a text of; and the
   state has a text of the source of each of its facts. *)
SourcesOK ==
  /\ \A t \in Task : \A r \in Ref : worker[t].sources[r] # NoText => table[r] # NoText
  /\ \A r \in Ref : provenance[r] # NoText => table[r] # NoText
  /\ \A f \in ToSet(facts) : provenance[RefOf(f)] # NoText
  /\ \A i, j \in DOMAIN facts : facts[i].id = facts[j].id => i = j

LEMMA FactParts ==
  ASSUME NEW list \in Seq(Fact), NEW f \in ToSet(list)
  PROVE  f \in Fact /\ RefOf(f) \in Ref /\ SubOf(f) \in Sub
<1>1. f \in Fact
  BY DEF ToSet
<1>2. QED BY <1>1 DEF Fact, FactId, RefOf, SubOf

LEMMA SourcesInit == Init => SourcesOK
<1> SUFFICES ASSUME Init PROVE SourcesOK
  OBVIOUS
<1>1. \A t \in Task : worker[t].sources = NoProvenance
  BY DEF Init, WorkersInit, Idle
<1>2. \A r \in Ref : NoProvenance[r] = NoText
  BY DEF NoProvenance
<1>3. provenance = NoProvenance /\ facts = <<>> /\ DOMAIN <<>> = {}
  BY DEF Init
<1>4. QED BY <1>1, <1>2, <1>3 DEF SourcesOK, ToSet

LEMMA SourcesStill ==
  ASSUME SourcesOK, UNCHANGED <<table, provenance, facts>>,
         \A t \in Task : worker'[t].sources \in {worker[t].sources, NoProvenance}
  PROVE  SourcesOK'
<1>1. \A r \in Ref : NoProvenance[r] = NoText
  BY DEF NoProvenance
<1>2. QED BY <1>1 DEF SourcesOK

LEMMA SourcesWorker ==
  ASSUME Typed, SourcesOK, NEW t \in Task, NEW w2, Moved(t, w2), UNCHANGED <<provenance, facts>>
  PROVE  SourcesOK'
<1>1. /\ worker' = [worker EXCEPT ![t] = w2] /\ worker \in [Task -> WorkerState]
      /\ \A r \in Ref : table[r] # NoText => table'[r] # NoText
      /\ \A r \in Ref : w2.sources[r] # NoText =>
           worker[t].sources[r] # NoText \/ table'[r] # NoText
  BY DEF Moved, Records, Typed, WorkersOK
<1>2. QED BY <1>1 DEF SourcesOK

LEMMA SourcesStep == ASSUME Typed, SourcesOK, LoopStep PROVE SourcesOK'
<1>1. CASE \/ Intake \/ PlanWithoutModel \/ AskForPlan \/ PlanAnswers \/ PlanFails \/ Router
           \/ Abort \/ Gate
  <2>1. UNCHANGED <<table, provenance, facts, worker>>
    BY <1>1 DEF Intake, PlanWithoutModel, AskForPlan, PlanAnswers, PlanFails, PlanMade, Router,
                Abort, Gate, workerVars, graphState
  <2>2. QED BY <2>1, SourcesStill
<1>2. CASE Supervisor
  <2>1. UNCHANGED <<table, provenance, facts>>
        /\ worker' = [t \in Task |-> IF t \in Dispatched THEN Goto(Idle, "begin") ELSE Idle]
    BY <1>2 DEF Supervisor
  <2>2. Idle.sources = NoProvenance /\ Goto(Idle, "begin").sources = NoProvenance
    BY DEF Idle, Goto
  <2>3. \A t \in Task : worker'[t].sources = NoProvenance
    BY <2>1, <2>2
  <2>4. QED BY <2>1, <2>3, SourcesStill
<1>3. ASSUME NEW t \in Task, Work(t) PROVE SourcesOK'
  BY <1>3, WorkerMoves, SourcesWorker DEF Work, Typed, graphState
<1>4. CASE Join
  <2>1. /\ UNCHANGED table /\ provenance' = GatheredProvenance
        /\ facts' = MergeById(GatheredFacts, UniqueQuotes(GatheredFacts))
        /\ worker' = [t \in Task |-> Idle]
    BY <1>4 DEF Join
  <2>2. \A t \in Task : worker'[t].sources = NoProvenance
    BY <2>1 DEF Idle
  <2>3. \A r \in Ref : NoProvenance[r] = NoText
    BY DEF NoProvenance
  <2>4. worker \in [Task -> WorkerState] /\ facts \in Seq(Fact)
        /\ provenance \in [Ref -> Text \cup {NoText}]
    BY DEF Typed, WorkersOK, GraphTyped
  <2>5. \A r \in Ref :
          \/ /\ \A t \in Task : worker[t].sources[r] = NoText
             /\ provenance'[r] = provenance[r]
          \/ \E t \in Task : /\ worker[t].sources[r] # NoText
                             /\ provenance'[r] = worker[t].sources[r]
    BY <2>1, <2>4, JoinedProvenance
  <2>6. /\ facts' \in Seq(Fact)
        /\ \A i, j \in DOMAIN facts' : facts'[i].id = facts'[j].id => i = j
        /\ \E found \in Seq(Fact) :
             /\ \A f \in ToSet(found) : \E t \in Task : f \in ToSet(worker[t].facts)
             /\ \A f \in ToSet(facts') :
                  f \in ToSet(found) \/ (f \in ToSet(facts) /\ f.id \notin Ids(found))
    BY <2>1, <2>4, JoinedFacts
  <2>7. ASSUME NEW f \in ToSet(facts') PROVE provenance'[RefOf(f)] # NoText
    <3>1. RefOf(f) \in Ref
      BY <2>6, FactParts
    <3>2. CASE f \in ToSet(facts)
      <4>1. provenance[RefOf(f)] # NoText
        BY <3>2 DEF SourcesOK
      <4>2. QED BY <2>5, <3>1, <4>1
    <3>3. CASE \E t \in Task : f \in ToSet(worker[t].facts)
      <4>1. PICK t \in Task : f \in ToSet(worker[t].facts)
        BY <3>3
      <4>2. worker[t].sources[RefOf(f)] # NoText
        BY <4>1 DEF Typed, WorkersOK, WorkerOK, CitesRecorded
      <4>3. QED BY <2>5, <3>1, <4>2
    <3>4. QED BY <2>6, <3>2, <3>3
  <2>8. \A r \in Ref : provenance'[r] # NoText => table'[r] # NoText
    BY <2>1, <2>5 DEF SourcesOK
  <2>9. QED BY <2>2, <2>3, <2>6, <2>7, <2>8 DEF SourcesOK
<1>5. CASE Validator
  <2>1. /\ UNCHANGED <<table, worker, provenance>> /\ facts \in Seq(Fact)
        /\ facts' = Validate(facts, KnownTexts)
    BY <1>5 DEF Validator, workerVars, Typed, GraphTyped
  <2>2. /\ facts' \in Seq(Fact) /\ DOMAIN facts' = DOMAIN facts
        /\ \A i \in DOMAIN facts : facts'[i].id = facts[i].id
    BY <2>1, ValidateKeeps
  <2>3. \A f \in ToSet(facts') : \E g \in ToSet(facts) : f.id = g.id
    BY <2>2 DEF ToSet
  <2>4. \A f \in ToSet(facts') : provenance[RefOf(f)] # NoText
    BY <2>3 DEF SourcesOK, RefOf
  <2>5. \A i, j \in DOMAIN facts' : facts'[i].id = facts'[j].id => i = j
    BY <2>2 DEF SourcesOK
  <2>6. QED BY <2>1, <2>4, <2>5 DEF SourcesOK
<1>6. QED BY <1>1, <1>2, <1>3, <1>4, <1>5 DEF LoopStep

LEMMA SourcesHold == Typed /\ SourcesOK => FactsHaveSources
<1> SUFFICES ASSUME Typed, SourcesOK PROVE FactsHaveSources
  OBVIOUS
<1>1. ASSUME NEW t \in Task, NEW f \in ToSet(worker[t].facts)
      PROVE  worker[t].sources[RefOf(f)] # NoText /\ table[RefOf(f)] # NoText
  <2>1. worker[t].facts \in Seq(Fact)
    BY DEF Typed, WorkersOK, WorkerState
  <2>2. RefOf(f) \in Ref
    BY <2>1, FactParts
  <2>3. worker[t].sources[RefOf(f)] # NoText
    BY DEF Typed, WorkersOK, WorkerOK, CitesRecorded
  <2>4. QED BY <2>2, <2>3 DEF SourcesOK
<1>2. ASSUME NEW f \in ToSet(facts)
      PROVE  provenance[RefOf(f)] # NoText /\ table[RefOf(f)] # NoText
  <2>1. facts \in Seq(Fact)
    BY DEF Typed, GraphTyped
  <2>2. RefOf(f) \in Ref
    BY <2>1, FactParts
  <2>3. QED BY <2>2 DEF SourcesOK
<1>3. QED BY <1>1, <1>2 DEF FactsHaveSources, SourcesOK

-----------------------------------------------------------------------------
(* Where the steps of the loop lead. *)
LEMMA NodeSteps ==
  ASSUME LoopStep
  PROVE  \/ Validator /\ node = "validator" /\ node' = "gate"
         \/ Gate /\ node = "gate" /\ node' \in {"supervisor", "writer"}
         \/ UNCHANGED <<covered, limitations, complete>> /\ node' \notin {"gate", "writer"}
<1>1. CASE Validator
  BY <1>1 DEF Validator
<1>2. CASE Gate
  BY <1>2 DEF Gate
<1>3. CASE \/ Intake \/ PlanWithoutModel \/ AskForPlan \/ PlanAnswers \/ PlanFails \/ Router
           \/ Supervisor \/ Join \/ Abort \/ (\E t \in Task : Work(t))
  BY <1>3 DEF Intake, PlanWithoutModel, AskForPlan, PlanAnswers, PlanFails, PlanMade, Router,
              Supervisor, Join, Abort, Work, graphState
<1>4. QED BY <1>1, <1>2, <1>3 DEF LoopStep

(* The validator accepts what the state's own provenance holds: whatever cites a
   source of which the state has a text is judged by that text. *)
LEMMA GroundedStep ==
  ASSUME Typed, SourcesOK, SourcesOK', AcceptedGrounded, LoopStep PROVE AcceptedGrounded'
<1>1. CASE Validator
  <2>1. /\ facts \in Seq(Fact) /\ facts' = Validate(facts, KnownTexts)
        /\ provenance' = provenance
    BY <1>1 DEF Validator, Typed, GraphTyped
  <2>2. facts' \in Seq(Fact)
    BY <2>1, ValidateKeeps
  <2>3. \A i \in DOMAIN facts' : facts'[i].verdict = "accepted" =>
          /\ KnownTexts[RefOf(facts'[i])] = QuoteOf(facts'[i])
          /\ Overlaps(facts'[i].claim, SubOf(facts'[i]))
          /\ \A j \in DOMAIN facts' :
               facts'[j].verdict = "accepted" /\ facts'[j].claim = facts'[i].claim => j = i
    BY <2>1, ValidateGrounds
  <2>4. ASSUME NEW i \in DOMAIN facts'
        PROVE  KnownTexts[RefOf(facts'[i])] = provenance[RefOf(facts'[i])]
    <3>1. facts'[i] \in ToSet(facts')
      BY DEF ToSet
    <3>2. RefOf(facts'[i]) \in Ref
      BY <2>2, <3>1, FactParts
    <3>3. provenance[RefOf(facts'[i])] # NoText
      BY <2>1, <3>1 DEF SourcesOK
    <3>4. QED BY <3>2, <3>3 DEF KnownTexts, MergeProvenance
  <2>5. QED BY <2>1, <2>3, <2>4 DEF AcceptedGrounded, Accepted
<1>2. CASE Gate
  BY <1>2 DEF Gate, AcceptedGrounded, Accepted
<1>3. CASE node' \notin {"gate", "writer"}
  BY <1>3 DEF AcceptedGrounded
<1>4. QED BY <1>1, <1>2, <1>3, NodeSteps

-----------------------------------------------------------------------------
(* Rounds count from 1 while there are results, and nothing is disclosed before
   the last judgement. *)
Researching ==
  {"intake", "planner", "planning", "router", "supervisor", "workers", "validator", "gate",
   "failed"}

RoundsOK ==
  /\ node \in {"intake", "planner", "planning", "router"} => round = 0
  /\ node \in {"workers", "validator", "gate"} => round >= 1
  /\ node \in Researching => limitations = {}

LEMMA RoundsInit == Init => RoundsOK
BY DEF Init, RoundsOK

LEMMA RoundsStep == ASSUME Typed, RoundsOK, LoopStep PROVE RoundsOK'
<1>1. CASE Intake \/ AskForPlan
  BY <1>1 DEF Intake, AskForPlan, graphState, RoundsOK, Researching
<1>2. CASE PlanWithoutModel \/ PlanAnswers \/ PlanFails
  BY <1>2 DEF PlanWithoutModel, PlanAnswers, PlanFails, PlanMade, RoundsOK, Researching
<1>3. CASE Router
  BY <1>3 DEF Router, graphState, RoundsOK, Researching
<1>4. CASE Supervisor
  <2>1. round \in Nat
    BY LoopAssumption DEF Typed, GraphTyped
  <2>2. QED BY <1>4, <2>1 DEF Supervisor, RoundsOK, Researching
<1>5. CASE \E t \in Task : Work(t)
  BY <1>5 DEF Work, graphState, RoundsOK, Researching
<1>6. CASE Join \/ Abort \/ Validator
  BY <1>6 DEF Join, Abort, Validator, graphState, RoundsOK, Researching
<1>7. CASE Gate
  <2>1. /\ node' = (IF CanRetry THEN "supervisor" ELSE "writer")
        /\ limitations' = limitations \cup
             (IF CanRetry \/ Uncovered = {} THEN {} ELSE Limitations)
    BY <1>7 DEF Gate
  <2>2. limitations = {}
    BY <1>7 DEF Gate, RoundsOK, Researching
  <2>3. CASE CanRetry
    BY <2>1, <2>2, <2>3 DEF RoundsOK, Researching
  <2>4. CASE ~CanRetry
    BY <2>1, <2>4 DEF RoundsOK, Researching
  <2>5. QED BY <2>3, <2>4
<1>8. QED BY <1>1, <1>2, <1>3, <1>4, <1>5, <1>6, <1>7 DEF LoopStep

(* What the gate's last judgement says is true. *)
LEMMA HandoverStep ==
  ASSUME Typed, RoundsOK, AcceptedGrounded, MoneyOK, LoopStep PROVE HandoverHonest'
<1>1. CASE Gate /\ node' = "writer"
  <2>1. /\ node = "gate" /\ ~CanRetry
        /\ covered' = [s \in Sub |-> s \notin Uncovered] /\ complete' = (Uncovered = {})
        /\ round' = round
        /\ limitations' = limitations \cup (IF Uncovered = {} THEN {} ELSE Limitations)
        /\ UNCHANGED <<workerVars, facts>>
    BY <1>1 DEF Gate, NextRound
  <2>2. limitations = {}
    BY <2>1 DEF RoundsOK, Researching
  <2>3. \A s \in Sub : s \notin Uncovered <=>
          \E i \in DOMAIN facts : Accepted(i) /\ SubOf(facts[i]) = s
    BY <2>1 DEF AcceptedGrounded, Uncovered, IsCovered, Accepted
  <2>4. \A s \in Sub : covered'[s] <=> \E i \in DOMAIN facts' :
          facts'[i].verdict = "accepted" /\ SubOf(facts'[i]) = s
    BY <2>1, <2>3 DEF Accepted
  <2>5. complete' <=> \A s \in Sub : covered'[s]
    BY <2>1 DEF Uncovered
  <2>6. "insufficient_evidence_for_some_subquestions" \in Limitations
    BY DEF Limitations, Limitation
  <2>7. complete' <=> limitations' = {}
    BY <2>1, <2>2, <2>6
  <2>8. limitations' \subseteq Limitations
    BY <2>1, <2>2
  <2>9. "coverage_limited_by_rounds" \in limitations' => round' = MaxRounds
    <3>1. "coverage_limited_by_rounds" \in Limitations => round >= MaxRounds
      BY DEF Limitations
    <3>2. QED BY <2>1, <2>8, <3>1, LoopAssumption DEF Typed, GraphTyped
  <2>10. "coverage_limited_by_budget" \in limitations' =>
           spent'[ThisRun] + reserved'[ThisRun] >= Budget
    <3>1. "coverage_limited_by_budget" \in Limitations => Ledger!Remaining(ThisRun) <= 0
      BY DEF Limitations
    <3>2. spent[ThisRun] \in Nat /\ reserved[ThisRun] \in Nat
      BY LedgerPlain DEF MoneyOK, Plain
    <3>3. Ledger!Remaining(ThisRun) <= 0 => spent[ThisRun] + reserved[ThisRun] >= Budget
      BY <3>2, WorkersAssumption DEF Ledger!Remaining, Ledger!Larger
    <3>4. QED BY <2>1, <2>8, <3>1, <3>3 DEF workerVars, ledger
  <2>11. "coverage_limited_by_route" \in limitations' =>
           \E s \in Sub : ~covered'[s] /\ route'[s] = "none"
    <3>1. "coverage_limited_by_route" \in Limitations =>
            \E s \in Uncovered : route[s] = "none"
      BY DEF Limitations
    <3>2. QED BY <2>1, <2>8, <3>1 DEF workerVars, Uncovered
  <2>12. QED
    BY <2>4, <2>5, <2>7, <2>9, <2>10, <2>11 DEF HandoverHonest, Accepted
<1>2. CASE node' # "writer"
  BY <1>2 DEF HandoverHonest
<1>3. QED BY <1>1, <1>2, NodeSteps

-----------------------------------------------------------------------------
(* A covered sub-question has no worker: only uncovered ones are retried. *)
FocusOK ==
  /\ \A s \in retry : ~covered[s]
  /\ \A t \in Task : covered[TaskSub(t)] => worker[t].pc = "idle"
  /\ \A t \in Task : worker[t].pc = "idle" => worker[t].facts = <<>>

LEMMA FocusInit == Init => FocusOK
<1> SUFFICES ASSUME Init PROVE FocusOK
  OBVIOUS
<1>1. \A t \in Task : worker[t].pc = "idle" /\ worker[t].facts = <<>>
  BY DEF Init, WorkersInit, Idle
<1>2. QED BY <1>1 DEF Init, FocusOK

LEMMA FocusStep == ASSUME Typed, HoldsOK, FocusOK, LoopStep PROVE FocusOK'
<1>1. CASE \/ Intake \/ PlanWithoutModel \/ AskForPlan \/ PlanAnswers \/ PlanFails \/ Router
           \/ Abort \/ Validator
  <2>1. UNCHANGED <<worker, retry, covered>>
    BY <1>1 DEF Intake, PlanWithoutModel, AskForPlan, PlanAnswers, PlanFails, PlanMade, Router,
                Abort, Validator, workerVars, graphState
  <2>2. QED BY <2>1 DEF FocusOK
<1>2. CASE Supervisor
  <2>1. /\ UNCHANGED <<retry, covered>>
        /\ worker' = [t \in Task |-> IF t \in Dispatched THEN Goto(Idle, "begin") ELSE Idle]
    BY <1>2 DEF Supervisor
  <2>2. /\ Idle.pc = "idle" /\ Idle.facts = <<>> /\ Goto(Idle, "begin").facts = <<>>
    BY DEF Idle, Goto
  <2>3. \A t \in Dispatched : t \in Task /\ ~covered[TaskSub(t)]
    BY DEF Dispatched, FocusOK
  <2>4. QED BY <2>1, <2>2, <2>3 DEF FocusOK
<1>3. ASSUME NEW t \in Task, Work(t) PROVE FocusOK'
  <2>1. PICK w2 : Moved(t, w2)
    BY <1>3, WorkerMoves DEF Work, Typed
  <2>2. /\ worker' = [worker EXCEPT ![t] = w2] /\ worker \in [Task -> WorkerState]
        /\ worker[t].pc # "idle" /\ w2.pc # "idle"
    BY <2>1 DEF Moved, Typed, WorkersOK
  <2>3. QED BY <1>3, <2>2 DEF Work, graphState, FocusOK
<1>4. CASE Join
  <2>1. UNCHANGED <<retry, covered>> /\ worker' = [t \in Task |-> Idle]
    BY <1>4 DEF Join
  <2>2. QED BY <2>1 DEF FocusOK, Idle
<1>5. CASE Gate
  <2>1. /\ covered' = [s \in Sub |-> s \notin Uncovered]
        /\ retry' = (IF CanRetry THEN Uncovered ELSE {}) /\ UNCHANGED worker
        /\ node = "gate"
    BY <1>5 DEF Gate, workerVars
  <2>2. \A s \in retry' : s \in Sub /\ ~covered'[s]
    BY <2>1 DEF Uncovered
  <2>3. \A t \in Task : worker'[t].pc = "idle"
    BY <2>1 DEF HoldsOK
  <2>4. QED BY <2>1, <2>2, <2>3 DEF FocusOK
<1>6. QED BY <1>1, <1>2, <1>3, <1>4, <1>5 DEF LoopStep

LEMMA CoveredStep ==
  ASSUME Typed, SourcesOK, FocusOK, LoopStep, NEW s \in Sub, covered[s]
  PROVE  FactsAbout(s, facts') = FactsAbout(s, facts)
<1>1. CASE Join
  <2>1. /\ worker \in [Task -> WorkerState] /\ facts \in Seq(Fact)
        /\ facts' = MergeById(GatheredFacts, UniqueQuotes(GatheredFacts))
    BY <1>1 DEF Join, Typed, WorkersOK, GraphTyped
  <2>2. /\ facts' \in Seq(Fact) /\ Ids(facts) \subseteq Ids(facts')
    BY <2>1, JoinedFacts
  <2>3. PICK found \in Seq(Fact) :
          /\ \A f \in ToSet(found) : \E t \in Task : f \in ToSet(worker[t].facts)
          /\ \A f \in ToSet(facts') :
               f \in ToSet(found) \/ (f \in ToSet(facts) /\ f.id \notin Ids(found))
    BY <2>1, JoinedFacts
  <2>4. ASSUME NEW f \in ToSet(found) PROVE SubOf(f) # s
    <3>1. PICK t \in Task : f \in ToSet(worker[t].facts)
      BY <2>3
    <3>2. SubOf(f) = TaskSub(t)
      BY <3>1 DEF Typed, WorkersOK, WorkerOK, CitesRecorded
    <3>3. worker[t].facts # <<>>
      BY <3>1 DEF ToSet
    <3>4. QED BY <3>2, <3>3 DEF FocusOK
  <2>5. \A f \in ToSet(facts') : SubOf(f) = s => f \in ToSet(facts)
    BY <2>3, <2>4
  <2>6. ASSUME NEW f \in ToSet(facts), SubOf(f) = s PROVE f \in ToSet(facts')
    <3>1. f.id \in Ids(facts)
      BY DEF ToSet, Ids
    <3>2. PICK g \in ToSet(facts') : g.id = f.id
      <4>1. f.id \in Ids(facts')
        BY <2>2, <3>1
      <4>2. PICK i \in DOMAIN facts' : facts'[i].id = f.id
        BY <4>1 DEF Ids
      <4>3. facts'[i] \in ToSet(facts')
        BY DEF ToSet
      <4>4. QED BY <4>2, <4>3
    <3>3. SubOf(g) = s
      BY <2>6, <3>2 DEF SubOf
    <3>4. g \in ToSet(facts)
      BY <2>5, <3>3
    <3>5. \A x, y \in ToSet(facts) : x.id = y.id => x = y
      BY DEF SourcesOK, ToSet
    <3>6. g = f
      BY <3>2, <3>4, <3>5
    <3>7. QED BY <3>6
  <2>7. {g \in ToSet(facts') : SubOf(g) = s} = {g \in ToSet(facts) : SubOf(g) = s}
    BY <2>5, <2>6
  <2>8. QED BY <2>7 DEF FactsAbout
<1>2. CASE Validator
  <2>1. facts \in Seq(Fact) /\ facts' = Validate(facts, KnownTexts)
    BY <1>2 DEF Validator, Typed, GraphTyped
  <2>2. /\ DOMAIN facts' = DOMAIN facts
        /\ \A i \in DOMAIN facts : facts'[i].id = facts[i].id /\ facts'[i].claim = facts[i].claim
    BY <2>1, ValidateKeeps
  <2>3. \A f \in ToSet(facts') : \E g \in ToSet(facts) : f.id = g.id /\ f.claim = g.claim
    BY <2>2 DEF ToSet
  <2>4. \A g \in ToSet(facts) : \E f \in ToSet(facts') : f.id = g.id /\ f.claim = g.claim
    BY <2>2 DEF ToSet
  <2>5. QED BY <2>3, <2>4 DEF FactsAbout, SubOf
<1>3. CASE ~Join /\ ~Validator
  <2>1. UNCHANGED facts
    BY <1>3 DEF LoopStep, Intake, PlanWithoutModel, AskForPlan, PlanAnswers, PlanFails, PlanMade,
                Router, Supervisor, Work, Abort, Gate, graphState
  <2>2. QED BY <2>1
<1>4. QED BY <1>1, <1>2, <1>3

-----------------------------------------------------------------------------
(* The loop as the writer sees it: a step of LoopStep is a step of the
   contract or leaves what it speaks of unchanged. *)
Phase == IF node = "writer" THEN "writing" ELSE IF node = "failed" THEN "failed"
         ELSE "researching"
Judged == IF node = "writer" \/ round = 0 THEN round ELSE round - 1
Done == {s \in Sub : covered[s]}
Disclosed == limitations # {}

LEMMA ContractPlain ==
  /\ Contract!Init <=> /\ Phase = "researching" /\ Judged = 0 /\ Done = {}
                       /\ Disclosed = FALSE
  /\ Contract!HandOver <=>
       /\ Phase = "researching" /\ Judged < MaxRounds /\ Judged' = Judged + 1
       /\ Done' \in SUBSET Sub /\ Disclosed' = (Done' # Sub) /\ Phase' = "writing"
  /\ Contract!Retry <=>
       /\ Phase = "researching" /\ Judged + 1 < MaxRounds /\ Judged' = Judged + 1
       /\ Done' \in SUBSET Sub /\ Done' # Sub
       /\ Phase' = Phase /\ Disclosed' = Disclosed
  /\ Contract!Fail <=>
       /\ Phase = "researching" /\ Phase' = "failed"
       /\ Judged' = Judged /\ Done' = Done /\ Disclosed' = Disclosed
  /\ UNCHANGED Contract!vars <=>
       Phase' = Phase /\ Judged' = Judged /\ Done' = Done /\ Disclosed' = Disclosed
<1>1. Phase = CASE node = "writer" -> "writing"
                [] node = "failed" -> "failed"
                [] OTHER -> "researching"
  <2>1. "writer" # "failed"
    OBVIOUS
  <2>2. CASE node = "writer"
    BY <2>2 DEF Phase
  <2>3. CASE node = "failed"
    BY <2>3 DEF Phase
  <2>4. CASE node # "writer" /\ node # "failed"
    BY <2>4 DEF Phase
  <2>5. QED BY <2>2, <2>3, <2>4
<1>2. Phase' = CASE node' = "writer" -> "writing"
                 [] node' = "failed" -> "failed"
                 [] OTHER -> "researching"
  <2>1. "writer" # "failed"
    OBVIOUS
  <2>2. CASE node' = "writer"
    BY <2>2 DEF Phase
  <2>3. CASE node' = "failed"
    BY <2>3 DEF Phase
  <2>4. CASE node' # "writer" /\ node' # "failed"
    BY <2>4 DEF Phase
  <2>5. QED BY <2>2, <2>3, <2>4
<1>3. QED
  BY <1>1, <1>2, Zenon
  DEF Judged, Done, Disclosed, Contract!Init, Contract!HandOver, Contract!Retry,
      Contract!Fail, Contract!vars

LEMMA ContractInit == Init => Contract!Init
<1> SUFFICES ASSUME Init PROVE Contract!Init
  OBVIOUS
<1>1. node = "intake" /\ round = 0 /\ limitations = {} /\ \A s \in Sub : covered[s] = FALSE
  BY DEF Init
<1>2. Phase = "researching" /\ Judged = 0 /\ Done = {} /\ Disclosed = FALSE
  BY <1>1 DEF Phase, Judged, Done, Disclosed
<1>3. QED BY <1>2, ContractPlain

LEMMA ContractStep ==
  ASSUME Typed, RoundsOK, LoopStep PROVE [Contract!Next]_(Contract!vars)
<1>1. CASE Gate
  <2>1. /\ node = "gate" /\ round \in 1 .. MaxRounds /\ MaxRounds \in Nat /\ limitations = {}
        /\ covered' = [s \in Sub |-> s \notin Uncovered]
        /\ node' = (IF CanRetry THEN "supervisor" ELSE "writer")
        /\ round' = NextRound
        /\ limitations' = limitations \cup
             (IF CanRetry \/ Uncovered = {} THEN {} ELSE Limitations)
    BY <1>1, LoopAssumption DEF Gate, Typed, GraphTyped, RoundsOK, Researching
  <2>2. Phase = "researching" /\ Judged = round - 1 /\ Disclosed = FALSE
    BY <2>1 DEF Phase, Judged, Disclosed
  <2>3. Done' \in SUBSET Sub /\ (Done' = Sub <=> Uncovered = {})
    BY <2>1 DEF Done, Uncovered
  <2>4. CASE CanRetry
    <3>1. /\ node' = "supervisor" /\ round' = round + 1 /\ limitations' = limitations
          /\ round < MaxRounds /\ Uncovered # {}
      BY <2>1, <2>4 DEF NextRound, CanRetry
    <3>2. /\ Phase' = Phase /\ Judged' = Judged + 1 /\ Disclosed' = Disclosed
          /\ Judged + 1 < MaxRounds
      BY <2>1, <2>2, <3>1 DEF Phase, Judged, Disclosed
    <3>3. Contract!Retry
      BY <2>2, <2>3, <3>1, <3>2, ContractPlain
    <3>4. QED BY <3>3 DEF Contract!Next
  <2>5. CASE ~CanRetry
    <3>1. node' = "writer" /\ round' = round
      BY <2>1, <2>5 DEF NextRound
    <3>2. "insufficient_evidence_for_some_subquestions" \in Limitations
      BY DEF Limitations, Limitation
    <3>3. Disclosed' = (Done' # Sub)
      BY <2>1, <2>3, <2>5, <3>2 DEF Disclosed
    <3>4. Phase' = "writing" /\ Judged' = Judged + 1 /\ Judged < MaxRounds
      BY <2>1, <2>2, <3>1 DEF Phase, Judged
    <3>5. Contract!HandOver
      BY <2>2, <2>3, <3>3, <3>4, ContractPlain
    <3>6. QED BY <3>5 DEF Contract!Next
  <2>6. QED BY <2>4, <2>5
<1>2. CASE Abort
  <2>1. node = "workers" /\ node' = "failed" /\ UNCHANGED <<round, covered, limitations>>
    BY <1>2 DEF Abort, graphState
  <2>2. /\ Phase = "researching" /\ Phase' = "failed"
        /\ Judged' = Judged /\ Done' = Done /\ Disclosed' = Disclosed
    BY <2>1 DEF Phase, Judged, Done, Disclosed
  <2>3. Contract!Fail
    BY <2>2, ContractPlain
  <2>4. QED BY <2>3 DEF Contract!Next
<1>3. CASE ~Gate /\ ~Abort
  <2>1. /\ node \notin {"writer", "failed"} /\ node' \notin {"writer", "failed"}
        /\ UNCHANGED <<covered, limitations>>
        /\ round' = round \/ (round = 0 /\ round' = 1)
    BY <1>3 DEF LoopStep, Intake, PlanWithoutModel, AskForPlan, PlanAnswers, PlanFails, PlanMade,
                Router, Supervisor, Work, Join, Validator, graphState
  <2>2. Phase' = Phase /\ Done' = Done /\ Disclosed' = Disclosed
    BY <2>1 DEF Phase, Done, Disclosed
  <2>3. Judged' = Judged
    BY <2>1 DEF Judged
  <2>4. QED BY <2>2, <2>3, ContractPlain
<1>4. QED BY <1>1, <1>2, <1>3

-----------------------------------------------------------------------------
(* Without a reservation no unit of money is held. *)
LEMMA NothingHeld == Typed /\ MoneyOK => NothingLeftReserved
<1> SUFFICES ASSUME Typed, MoneyOK, node \notin {"planning", "workers", "writing", "failed"}
             PROVE  reserved[ThisRun] = 0 /\ \A c \in Caller : reservations[c] = NoReservation
  BY DEF NothingLeftReserved
<1>1. \A c \in Caller : reservations[c] = NoReservation
  BY DEF MoneyOK, HoldsOK, Holding, Caller
<1>2. \A c \in DOMAIN HeldNow : {c} \X (1 .. HeldNow[c]) = {}
  BY <1>1 DEF HeldNow
<1>3. Units(HeldNow) = {}
  BY <1>2 DEF Units
<1>4. reserved[ThisRun] = 0
  BY <1>3, LedgerPlain, FS_EmptySet DEF MoneyOK, Plain
<1>5. QED BY <1>1, <1>4

(* The invariant of the loop. *)
LoopInv ==
  /\ Typed /\ MoneyOK /\ CallsOK /\ SourcesOK /\ FocusOK /\ RoundsOK
  /\ AcceptedGrounded /\ HandoverHonest

LEMMA LoopInvInit == Init => LoopInv
<1> SUFFICES ASSUME Init PROVE LoopInv
  OBVIOUS
<1>1. AcceptedGrounded /\ HandoverHonest
  BY DEF Init, AcceptedGrounded, HandoverHonest
<1>2. QED
  BY <1>1, TypedInit, MoneyInit, CallsInit, SourcesInit, FocusInit, RoundsInit DEF LoopInv

LEMMA LoopInvStep == ASSUME LoopInv, LoopStep PROVE LoopInv'
<1>1. Typed' /\ MoneyOK' /\ CallsOK' /\ SourcesOK' /\ FocusOK' /\ RoundsOK'
  BY TypedStep, MoneyStep, CallsStep, SourcesStep, FocusStep, RoundsStep DEF LoopInv, MoneyOK
<1>2. AcceptedGrounded' /\ HandoverHonest'
  BY <1>1, GroundedStep, HandoverStep DEF LoopInv
<1>3. QED BY <1>1, <1>2 DEF LoopInv

LEMMA LoopInvStutters == ASSUME LoopInv, UNCHANGED vars PROVE LoopInv'
<1>1. /\ UNCHANGED <<ledger, billed, toolUses, calls, table, route, worker>>
      /\ UNCHANGED <<node, allowed, hint, facts, provenance, covered, retry, round>>
      /\ UNCHANGED <<shownRound, limitations, complete>>
  BY DEF vars, workerVars, graphState, ledger
<1>2. Typed'
  BY <1>1 DEF LoopInv, Typed, WorkersTyped, WorkersOK, GraphTyped
<1>3. MoneyOK'
  <2>1. Uses(GraphNode) /\ GraphNode \in Caller
    BY <1>1, CallerFacts DEF Uses, ledger, money
  <2>2. LedgerOK'
    BY <2>1, UsesKeeps DEF LoopInv, MoneyOK
  <2>3. HoldsOK'
    BY <1>1 DEF LoopInv, MoneyOK, HoldsOK, ledger
  <2>4. QED BY <2>2, <2>3 DEF MoneyOK
<1>4. CallsOK' /\ SourcesOK' /\ FocusOK' /\ RoundsOK'
  BY <1>1 DEF LoopInv, CallsOK, SourcesOK, FocusOK, RoundsOK
<1>5. AcceptedGrounded'
  BY <1>1 DEF LoopInv, AcceptedGrounded, Accepted
<1>6. HandoverHonest'
  BY <1>1 DEF LoopInv, HandoverHonest, Accepted, ledger
<1>7. QED BY <1>2, <1>3, <1>4, <1>5, <1>6 DEF LoopInv

(* What the invariant gives the runs. *)
LEMMA LoopInvTypes == LoopInv => TypeOK
<1> SUFFICES ASSUME LoopInv PROVE TypeOK
  OBVIOUS
<1>1. WorkersTypeOK
  BY DEF LoopInv, Typed, WorkersTyped, WorkersOK, WorkerOK, ReadsOwn, WorkerState, WorkersTypeOK
<1>2. Ledger!TypeOK
  BY DEF LoopInv, MoneyOK, LedgerOK
<1>3. QED BY <1>1, <1>2 DEF LoopInv, Typed, GraphTyped, TypeOK

LEMMA NextSteps == Next => LoopStep \/ UNCHANGED vars
BY DEF Next, Ended

(* The invariant holds in every state of the loop, for any constants: it is what
   the following theorems rest on. *)
THEOREM LoopInvariant == Spec => []LoopInv
<1>1. Init => LoopInv
  BY LoopInvInit
<1>2. LoopInv /\ [Next]_vars => LoopInv'
  BY LoopInvStep, LoopInvStutters, NextSteps
<1>3. QED BY <1>1, <1>2, PTL DEF Spec

(* Every variable of the loop, the workers and the ledger has its type. *)
THEOREM LoopTypeCorrect == Spec => []TypeOK
BY LoopInvariant, LoopInvTypes, PTL

(* No sub-question makes more external calls than its share of the tool limit
   allows, however its two workers' counting and calling interleave. *)
THEOREM LoopCallsBounded == Spec => []CallsWithinLimit
<1>1. LoopInv => CallsWithinLimit
  BY CallsBound DEF LoopInv
<1>2. QED BY <1>1, LoopInvariant, PTL

(* No fact cites a source the run has not recorded, in whatever order workers
   find, record and return it, and no fact is in the state twice. *)
THEOREM LoopFactsSourced == Spec => []FactsHaveSources
<1>1. LoopInv => FactsHaveSources
  BY SourcesHold DEF LoopInv
<1>2. QED BY <1>1, LoopInvariant, PTL

(* What the gate and the writer see as accepted is grounded in the state. *)
THEOREM LoopGrounded == Spec => []AcceptedGrounded
<1>1. LoopInv => AcceptedGrounded
  BY DEF LoopInv
<1>2. QED BY <1>1, LoopInvariant, PTL

(* The flags and limitations the writer is given are true ones. *)
THEOREM LoopHonest == Spec => []HandoverHonest
<1>1. LoopInv => HandoverHonest
  BY DEF LoopInv
<1>2. QED BY <1>1, LoopInvariant, PTL

(* Outside of the calls themselves no money stays set aside. *)
THEOREM LoopReleases == Spec => []NothingLeftReserved
<1>1. LoopInv => NothingLeftReserved
  BY NothingHeld DEF LoopInv
<1>2. QED BY <1>1, LoopInvariant, PTL

(* What workers and the graph do to the ledger are operations of the ledger. *)
THEOREM LoopUsesLedger == Spec => LedgerSpec
<1>1. Init => Ledger!Init
  BY DEF Init, WorkersInit
<1>2. LoopInv /\ [Next]_vars => [Ledger!Next]_(Ledger!ledger)
  <2> SUFFICES ASSUME LoopInv, [Next]_vars PROVE [Ledger!Next]_(Ledger!ledger)
    OBVIOUS
  <2>1. CASE LoopStep
    BY <2>1, MoneyStep DEF LoopInv
  <2>2. CASE UNCHANGED vars
    BY <2>2 DEF vars, workerVars, ledger, Ledger!ledger
  <2>3. QED BY <2>1, <2>2, NextSteps
<1>3. QED BY <1>1, <1>2, LoopInvariant, PTL DEF Spec, LedgerSpec, Ledger!Spec

(* A further round leaves alone what earlier ones found about covered
   sub-questions. *)
THEOREM LoopLeavesCovered == Spec => CoveredLeftAlone
<1>1. LoopInv /\ [Next]_vars =>
        [\A s \in Sub : covered[s] => FactsAbout(s, facts') = FactsAbout(s, facts)]_vars
  BY CoveredStep, NextSteps DEF LoopInv
<1>2. QED BY <1>1, LoopInvariant, PTL DEF Spec, CoveredLeftAlone

(* The research loop implements the contract it has with the writer. *)
THEOREM LoopImplementsContract == Spec => KeepsContract
<1>1. Init => Contract!Init
  BY ContractInit
<1>2. LoopInv /\ [Next]_vars => [Contract!Next]_(Contract!vars)
  <2> SUFFICES ASSUME LoopInv, [Next]_vars PROVE [Contract!Next]_(Contract!vars)
    OBVIOUS
  <2>1. CASE LoopStep
    BY <2>1, ContractStep DEF LoopInv
  <2>2. CASE UNCHANGED vars
    <3>1. Phase' = Phase /\ Judged' = Judged /\ Done' = Done /\ Disclosed' = Disclosed
      BY <2>2 DEF vars, graphState, Phase, Judged, Done, Disclosed
    <3>2. QED BY <3>1, ContractPlain
  <2>3. QED BY <2>1, <2>2, NextSteps
<1>3. QED BY <1>1, <1>2, LoopInvariant, PTL DEF Spec, KeepsContract, Contract!Spec
=============================================================================
