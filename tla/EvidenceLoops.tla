--------------------------- MODULE EvidenceLoops ---------------------------
(***************************************************************************)
(* The loops of graph/state.py, nodes/research_join.py and                 *)
(* nodes/validator.py as the code runs them, element by element, compared  *)
(* with the definitions of Evidence on every pair of short lists.          *)
(***************************************************************************)
EXTENDS Evidence

CONSTANTS Sample,    \* facts the lists are made of
          MaxLeft,   \* bounds on the lengths of the two lists
          MaxRight,
          Known      \* provenance ledgers to validate against

ASSUME LoopsAssumption == Sample \subseteq Fact

VARIABLES left, right  \* two lists of facts: the state's and an update

vars == <<left, right>>

Init == left = <<>> /\ right = <<>>

ExtendLeft ==
  /\ Len(left) < MaxLeft
  /\ \E f \in Sample : left' = Append(left, f)
  /\ UNCHANGED right

ExtendRight ==
  /\ Len(right) < MaxRight
  /\ \E f \in Sample : right' = Append(right, f)
  /\ UNCHANGED left

Next == ExtendLeft \/ ExtendRight

Spec == Init /\ [][Next]_vars

-----------------------------------------------------------------------------
(* merged[key] = {**merged.get(key, {}), **item}: every fact has all fields. *)
Upsert(merged, fact) ==
  IF fact.id \in Ids(merged)
  THEN [i \in DOMAIN merged |-> IF merged[i].id = fact.id THEN fact ELSE merged[i]]
  ELSE Append(merged, fact)

MergeLoop(l, r) == FoldLeft(Upsert, <<>>, l \o r)

(* if key in seen_quotes: continue *)
KeepUnseen(kept, fact) ==
  IF QuoteKeys(<<fact>>)[1] \in ToSet(QuoteKeys(kept)) THEN kept ELSE Append(kept, fact)

UniqueLoop(facts) == FoldLeft(KeepUnseen, <<>>, facts)

(* validate_fact, all five checks, with the claims accepted so far. *)
ValidateFact(fact, known, accepted) ==
  IF known[RefOf(fact)] = NoText THEN "unknown_source"
  ELSE IF known[RefOf(fact)] # QuoteOf(fact) THEN "quote_absent"
  ELSE IF ~Overlaps(fact.claim, SubOf(fact)) THEN "irrelevant"
  ELSE IF fact.claim \in accepted THEN "duplicate"
  ELSE "accepted"

ValidatorLoop(facts, known) ==
  LET judge(done, fact) ==
        LET verdict == ValidateFact(fact, known, done.claims)
        IN [facts |-> Append(done.facts, [fact EXCEPT !.verdict = verdict]),
            claims |-> IF verdict = "accepted" THEN done.claims \cup {fact.claim}
                       ELSE done.claims]
  IN FoldLeft(judge, [facts |-> <<>>, claims |-> {}], facts).facts

-----------------------------------------------------------------------------
(* merge_by_id: first place, last content, however ids repeat in the lists; and
   as LangGraph applies the reducer once per worker: merging the outputs one by
   one or all at once gives the same list, so only the send order counts. *)
MergeMatchesLoop ==
  /\ MergeById(left, right) = MergeLoop(left, right)
  /\ \A n \in 0 .. Len(right) :
       LET first == SubSeq(right, 1, n)
           rest == SubSeq(right, n + 1, Len(right))
       IN MergeById(MergeById(left, first), rest) = MergeById(left, right)

(* The join's filter keeps the first fact of each source and quote; the
   validator's one pass accepts exactly the facts without a flaw that are the
   first of them to make their claim: a rejected fact blocks no other. *)
PassesMatchLoops ==
  LET all == left \o right
  IN /\ UniqueQuotes(all) = UniqueLoop(all)
     /\ \A known \in Known : Validate(all, known) = ValidatorLoop(all, known)
=============================================================================
