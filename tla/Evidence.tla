------------------------------ MODULE Evidence ------------------------------
(***************************************************************************)
(* The data that research turns into a report, and the pure functions over *)
(* it: claims and facts, the reducers of graph/state.py, the duplicate     *)
(* filter of the join, the validator and the coverage test.                *)
(*                                                                         *)
(* A text stands for its normalised content (textutil.normalize_text), and *)
(* its quote for the part a worker cites, so "the quote occurs in the      *)
(* text" is "it was cut from that text": two versions of a page differ in  *)
(* the quoted part.  A fact's id is a hash of the sub-question, the source *)
(* and the quote; here it is that triple (without hash collisions).        *)
(***************************************************************************)
EXTENDS Integers, Sequences, SequencesExt

CONSTANTS SubCount,  \* number of sub-questions, in plan order
          Ref,       \* sources: URLs and document citations
          Text,      \* contents a source can have
          NoText,    \* a source this run has no text of
          Wording,   \* what a model can make of a passage
          Terse,     \* sub-questions whose own words are too few to overlap
          OnTopic    \* <<text or wording, sub>>: shares two content words with sub

Sub == 1 .. SubCount

ASSUME EvidenceAssumption ==
  /\ SubCount \in Nat \ {0}
  /\ NoText \notin Text
  /\ Terse \subseteq Sub
  /\ OnTopic \subseteq (Text \cup Wording) \X Sub

(* The claims a worker writes: the web worker's sentence about the
   sub-question, the document worker's sentence with a snippet, the
   summarizer's quotation of the source when no model answers, and a model's
   summary of the passage. *)
WebClaim(s) == <<"addressed by retrieved evidence", s>>
DocumentClaim(s, text) == <<"supported by local evidence", s, text>>
QuotedClaim(ref, text) == <<"exact quote", ref, text>>
SummaryClaim(ref, text, wording) == <<"summary", ref, text, wording>>

Claim == {WebClaim(s) : s \in Sub}
           \cup {DocumentClaim(s, t) : s \in Sub, t \in Text}
           \cup {QuotedClaim(r, t) : r \in Ref, t \in Text}
           \cup {SummaryClaim(r, t, w) : r \in Ref, t \in Text, w \in Wording}

(* Two content words of the claim occur in the sub-question or its goal. *)
Overlaps(claim, s) ==
  CASE claim[1] = "addressed by retrieved evidence" -> s \notin Terse
    [] claim[1] = "supported by local evidence" ->
         s \notin Terse \/ <<claim[3], s>> \in OnTopic
    [] claim[1] = "exact quote" -> <<claim[3], s>> \in OnTopic
    [] OTHER -> <<claim[4], s>> \in OnTopic

Verdict == {"candidate", "accepted", "unknown_source", "quote_absent", "irrelevant",
            "duplicate"}
FactId == Sub \X Ref \X Text
Fact == [id : FactId, claim : Claim, verdict : Verdict]

Candidate(s, ref, text, claim) ==
  [id |-> <<s, ref, text>>, claim |-> claim, verdict |-> "candidate"]

SubOf(fact) == fact.id[1]
RefOf(fact) == fact.id[2]
QuoteOf(fact) == fact.id[3]

Ids(facts) == {facts[i].id : i \in DOMAIN facts}

-----------------------------------------------------------------------------
(* The code builds these lists in loops; here each is defined by what it
   contains. EvidenceLoops repeats the loops, and a run compares the two. *)

(* The elements of a list at some of its positions, in the list's order. *)
InOrder(list, positions) ==
  [n \in 1 .. Cardinality(positions) |->
     list[CHOOSE i \in positions : Cardinality({j \in positions : j < i}) = n - 1]]

(* The positions of a list of keys that hold a key for the first time. *)
FirstPositions(keys) == {i \in DOMAIN keys : \A j \in 1 .. i - 1 : keys[j] # keys[i]}

IdKeys(facts) == [i \in DOMAIN facts |-> facts[i].id]
QuoteKeys(facts) == [i \in DOMAIN facts |-> <<RefOf(facts[i]), QuoteOf(facts[i])>>]

(* Mutants of MergeById: lists are joined, not merged; a repeated fact moves to
   its new place. *)
MergeByConcatenation(left, right) == left \o right
MergeByReplacement(left, right) ==
  SelectSeq(left, LAMBDA f : f.id \notin Ids(right)) \o right

(* merge_by_id: a dictionary keyed by id keeps the place of the first fact
   with an id and the content of the last. *)
MergeById(left, right) ==
  LET all == left \o right
      ids == IdKeys(all)
      latest == [i \in DOMAIN all |->
                   all[CHOOSE j \in DOMAIN all :
                         ids[j] = ids[i] /\ \A k \in j + 1 .. Len(all) : ids[k] # ids[i]]]
  IN InOrder(latest, FirstPositions(ids))

(* merge_provenance: the last record of a source wins. A ledger of sources
   maps every source to its text or to NoText. *)
NoProvenance == [r \in Ref |-> NoText]
MergeProvenance(left, right) ==
  [r \in Ref |-> IF right[r] = NoText THEN left[r] ELSE right[r]]

(* Mutant of UniqueQuotes: facts are told apart by their ids. *)
UniqueIds(facts) == InOrder(facts, FirstPositions(IdKeys(facts)))

(* The facts research_join keeps: the first with each source and quote. *)
UniqueQuotes(facts) == InOrder(facts, FirstPositions(QuoteKeys(facts)))

-----------------------------------------------------------------------------
(* validate_fact up to its last check, in the code's order. (Workers never
   cite an empty quote.) *)
Flaw(fact, known) ==
  IF known[RefOf(fact)] = NoText THEN "unknown_source"
  ELSE IF known[RefOf(fact)] # QuoteOf(fact) THEN "quote_absent"
  ELSE IF ~Overlaps(fact.claim, SubOf(fact)) THEN "irrelevant"
  ELSE "none"

(* Mutant of Validate: a rejected fact blocks a later one with its claim. *)
ValidateAgainstAll(facts, known) ==
  [i \in DOMAIN facts |->
     LET flaw == Flaw(facts[i], known)
         repeated == \E j \in 1 .. i - 1 : facts[j].claim = facts[i].claim
     IN [facts[i] EXCEPT !.verdict =
           IF flaw # "none" THEN flaw ELSE IF repeated THEN "duplicate" ELSE "accepted"]]

(* The validator's pass over all facts: it starts with no accepted claim,
   judges every fact again, also those of an earlier round, and of the facts
   without a flaw accepts the first with each claim. *)
Validate(facts, known) ==
  [i \in DOMAIN facts |->
     LET flaw == Flaw(facts[i], known)
         repeated == \E j \in 1 .. i - 1 : /\ facts[j].claim = facts[i].claim
                                           /\ Flaw(facts[j], known) = "none"
     IN [facts[i] EXCEPT !.verdict =
           IF flaw # "none" THEN flaw ELSE IF repeated THEN "duplicate" ELSE "accepted"]]

(* Mutant of IsCovered: a rejected fact covers, too. *)
IsCoveredByAnyFact(s, facts) ==
  \E i \in DOMAIN facts : SubOf(facts[i]) = s /\ Overlaps(facts[i].claim, s)

(* is_covered *)
IsCovered(s, facts) ==
  \E i \in DOMAIN facts : /\ facts[i].verdict = "accepted"
                          /\ SubOf(facts[i]) = s
                          /\ Overlaps(facts[i].claim, s)
=============================================================================
