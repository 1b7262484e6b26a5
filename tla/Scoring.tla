------------------------------ MODULE Scoring ------------------------------
(***************************************************************************)
(* Which tier of models a sub-question, the plan or the report asks for:   *)
(* llm/scoring.py and the tier table of llm/routing.py.  A question is     *)
(* reduced to what the rules look at: its number of words, the source it   *)
(* is to be answered from, and whether it has a word of one of the four    *)
(* lists of markers.                                                       *)
(***************************************************************************)
EXTENDS Integers

Tier == {"cheap", "standard", "strong"}
Depth == {"brief", "standard", "deep"}
Risk == {"low", "medium", "high"}

Question == [words : Nat, hint : {"web", "documents", "both"}, reasoning : BOOLEAN,
             current : BOOLEAN, risky : BOOLEAN, exact : BOOLEAN]
Request == [depth : Depth, risk : Risk]

Clamp(n) == IF n < 0 THEN 0 ELSE IF n > 5 THEN 5 ELSE n

Points(condition, n) == IF condition THEN n ELSE 0

ReasoningDepth(q, request) ==
  Clamp(Points(q.reasoning, 2) + Points(q.words > 18, 1)
          + Points(request.depth = "deep", 2) + Points(request.depth = "standard", 1))

ContextSize(q, request) ==
  Clamp(1 + Points(q.words >= 12, 1) + Points(q.words >= 24, 1)
          + Points(q.hint = "both", 1) + Points(request.depth = "deep", 1))

ToolNeed(q, request) ==
  Clamp(1 + Points(q.hint = "both", 1) + Points(q.current, 1)
          + Points(request.depth = "deep", 1))

RiskPoints(q, request) ==
  Clamp(1 + Points(request.risk = "medium", 1) + Points(request.risk = "high", 3)
          + Points(q.risky, 2))

(* Mutant of AccuracyNeed: a brief answer has to be the accurate one. *)
AccuracyNeedOfBrief(q, request) ==
  Clamp(1 + Points(request.risk = "high", 2) + Points(q.exact, 1)
          + Points(request.depth = "brief", 3))

AccuracyNeed(q, request) ==
  Clamp(1 + Points(request.risk = "high", 2) + Points(q.exact, 1)
          + Points(request.depth = "deep", 1))

(* score_sub_question *)
Total(q, request) ==
  ReasoningDepth(q, request) + ContextSize(q, request) + ToolNeed(q, request)
    + RiskPoints(q, request) + AccuracyNeed(q, request)

TierOf(total) == IF total <= 4 THEN "cheap" ELSE IF total <= 10 THEN "standard" ELSE "strong"

(* writing_score: the report is scored like a question to the documents, with
   seven more words, of which "cited" asks for accuracy.  The text is cut at 200
   characters, so the words and markers are those of the beginning of what the
   request asks, which may have fewer than the whole. *)
WritingQuestion(beginning) ==
  [beginning EXCEPT !.words = @ + 7, !.hint = "documents", !.exact = TRUE]

(* More than eight facts make it harder. *)
WritingTotal(beginning, request, facts) ==
  LET total == Total(WritingQuestion(beginning), request)
  IN IF facts > 8 /\ total < 25 THEN total + 1 ELSE total

(* depth_tier of route_planning *)
PlanningTier(request) ==
  CASE request.depth = "brief" -> "cheap"
    [] request.depth = "standard" -> "standard"
    [] OTHER -> "strong"

-----------------------------------------------------------------------------
(* Orders in which requests ask for more, and tiers give more. *)
DepthRank == [brief |-> 0, standard |-> 1, deep |-> 2]
RiskRank == [low |-> 0, medium |-> 1, high |-> 2]
TierRank == [cheap |-> 0, standard |-> 1, strong |-> 2]

AsksMore(p, q) == DepthRank[q.depth] <= DepthRank[p.depth] /\ RiskRank[q.risk] <= RiskRank[p.risk]
=============================================================================
