-------------------------- MODULE MCEvidenceLoops --------------------------
(***************************************************************************)
(* Facts chosen so that all ways to repeat something occur: the same id    *)
(* with another claim and verdict, the same source and quote under another *)
(* id, the same claim of another source, a claim that overlaps nothing.    *)
(***************************************************************************)
EXTENDS EvidenceLoops, TLC

CONSTANTS r1, r2, t1, t2, w

MCOnTopic == {<<w, 1>>, <<w, 2>>, <<t1, 1>>}

MCSample ==
  { Candidate(1, r1, t1, WebClaim(1)),
    [Candidate(1, r1, t1, QuotedClaim(r1, t1)) EXCEPT !.verdict = "accepted"],
    Candidate(2, r1, t1, QuotedClaim(r1, t1)),
    Candidate(1, r2, t2, WebClaim(1)),
    Candidate(2, r1, t2, SummaryClaim(r1, t2, w)) }

MCKnown == { r1 :> t1 @@ r2 :> t2, r1 :> t2 @@ r2 :> NoText }
=============================================================================
