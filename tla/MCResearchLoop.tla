--------------------------- MODULE MCResearchLoop ---------------------------
(***************************************************************************)
(* Instances of ResearchLoop. Each .cfg stages the interesting part of one *)
(* question with as little else as it needs.                               *)
(***************************************************************************)
EXTENDS ResearchLoop, TLC

CONSTANTS u1, u2,          \* URLs
          d1, d2,          \* document citations
          old, new, short, \* texts: two versions of a page, and a short one
          w1, w2           \* wordings

NoChunks == [x \in {} |-> x]
NoRows == [s \in Sub |-> <<>>]

(* One sub-question, both workers, every item long: the two workers compete
   for the tool uses of the sub-question. *)
RaceHits == {<<u1, u2>>, <<u1>>, <<>>}
RacePages == u1 :> {<<u1, old>>} @@ u2 :> {<<u1, old>>, <<u2, new>>}
RaceRows == 1 :> <<d1, d2>>
RaceChunks == d1 :> old @@ d2 :> new
RaceTopics == {<<w1, 1>>, <<new, 1>>}
RacePlans == {[s \in Sub |-> k] : k \in {"web", "documents", "both"}}

(* Two sub-questions whose web workers find the same page, which may change
   between two fetches, also to a short one whose claim needs no model. *)
SharedHits == {<<u1>>, <<>>}
SharedPages == u1 :> {<<u1, old>>, <<u1, new>>, <<u1, short>>}
WebPlans == {[s \in Sub |-> "web"]}

SharedTopics == {<<w1, 1>>, <<w1, 2>>, <<old, 2>>, <<new, 1>>}

(* Two sub-questions with one page whose text does not change. *)
StablePages == u1 :> {<<u1, old>>}
StableTopics == {<<w1, 1>>, <<w1, 2>>}

(* The same two sub-questions, whose document workers find the same long chunk. *)
SharedRows == [s \in Sub |-> <<d1>>]
SharedChunks == d1 :> old
DocumentPlans == {[s \in Sub |-> "documents"]}

(* A metered search and paid summaries for two sub-questions, one web and one
   documents, on a budget that does not cover everything. *)
MoneyPlans == {[s \in Sub |-> IF s = 1 THEN "web" ELSE "documents"]}
MoneyRows == 1 :> <<>> @@ 2 :> <<d1>>
=============================================================================
