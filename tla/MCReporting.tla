---------------------------- MODULE MCReporting ----------------------------
(***************************************************************************)
(* A whole run, up to its report: two sub-questions whose web workers find *)
(* the same changing page or two different ones, and money for the plan or *)
(* the report but not always for both.                                     *)
(***************************************************************************)
EXTENDS Reporting, MCResearchLoop

FoundHits == {<<u1>>, <<u2>>, <<>>}
FoundPages == u1 :> {<<u1, old>>, <<u1, new>>, <<u1, short>>} @@ u2 :> {<<u2, old>>}

(* One version of the page has a reference number in the quoted part. *)
NumberedClaims == {QuotedClaim(u1, new)}
=============================================================================
