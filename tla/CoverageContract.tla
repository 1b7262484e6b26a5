-------------------------- MODULE CoverageContract --------------------------
(***************************************************************************)
(* What the research loop promises the writer, and nothing of how research *)
(* is done: there are at most MaxRounds rounds, each judged once; a round  *)
(* that leaves a sub-question uncovered may be followed by another; and    *)
(* the writer gets the work with limitations disclosed exactly when some   *)
(* sub-question is uncovered.  A run may fail before that, never after.    *)
(***************************************************************************)
EXTENDS Integers

CONSTANTS Sub, MaxRounds

VARIABLES phase,      \* "researching", "writing" or "failed"
          judged,     \* rounds judged so far
          covered,    \* sub-questions the last judgement found covered
          disclosed   \* the writer is told of missing coverage

vars == <<phase, judged, covered, disclosed>>

Init == phase = "researching" /\ judged = 0 /\ covered = {} /\ disclosed = FALSE

(* A round ends: all is covered or no further round is made. *)
HandOver ==
  /\ phase = "researching" /\ judged < MaxRounds
  /\ judged' = judged + 1
  /\ covered' \in SUBSET Sub
  /\ disclosed' = (covered' # Sub)
  /\ phase' = "writing"

(* A round ends with something uncovered and rounds left. *)
Retry ==
  /\ phase = "researching" /\ judged + 1 < MaxRounds
  /\ judged' = judged + 1
  /\ covered' \in SUBSET Sub /\ covered' # Sub
  /\ UNCHANGED <<phase, disclosed>>

Fail ==
  /\ phase = "researching"
  /\ phase' = "failed"
  /\ UNCHANGED <<judged, covered, disclosed>>

Next == HandOver \/ Retry \/ Fail

Spec == Init /\ [][Next]_vars
=============================================================================
