--------------------------- MODULE LearningStore ---------------------------
(***************************************************************************)
(* The averages the service keeps of each model (storage/learning.py) and  *)
(* the node that updates them (nodes/learning_update.py).  LearningStore   *)
(* .update reads a row under the database's lock and writes it in a        *)
(* transaction of its own, so the updates of two runs can interleave.      *)
(*                                                                         *)
(* Averages are exact: a row keeps them multiplied by its scale.  The      *)
(* average of costs is not kept: what it adds to a preference is an input, *)
(* so that models may tie at any cost, whatever they cost before.          *)
(***************************************************************************)
EXTENDS Integers, Sequences, FiniteSets

CONSTANTS Run,
          Name,         \* aliases of models
          Latency,      \* mean latencies of a run's calls, in seconds
          EarlierRows,  \* rows that runs of an earlier deployment may have left
          StoreFaults   \* whether the store may raise

ASSUME StoreAssumption ==
  /\ Latency \subseteq Nat
  /\ StoreFaults \in BOOLEAN
  /\ IsFiniteSet(Run)

VARIABLES learn,      \* the table: a row for each alias
          learner,    \* where the learning node of each run is
          stored,     \* history: runs whose sample was written, by alias
          contended,  \* history: aliases of which two updates overlapped
          earlier     \* history: the table at the start

learnVars == <<learn, learner, stored, contended, earlier>>

Row == [pass : Nat, latency : Nat, scale : Nat \ {0}, samples : Nat]
NoRow == [pass |-> 0, latency |-> 0, scale |-> 1, samples |-> 0]

ASSUME EarlierAssumption ==
  \A table \in EarlierRows : table \in [Name -> Row] /\ \A a \in Name :
    table[a].pass <= table[a].scale

Learner == [pc : {"idle", "read", "write", "back", "done"}, todo : Seq(Name), passed : BOOLEAN,
            copy : Row, seen : SUBSET Run, warned : BOOLEAN]

LearnTypeOK ==
  /\ learn \in [Name -> Row] /\ earlier \in [Name -> Row]
  /\ learner \in [Run -> Learner]
  /\ \A r \in Run : learner[r].pc \in {"read", "write", "back"} => learner[r].todo # <<>>
  /\ stored \in [Name -> SUBSET Run]
  /\ contended \in SUBSET Name

LearnInit ==
  /\ learn \in EarlierRows /\ earlier = learn
  /\ learner = [r \in Run |-> [pc |-> "idle", todo |-> <<>>, passed |-> FALSE,
                               copy |-> NoRow, seen |-> {}, warned |-> FALSE]]
  /\ stored = [a \in Name |-> {}]
  /\ contended = {}

-----------------------------------------------------------------------------
Weight(passed) == IF passed THEN 1 ELSE 0

(* Mutant of Updated: the weights do not add up to one. *)
UpdatedHeavily(row, passed, latency) ==
  IF row.samples = 0
  THEN [pass |-> Weight(passed), latency |-> latency, scale |-> 1, samples |-> 1]
  ELSE [pass |-> 3 * Weight(passed) * row.scale + 8 * row.pass,
        latency |-> 3 * latency * row.scale + 8 * row.latency,
        scale |-> 10 * row.scale, samples |-> row.samples + 1]

(* Mutant of Updated: the second sample is taken for the first. *)
UpdatedAfresh(row, passed, latency) ==
  IF row.samples <= 1
  THEN [pass |-> Weight(passed), latency |-> latency, scale |-> 1, samples |-> 1]
  ELSE [pass |-> 3 * Weight(passed) * row.scale + 7 * row.pass,
        latency |-> 3 * latency * row.scale + 7 * row.latency,
        scale |-> 10 * row.scale, samples |-> row.samples + 1]

(* update: the first sample is taken as it is; then alpha is 3/10. *)
Updated(row, passed, latency) ==
  IF row.samples = 0
  THEN [pass |-> Weight(passed), latency |-> latency, scale |-> 1, samples |-> 1]
  ELSE [pass |-> 3 * Weight(passed) * row.scale + 7 * row.pass,
        latency |-> 3 * latency * row.scale + 7 * row.latency,
        scale |-> 10 * row.scale, samples |-> row.samples + 1]

(* preference_score, ten times, as a fraction: 5 for the passes, 2 for the latency
   and the points, themselves a fraction, for the average of costs, 3 when it is
   nothing; an alias without a row has 0. *)
Preference(row, points) ==
  LET s == row.scale
      sum == row.scale + row.latency
  IN IF row.samples = 0 THEN <<0, 1>>
     ELSE <<(5 * row.pass * sum + 2 * s * s) * points[2] + points[1] * (s * sum),
            (s * sum) * points[2]>>

(* learning_update: the aliases the run called, in order; passed says that QA
   approved its report and half its facts were accepted. *)
BeginLearning(r, todo, passed) ==
  /\ learner[r].pc = "idle"
  /\ learner' = [learner EXCEPT ![r].pc = IF todo = <<>> THEN "done" ELSE "read",
                                ![r].todo = todo, ![r].passed = passed]
  /\ UNCHANGED <<learn, stored, contended, earlier>>

(* The first half of update. *)
ReadRow(r) ==
  /\ learner[r].pc = "read"
  /\ LET a == Head(learner[r].todo)
     IN learner' = [learner EXCEPT ![r].pc = "write", ![r].copy = learn[a],
                                   ![r].seen = stored[a]]
  /\ UNCHANGED <<learn, stored, contended, earlier>>

(* The second half: what was read is averaged with the sample and written,
   whatever has been written in between. *)
WriteRow(r) ==
  /\ learner[r].pc = "write"
  /\ LET a == Head(learner[r].todo)
     IN /\ \E latency \in Latency :
             learn' = [learn EXCEPT ![a] =
                         Updated(learner[r].copy, learner[r].passed, latency)]
        /\ stored' = [stored EXCEPT ![a] = @ \cup {r}]
        /\ contended' = IF stored[a] = learner[r].seen THEN contended
                        ELSE contended \cup {a}
  /\ learner' = [learner EXCEPT ![r].pc = "back"]
  /\ UNCHANGED earlier

(* update returns what it reads back; the node goes on to its next alias. *)
ReadBack(r) ==
  /\ learner[r].pc = "back"
  /\ learner' = [learner EXCEPT
       ![r].pc = IF Len(learner[r].todo) = 1 THEN "done" ELSE "read",
       ![r].todo = Tail(@)]
  /\ UNCHANGED <<learn, stored, contended, earlier>>

(* Mutant of StoreFails: the update is tried again. *)
StoreFailsRetried(r) ==
  /\ StoreFaults
  /\ learner[r].pc \in {"read", "write"}
  /\ learner' = [learner EXCEPT ![r].pc = "read"]
  /\ UNCHANGED <<learn, stored, contended, earlier>>

(* Mutant of StoreFails: the failure is swallowed. *)
StoreFailsSilently(r) ==
  /\ StoreFaults
  /\ learner[r].pc \in {"read", "write", "back"}
  /\ learner' = [learner EXCEPT ![r].pc = "done"]
  /\ UNCHANGED <<learn, stored, contended, earlier>>

(* The store raises: the run is warned and gives up the aliases still to do. *)
StoreFails(r) ==
  /\ StoreFaults
  /\ learner[r].pc \in {"read", "write", "back"}
  /\ learner' = [learner EXCEPT ![r].pc = "done", ![r].warned = TRUE]
  /\ UNCHANGED <<learn, stored, contended, earlier>>

LearnStep(r) == ReadRow(r) \/ WriteRow(r) \/ ReadBack(r) \/ StoreFails(r)

(* The store under arbitrary runs; no alias is listed twice. *)
LearnNext ==
  \E r \in Run :
    \/ \E todo \in Seq(Name), passed \in BOOLEAN :
         /\ \A i, j \in DOMAIN todo : todo[i] = todo[j] => i = j
         /\ BeginLearning(r, todo, passed)
    \/ LearnStep(r)

LearnSpec == LearnInit /\ [][LearnNext]_learnVars

-----------------------------------------------------------------------------
(* Averages stay averages: no interleaving of updates takes the rate of passes
   above one. *)
AveragesInRange == \A a \in Name : learn[a].pass <= learn[a].scale

(* A run counts at most once for an alias, and its sample is lost only when two
   updates of that alias overlapped; the row of an alias somebody stored is
   never empty. *)
SamplesLostOnlyByOverlap ==
  \A a \in Name :
    LET all == earlier[a].samples + Cardinality(stored[a])
    IN /\ learn[a].samples <= all
       /\ a \notin contended => learn[a].samples = all
       /\ stored[a] # {} => learn[a].samples > earlier[a].samples
=============================================================================
