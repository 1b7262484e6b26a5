------------------------ MODULE LearningStore_proofs ------------------------
(***************************************************************************)
(* Theorems about the averages, for any runs, models, latencies and rows   *)
(* of an earlier deployment: no interleaving of the two halves of update   *)
(* takes a rate of passes above one, no run counts twice, and a sample is  *)
(* lost only when two updates of one alias overlapped.                     *)
(***************************************************************************)
EXTENDS LearningStore, FiniteSetTheorems, TLAPS

Busy(r) == learner[r].pc \in {"read", "write", "back"}

(* What a run has still to do: an alias it has written stays at the head of the
   list until it has been read back. *)
FirstLeft(r) == IF learner[r].pc = "back" THEN 2 ELSE 1

(* Each alias is listed once, and no run has stored a sample of one it has still
   to do. *)
Orderly(r) ==
  LET todo == learner[r].todo
  IN /\ Busy(r) =>
          /\ todo # <<>>
          /\ \A i, j \in 1 .. Len(todo) : todo[i] = todo[j] => i = j
          /\ \A i \in FirstLeft(r) .. Len(todo) : r \notin stored[todo[i]]
     /\ learner[r].pc = "idle" => \A a \in Name : r \notin stored[a]

(* Samples of a row, when those of the runs in the set were written. *)
Counted(samples, a, runs) ==
  /\ earlier[a].samples <= samples
  /\ samples <= earlier[a].samples + Cardinality(runs)
  /\ runs # {} => samples > earlier[a].samples

(* The copy between the two halves: what the row was when it was read. *)
CopySound(r) ==
  LET a == Head(learner[r].todo)
      copy == learner[r].copy
      seen == learner[r].seen
  IN learner[r].pc = "write" =>
       /\ copy.pass <= copy.scale /\ seen \subseteq stored[a]
       /\ Counted(copy.samples, a, seen)
       /\ a \notin contended /\ seen = stored[a] =>
            copy.samples = earlier[a].samples + Cardinality(seen)

RowSound(a) ==
  /\ learn[a].pass <= learn[a].scale
  /\ Counted(learn[a].samples, a, stored[a])
  /\ a \notin contended => learn[a].samples = earlier[a].samples + Cardinality(stored[a])

LearnTyped ==
  /\ learn \in [Name -> Row] /\ earlier \in [Name -> Row]
  /\ learner \in [Run -> Learner]
  /\ stored \in [Name -> SUBSET Run]
  /\ contended \in SUBSET Name

LearnInv ==
  /\ LearnTyped
  /\ \A a \in Name : RowSound(a)
  /\ \A r \in Run : Orderly(r) /\ CopySound(r)

-----------------------------------------------------------------------------
(* The runs that stored a sample can be counted, and one more counts one more. *)
LEMMA StoredCounts ==
  ASSUME NEW S \in SUBSET Run, NEW T \in SUBSET S, NEW r \in Run, r \notin S
  PROVE  /\ Cardinality(S) \in Nat /\ Cardinality(T) \in Nat
         /\ Cardinality(T) <= Cardinality(S)
         /\ Cardinality(S \cup {r}) = Cardinality(S) + 1
<1>1. IsFiniteSet(S)
  BY StoreAssumption, FS_Subset
<1>2. IsFiniteSet(T) /\ Cardinality(T) <= Cardinality(S)
  BY <1>1, FS_Subset
<1>3. QED BY <1>1, <1>2, FS_CardinalityType, FS_AddElement

(* An average of a rate and a pass or a fail is a rate, and counts one more. *)
LEMMA UpdatedRate ==
  ASSUME NEW row \in Row, row.pass <= row.scale, NEW passed \in BOOLEAN,
         NEW latency \in Latency
  PROVE  LET new == Updated(row, passed, latency)
         IN new \in Row /\ new.pass <= new.scale /\ new.samples = row.samples + 1
<1>1. latency \in Nat
  BY StoreAssumption
<1>2. CASE row.samples = 0
  BY <1>1, <1>2 DEF Updated, Row, Weight
<1>3. CASE row.samples # 0
  <2> DEFINE w == Weight(passed)
             new == [pass |-> 3 * w * row.scale + 7 * row.pass,
                     latency |-> 3 * latency * row.scale + 7 * row.latency,
                     scale |-> 10 * row.scale, samples |-> row.samples + 1]
  <2>1. /\ row.pass \in Nat /\ row.latency \in Nat /\ row.scale \in Nat /\ row.samples \in Nat
        /\ row.scale # 0
    BY DEF Row
  <2>2. 3 * w * row.scale \in Nat /\ 3 * w * row.scale <= 3 * row.scale
    BY <2>1 DEF Weight
  <2>3. 3 * latency * row.scale \in Nat
    BY <1>1, <2>1
  <2>4. new \in Row /\ new.pass <= new.scale
    BY <2>1, <2>2, <2>3 DEF Row
  <2>5. Updated(row, passed, latency) = new
    BY <1>3 DEF Updated
  <2>6. QED BY <2>4, <2>5
<1>4. QED BY <1>2, <1>3

-----------------------------------------------------------------------------
LEMMA InitLearn == LearnInit => LearnInv
<1> SUFFICES ASSUME LearnInit PROVE LearnInv
  OBVIOUS
<1>1. LearnTyped /\ \A a \in Name : learn[a].pass <= learn[a].scale
  BY EarlierAssumption DEF LearnInit, LearnTyped, Learner, Row, NoRow
<1>2. Cardinality({}) = 0
  BY FS_EmptySet
<1>3. \A a \in Name : RowSound(a)
  BY <1>1, <1>2 DEF LearnInit, LearnTyped, RowSound, Counted, Row
<1>4. \A r \in Run : Orderly(r) /\ CopySound(r)
  BY DEF LearnInit, Orderly, Busy, CopySound
<1>5. QED BY <1>1, <1>3, <1>4 DEF LearnInv

(* Steps of one run that write nothing. *)
WritesNothing == UNCHANGED <<learn, stored, contended, earlier>>

LEMMA OthersKept ==
  ASSUME LearnInv, WritesNothing, NEW r \in Run, NEW new \in Learner,
         learner' = [learner EXCEPT ![r] = new], Orderly(r)', CopySound(r)'
  PROVE  LearnInv'
<1>1. LearnTyped'
  BY DEF LearnInv, LearnTyped, WritesNothing
<1>2. \A a \in Name : RowSound(a)'
  BY DEF LearnInv, WritesNothing, RowSound, Counted
<1>3. ASSUME NEW s \in Run, s # r PROVE Orderly(s)' /\ CopySound(s)'
  <2>1. learner'[s] = learner[s]
    BY <1>3 DEF LearnInv, LearnTyped
  <2>2. Orderly(s) /\ CopySound(s)
    BY DEF LearnInv
  <2>3. QED
    BY <2>1, <2>2 DEF WritesNothing, Orderly, Busy, FirstLeft, CopySound, Counted
<1>4. QED BY <1>1, <1>2, <1>3 DEF LearnInv

LEMMA BeginLearn ==
  ASSUME LearnInv, NEW r \in Run, NEW todo \in Seq(Name), NEW passed \in BOOLEAN,
         \A i, j \in DOMAIN todo : todo[i] = todo[j] => i = j,
         BeginLearning(r, todo, passed)
  PROVE  LearnInv'
<1> DEFINE new == [learner[r] EXCEPT !.pc = IF todo = <<>> THEN "done" ELSE "read",
                                     !.todo = todo, !.passed = passed]
<1>1. learner[r] \in Learner /\ learner[r].pc = "idle" /\ \A a \in Name : r \notin stored[a]
  BY DEF LearnInv, LearnTyped, BeginLearning, Orderly
<1>2. new \in Learner
  BY <1>1 DEF Learner
<1>3. learner' = [learner EXCEPT ![r] = new] /\ learner'[r] = new
  BY DEF BeginLearning, LearnInv, LearnTyped
<1>4. DOMAIN todo = 1 .. Len(todo) /\ \A i \in 1 .. Len(todo) : todo[i] \in Name
  OBVIOUS
<1>5. new.todo = todo /\ new.pc = IF todo = <<>> THEN "done" ELSE "read"
  BY <1>1 DEF Learner
<1> HIDE DEF new
<1>6. Orderly(r)' /\ CopySound(r)'
  BY <1>1, <1>3, <1>4, <1>5 DEF Orderly, Busy, FirstLeft, CopySound, BeginLearning
<1>7. QED BY <1>2, <1>3, <1>6, OthersKept DEF WritesNothing, BeginLearning

LEMMA ReadLearn ==
  ASSUME LearnInv, NEW r \in Run, ReadRow(r)
  PROVE  LearnInv'
<1> DEFINE todo == learner[r].todo
           a == Head(todo)
           new == [learner[r] EXCEPT !.pc = "write", !.copy = learn[a], !.seen = stored[a]]
<1>1. /\ learner[r] \in Learner /\ learner[r].pc = "read" /\ todo # <<>> /\ todo \in Seq(Name)
      /\ Orderly(r)
  BY DEF LearnInv, LearnTyped, ReadRow, Orderly, Busy, Learner
<1>2. a \in Name /\ RowSound(a)
  BY <1>1 DEF LearnInv
<1>3. new \in Learner
  BY <1>1, <1>2 DEF Learner, LearnInv, LearnTyped
<1>4. learner' = [learner EXCEPT ![r] = new] /\ learner'[r] = new
  BY DEF ReadRow, LearnInv, LearnTyped
<1>5. new.todo = todo /\ new.pc = "write" /\ new.copy = learn[a] /\ new.seen = stored[a]
  BY <1>1 DEF Learner
<1> HIDE DEF new
<1>6. WritesNothing
  BY DEF ReadRow, WritesNothing
<1>7. Orderly(r)'
  BY <1>1, <1>4, <1>5, <1>6 DEF Orderly, Busy, FirstLeft, WritesNothing
<1>8. CopySound(r)'
  BY <1>2, <1>4, <1>5, <1>6 DEF CopySound, RowSound, Counted, WritesNothing
<1>9. QED BY <1>3, <1>4, <1>6, <1>7, <1>8, OthersKept

LEMMA BackLearn ==
  ASSUME LearnInv, NEW r \in Run, ReadBack(r)
  PROVE  LearnInv'
<1> DEFINE todo == learner[r].todo
           rest == Tail(todo)
           new == [learner[r] EXCEPT !.pc = IF Len(todo) = 1 THEN "done" ELSE "read",
                                     !.todo = rest]
<1>1. /\ learner[r] \in Learner /\ learner[r].pc = "back" /\ todo # <<>> /\ todo \in Seq(Name)
      /\ Orderly(r)
  BY DEF LearnInv, LearnTyped, ReadBack, Orderly, Busy, Learner
<1>2. /\ \A i, j \in 1 .. Len(todo) : todo[i] = todo[j] => i = j
      /\ \A i \in 2 .. Len(todo) : r \notin stored[todo[i]]
  BY <1>1 DEF Orderly, Busy, FirstLeft
<1>3. /\ rest \in Seq(Name) /\ Len(rest) = Len(todo) - 1 /\ Len(todo) \in Nat
      /\ Len(todo) >= 1
      /\ \A i \in 1 .. Len(rest) : rest[i] = todo[i + 1]
  BY <1>1
<1>4. new \in Learner
  BY <1>1, <1>3 DEF Learner
<1>5. learner' = [learner EXCEPT ![r] = new] /\ learner'[r] = new
  BY DEF ReadBack, LearnInv, LearnTyped
<1> HIDE DEF rest
<1>6. new.todo = rest /\ new.pc = IF Len(todo) = 1 THEN "done" ELSE "read"
  BY <1>1 DEF Learner
<1> HIDE DEF new
<1>7. WritesNothing
  BY DEF ReadBack, WritesNothing
<1>8. CASE Len(todo) # 1
  <2>1. rest # <<>>
    <3>1. Len(rest) # 0
      BY <1>3, <1>8
    <3>2. Len(<<>>) = 0
      OBVIOUS
    <3>3. QED BY <3>1, <3>2
  <2>2. \A i, j \in 1 .. Len(rest) : rest[i] = rest[j] => i = j
    <3>1. ASSUME NEW i \in 1 .. Len(rest), NEW j \in 1 .. Len(rest),
                 rest[i] = rest[j]
          PROVE  i = j
      <4>1. todo[i + 1] = todo[j + 1] /\ i + 1 \in 1 .. Len(todo) /\ j + 1 \in 1 .. Len(todo)
        BY <3>1, <1>3
      <4>2. QED BY <4>1, <1>2
    <3>2. QED BY <3>1
  <2>3. \A i \in 1 .. Len(rest) : r \notin stored[rest[i]]
    <3>1. ASSUME NEW i \in 1 .. Len(rest) PROVE r \notin stored[rest[i]]
      <4>1. rest[i] = todo[i + 1] /\ i + 1 \in 2 .. Len(todo)
        BY <1>3
      <4>2. QED BY <4>1, <1>2
    <3>2. QED BY <3>1
  <2>4. Orderly(r)' /\ CopySound(r)'
    BY <1>5, <1>6, <1>7, <1>8, <2>1, <2>2, <2>3
       DEF Orderly, Busy, FirstLeft, CopySound, WritesNothing
  <2>5. QED BY <2>4, <1>4, <1>5, <1>7, OthersKept
<1>9. CASE Len(todo) = 1
  BY <1>4, <1>5, <1>6, <1>7, <1>9, OthersKept DEF Orderly, Busy, CopySound
<1>10. QED BY <1>8, <1>9

LEMMA FailLearn ==
  ASSUME LearnInv, NEW r \in Run, StoreFails(r)
  PROVE  LearnInv'
<1> DEFINE new == [learner[r] EXCEPT !.pc = "done", !.warned = TRUE]
<1>1. new \in Learner /\ new.pc = "done"
  <2>1. learner[r] \in Learner
    BY DEF LearnInv, LearnTyped
  <2>2. QED BY <2>1 DEF Learner
<1>2. learner' = [learner EXCEPT ![r] = new] /\ learner'[r] = new
  BY DEF StoreFails, LearnInv, LearnTyped
<1> HIDE DEF new
<1>3. Orderly(r)' /\ CopySound(r)'
  BY <1>1, <1>2 DEF Orderly, Busy, CopySound
<1>4. WritesNothing
  BY DEF StoreFails, WritesNothing
<1>5. QED BY <1>1, <1>2, <1>3, <1>4, OthersKept

(* A write takes the run off the alias, and makes every other copy of its row
   one that was read before. *)
LEMMA WriteLearn ==
  ASSUME LearnInv, NEW r \in Run, WriteRow(r)
  PROVE  LearnInv'
<1> DEFINE todo == learner[r].todo
           a == Head(todo)
           copy == learner[r].copy
           seen == learner[r].seen
           new == [learner[r] EXCEPT !.pc = "back"]
<1>1. /\ learner[r] \in Learner /\ learner[r].pc = "write" /\ todo # <<>> /\ todo \in Seq(Name)
      /\ Orderly(r) /\ CopySound(r)
  BY DEF LearnInv, LearnTyped, WriteRow, Orderly, Busy, Learner
<1>2. /\ a \in Name /\ a = todo[1] /\ 1 \in 1 .. Len(todo) /\ Len(todo) \in Nat
      /\ copy \in Row /\ seen \in SUBSET Run
  BY <1>1 DEF Learner
<1>3. /\ r \notin stored[a] /\ stored[a] \in SUBSET Run
      /\ \A i \in 2 .. Len(todo) : todo[i] # a /\ r \notin stored[todo[i]]
  BY <1>1, <1>2 DEF Orderly, Busy, FirstLeft, LearnInv, LearnTyped
<1>4. PICK row \in Row : /\ row.pass <= row.scale /\ row.samples = copy.samples + 1
                         /\ learn' = [learn EXCEPT ![a] = row]
  <2>1. PICK latency \in Latency :
          learn' = [learn EXCEPT ![a] = Updated(copy, learner[r].passed, latency)]
    BY DEF WriteRow
  <2>2. learner[r].passed \in BOOLEAN /\ copy.pass <= copy.scale
    BY <1>1 DEF Learner, CopySound
  <2>3. QED BY <1>2, <2>1, <2>2, UpdatedRate
<1>5. /\ stored' = [stored EXCEPT ![a] = @ \cup {r}]
      /\ contended' = IF stored[a] = seen THEN contended ELSE contended \cup {a}
      /\ learner' = [learner EXCEPT ![r] = new] /\ earlier' = earlier
  BY DEF WriteRow
<1>6. new \in Learner /\ new.pc = "back" /\ new.todo = todo
  BY <1>1 DEF Learner
<1> HIDE DEF new
<1>7. LearnTyped'
  BY <1>2, <1>4, <1>5, <1>6 DEF LearnInv, LearnTyped
<1>8. /\ Cardinality(stored[a]) \in Nat /\ Cardinality(seen) \in Nat
      /\ Cardinality(seen) <= Cardinality(stored[a])
      /\ Cardinality(stored[a] \cup {r}) = Cardinality(stored[a]) + 1
  BY <1>1, <1>3, StoredCounts DEF CopySound
<1>9. /\ learn'[a] = row /\ stored'[a] = stored[a] \cup {r}
      /\ \A b \in Name : b # a => learn'[b] = learn[b] /\ stored'[b] = stored[b]
      /\ \A b \in Name : b # a => (b \in contended' <=> b \in contended)
  BY <1>2, <1>4, <1>5 DEF LearnInv, LearnTyped
<1>10. ASSUME NEW b \in Name PROVE RowSound(b)'
  <2>1. CASE b = a
    <3>1. earlier[a].samples \in Nat /\ copy.samples \in Nat
      BY <1>2 DEF LearnInv, LearnTyped, Row
    <3>2. Counted(copy.samples, a, seen)
      BY <1>1 DEF CopySound
    <3>3. Counted(row.samples, a, stored[a] \cup {r})
      BY <1>4, <1>8, <3>1, <3>2 DEF Counted
    <3>4. a \notin contended' => row.samples = earlier[a].samples + Cardinality(stored'[a])
      <4>1. a \notin contended' => a \notin contended /\ seen = stored[a]
        BY <1>5
      <4>2. a \notin contended' => copy.samples = earlier[a].samples + Cardinality(seen)
        BY <4>1, <1>1 DEF CopySound
      <4>3. QED BY <4>1, <4>2, <1>4, <1>8, <1>9, <3>1
    <3>5. QED BY <2>1, <3>3, <3>4, <1>4, <1>5, <1>9 DEF RowSound, Counted
  <2>2. CASE b # a
    <3>1. RowSound(b)
      BY DEF LearnInv
    <3>2. QED BY <2>2, <3>1, <1>5, <1>9 DEF RowSound, Counted
  <2>3. QED BY <2>1, <2>2
<1>11. Orderly(r)' /\ CopySound(r)'
  <2>1. learner'[r] = new
    BY <1>5 DEF LearnInv, LearnTyped
  <2>2. \A i \in 2 .. Len(todo) : r \notin stored'[todo[i]]
    <3>1. ASSUME NEW i \in 2 .. Len(todo) PROVE r \notin stored'[todo[i]]
      <4>1. todo[i] \in Name /\ todo[i] # a
        BY <1>1, <1>2, <1>3
      <4>2. QED BY <4>1, <1>3, <1>9
    <3>2. QED BY <3>1
  <2>3. QED BY <1>1, <1>6, <2>1, <2>2 DEF Orderly, Busy, FirstLeft, CopySound
<1>12. ASSUME NEW s \in Run, s # r PROVE Orderly(s)' /\ CopySound(s)'
  <2>1. /\ learner'[s] = learner[s] /\ learner[s] \in Learner
        /\ Orderly(s) /\ CopySound(s)
    BY <1>5, <1>12 DEF LearnInv, LearnTyped
  <2>2. \A b \in Name : s \in stored'[b] <=> s \in stored[b]
    BY <1>9, <1>12
  <2>3. Orderly(s)'
    <3>1. \A i \in 1 .. Len(learner[s].todo) : learner[s].todo[i] \in Name
      BY <2>1 DEF Learner
    <3>2. FirstLeft(s) \in {1, 2} /\ FirstLeft(s)' = FirstLeft(s)
      BY <2>1 DEF FirstLeft
    <3>3. Busy(s) => \A i \in FirstLeft(s) .. Len(learner[s].todo) :
                       s \notin stored'[learner[s].todo[i]]
      BY <2>1, <2>2, <3>1, <3>2 DEF Orderly
    <3>4. QED BY <2>1, <2>2, <3>2, <3>3 DEF Orderly, Busy
  <2>4. CopySound(s)'
    <3> DEFINE b == Head(learner[s].todo)
    <3>1. SUFFICES ASSUME learner[s].pc = "write" PROVE CopySound(s)'
      BY <2>1 DEF CopySound
    <3>2. b \in Name
      BY <2>1, <3>1 DEF Learner, Orderly, Busy
    <3>3. CASE b # a
      BY <2>1, <3>2, <3>3, <1>5, <1>9 DEF CopySound, Counted
    <3>4. CASE b = a
      <4>1. /\ learner[s].copy.pass <= learner[s].copy.scale
            /\ learner[s].seen \subseteq stored[a]
            /\ Counted(learner[s].copy.samples, a, learner[s].seen)
        BY <2>1, <3>1, <3>4 DEF CopySound
      <4>2. learner[s].seen \subseteq stored'[a] /\ learner[s].seen # stored'[a]
        BY <4>1, <1>3, <1>9
      <4>3. QED BY <2>1, <3>4, <4>1, <4>2, <1>5 DEF CopySound, Counted
    <3>5. QED BY <3>3, <3>4
  <2>5. QED BY <2>3, <2>4
<1>13. QED BY <1>7, <1>10, <1>11, <1>12 DEF LearnInv

-----------------------------------------------------------------------------
LEMMA LearnSteps ==
  ASSUME LearnInv, [LearnNext]_learnVars
  PROVE  LearnInv'
<1>1. ASSUME NEW r \in Run, NEW todo \in Seq(Name), NEW passed \in BOOLEAN,
               \A i, j \in DOMAIN todo : todo[i] = todo[j] => i = j,
               BeginLearning(r, todo, passed)
        PROVE  LearnInv'
  BY <1>1, BeginLearn
<1>2. ASSUME NEW r \in Run, LearnStep(r) PROVE LearnInv'
  BY <1>2, ReadLearn, WriteLearn, BackLearn, FailLearn DEF LearnStep
<1>3. CASE UNCHANGED learnVars
  BY <1>3 DEF learnVars, LearnInv, LearnTyped, RowSound, Counted, Orderly, Busy, FirstLeft,
                CopySound
<1>4. QED BY <1>1, <1>2, <1>3 DEF LearnNext

(* The invariant of the averages holds under any runs. *)
THEOREM LearnInvariant == LearnSpec => []LearnInv
<1>1. LearnInv /\ [LearnNext]_learnVars => LearnInv'
  BY LearnSteps
<1>2. QED BY <1>1, InitLearn, PTL DEF LearnSpec

(* Averages stay averages, however updates interleave. *)
THEOREM RatesSafe == LearnSpec => []AveragesInRange
<1>1. LearnInv => AveragesInRange
  BY DEF LearnInv, RowSound, AveragesInRange
<1>2. QED BY <1>1, LearnInvariant, PTL

(* Each run counts at most once, and a sample is lost only by an overlap. *)
THEOREM SamplesSafe == LearnSpec => []SamplesLostOnlyByOverlap
<1>1. LearnInv => SamplesLostOnlyByOverlap
  BY DEF LearnInv, RowSound, Counted, SamplesLostOnlyByOverlap
<1>2. QED BY <1>1, LearnInvariant, PTL
=============================================================================
