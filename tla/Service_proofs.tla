--------------------------- MODULE Service_proofs ---------------------------
(***************************************************************************)
(* Theorems about the service, for any runs, streams, requests and loads.  *)
(* First the life of runs: the registry decides each run at most once,     *)
(* success comes with its result, failure is on record before anyone is    *)
(* told of it, and a stream tells the events of its run in order and       *)
(* leaves none out.  Then the start of the process.  Last the service: it  *)
(* does to runs, streams and the index only what RunLifecycle and          *)
(* CorpusIndex say, so that their theorems hold of it, and its answers are *)
(* consistent with the record and with what was charged.                   *)
(***************************************************************************)
EXTENDS Service, TLAPS

-----------------------------------------------------------------------------
(* The rows, the log and the threads on their own. *)
RowsTyped ==
  /\ row \in [Run -> [status : Status, result : BOOLEAN]]
  /\ log \in Seq(Event)
  /\ thread \in [Run -> Place]

(* Where a thread is says what the row and the log already hold: the code never
   reads them to decide what to write, so its place is all that keeps it from
   writing twice. *)
Placed(r) ==
  /\ thread[r] = "none" => row[r].status = "absent"
  /\ thread[r] \in {"created", "starting", "invoking"} => row[r].status = "queued"
  /\ thread[r] \in {"graph", "finished"} => row[r].status = "running"
  /\ thread[r] = "finished" => Logged(r, "run_completed")
  /\ thread[r] = "failing" => row[r].status \in {"queued", "running"}
  /\ thread[r] = "reporting" => row[r].status = "failed"

Recorded(r) ==
  /\ row[r].status = "succeeded" <=> row[r].result
  /\ row[r].status = "succeeded" => Logged(r, "run_completed")
  /\ Logged(r, "run_failed") => row[r].status = "failed"

RowInv == RowsTyped /\ \A r \in Run : Placed(r) /\ Recorded(r)

(* Steps that leave the runs alone. *)
StreamOnly == UNCHANGED <<row, log, thread>>

(* The steps that do something for one run. *)
RunStep(r) == Create(r) \/ ThreadStep(r) \/ Raise(r)

(* An append adds the appended event to what is logged, and nothing else. *)
LEMMA EmitLogs ==
  ASSUME log \in Seq(Event), NEW r \in Run, NEW type \in EventType, Emit(r, type)
  PROVE  /\ log' \in Seq(Event)
         /\ \A s \in Run, t \in EventType :
              Logged(s, t)' <=> Logged(s, t) \/ (s = r /\ t = type)
<1> DEFINE e == [run |-> r, type |-> type]
<1>1. e \in Event
  BY DEF Event
<1>2. /\ log' = Append(log, e) /\ log' \in Seq(Event)
      /\ Len(log') = Len(log) + 1 /\ DOMAIN log' = 1 .. Len(log) + 1
      /\ DOMAIN log = 1 .. Len(log) /\ Len(log) \in Nat
      /\ \A i \in 1 .. Len(log) : log'[i] = log[i]
      /\ log'[Len(log) + 1] = e
  BY <1>1 DEF Emit
<1>3. ASSUME NEW s \in Run, NEW t \in EventType
      PROVE  Logged(s, t)' <=> Logged(s, t) \/ (s = r /\ t = type)
  <2>1. ASSUME Logged(s, t)' PROVE Logged(s, t) \/ (s = r /\ t = type)
    <3>1. PICK i \in DOMAIN log' : log'[i] = [run |-> s, type |-> t]
      BY <2>1 DEF Logged
    <3>2. CASE i = Len(log) + 1
      BY <3>1, <3>2, <1>2
    <3>3. CASE i \in 1 .. Len(log)
      BY <3>1, <3>3, <1>2 DEF Logged
    <3>4. QED BY <3>1, <3>2, <3>3, <1>2
  <2>2. ASSUME Logged(s, t) PROVE Logged(s, t)'
    <3>1. PICK i \in DOMAIN log : log[i] = [run |-> s, type |-> t]
      BY <2>2 DEF Logged
    <3>2. i \in DOMAIN log' /\ log'[i] = log[i]
      BY <3>1, <1>2
    <3>3. QED BY <3>1, <3>2 DEF Logged
  <2>3. ASSUME s = r, t = type PROVE Logged(s, t)'
    <3>1. Len(log) + 1 \in DOMAIN log'
      BY <1>2
    <3>2. QED BY <2>3, <3>1, <1>2 DEF Logged
  <2>4. QED BY <2>1, <2>2, <2>3
<1>4. QED BY <1>2, <1>3

(* An action of one run keeps the invariant of the rows. *)
LEMMA RunStepInv ==
  ASSUME RowInv, NEW r \in Run, RunStep(r)
  PROVE  RowInv'
<1> USE DEF RowInv, RowsTyped
<1>1. CASE Create(r)
  BY <1>1 DEF Create, Move, Update, Placed, Recorded, Logged, Status, Place
<1>2. CASE StartThread(r)
  BY <1>2 DEF StartThread, Move, Placed, Recorded, Logged, Place
<1>3. CASE Started(r)
  <2>1. Emit(r, "run_started") /\ "run_started" \in EventType
    BY <1>3 DEF Started, EventType
  <2>2. QED
    BY <1>3, <2>1, EmitLogs DEF Started, Move, Placed, Recorded, Place, EventType, Terminal
<1>4. CASE MarkRunning(r)
  BY <1>4 DEF MarkRunning, Move, Update, Placed, Recorded, Logged, Status, Place
<1>5. CASE Progress(r)
  <2>1. Emit(r, "progress") /\ "progress" \in EventType
    BY <1>5 DEF Progress, EventType
  <2>2. QED
    BY <1>5, <2>1, EmitLogs DEF Progress, Move, Placed, Recorded, Place, EventType, Terminal
<1>6. CASE Completed(r)
  <2>1. Emit(r, "run_completed") /\ "run_completed" \in EventType
    BY <1>6 DEF Completed, EventType, Terminal
  <2>2. QED
    BY <1>6, <2>1, EmitLogs DEF Completed, Move, Placed, Recorded, Place, EventType, Terminal
<1>7. CASE RecordSuccess(r)
  BY <1>7 DEF RecordSuccess, Move, Update, Placed, Recorded, Logged, Status, Place
<1>8. CASE Raise(r)
  BY <1>8 DEF Raise, Move, Placed, Recorded, Logged, Place
<1>9. CASE RecordFailure(r)
  BY <1>9 DEF RecordFailure, Move, Update, Placed, Recorded, Logged, Status, Place
<1>10. CASE EmitFailed(r)
  <2>1. Emit(r, "run_failed") /\ "run_failed" \in EventType
    BY <1>10 DEF EmitFailed, EventType, Terminal
  <2>2. QED
    BY <1>10, <2>1, EmitLogs DEF EmitFailed, Move, Placed, Recorded, Place, EventType, Terminal
<1>11. QED
  BY <1>1, <1>2, <1>3, <1>4, <1>5, <1>6, <1>7, <1>8, <1>9, <1>10 DEF RunStep, ThreadStep

(* What a stream does leaves the invariant of the rows alone. *)
LEMMA StreamOnlyInv == RowInv /\ StreamOnly => RowInv'
BY DEF RowInv, RowsTyped, StreamOnly, Placed, Recorded, Logged

(* A crash loses threads, not rows. *)
LEMMA CrashInv == RowInv /\ Crash => RowInv'
BY DEF RowInv, RowsTyped, Crash, Placed, Recorded, Logged, Place

(* The four kinds of steps. *)
LEMMA StepKinds ==
  ASSUME [Next]_vars
  PROVE  \/ \E r \in Run : RunStep(r)
         \/ StreamOnly
         \/ Crash
BY DEF Next, RunStep, StreamOnly, StreamStep, Deliver, NothingNew, CheckRow, Disconnect, Open,
       vars

(* The invariant of the rows holds in every reachable state. *)
THEOREM RowInvariant == Spec => []RowInv
<1>1. Init => RowInv
  BY DEF Init, RowInv, RowsTyped, Placed, Recorded, Logged, Status, Place
<1>2. RowInv /\ [Next]_vars => RowInv'
  BY StepKinds, RunStepInv, StreamOnlyInv, CrashInv
<1>3. QED BY <1>1, <1>2, PTL DEF Spec

-----------------------------------------------------------------------------
(* A run shown as succeeded has its result and was announced, whenever a crash
   or a fault comes. *)
THEOREM SuccessSafe == Spec => []SucceededHasReport
<1>1. RowInv => SucceededHasReport
  BY DEF RowInv, Recorded, SucceededHasReport
<1>2. QED BY <1>1, RowInvariant, PTL

(* What a run's own step does to the statuses. *)
LEMMA RunStepStatus ==
  ASSUME RowInv, NEW r \in Run, RunStep(r)
  PROVE  /\ row' \in [Run -> [status : Status, result : BOOLEAN]]
         /\ \A s \in Run : s # r => row'[s] = row[s]
         /\ \/ row'[r].status = row[r].status
            \/ row[r].status = "absent" /\ row'[r].status = "queued"
            \/ row[r].status = "queued" /\ row'[r].status \in {"running", "failed"}
            \/ row[r].status = "running" /\ row'[r].status \in {"succeeded", "failed"}
<1>1. row' \in [Run -> [status : Status, result : BOOLEAN]]
  BY RunStepInv DEF RowInv, RowsTyped
<1>2. Placed(r) /\ row \in [Run -> [status : Status, result : BOOLEAN]]
  BY DEF RowInv, RowsTyped
<1>3. CASE Create(r)
  BY <1>1, <1>2, <1>3 DEF Create, Move, Update, Placed
<1>4. CASE MarkRunning(r)
  BY <1>1, <1>2, <1>4 DEF MarkRunning, Move, Update, Placed
<1>5. CASE RecordSuccess(r)
  BY <1>1, <1>2, <1>5 DEF RecordSuccess, Move, Update, Placed
<1>6. CASE RecordFailure(r)
  BY <1>1, <1>2, <1>6 DEF RecordFailure, Move, Update, Placed
<1>7. CASE StartThread(r) \/ Started(r) \/ Progress(r) \/ Completed(r) \/ Raise(r)
           \/ EmitFailed(r)
  BY <1>1, <1>7 DEF StartThread, Started, Progress, Completed, Raise, EmitFailed
<1>8. QED BY <1>3, <1>4, <1>5, <1>6, <1>7 DEF RunStep, ThreadStep

(* The registry decides each run at most once, whatever the threads, faults and
   crashes do: the rows implement the abstract outcome. *)
THEOREM DecidedOnce == Spec => ImplementsOutcome
<1> DEFINE o == [r \in Run |-> CASE row[r].status = "absent" -> "unknown"
                                 [] row[r].status \in {"queued", "running"} -> "pending"
                                 [] OTHER -> row[r].status]
<1>1. Init => Outcome!Init
  BY DEF Init, Outcome!Init
<1>2. RowInv /\ [Next]_vars => [Outcome!Next]_o
  <2> SUFFICES ASSUME RowInv, [Next]_vars PROVE [Outcome!Next]_o
    OBVIOUS
  <2>1. ASSUME NEW r \in Run, RunStep(r) PROVE [Outcome!Next]_o
    <3>1. /\ row \in [Run -> [status : Status, result : BOOLEAN]]
          /\ row' \in [Run -> [status : Status, result : BOOLEAN]]
          /\ \A s \in Run : s # r => row'[s] = row[s]
      BY <2>1, RunStepStatus DEF RowInv, RowsTyped
    <3>2. \A s \in Run : s # r => o'[s] = o[s]
      BY <3>1
    <3>3. CASE o'[r] = o[r]
      BY <3>2, <3>3
    <3>4. CASE o[r] = "unknown" /\ o'[r] = "pending"
      <4>1. o' = [o EXCEPT ![r] = "pending"]
        BY <3>2, <3>4
      <4>2. QED BY <3>4, <4>1 DEF Outcome!Next, Outcome!Accept
    <3>5. CASE o[r] = "pending" /\ o'[r] \in {"succeeded", "failed"}
      <4>1. o' = [o EXCEPT ![r] = o'[r]]
        BY <3>2
      <4>2. QED BY <3>5, <4>1 DEF Outcome!Next, Outcome!Decide
    <3>6. QED
      BY <2>1, <3>1, <3>3, <3>4, <3>5, RunStepStatus
  <2>2. ASSUME UNCHANGED row PROVE [Outcome!Next]_o
    BY <2>2
  <2>3. QED
    BY <2>1, <2>2, StepKinds DEF StreamOnly, Crash
<1>3. QED BY <1>1, <1>2, RowInvariant, PTL DEF Spec, ImplementsOutcome, Outcome!Spec

-----------------------------------------------------------------------------
(* One connection: it was told the events of its run up to its cursor, in
   order, and a failure it was told of is on record. *)
Sound(conn, events, rows) ==
  /\ conn \in Connection
  /\ conn.last \in 0 .. Len(events)
  /\ \A m, n \in DOMAIN conn.told : m < n => conn.told[m] < conn.told[n]
  /\ {conn.told[n] : n \in DOMAIN conn.told} =
       {i \in DOMAIN events : events[i].run = conn.run /\ i <= conn.last}
  /\ conn.end = "run_failed" => rows[conn.run].status = "failed"

StreamInv == /\ stream \in [Stream -> Connection]
             /\ \A c \in Stream : Sound(stream[c], log, row)

(* A connection that has not been opened, or that is opened anew. *)
LEMMA FreshSound ==
  ASSUME NEW r \in Run, NEW pc \in {"idle", "poll"}, NEW events \in Seq(Event), NEW rows
  PROVE  Sound([NoConnection(r) EXCEPT !.pc = pc], events, rows)
<1> DEFINE conn == [NoConnection(r) EXCEPT !.pc = pc]
<1>1. /\ conn.run = r /\ conn.last = 0 /\ conn.told = <<>> /\ conn.end = "none"
      /\ conn.pc = pc
  BY DEF NoConnection
<1>2. conn \in Connection
  <2>1. conn = [pc |-> pc, run |-> r, last |-> 0, told |-> <<>>, end |-> "none"]
    BY DEF NoConnection
  <2>2. <<>> \in Seq(Nat) /\ 0 \in Nat
    OBVIOUS
  <2>3. QED BY <2>1, <2>2 DEF Connection
<1>3. DOMAIN conn.told = {} /\ Len(events) \in Nat /\ DOMAIN events = 1 .. Len(events)
  BY <1>1
<1>4. {conn.told[n] : n \in DOMAIN conn.told} = {}
  BY <1>3
<1>5. {i \in DOMAIN events : events[i].run = conn.run /\ i <= conn.last} = {}
  BY <1>1, <1>3
<1>6. \A m, n \in DOMAIN conn.told : m < n => conn.told[m] < conn.told[n]
  BY <1>3
<1>7. conn.last \in 0 .. Len(events) /\ conn.end # "run_failed"
  BY <1>1, <1>3
<1> HIDE DEF conn
<1>8. Sound(conn, events, rows)
  BY <1>2, <1>4, <1>5, <1>6, <1>7 DEF Sound
<1>9. QED BY <1>8 DEF conn

(* The same for a connection that is not open. *)
LEMMA IdleSound ==
  ASSUME NEW r \in Run, NEW events \in Seq(Event), NEW rows
  PROVE  Sound(NoConnection(r), events, rows)
<1>1. NoConnection(r) = [NoConnection(r) EXCEPT !.pc = "idle"]
  BY DEF NoConnection
<1>2. Sound([NoConnection(r) EXCEPT !.pc = "idle"], events, rows)
  BY FreshSound
<1>3. QED BY <1>1, <1>2

(* What matters of a connection is its run, its cursor, what it was told and
   how it ended. *)
LEMMA SameSound ==
  ASSUME NEW conn, NEW next \in Connection, NEW events, NEW rows,
         Sound(conn, events, rows),
         next.run = conn.run, next.last = conn.last, next.told = conn.told,
         next.end = "run_failed" => rows[next.run].status = "failed"
  PROVE  Sound(next, events, rows)
BY DEF Sound

(* A log that grew by an event after it was read, and a row decided later. *)
LEMMA LaterSound ==
  ASSUME NEW conn, NEW events \in Seq(Event), NEW later \in Seq(Event),
         NEW rows, NEW newRows,
         Sound(conn, events, rows),
         Len(later) >= Len(events), \A i \in DOMAIN events : later[i] = events[i],
         rows[conn.run].status = "failed" => newRows[conn.run].status = "failed"
  PROVE  Sound(conn, later, newRows)
<1>1. /\ Len(events) \in Nat /\ Len(later) \in Nat
      /\ DOMAIN events = 1 .. Len(events) /\ DOMAIN later = 1 .. Len(later)
  OBVIOUS
<1>2. conn.last \in 0 .. Len(events)
  BY DEF Sound
<1>3. {i \in DOMAIN later : later[i].run = conn.run /\ i <= conn.last} =
      {i \in DOMAIN events : events[i].run = conn.run /\ i <= conn.last}
  BY <1>1, <1>2
<1>4. QED BY <1>1, <1>2, <1>3 DEF Sound

(* A step of a run's thread takes nothing back that a stream was told. *)
LEMMA RunStepHeard ==
  ASSUME RowInv, RowInv', StreamInv, NEW r \in Run, RunStep(r)
  PROVE  StreamInv'
<1>1. UNCHANGED stream
  BY DEF RunStep, ThreadStep, Create, StartThread, Started, MarkRunning, Progress, Completed,
         RecordSuccess, RecordFailure, EmitFailed, Raise
<1>2. log \in Seq(Event) /\ log' \in Seq(Event)
  BY DEF RowInv, RowsTyped
<1>3. Len(log') >= Len(log) /\ \A i \in DOMAIN log : log'[i] = log[i]
  <2>1. UNCHANGED log \/ \E type \in EventType : Emit(r, type)
    BY DEF RunStep, ThreadStep, Create, StartThread, Started, MarkRunning, Progress,
           Completed, RecordSuccess, RecordFailure, EmitFailed, Raise, EventType, Terminal
  <2>2. CASE UNCHANGED log
    BY <1>2, <2>2
  <2>3. ASSUME NEW type \in EventType, Emit(r, type)
        PROVE  Len(log') >= Len(log) /\ \A i \in DOMAIN log : log'[i] = log[i]
    <3> DEFINE e == [run |-> r, type |-> type]
    <3>1. log' = Append(log, e) /\ e \in Event
      BY <2>3 DEF Emit, Event
    <3> HIDE DEF e
    <3>2. QED BY <1>2, <3>1
  <2>4. QED BY <2>1, <2>2, <2>3
<1>4. ASSUME NEW c \in Stream PROVE Sound(stream[c], log', row')
  <2>1. Sound(stream[c], log, row) /\ stream[c].run \in Run
    BY DEF StreamInv, Connection
  <2>2. row[stream[c].run].status = "failed" => row'[stream[c].run].status = "failed"
    BY <2>1, RunStepStatus
  <2>3. QED BY <1>2, <1>3, <2>1, <2>2, LaterSound
<1>5. QED BY <1>1, <1>4 DEF StreamInv

(* What an append does to a sequence of ids. *)
LEMMA AppendKeeps ==
  ASSUME NEW told \in Seq(Nat), NEW i \in Nat
  PROVE  /\ Append(told, i) \in Seq(Nat)
         /\ DOMAIN told = 1 .. Len(told) /\ Len(told) \in Nat
         /\ DOMAIN Append(told, i) = 1 .. Len(told) + 1
         /\ \A n \in 1 .. Len(told) : Append(told, i)[n] = told[n] /\ told[n] \in Nat
         /\ Append(told, i)[Len(told) + 1] = i
<1>1. Append(told, i) \in Seq(Nat) /\ Len(told) \in Nat /\ DOMAIN told = 1 .. Len(told)
  OBVIOUS
<1>2. Len(Append(told, i)) = Len(told) + 1 /\ Append(told, i)[Len(told) + 1] = i
  OBVIOUS
<1>3. ASSUME NEW n \in 1 .. Len(told) PROVE Append(told, i)[n] = told[n] /\ told[n] \in Nat
  OBVIOUS
<1>4. QED BY <1>1, <1>2, <1>3

(* Sending the next event keeps the order and leaves none out. *)
LEMMA DeliverSound ==
  ASSUME RowInv, StreamInv, NEW c \in Stream, Deliver(c)
  PROVE  \E next : stream' = [stream EXCEPT ![c] = next] /\ Sound(next, log, row)
<1> DEFINE conn == stream[c]
           told == conn.told
           new == EventsAfter(conn.run, conn.last)
           Next1(i) == [pc |-> IF log[i].type \in Terminal THEN "closed" ELSE "poll",
                        run |-> conn.run, last |-> i, told |-> Append(conn.told, i),
                        end |-> IF log[i].type \in Terminal THEN log[i].type ELSE "none"]
<1>1. /\ conn \in Connection /\ Sound(conn, log, row)
      /\ log \in Seq(Event) /\ DOMAIN log = 1 .. Len(log) /\ Len(log) \in Nat
  BY DEF StreamInv, RowInv, RowsTyped
<1>2. PICK i \in new : /\ \A j \in new : i <= j
                       /\ stream' = [stream EXCEPT ![c] = Next1(i)]
  BY DEF Deliver
<1>3. /\ i \in 1 .. Len(log) /\ i \in Nat /\ log[i].run = conn.run /\ i > conn.last
      /\ log[i] \in Event /\ log[i].type \in EventType
      /\ log[i] = [run |-> log[i].run, type |-> log[i].type]
  <2>1. i \in DOMAIN log /\ log[i].run = conn.run /\ i > conn.last
    BY <1>2 DEF EventsAfter
  <2>2. log[i] \in Event
    BY <1>1, <2>1
  <2>3. log[i].type \in EventType /\ log[i] = [run |-> log[i].run, type |-> log[i].type]
    BY <2>2 DEF Event
  <2>4. QED BY <1>1, <2>1, <2>2, <2>3
<1>4. /\ conn.run \in Run /\ told \in Seq(Nat) /\ conn.last \in Nat
      /\ conn.last <= Len(log)
  BY <1>1 DEF Connection, Sound
<1> DEFINE more == Append(told, i)
<1>5. /\ more \in Seq(Nat)
      /\ DOMAIN told = 1 .. Len(told) /\ Len(told) \in Nat
      /\ DOMAIN more = 1 .. Len(told) + 1
      /\ \A n \in 1 .. Len(told) : more[n] = told[n] /\ told[n] \in Nat
      /\ more[Len(told) + 1] = i
  BY <1>3, <1>4, AppendKeeps
<1>6. /\ Next1(i).run = conn.run /\ Next1(i).last = i /\ Next1(i).told = more
      /\ Next1(i).end = "run_failed" => log[i].type = "run_failed"
  OBVIOUS
<1>7. Next1(i) \in Connection
  BY <1>3, <1>4, <1>5 DEF Connection
<1>8. {told[n] : n \in DOMAIN told} =
      {j \in DOMAIN log : log[j].run = conn.run /\ j <= conn.last}
  BY <1>1 DEF Sound
<1>9. \A m, n \in DOMAIN told : m < n => told[m] < told[n]
  BY <1>1 DEF Sound
<1>10. Next1(i).end = "run_failed" => row[conn.run].status = "failed"
  <2>1. ASSUME Next1(i).end = "run_failed" PROVE Logged(conn.run, "run_failed")
    BY <1>1, <1>3, <1>6, <2>1 DEF Logged
  <2>2. QED BY <1>4, <2>1 DEF RowInv, Recorded
<1>11. \A j \in 1 .. Len(log) : log[j].run = conn.run /\ j > conn.last => i <= j
  BY <1>1, <1>2 DEF EventsAfter
<1> HIDE DEF conn, more, told, Next1, new
<1>12. \A n \in DOMAIN told : told[n] < i
  <2>1. TAKE n \in DOMAIN told
  <2>2. told[n] \in {j \in DOMAIN log : log[j].run = conn.run /\ j <= conn.last}
    BY <1>8
  <2>3. QED BY <1>1, <1>3, <1>4, <2>2
<1>13. \A m, n \in DOMAIN more : m < n => more[m] < more[n]
  <2>1. TAKE m, n \in DOMAIN more
  <2>2. HAVE m < n
  <2>3. m \in DOMAIN told /\ more[m] = told[m]
    BY <1>5, <2>2
  <2>4. CASE n \in DOMAIN told
    BY <1>5, <1>9, <2>2, <2>3, <2>4
  <2>5. CASE n = Len(told) + 1
    BY <1>5, <1>12, <2>3, <2>5
  <2>6. QED BY <1>5, <2>4, <2>5
<1>14. {more[n] : n \in DOMAIN more} = {told[n] : n \in DOMAIN told} \cup {i}
  BY <1>5
<1>15. {j \in DOMAIN log : log[j].run = conn.run /\ j <= i} =
       {j \in DOMAIN log : log[j].run = conn.run /\ j <= conn.last} \cup {i}
  BY <1>1, <1>3, <1>4, <1>11
<1>16. Sound(Next1(i), log, row)
  <2>1. i \in 0 .. Len(log)
    BY <1>1, <1>3
  <2>2. {more[n] : n \in DOMAIN more} = {j \in DOMAIN log : log[j].run = conn.run /\ j <= i}
    BY <1>8, <1>14, <1>15
  <2> DEFINE next == Next1(i)
  <2>3. /\ next.run = conn.run /\ next.last = i /\ next.told = more /\ next \in Connection
        /\ next.end = "run_failed" => row[conn.run].status = "failed"
    BY <1>6, <1>7, <1>10
  <2> HIDE DEF next
  <2>4. Sound(next, log, row)
    BY <1>13, <2>1, <2>2, <2>3 DEF Sound
  <2>5. QED BY <2>4 DEF next
<1>17. QED BY <1>2, <1>16

(* Every step of a connection leaves it sound: it sends an event, moves on, ends
   with the row's status, or starts over. *)
LEMMA StreamStepHeard ==
  ASSUME RowInv, StreamInv, NEW c \in Stream,
         StreamStep(c) \/ Disconnect(c) \/ \E r \in Run : Open(c, r)
  PROVE  StreamInv'
<1>1. /\ stream \in [Stream -> Connection] /\ Sound(stream[c], log, row)
      /\ stream[c] \in Connection /\ stream[c].run \in Run /\ log \in Seq(Event)
  BY DEF StreamInv, Connection, RowInv, RowsTyped
<1>2. UNCHANGED <<row, log>>
  BY DEF StreamStep, Deliver, NothingNew, CheckRow, Disconnect, Open
<1>3. \E next : stream' = [stream EXCEPT ![c] = next] /\ Sound(next, log, row)
  <2>1. CASE Deliver(c)
    BY <2>1, DeliverSound
  <2>2. CASE NothingNew(c)
    <3> DEFINE next == [stream[c] EXCEPT !.pc = "check"]
    <3>1. stream' = [stream EXCEPT ![c] = next]
      BY <2>2 DEF NothingNew
    <3>2. /\ next \in Connection /\ next.run = stream[c].run /\ next.last = stream[c].last
          /\ next.told = stream[c].told /\ next.end = stream[c].end
      BY <1>1 DEF Connection
    <3>3. stream[c].end = "run_failed" => row[stream[c].run].status = "failed"
      BY <1>1 DEF Sound
    <3> HIDE DEF next
    <3>4. Sound(next, log, row)
      BY <1>1, <3>2, <3>3, SameSound
    <3>5. QED BY <3>1, <3>4
  <2>3. CASE CheckRow(c)
    <3>1. PICK next :
            /\ stream' = [stream EXCEPT ![c] = next]
            /\ \/ next = [stream[c] EXCEPT !.pc = "closed", !.end = "run_completed"]
               \/ /\ next = [stream[c] EXCEPT !.pc = "closed", !.end = "run_failed"]
                  /\ row[stream[c].run].status = "failed"
               \/ next = [stream[c] EXCEPT !.pc = "poll"]
      BY <2>3 DEF CheckRow
    <3>2. /\ next \in Connection /\ next.run = stream[c].run /\ next.last = stream[c].last
          /\ next.told = stream[c].told
      BY <1>1, <3>1 DEF Connection, Terminal
    <3>3. next.end = "run_failed" => row[stream[c].run].status = "failed"
      <4>1. stream[c].end = "run_failed" => row[stream[c].run].status = "failed"
        BY <1>1 DEF Sound
      <4>2. QED BY <1>1, <3>1, <4>1 DEF Connection
    <3>4. Sound(next, log, row)
      BY <1>1, <3>2, <3>3, SameSound
    <3>5. QED BY <3>1, <3>4
  <2>4. CASE Disconnect(c)
    <3>1. Sound(NoConnection(stream[c].run), log, row)
      BY <1>1, IdleSound
    <3>2. QED BY <2>4, <3>1 DEF Disconnect
  <2>5. CASE \E r \in Run : Open(c, r)
    BY <1>1, <2>5, FreshSound DEF Open
  <2>6. QED BY <2>1, <2>2, <2>3, <2>4, <2>5 DEF StreamStep
<1>4. PICK next : stream' = [stream EXCEPT ![c] = next] /\ Sound(next, log, row)
  BY <1>3
<1>5. next \in Connection
  BY <1>4 DEF Sound
<1>6. stream' \in [Stream -> Connection]
  BY <1>1, <1>4, <1>5
<1>7. ASSUME NEW d \in Stream PROVE Sound(stream'[d], log', row')
  <2>1. CASE d = c
    <3>1. stream'[d] = next
      BY <1>1, <1>4, <2>1
    <3>2. QED BY <1>2, <1>4, <3>1
  <2>2. CASE d # c
    <3>1. stream'[d] = stream[d]
      BY <1>1, <1>4, <2>2
    <3>2. QED BY <1>2, <3>1 DEF StreamInv
  <2>3. QED BY <2>1, <2>2
<1>8. QED BY <1>6, <1>7 DEF StreamInv

(* A crash closes the connections that were open and spares the others. *)
LEMMA CrashHeard ==
  ASSUME RowInv, StreamInv, Crash
  PROVE  StreamInv'
<1>1. log \in Seq(Event) /\ UNCHANGED <<row, log>>
  BY DEF RowInv, RowsTyped, Crash
<1>2. ASSUME NEW c \in Stream PROVE Sound(stream'[c], log, row)
  <2>1. Sound(stream[c], log, row) /\ stream[c].run \in Run
    BY DEF StreamInv, Connection
  <2>2. Sound(NoConnection(stream[c].run), log, row)
    BY <1>1, <2>1, IdleSound
  <2>3. stream'[c] = stream[c] \/ stream'[c] = NoConnection(stream[c].run)
    BY DEF Crash
  <2>4. QED BY <2>1, <2>2, <2>3
<1>3. \A c \in Stream : stream'[c] \in Connection
  BY <1>2 DEF Sound
<1>4. stream' \in [Stream -> Connection]
  BY <1>3 DEF Crash
<1>5. QED BY <1>1, <1>2, <1>4 DEF StreamInv

(* The invariant of the streams holds in every reachable state. *)
THEOREM StreamInvariant == Spec => []StreamInv
<1>1. Init => StreamInv
  <2> SUFFICES ASSUME Init PROVE StreamInv
    OBVIOUS
  <2>1. log \in Seq(Event) /\ stream \in [Stream -> {NoConnection(r) : r \in Run}]
    BY DEF Init
  <2>2. ASSUME NEW c \in Stream PROVE Sound(stream[c], log, row)
    <3>1. PICK r \in Run : stream[c] = NoConnection(r)
      BY <2>1
    <3>2. Sound(NoConnection(r), log, row)
      BY <2>1, IdleSound
    <3>3. QED BY <3>1, <3>2
  <2>3. \A c \in Stream : stream[c] \in Connection
    BY <2>2 DEF Sound
  <2>4. stream \in [Stream -> Connection]
    BY <2>1, <2>3
  <2>5. QED BY <2>2, <2>4 DEF StreamInv
<1>2. RowInv /\ RowInv' /\ StreamInv /\ [Next]_vars => StreamInv'
  <2> SUFFICES ASSUME RowInv, RowInv', StreamInv, [Next]_vars PROVE StreamInv'
    OBVIOUS
  <2>1. CASE \E r \in Run : RunStep(r)
    BY <2>1, RunStepHeard
  <2>2. CASE \E c \in Stream : StreamStep(c) \/ Disconnect(c) \/ \E r \in Run : Open(c, r)
    BY <2>2, StreamStepHeard
  <2>3. CASE Crash
    BY <2>3, CrashHeard
  <2>4. CASE UNCHANGED vars
    BY <2>4 DEF vars, StreamInv
  <2>5. QED BY <2>1, <2>2, <2>3, <2>4 DEF Next, RunStep
<1>3. QED BY <1>1, <1>2, RowInvariant, PTL DEF Spec

(* Type correctness. *)
THEOREM TypeCorrect == Spec => []TypeOK
<1>1. RowInv /\ StreamInv => TypeOK
  BY DEF RowInv, RowsTyped, StreamInv, TypeOK
<1>2. QED BY <1>1, RowInvariant, StreamInvariant, PTL

(* However events of several runs interleave in the log, and whenever a stream
   is opened, it tells its run's events in order, none twice, none left out. *)
THEOREM OrderSafe == Spec => []ToldInOrder
<1>1. StreamInv => ToldInOrder
  BY DEF StreamInv, Sound, ToldInOrder
<1>2. QED BY <1>1, StreamInvariant, PTL

(* A failure the log or a stream tells of is on record. *)
THEOREM FailureSafe == Spec => []FailureOnRecord
<1>1. RowInv /\ StreamInv => FailureOnRecord
  BY DEF RowInv, Recorded, StreamInv, Sound, FailureOnRecord
<1>2. QED BY <1>1, RowInvariant, StreamInvariant, PTL

-----------------------------------------------------------------------------
(* The start of the process, for any packaged texts and any number of crashes:
   the index agrees with the corpus, and a process that is up has something to
   search, and everything unless a start was cut short. *)
Full(texts) == \A d \in Doc : texts[d] = "whole"

(* What each phase can rely on.  That a corpus with any text and an index with
   any document are left as they are is sound only together: texts are copied
   while nothing is indexed. *)
PhaseInv ==
  /\ phase = "seeding" => Empty(index) /\ \A d \in Doc \ todo : corpus[d] = "whole"
  /\ phase \in {"counting", "indexing", "up"} => ~Empty(corpus)
  /\ phase = "indexing" => \A d \in Doc \ todo : index[d] = corpus[d]
  /\ phase = "up" => ~Empty(index)

(* While no start was cut short. *)
UncutInv ==
  ~cut => /\ phase = "down" => (Empty(corpus) /\ Empty(index)) \/ (Full(corpus) /\ Full(index))
          /\ phase \in {"counting", "indexing", "up"} => Full(corpus)
          /\ phase = "counting" => Empty(index) \/ Full(index)
          /\ phase = "up" => Full(index)

CorpusInv == CorpusTypeOK /\ IndexAgrees /\ PhaseInv /\ UncutInv

LEMMA SomeText == \E d : d \in Doc
BY PackagedAssumption DEF Doc

LEMMA CorpusInitInv == CorpusInit => CorpusInv
BY DEF CorpusInit, CorpusInv, CorpusTypeOK, IndexAgrees, PhaseInv, UncutInv, Phase, Text,
       Empty, Full

LEMMA StartInv == CorpusInv /\ StartStep => CorpusInv'
<1> SUFFICES ASSUME CorpusInv, StartStep PROVE CorpusInv'
  OBVIOUS
<1> USE DEF CorpusInv, CorpusTypeOK, IndexAgrees, PhaseInv, UncutInv, Phase, Text, Empty, Full
<1>1. CASE StartUp
  BY <1>1 DEF StartUp
<1>2. CASE Seeded
  BY <1>2, SomeText DEF Seeded
<1>3. CASE Count
  BY <1>3 DEF Count
<1>4. CASE Indexed
  BY <1>4 DEF Indexed
<1>5. ASSUME NEW d \in Doc, CopyBegins(d) PROVE CorpusInv'
  BY <1>5 DEF CopyBegins
<1>6. ASSUME NEW d \in Doc, CopyEnds(d) PROVE CorpusInv'
  BY <1>6 DEF CopyEnds
<1>7. ASSUME NEW d \in Doc, IndexDocument(d) PROVE CorpusInv'
  BY <1>7 DEF IndexDocument
<1>8. QED BY <1>1, <1>2, <1>3, <1>4, <1>5, <1>6, <1>7 DEF StartStep

LEMMA DieInv == CorpusInv /\ Die => CorpusInv'
BY DEF Die, CorpusInv, CorpusTypeOK, IndexAgrees, PhaseInv, UncutInv, Phase, Text, Empty, Full

(* The invariant holds through any starts and crashes. *)
THEOREM CorpusInvariant == CorpusSpec => []CorpusInv
<1>1. CorpusInit => CorpusInv
  BY CorpusInitInv
<1>2. CorpusInv /\ [CorpusNext]_corpusVars => CorpusInv'
  <2> SUFFICES ASSUME CorpusInv, [CorpusNext]_corpusVars PROVE CorpusInv'
    OBVIOUS
  <2>1. CASE CorpusNext
    BY <2>1, StartInv, DieInv DEF CorpusNext
  <2>2. CASE UNCHANGED corpusVars
    BY <2>2 DEF corpusVars, CorpusInv, CorpusTypeOK, IndexAgrees, PhaseInv, UncutInv, Empty,
                Full
  <2>3. QED BY <2>1, <2>2
<1>3. QED BY <1>1, <1>2, PTL DEF CorpusSpec

(* Whatever crashes come, a document of the index has the text its file has. *)
THEOREM IndexSafe == CorpusSpec => []IndexAgrees
<1>1. CorpusInv => IndexAgrees
  BY DEF CorpusInv
<1>2. QED BY <1>1, CorpusInvariant, PTL

(* A process that is up has something to search; if no start was cut short, it
   has all the packaged texts, whole. *)
THEOREM SearchSafe == CorpusSpec => []SearchableOnceUp
<1>1. CorpusInv => SearchableOnceUp
  BY DEF CorpusInv, PhaseInv, UncutInv, SearchableOnceUp, Full
<1>2. QED BY <1>1, CorpusInvariant, PTL

-----------------------------------------------------------------------------
(* A behaviour keeps to the load it has begun with. *)
LoadInv == load \in Loads /\ deaths \in Nat

LEMMA LoadInvariant == ServiceSpec => []LoadInv
<1>1. ServiceInit => LoadInv
  BY DEF ServiceInit, LoadInv
<1>2. LoadInv /\ [ServiceNext]_serviceVars => LoadInv'
  BY DEF LoadInv, ServiceNext, serviceVars, Starts, ProcessDies, Happens, Executes, Streams,
         Reads
<1>3. QED BY <1>1, <1>2, PTL DEF ServiceSpec

LEMMA LoadBounds ==
  ASSUME LoadInv
  PROVE  load.runs \subseteq Run /\ load.streams \subseteq Stream /\ load.readers \subseteq Reader
BY ServiceAssumption DEF LoadInv

(* Composed with requests, money and the start, runs and streams are those of
   RunLifecycle. *)
THEOREM ServiceImplementsLifecycle == ServiceSpec => LifecycleSpec
<1>1. ServiceInit => Init
  BY DEF ServiceInit
<1>2. LoadInv /\ [ServiceNext]_serviceVars => [Next]_vars
  <2> SUFFICES ASSUME LoadInv, [ServiceNext]_serviceVars, vars' # vars PROVE Next
    OBVIOUS
  <2>1. CASE ProcessDies
    BY <2>1 DEF ProcessDies, Next
  <2>2. CASE Happens
    BY <2>2, LoadBounds DEF Happens, Pay, Next
  <2>3. ASSUME NEW r \in Run, Executes(r) PROVE Next
    BY <2>3 DEF Executes, ThreadSteps, Succeed, Fail, ThreadStep, Next
  <2>4. ASSUME NEW c \in Stream, Streams(c) PROVE Next
    BY <2>4 DEF Streams, Next
  <2>5. QED
    BY <2>1, <2>2, <2>3, <2>4 DEF ServiceNext, Starts, Reads, serviceVars
<1>3. QED BY <1>1, <1>2, LoadInvariant, PTL DEF ServiceSpec, LifecycleSpec, Spec

(* Its start, and its deaths, are those of CorpusIndex. *)
THEOREM ServiceImplementsCorpus == ServiceSpec => CorpusSpec
<1>1. ServiceInit => CorpusInit
  BY DEF ServiceInit
<1>2. [ServiceNext]_serviceVars => [CorpusNext]_corpusVars
  BY DEF ServiceNext, serviceVars, Starts, ProcessDies, Happens, Executes, Streams, Reads,
         CorpusNext
<1>3. QED BY <1>1, <1>2, PTL DEF ServiceSpec, CorpusSpec

(* What is proved of the runs, the streams and the index on their own holds of
   the service. *)
THEOREM ServiceSafe ==
  ServiceSpec => /\ []ToldInOrder /\ []SucceededHasReport /\ []FailureOnRecord
                 /\ []IndexAgrees /\ []SearchableOnceUp
                 /\ ImplementsOutcome
BY ServiceImplementsLifecycle, ServiceImplementsCorpus, OrderSafe, SuccessSafe, FailureSafe,
   IndexSafe, SearchSafe, DecidedOnce, PTL DEF LifecycleSpec

-----------------------------------------------------------------------------
(* What the rows, the ledger and the history say of one run's money.  The
   ledger has everything or, after a crash, nothing; nobody looks at it to
   record the cost but the run's own thread, before any crash. *)
Decided(r) == row[r].status \in {"succeeded", "failed"}

Money(r) ==
  /\ ledger[r] \in {0, paid[r]} /\ cost[r] <= paid[r]
  /\ thread[r] \notin {"ended", "lost"} => ledger[r] = paid[r]
  /\ thread[r] = "none" => paid[r] = 0
  /\ thread[r] = "ended" => Decided(r)
  /\ Decided(r) => cost[r] = paid[r]

MoneyTyped == ledger \in [Run -> Nat] /\ cost \in [Run -> Nat] /\ paid \in [Run -> Nat]

MoneyInv == MoneyTyped /\ \A r \in Run : Money(r)

(* Whether a step moves the run's thread, records its outcome, or charges it. *)
Moves(r) ==
  /\ \/ Create(r) \/ StartThread(r) \/ Started(r) \/ MarkRunning(r) \/ Progress(r)
     \/ Completed(r) \/ EmitFailed(r) \/ Raise(r)
  /\ UNCHANGED <<moneyVars, reader>>

Records(r) == (Succeed(r) \/ Fail(r)) /\ UNCHANGED reader
Charges(r) == Pay(r) /\ UNCHANGED reader
Asks(d) ==
  /\ \/ \E r \in Run : AskReport(d, r) \/ AskStatus(d, r)
     \/ ReaderStep(d)
  /\ UNCHANGED <<row, thread, moneyVars>>
Elsewhere == UNCHANGED <<row, thread, moneyVars, reader>>

LEMMA ServiceKinds ==
  ASSUME LoadInv, [ServiceNext]_serviceVars
  PROVE  \/ \E r \in Run : Moves(r) \/ Records(r) \/ Charges(r)
         \/ \E d \in Reader : Asks(d)
         \/ ProcessDies
         \/ Elsewhere
<1>1. CASE Happens
  <2>1. ASSUME NEW c \in Stream, Disconnect(c) \/ \E r \in Run : Open(c, r)
        PROVE  UNCHANGED <<row, thread>>
    BY <2>1 DEF Disconnect, Open
  <2>2. QED
    BY <1>1, <2>1, LoadBounds DEF Happens, Moves, Charges, Asks, Elsewhere, vars
<1>2. ASSUME NEW r \in Run, Executes(r) PROVE Moves(r) \/ Records(r)
  BY <1>2 DEF Executes, ThreadSteps, Moves, Records
<1>3. ASSUME NEW c \in Stream, Streams(c) PROVE Elsewhere
  BY <1>3 DEF Streams, StreamStep, Deliver, NothingNew, CheckRow, Elsewhere
<1>4. ASSUME NEW d \in Reader, Reads(d) PROVE Asks(d)
  BY <1>4 DEF Reads, Asks, vars
<1>5. CASE Starts \/ UNCHANGED serviceVars
  BY <1>5 DEF Starts, Elsewhere, vars, serviceVars
<1>6. QED BY <1>1, <1>2, <1>3, <1>4, <1>5 DEF ServiceNext

(* The steps of a thread that neither record nor charge. *)
LEMMA MovesKeep ==
  ASSUME RowInv, NEW r \in Run, Moves(r)
  PROVE  /\ \A s \in Run : s # r => row'[s] = row[s] /\ thread'[s] = thread[s]
         /\ thread[r] \notin {"ended", "lost"}
         /\ thread'[r] = "ended" => thread[r] = "reporting"
         /\ thread'[r] # "none"
         /\ row'[r].status \in {"succeeded", "failed"} <=> Decided(r)
         /\ Decided(r) => row'[r].status = row[r].status
BY DEF RowInv, RowsTyped, Placed, Moves, Create, StartThread, Started, MarkRunning, Progress,
       Completed, EmitFailed, Raise, Move, Update, Decided

LEMMA MoneyStep ==
  ASSUME RowInv, MoneyInv, LoadInv, [ServiceNext]_serviceVars
  PROVE  MoneyInv'
<1> USE DEF MoneyInv, MoneyTyped
<1>1. ASSUME NEW r \in Run, Moves(r) PROVE MoneyInv'
  <2>1. UNCHANGED moneyVars
    BY <1>1 DEF Moves
  <2>2. Placed(r)
    BY DEF RowInv
  <2>3. \A s \in Run : Money(s)'
    BY <1>1, <2>1, <2>2, MovesKeep DEF Money, Decided, moneyVars, Placed
  <2>4. QED BY <2>1, <2>3 DEF moneyVars
<1>2. ASSUME NEW r \in Run, Records(r) PROVE MoneyInv'
  <2>1. /\ thread[r] \in {"finished", "failing"} /\ thread' \in [Run -> Place]
        /\ thread'[r] \in {"ended", "reporting"}
        /\ row'[r].status \in {"succeeded", "failed"}
        /\ \A s \in Run : s # r => row'[s] = row[s] /\ thread'[s] = thread[s]
        /\ cost' = [cost EXCEPT ![r] = ledger[r]] /\ UNCHANGED <<ledger, paid>>
    <3>1. RowsTyped
      BY DEF RowInv
    <3>2. CASE Succeed(r)
      BY <3>1, <3>2 DEF Succeed, RecordSuccess, RowGetsCost, Move, Update, RowsTyped, Place
    <3>3. CASE Fail(r)
      BY <3>1, <3>3 DEF Fail, RecordFailure, RowGetsCost, Move, Update, RowsTyped, Place
    <3>4. QED BY <1>2, <3>2, <3>3 DEF Records
  <2>2. Money(r)'
    <3>1. ledger[r] = paid[r] /\ ledger'[r] = ledger[r] /\ paid'[r] = paid[r]
          /\ cost'[r] = ledger[r] /\ paid[r] \in Nat
      BY <2>1 DEF Money
    <3>2. QED BY <2>1, <3>1 DEF Money, Decided
  <2>3. ASSUME NEW s \in Run, s # r PROVE Money(s)'
    BY <2>1, <2>3 DEF Money, Decided
  <2>4. QED BY <2>1, <2>2, <2>3
<1>3. ASSUME NEW r \in Run, Charges(r) PROVE MoneyInv'
  <2>1. /\ thread[r] = "graph" /\ UNCHANGED <<row, thread, cost>>
        /\ ledger' = [ledger EXCEPT ![r] = @ + 1] /\ paid' = [paid EXCEPT ![r] = @ + 1]
    BY <1>3 DEF Charges, Pay, vars
  <2>2. ~Decided(r)
    BY <2>1 DEF RowInv, Placed, Decided
  <2>3. \A s \in Run : Money(s)'
    BY <2>1, <2>2 DEF Money, Decided
  <2>4. QED BY <2>1, <2>3
<1>4. CASE ProcessDies
  <2>1. /\ UNCHANGED <<row, cost, paid>> /\ ledger' = [r \in Run |-> 0]
        /\ thread' = [r \in Run |-> IF thread[r] \in {"none", "ended"} THEN thread[r] ELSE "lost"]
    BY <1>4 DEF ProcessDies, Crash
  <2>2. ASSUME NEW r \in Run PROVE Money(r)'
    <3>1. thread[r] = "none" => paid[r] = 0
      BY DEF Money
    <3>2. QED BY <2>1, <3>1 DEF Money, Decided
  <2>3. QED BY <2>1, <2>2
<1>5. ASSUME UNCHANGED <<row, thread, moneyVars>> PROVE MoneyInv'
  BY <1>5 DEF Money, Decided, moneyVars
<1>6. QED
  BY <1>1, <1>2, <1>3, <1>4, <1>5, ServiceKinds DEF Asks, Elsewhere

(* Whoever is charged later, or loses the ledger, an outcome that was read and
   its cost stay what they were. *)
Outdates(r) ==
  /\ paid[r] <= paid'[r]
  /\ Decided(r) => row'[r].status = row[r].status /\ paid'[r] = paid[r]
  /\ thread[r] = "lost" => thread'[r] = "lost"

(* While the process lives, the ledger keeps up with what is charged. *)
KeepsUp(r) ==
  \/ paid'[r] = paid[r] /\ ledger'[r] = ledger[r]
  \/ ledger'[r] = paid'[r]

LEMMA StepOutdates ==
  ASSUME RowInv, MoneyInv, LoadInv, [ServiceNext]_serviceVars, NEW s \in Run
  PROVE  /\ Outdates(s)
         /\ ProcessDies \/ KeepsUp(s)
<1> USE DEF MoneyInv, MoneyTyped
<1>1. ASSUME NEW r \in Run, Moves(r) PROVE Outdates(s) /\ KeepsUp(s)
  BY <1>1, MovesKeep DEF Moves, moneyVars, Outdates, KeepsUp, Decided
<1>2. ASSUME NEW r \in Run, Records(r) PROVE Outdates(s) /\ KeepsUp(s)
  <2>1. /\ thread[r] \in {"finished", "failing"}
        /\ \A q \in Run : q # r => row'[q] = row[q] /\ thread'[q] = thread[q]
        /\ UNCHANGED <<ledger, paid>>
    <3>1. RowsTyped
      BY DEF RowInv
    <3>2. QED BY <1>2, <3>1 DEF Records, Succeed, Fail, RecordSuccess, RecordFailure,
                                RowGetsCost, Move, Update, RowsTyped
  <2>2. ~Decided(r)
    BY <2>1 DEF RowInv, Placed, Decided
  <2>3. QED BY <2>1, <2>2 DEF Outdates, KeepsUp, Decided
<1>3. ASSUME NEW r \in Run, Charges(r) PROVE Outdates(s) /\ KeepsUp(s)
  <2>1. /\ thread[r] = "graph" /\ UNCHANGED <<row, thread>>
        /\ ledger' = [ledger EXCEPT ![r] = @ + 1] /\ paid' = [paid EXCEPT ![r] = @ + 1]
    BY <1>3 DEF Charges, Pay, vars
  <2>2. ~Decided(r) /\ ledger[r] = paid[r]
    BY <2>1 DEF RowInv, Placed, Decided, Money
  <2>3. QED BY <2>1, <2>2 DEF Outdates, KeepsUp, Decided
<1>4. CASE ProcessDies
  BY <1>4 DEF ProcessDies, Crash, Outdates, Decided
<1>5. ASSUME UNCHANGED <<row, thread, moneyVars>> PROVE Outdates(s) /\ KeepsUp(s)
  BY <1>5 DEF moneyVars, Outdates, KeepsUp, Decided
<1>6. QED
  BY <1>1, <1>2, <1>3, <1>4, <1>5, ServiceKinds DEF Asks, Elsewhere

(* What a request has read so far, and what it told. *)
Told(answer) ==
  LET r == answer.run
  IN /\ answer.pc \in {"result", "report"} => answer.about = "report"
     /\ answer.pc = "ledger" => answer.about = "status"
     /\ answer.pc # "idle" =>
          /\ answer.status # "absent"
          /\ answer.cost <= paid[r] /\ answer.low <= paid[r]
          /\ answer.status \in {"succeeded", "failed"} =>
               row[r].status = answer.status /\ answer.cost = paid[r]
     /\ answer.pc \in {"report", "told"} /\ answer.about = "report" =>
          /\ answer.status = "succeeded" => answer.result
          /\ answer.result => row[r].status = "succeeded"
     /\ answer.pc = "told" /\ answer.about = "report" =>
          /\ answer.result => answer.report
          /\ answer.report => row[r].status = "succeeded"
     /\ answer.pc = "ledger" =>
          thread[r] = "lost" \/ answer.cost = paid[r] \/ ledger[r] = paid[r]
     /\ answer.pc = "told" /\ answer.about = "status" /\ thread[r] # "lost" =>
          answer.cost >= answer.low

AnswerInv == reader \in [Reader -> Request] /\ \A d \in Reader : Told(reader[d])

LEMMA TellsTruth ==
  ASSUME RowInv, MoneyInv, AnswerInv
  PROVE  AnswerConsistent /\ CostTold
BY DEF AnswerInv, Told, AnswerConsistent, CostTold, Request

(* An answer stays true whatever happens while nobody reads. *)
LEMMA ToldStays ==
  ASSUME RowInv, MoneyInv, MoneyTyped', NEW answer \in Request, Told(answer),
         Outdates(answer.run),
         KeepsUp(answer.run) \/ answer.pc = "told"
  PROVE  Told(answer)'
<1> DEFINE r == answer.run
<1>1. /\ r \in Run /\ answer.cost \in Nat /\ answer.low \in Nat
      /\ paid[r] \in Nat /\ paid'[r] \in Nat /\ ledger[r] \in Nat /\ ledger'[r] \in Nat
  BY DEF Request, MoneyInv, MoneyTyped
<1>2. \A status \in {"succeeded", "failed"} : row[r].status = status =>
        row'[r].status = status /\ paid'[r] = paid[r]
  BY DEF Outdates, Decided
<1>3. QED BY <1>1, <1>2 DEF Told, Outdates, KeepsUp

(* The steps of requests. *)
LEMMA AskTold ==
  ASSUME RowInv, MoneyInv, AnswerInv, NEW d \in Reader, NEW r \in Run,
         AskReport(d, r) \/ AskStatus(d, r)
  PROVE  /\ reader' \in [Reader -> Request] /\ Told(reader'[d])
         /\ \A e \in Reader : e # d => reader'[e] = reader[e]
<1> USE DEF AnswerInv
<1>1. /\ row[r].status \in Status \ {"absent"}
      /\ cost[r] \in Nat /\ paid[r] \in Nat /\ cost[r] <= paid[r]
      /\ Decided(r) => cost[r] = paid[r]
      /\ thread[r] = "lost" \/ cost[r] = paid[r] \/ ledger[r] = paid[r]
  BY DEF RowInv, RowsTyped, MoneyInv, MoneyTyped, Money, AskReport, AskStatus
<1> DEFINE New(pc, about) ==
             [pc |-> pc, about |-> about, run |-> r, status |-> row[r].status,
              result |-> FALSE, report |-> FALSE, cost |-> cost[r], low |-> paid[r]]
<1>2. New("result", "report") \in Request /\ New("ledger", "status") \in Request
  BY <1>1 DEF Request
<1>3. Told(New("result", "report")) /\ Told(New("ledger", "status"))
  BY <1>1 DEF Told, Decided
<1>4. \/ reader' = [reader EXCEPT ![d] = New("result", "report")]
      \/ reader' = [reader EXCEPT ![d] = New("ledger", "status")]
  BY DEF AskReport, AskStatus, NoRequest
<1> HIDE DEF New
<1>5. QED BY <1>2, <1>3, <1>4

LEMMA ReadTold ==
  ASSUME RowInv, MoneyInv, AnswerInv, NEW d \in Reader, ReaderStep(d)
  PROVE  /\ reader' \in [Reader -> Request] /\ Told(reader'[d])
         /\ \A e \in Reader : e # d => reader'[e] = reader[e]
<1> DEFINE answer == reader[d]
           r == answer.run
<1> USE DEF AnswerInv
<1>1. /\ answer \in Request /\ Told(answer) /\ r \in Run
      /\ row[r].result \in BOOLEAN /\ ledger[r] \in Nat /\ ledger[r] \in {0, paid[r]}
      /\ paid[r] \in Nat
      /\ row[r].status = "succeeded" <=> row[r].result
  BY DEF Request, RowInv, RowsTyped, Recorded, MoneyInv, MoneyTyped, Money
<1>2. PICK new \in Request : Told(new) /\ reader' = [reader EXCEPT ![d] = new]
  <2>1. CASE ReadResult(d)
    <3> DEFINE new == [answer EXCEPT !.pc = "report", !.result = row[r].result]
    <3>1. new \in Request
      BY <1>1 DEF Request
    <3>2. Told(new)
      BY <1>1, <2>1 DEF ReadResult, Told, Request
    <3>3. reader' = [reader EXCEPT ![d] = new]
      BY <2>1 DEF ReadResult
    <3>4. QED BY <3>1, <3>2, <3>3
  <2>2. CASE ReadReport(d)
    <3> DEFINE new == [answer EXCEPT !.pc = "told", !.report = row[r].result]
    <3>1. new \in Request
      BY <1>1 DEF Request
    <3>2. Told(new)
      BY <1>1, <2>2 DEF ReadReport, Told, Request
    <3>3. reader' = [reader EXCEPT ![d] = new]
      BY <2>2 DEF ReadReport
    <3>4. QED BY <3>1, <3>2, <3>3
  <2>3. CASE ReadLedger(d)
    <3> DEFINE new == [answer EXCEPT !.pc = "told",
                                     !.cost = IF ledger[r] # 0 THEN ledger[r] ELSE @]
    <3>1. new \in Request
      BY <1>1 DEF Request
    <3>2. Told(new)
      BY <1>1, <2>3 DEF ReadLedger, Told, Request
    <3>3. reader' = [reader EXCEPT ![d] = new]
      BY <2>3 DEF ReadLedger
    <3>4. QED BY <3>1, <3>2, <3>3
  <2>4. QED BY <2>1, <2>2, <2>3 DEF ReaderStep
<1>3. QED BY <1>2

LEMMA AnswerStep ==
  ASSUME RowInv, MoneyInv, MoneyTyped', AnswerInv, LoadInv, [ServiceNext]_serviceVars
  PROVE  AnswerInv'
<1>1. ASSUME NEW d \in Reader
      PROVE  reader[d] \in Request /\ Told(reader[d]) /\ Outdates(reader[d].run)
             /\ (ProcessDies \/ KeepsUp(reader[d].run))
  BY StepOutdates DEF AnswerInv, Request
<1>2. ASSUME NEW d \in Reader, Asks(d) PROVE AnswerInv'
  <2>1. /\ reader' \in [Reader -> Request] /\ Told(reader'[d])
        /\ \A e \in Reader : e # d => reader'[e] = reader[e]
    BY <1>2, AskTold, ReadTold DEF Asks
  <2>2. \A e \in Reader : Told(reader'[e])
    BY <2>1 DEF AnswerInv
  <2>3. UNCHANGED <<row, thread, ledger, paid>>
    BY <1>2 DEF Asks, moneyVars
  <2>4. QED BY <2>1, <2>2, <2>3 DEF AnswerInv, Told
<1>3. ASSUME UNCHANGED reader, \A d \in Reader : KeepsUp(reader[d].run) PROVE AnswerInv'
  <2>1. ASSUME NEW d \in Reader PROVE Told(reader[d])'
    <3> DEFINE answer == reader[d]
    <3>1. answer' = answer
      BY <1>3
    <3>2. Told(answer) /\ answer \in Request /\ Outdates(answer.run) /\ KeepsUp(answer.run)
      BY <1>1, <1>3
    <3>3. \A a \in Request : Told(a) /\ Outdates(a.run) /\ KeepsUp(a.run) =>
            Told(a)'
      BY ToldStays
    <3>4. QED BY <3>1, <3>2, <3>3 DEF Told
  <2>2. QED BY <2>1, <1>3 DEF AnswerInv
<1>4. CASE ProcessDies
  <2>1. reader' = [d \in Reader |-> IF reader[d].pc \in {"idle", "told"} THEN reader[d]
                                    ELSE NoRequest(reader[d].run)]
    BY <1>4 DEF ProcessDies
  <2>2. ASSUME NEW d \in Reader PROVE reader'[d] \in Request /\ Told(reader[d])'
    <3>1. reader[d] \in Request /\ NoRequest(reader[d].run) \in Request
      BY <1>1 DEF NoRequest, Request, Status
    <3>2. CASE reader[d].pc \notin {"idle", "told"}
      <4>1. reader'[d] = NoRequest(reader[d].run)
        BY <2>1, <3>2
      <4>2. QED BY <3>1, <4>1 DEF Told, NoRequest
    <3>3. CASE reader[d].pc = "idle"
      <4>1. reader'[d] = reader[d]
        BY <2>1, <3>3
      <4>2. QED BY <3>1, <3>3, <4>1 DEF Told
    <3>4. CASE reader[d].pc = "told"
      <4>1. reader'[d] = reader[d]
        BY <2>1, <3>4
      <4>2. \A a \in Request : Told(a) /\ Outdates(a.run) /\ a.pc = "told" => Told(a)'
        BY ToldStays
      <4>3. QED BY <1>1, <3>4, <4>1, <4>2 DEF Told
    <3>5. QED BY <3>2, <3>3, <3>4
  <2>3. QED BY <2>1, <2>2 DEF AnswerInv
<1>5. QED
  <2>1. CASE \E r \in Run : Moves(r) \/ Records(r) \/ Charges(r)
    <3>1. UNCHANGED reader
      BY <2>1 DEF Moves, Records, Charges
    <3>2. QED BY <3>1, <1>1, <1>3, <1>4
  <2>2. QED BY <2>1, <1>1, <1>2, <1>3, <1>4, ServiceKinds DEF Elsewhere

(* The invariant of money and requests, with that of the rows. *)
THEOREM ServiceInvariant == ServiceSpec => [](MoneyInv /\ AnswerInv)
<1>1. ServiceInit => MoneyInv /\ AnswerInv
  <2> SUFFICES ASSUME ServiceInit PROVE MoneyInv /\ AnswerInv
    OBVIOUS
  <2>1. MoneyInv
    BY DEF ServiceInit, Init, MoneyInv, MoneyTyped, Money, Decided
  <2>2. PICK r \in Run : r = CHOOSE q \in Run : TRUE
    BY ServiceAssumption
  <2>3. NoRequest(r) \in Request /\ reader = [d \in Reader |-> NoRequest(r)]
    BY <2>2 DEF NoRequest, Request, Status, ServiceInit
  <2>4. QED BY <2>1, <2>3 DEF AnswerInv, Told, NoRequest
<1>2. /\ MoneyInv /\ AnswerInv /\ RowInv /\ LoadInv
      /\ [ServiceNext]_serviceVars
      => MoneyInv' /\ AnswerInv'
  BY MoneyStep, AnswerStep DEF MoneyInv
<1>3. ServiceSpec => []RowInv
  BY ServiceImplementsLifecycle, RowInvariant, PTL DEF LifecycleSpec
<1>4. QED BY <1>1, <1>2, <1>3, LoadInvariant, PTL DEF ServiceSpec

(* A report answered from three readings is never ahead of itself, whenever the
   run is decided and whenever the process dies. *)
THEOREM AnswersSafe == ServiceSpec => []AnswerConsistent
<1>1. ServiceSpec => []RowInv
  BY ServiceImplementsLifecycle, RowInvariant, PTL DEF LifecycleSpec
<1>2. QED BY <1>1, TellsTruth, ServiceInvariant, PTL

(* Decided runs are told with all they were charged, by whatever process; nobody
   is told more; and no status of a run that goes on is out of date. *)
THEOREM CostSafe == ServiceSpec => []CostTold
<1>1. ServiceSpec => []RowInv
  BY ServiceImplementsLifecycle, RowInvariant, PTL DEF LifecycleSpec
<1>2. QED BY <1>1, TellsTruth, ServiceInvariant, PTL

(* Every variable of the service has its type; whoever has asked was answered
   about a run there is. *)
THEOREM ServiceTypeCorrect == ServiceSpec => []ServiceTypeOK
<1>1. ServiceSpec => []TypeOK /\ []CorpusTypeOK
  <2>1. CorpusInv => CorpusTypeOK
    BY DEF CorpusInv
  <2>2. QED
    BY <2>1, ServiceImplementsLifecycle, ServiceImplementsCorpus, TypeCorrect, CorpusInvariant,
       PTL DEF LifecycleSpec
<1>2. TypeOK /\ CorpusTypeOK /\ MoneyInv /\ AnswerInv /\ LoadInv => ServiceTypeOK
  BY DEF MoneyInv, MoneyTyped, AnswerInv, Told, LoadInv, ServiceTypeOK
<1>3. QED BY <1>1, <1>2, ServiceInvariant, LoadInvariant, PTL
=============================================================================
