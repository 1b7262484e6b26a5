---------------------------- MODULE RunLifecycle ----------------------------
(***************************************************************************)
(* A run outside the graph: api/service.py (the thread that executes it),  *)
(* storage/registry.py (its row), storage/events.py (the log of progress   *)
(* events) and the event stream of api/app.py.  The graph itself is the    *)
(* steps it takes on these: it marks the run as running, appends progress  *)
(* events, and its last node appends run_completed.                        *)
(*                                                                         *)
(* Rows and events are in SQLite and survive a crash; threads and streams  *)
(* do not, and nothing resumes a run whose thread is gone.  Each access to *)
(* the database holds its lock, so it is one step; registry.update reads   *)
(* and then writes, but only the thread of a run updates its row.          *)
(***************************************************************************)
EXTENDS Integers, Sequences, FiniteSets

CONSTANTS Run,
          Stream,         \* connections of clients to /api/stream
          MaxProgress,    \* bound: progress events of a run
          Interruptions   \* subset of {"crash", "disconnect", "fault"}

ASSUME LifecycleAssumption ==
  /\ MaxProgress \in Nat
  /\ Interruptions \subseteq {"crash", "disconnect", "fault"}

VARIABLES row,     \* the registry's row of each run
          log,     \* the events table: an event's id is its position
          thread,  \* where the thread of each run is
          stream   \* each connection: what it reads and what it was told

vars == <<row, log, thread, stream>>

Status == {"absent", "queued", "running", "succeeded", "failed"}
Terminal == {"run_completed", "run_failed"}
EventType == {"run_started", "progress"} \cup Terminal
Event == [run : Run, type : EventType]

Place == {"none", "created", "starting", "invoking", "graph", "finished", "failing",
          "reporting", "ended", "lost"}

(* told: ids of the events sent; end: type of the terminal event sent last. *)
Connection == [pc : {"idle", "poll", "check", "closed"}, run : Run, last : Nat,
               told : Seq(Nat), end : {"none"} \cup Terminal]

TypeOK ==
  /\ row \in [Run -> [status : Status, result : BOOLEAN]]
  /\ log \in Seq(Event)
  /\ thread \in [Run -> Place]
  /\ stream \in [Stream -> Connection]

NoConnection(r) == [pc |-> "idle", run |-> r, last |-> 0, told |-> <<>>, end |-> "none"]

Init ==
  /\ row = [r \in Run |-> [status |-> "absent", result |-> FALSE]]
  /\ log = <<>>
  /\ thread = [r \in Run |-> "none"]
  /\ stream \in [Stream -> {NoConnection(r) : r \in Run}]

-----------------------------------------------------------------------------
Move(r, from, to) == thread[r] = from /\ thread' = [thread EXCEPT ![r] = to]

Emit(r, type) == log' = Append(log, [run |-> r, type |-> type])

(* registry.update: a status; a result is only ever added (COALESCE). *)
Update(r, status, result) ==
  row' = [row EXCEPT ![r] = [status |-> status, result |-> @.result \/ result]]

(* POST /api/research: registry.create, then the daemon thread. *)
Create(r) ==
  /\ Move(r, "none", "created")
  /\ Update(r, "queued", FALSE)
  /\ UNCHANGED <<log, stream>>

StartThread(r) ==
  /\ Move(r, "created", "starting")
  /\ UNCHANGED <<row, log, stream>>

(* execute(): the first event, before the graph is invoked. *)
Started(r) ==
  /\ Move(r, "starting", "invoking")
  /\ Emit(r, "run_started")
  /\ UNCHANGED <<row, stream>>

(* request_intake *)
MarkRunning(r) ==
  /\ Move(r, "invoking", "graph")
  /\ Update(r, "running", FALSE)
  /\ UNCHANGED <<log, stream>>

(* Any node of the graph. *)
Progress(r) ==
  /\ Move(r, "graph", "graph")
  /\ Cardinality({i \in DOMAIN log : log[i] = [run |-> r, type |-> "progress"]})
       < MaxProgress
  /\ Emit(r, "progress")
  /\ UNCHANGED <<row, stream>>

(* learning_update: the last node announces the end, inside the graph. *)
Completed(r) ==
  /\ Move(r, "graph", "finished")
  /\ Emit(r, "run_completed")
  /\ UNCHANGED <<row, stream>>

(* Mutant of RecordSuccess: the result is recorded without waiting for the end
   of the graph. *)
RecordSuccessEarly(r) ==
  /\ Move(r, "graph", "ended")
  /\ Update(r, "succeeded", TRUE)
  /\ UNCHANGED <<log, stream>>

(* The graph has returned: execute() records success and result in one row. *)
RecordSuccess(r) ==
  /\ Move(r, "finished", "ended")
  /\ Update(r, "succeeded", TRUE)
  /\ UNCHANGED <<log, stream>>

(* Mutants of Raise: the thread ends without a record; the failure is announced
   before it is recorded; a fault after the success record is caught, too. *)
RaiseUncaught(r) ==
  /\ "fault" \in Interruptions
  /\ \E from \in {"starting", "invoking", "graph", "finished"} : Move(r, from, "ended")
  /\ UNCHANGED <<row, log, stream>>

RaiseAnnounced(r) ==
  /\ "fault" \in Interruptions
  /\ \E from \in {"starting", "invoking", "graph", "finished"} : Move(r, from, "failing")
  /\ Emit(r, "run_failed")
  /\ UNCHANGED <<row, stream>>

RaiseAfterSuccess(r) ==
  /\ "fault" \in Interruptions
  /\ row[r].status # "failed"
  /\ \E from \in {"starting", "invoking", "graph", "finished", "ended"} :
       Move(r, from, "failing")
  /\ UNCHANGED <<row, log, stream>>

(* The first event, the graph, its checkpointer, or the success record after the
   last node has returned raises. *)
Raise(r) ==
  /\ "fault" \in Interruptions
  /\ \E from \in {"starting", "invoking", "graph", "finished"} : Move(r, from, "failing")
  /\ UNCHANGED <<row, log, stream>>

(* The error is recorded before it is announced. *)
RecordFailure(r) ==
  /\ Move(r, "failing", "reporting")
  /\ Update(r, "failed", FALSE)
  /\ UNCHANGED <<log, stream>>

EmitFailed(r) ==
  /\ Move(r, "reporting", "ended")
  /\ Emit(r, "run_failed")
  /\ UNCHANGED <<row, stream>>

(* The process dies and is started again. *)
Crash ==
  /\ "crash" \in Interruptions
  /\ thread' = [r \in Run |-> IF thread[r] \in {"none", "ended"} THEN thread[r] ELSE "lost"]
  /\ stream' = [c \in Stream |-> IF stream[c].pc \in {"poll", "check"}
                                 THEN NoConnection(stream[c].run) ELSE stream[c]]
  /\ UNCHANGED <<row, log>>

-----------------------------------------------------------------------------
(* GET /api/stream: an unknown run is refused. *)
Open(c, r) ==
  /\ stream[c].pc = "idle"
  /\ row[r].status # "absent"
  /\ stream' = [stream EXCEPT ![c] = [NoConnection(r) EXCEPT !.pc = "poll"]]
  /\ UNCHANGED <<row, log, thread>>

(* Mutant of EventsAfter: the cursor's own event is read again. *)
EventsFrom(r, last) == {i \in DOMAIN log : log[i].run = r /\ i >= last}

(* list_for_run: ids of the run's events after last_id. *)
EventsAfter(r, last) == {i \in DOMAIN log : log[i].run = r /\ i > last}

(* The first event not yet sent is sent, and a terminal one ends the stream.
   The code sends what one reading returned; as the log only grows at its end,
   that is as if it read anew before each event. *)
Deliver(c) ==
  LET conn == stream[c]
      new == EventsAfter(conn.run, conn.last)
  IN /\ conn.pc = "poll"
     /\ \E i \in new :
          /\ \A j \in new : i <= j
          /\ stream' = [stream EXCEPT ![c] =
               [pc |-> IF log[i].type \in Terminal THEN "closed" ELSE "poll",
                run |-> conn.run, last |-> i, told |-> Append(conn.told, i),
                end |-> IF log[i].type \in Terminal THEN log[i].type ELSE "none"]]
     /\ UNCHANGED <<row, log, thread>>

(* One reading with nothing new: the row is looked at next. *)
NothingNew(c) ==
  /\ stream[c].pc = "poll" /\ EventsAfter(stream[c].run, stream[c].last) = {}
  /\ stream' = [stream EXCEPT ![c].pc = "check"]
  /\ UNCHANGED <<row, log, thread>>

(* Mutant of CheckRow: the stream of a decided run just ends. *)
CheckRowSilently(c) ==
  /\ stream[c].pc = "check"
  /\ stream' = [stream EXCEPT ![c].pc =
       IF row[stream[c].run].status \in {"succeeded", "failed"} THEN "closed" ELSE "poll"]
  /\ UNCHANGED <<row, log, thread>>

(* A decided run ends the stream with a terminal event made up from the row. *)
CheckRow(c) ==
  LET conn == stream[c]
      status == row[conn.run].status
  IN /\ conn.pc = "check"
     /\ stream' = [stream EXCEPT ![c] =
          CASE status = "succeeded" -> [conn EXCEPT !.pc = "closed", !.end = "run_completed"]
            [] status = "failed" -> [conn EXCEPT !.pc = "closed", !.end = "run_failed"]
            [] OTHER -> [conn EXCEPT !.pc = "poll"]]
     /\ UNCHANGED <<row, log, thread>>

(* The client goes away; it may come back, and is then told from the start. *)
Disconnect(c) ==
  /\ "disconnect" \in Interruptions
  /\ stream[c].pc \in {"poll", "check"}
  /\ stream' = [stream EXCEPT ![c] = NoConnection(stream[c].run)]
  /\ UNCHANGED <<row, log, thread>>

ThreadStep(r) ==
  \/ StartThread(r) \/ Started(r) \/ MarkRunning(r) \/ Progress(r) \/ Completed(r)
  \/ RecordSuccess(r) \/ RecordFailure(r) \/ EmitFailed(r)

StreamStep(c) == Deliver(c) \/ NothingNew(c) \/ CheckRow(c)

Next ==
  \/ \E r \in Run : Create(r) \/ ThreadStep(r) \/ Raise(r)
  \/ \E c \in Stream : StreamStep(c) \/ Disconnect(c) \/ \E r \in Run : Open(c, r)
  \/ Crash

Spec == Init /\ [][Next]_vars

(* A run's thread and a connection's publisher are scheduled, and the graph's
   external calls all have timeouts; a graph has finitely many steps (here
   MaxProgress events), so no run progresses for ever. *)
Fairness == /\ \A r \in Run : WF_vars(ThreadStep(r))
            /\ \A c \in Stream : WF_vars(StreamStep(c))
FairSpec == Spec /\ Fairness

-----------------------------------------------------------------------------
Logged(r, type) == \E i \in DOMAIN log : log[i] = [run |-> r, type |-> type]

(* A client is told the events of its run in order, none twice and none left
   out, up to the last one it was told. *)
ToldInOrder ==
  \A c \in Stream :
    LET told == stream[c].told
    IN /\ \A m, n \in DOMAIN told : m < n => told[m] < told[n]
       /\ {told[n] : n \in DOMAIN told} =
            {i \in DOMAIN log : log[i].run = stream[c].run /\ i <= stream[c].last}

(* A run shown as succeeded has its result and was announced, and a result is
   never shown with another status, whenever a crash or a fault comes. *)
SucceededHasReport ==
  \A r \in Run : /\ row[r].status = "succeeded" <=> row[r].result
                 /\ row[r].status = "succeeded" => Logged(r, "run_completed")

(* A failure a client or the log tells of is on record. *)
FailureOnRecord ==
  /\ \A r \in Run : Logged(r, "run_failed") => row[r].status = "failed"
  /\ \A c \in Stream : stream[c].end = "run_failed" => row[stream[c].run].status = "failed"

(* The registry decides each run at most once. *)
Outcome == INSTANCE RunOutcome
             WITH outcome <- [r \in Run |-> CASE row[r].status = "absent" -> "unknown"
                                              [] row[r].status \in {"queued", "running"} ->
                                                   "pending"
                                              [] OTHER -> row[r].status]
ImplementsOutcome == Outcome!Spec

(* Every accepted run is decided, whether the graph returns or raises, unless
   the process dies under it. *)
RunsDecided ==
  \A r \in Run : row[r].status = "queued" ~>
               row[r].status \in {"succeeded", "failed"} \/ thread[r] = "lost"

(* Every stream a client stays on ends with a terminal event, unless the
   process died under its run: then it polls for ever. *)
StreamsEnd ==
  \A c \in Stream : stream[c].pc = "poll" ~>
    \/ stream[c].pc = "closed" /\ stream[c].end # "none"
    \/ stream[c].pc = "idle"
    \/ thread[stream[c].run] = "lost"

-----------------------------------------------------------------------------
(* What the page relies on and the code does not do: it loads the report when
   run_completed arrives, so a client told of completion has to find it. *)
CompletedMeansReport ==
  \A c \in Stream : stream[c].end = "run_completed" => row[stream[c].run].result
=============================================================================
