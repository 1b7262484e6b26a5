------------------------------ MODULE Service ------------------------------
(***************************************************************************)
(* The process that serves: its start (CorpusIndex), the runs it executes  *)
(* and their event streams (RunLifecycle) while it is up, the money a run  *)
(* spends (here only the sum; BudgetLedger has the calls) and the requests *)
(* GET /api/runs and GET /api/report of api/app.py, which read the row,    *)
(* the result and the ledger one after the other.                          *)
(*                                                                         *)
(* The ledger is in memory; a run's row gets the cost when it is decided.  *)
(***************************************************************************)
EXTENDS RunLifecycle, CorpusIndex

CONSTANTS Reader,   \* requests for a run's status or report
          Loads     \* bound: the runs, streams and readers of a behaviour, how often a
                    \* run is charged, how often the process dies, and whether it may
                    \* die while it starts

ASSUME ServiceAssumption ==
  /\ Run # {}
  /\ Loads \subseteq [runs : SUBSET Run, streams : SUBSET Stream, readers : SUBSET Reader,
                      charges : Nat, deaths : Nat, starting : BOOLEAN]

VARIABLES ledger,  \* spent by each run, in memory
          cost,    \* spent_usd of each run's row
          paid,    \* history: what each run was charged
          reader,  \* each request: what it has read
          deaths,  \* history: how often the process died
          load

moneyVars == <<ledger, cost, paid>>
serviceVars == <<vars, corpusVars, moneyVars, reader, deaths, load>>

(* low: what the run had been charged when the request began. *)
Request == [pc : {"idle", "result", "report", "ledger", "told"},
            about : {"report", "status"}, run : Run, status : Status,
            result : BOOLEAN, report : BOOLEAN, cost : Nat, low : Nat]

ServiceTypeOK ==
  /\ TypeOK /\ CorpusTypeOK
  /\ ledger \in [Run -> Nat] /\ cost \in [Run -> Nat] /\ paid \in [Run -> Nat]
  /\ reader \in [Reader -> Request]
  /\ \A d \in Reader : reader[d].pc # "idle" => reader[d].status # "absent"
  /\ deaths \in Nat /\ load \in Loads

NoRequest(r) == [pc |-> "idle", about |-> "report", run |-> r, status |-> "absent",
                 result |-> FALSE, report |-> FALSE, cost |-> 0, low |-> 0]

ServiceInit ==
  /\ Init /\ CorpusInit
  /\ ledger = [r \in Run |-> 0] /\ cost = ledger /\ paid = ledger
  /\ reader = [d \in Reader |-> NoRequest(CHOOSE r \in Run : TRUE)]
  /\ deaths = 0 /\ load \in Loads

-----------------------------------------------------------------------------
(* A worker, the planner or the writer is charged. *)
Pay(r) ==
  /\ thread[r] = "graph" /\ paid[r] < load.charges
  /\ ledger' = [ledger EXCEPT ![r] = @ + 1] /\ paid' = [paid EXCEPT ![r] = @ + 1]
  /\ UNCHANGED <<vars, cost>>

(* The snapshot of the ledger goes into the row with the outcome. *)
RowGetsCost(r) == cost' = [cost EXCEPT ![r] = ledger[r]] /\ UNCHANGED <<ledger, paid>>

Succeed(r) == RecordSuccess(r) /\ RowGetsCost(r)

(* Mutant of Fail: what a failed run has spent is not recorded. *)
FailFree(r) == RecordFailure(r) /\ UNCHANGED moneyVars

Fail(r) == RecordFailure(r) /\ RowGetsCost(r)

ThreadSteps(r) ==
  \/ Succeed(r) \/ Fail(r)
  \/ /\ StartThread(r) \/ Started(r) \/ MarkRunning(r) \/ Progress(r) \/ Completed(r)
          \/ EmitFailed(r)
     /\ UNCHANGED moneyVars

-----------------------------------------------------------------------------
NotAsking(d) == reader[d].pc \in {"idle", "told"}

(* GET /api/report: the row; then the result, for its limitations and fallbacks;
   then the result again, for the report. *)
AskReport(d, r) ==
  /\ NotAsking(d) /\ row[r].status # "absent"
  /\ reader' = [reader EXCEPT ![d] =
       [NoRequest(r) EXCEPT !.pc = "result", !.status = row[r].status, !.cost = cost[r],
                            !.low = paid[r]]]

ReadResult(d) ==
  /\ reader[d].pc = "result"
  /\ reader' = [reader EXCEPT ![d].pc = "report", ![d].result = row[reader[d].run].result]

(* Mutant of ReadReport: the status told is that of a row read last. *)
ReadReportAndRow(d) ==
  /\ reader[d].pc = "report"
  /\ reader' = [reader EXCEPT ![d].pc = "told", ![d].report = row[reader[d].run].result,
                              ![d].status = row[reader[d].run].status,
                              ![d].cost = cost[reader[d].run]]

ReadReport(d) ==
  /\ reader[d].pc = "report"
  /\ reader' = [reader EXCEPT ![d].pc = "told", ![d].report = row[reader[d].run].result]

(* Mutant of AskStatus: an unknown run is not refused. *)
AskStatusUnknown(d, r) ==
  /\ NotAsking(d)
  /\ reader' = [reader EXCEPT ![d] =
       [NoRequest(r) EXCEPT !.pc = "ledger", !.about = "status", !.status = row[r].status,
                            !.cost = cost[r], !.low = paid[r]]]

(* GET /api/runs/{run_id}: the row, then the ledger. *)
AskStatus(d, r) ==
  /\ NotAsking(d) /\ row[r].status # "absent"
  /\ reader' = [reader EXCEPT ![d] =
       [NoRequest(r) EXCEPT !.pc = "ledger", !.about = "status", !.status = row[r].status,
                            !.cost = cost[r], !.low = paid[r]]]

(* Mutant of ReadLedger: the ledger is told, whatever the row has. *)
ReadLedgerOnly(d) ==
  /\ reader[d].pc = "ledger"
  /\ reader' = [reader EXCEPT ![d].pc = "told", ![d].cost = ledger[reader[d].run]]

(* Nothing spent in the ledger: what the row has is told. *)
ReadLedger(d) ==
  LET spent == ledger[reader[d].run]
  IN /\ reader[d].pc = "ledger"
     /\ reader' = [reader EXCEPT ![d].pc = "told", ![d].cost = IF spent # 0 THEN spent ELSE @]

ReaderStep(d) == ReadResult(d) \/ ReadReport(d) \/ ReadLedger(d)

-----------------------------------------------------------------------------
(* The process dies: its threads, connections, requests and ledger are gone. *)
ProcessDies ==
  /\ deaths < load.deaths /\ (load.starting \/ phase = "up")
  /\ Crash /\ Die
  /\ ledger' = [r \in Run |-> 0]
  /\ reader' = [d \in Reader |-> IF reader[d].pc \in {"idle", "told"} THEN reader[d]
                                 ELSE NoRequest(reader[d].run)]
  /\ deaths' = deaths + 1
  /\ UNCHANGED <<cost, paid, load>>

Starts == StartStep /\ UNCHANGED <<vars, moneyVars, reader, deaths, load>>

Executes(r) ==
  /\ phase = "up" /\ r \in load.runs
  /\ ThreadSteps(r)
  /\ UNCHANGED <<corpusVars, reader, deaths, load>>

Streams(c) ==
  /\ phase = "up"
  /\ StreamStep(c)
  /\ UNCHANGED <<corpusVars, moneyVars, reader, deaths, load>>

Reads(d) ==
  /\ phase = "up"
  /\ ReaderStep(d)
  /\ UNCHANGED <<vars, corpusVars, moneyVars, deaths, load>>

(* What clients, faults and the graph may do but need not. *)
Happens ==
  /\ phase = "up"
  /\ \/ /\ \/ \E r \in load.runs : Create(r) \/ Raise(r)
           \/ \E c \in load.streams : Disconnect(c) \/ \E r \in load.runs : Open(c, r)
        /\ UNCHANGED <<moneyVars, reader>>
     \/ \E r \in load.runs : Pay(r) /\ UNCHANGED reader
     \/ /\ \E d \in load.readers, r \in load.runs : AskReport(d, r) \/ AskStatus(d, r)
        /\ UNCHANGED <<vars, moneyVars>>
  /\ UNCHANGED <<corpusVars, deaths, load>>

ServiceNext ==
  \/ Starts \/ ProcessDies \/ Happens
  \/ \E r \in Run : Executes(r)
  \/ \E c \in Stream : Streams(c)
  \/ \E d \in Reader : Reads(d)

ServiceSpec == ServiceInit /\ [][ServiceNext]_serviceVars

(* The process starts; threads, streams and requests are scheduled. *)
ServiceFairness ==
  /\ WF_serviceVars(Starts)
  /\ \A r \in Run : WF_serviceVars(Executes(r))
  /\ \A c \in Stream : WF_serviceVars(Streams(c))
  /\ \A d \in Reader : WF_serviceVars(Reads(d))
ServiceFairSpec == ServiceSpec /\ ServiceFairness

-----------------------------------------------------------------------------
(* Started, dying and asked about at any moment, the service does what
   RunLifecycle says of runs and streams. *)
LifecycleSpec == Spec

(* A report put together from three reads is never ahead of itself: success
   comes with limitations, limitations come with the report, and a failed run
   is answered without either. *)
AnswerConsistent ==
  \A d \in Reader :
    LET answer == reader[d]
    IN answer.pc = "told" /\ answer.about = "report" =>
         /\ answer.status = "succeeded" => answer.result
         /\ answer.result => answer.report
         /\ answer.status = "failed" => ~answer.report

(* A decided run is told with all it was charged, also by a process that did not
   execute it; nobody is told a cost the run never had; and the status of a run
   that a crash has not cut off has no cost older than the request. *)
CostTold ==
  \A d \in Reader :
    LET answer == reader[d]
    IN answer.pc = "told" =>
         /\ answer.cost <= paid[answer.run]
         /\ answer.status \in {"succeeded", "failed"} => answer.cost = paid[answer.run]
         /\ answer.about = "status" /\ thread[answer.run] # "lost" => answer.cost >= answer.low

(* However often it dies, also while it starts, the process comes up. *)
ComesUp == phase # "up" ~> phase = "up"
=============================================================================
