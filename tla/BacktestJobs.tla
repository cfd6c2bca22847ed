----------------------------- MODULE BacktestJobs -----------------------------
(***************************************************************************)
(* Backtests from the backend's row to the engine's result.                *)
(*                                                                         *)
(* The backend commits a row (backtest_service.py) and pushes its id to    *)
(* the Redis list backtest:queue.  The engine runs run_backtest_job in two *)
(* places: on a thread of its HTTP server (POST /run-backtest, server.py), *)
(* which keeps a second status in memory, and in an RQ worker, which takes *)
(* ids from the RQ queue "backtest" (workers/queue.py).  The job writes    *)
(* the row and, on disk, the equity curve.                                 *)
(*                                                                         *)
(* Both processes crash between any two steps.  Writes of the row fail and *)
(* are swallowed.  The metrics and the curve are not modelled, only        *)
(* whether the file is there and whole.                                    *)
(***************************************************************************)
EXTENDS Naturals, FiniteSets

CONSTANTS
  Ids,       \* backtests
  Threads,   \* threads of the HTTP server, a request with its job: bounds both
  Worker,    \* the RQ worker
  MaxRuns    \* bound: how often an id is handed to the engine

(* What the constants may be.                                              *)
Parameters ==
  /\ Worker \notin Threads
  /\ MaxRuns \in Nat

VARIABLES
  rows,    \* backtests.status in the database
  list,    \* the Redis list backtest:queue
  rq,      \* the RQ queue backtest
  mem,     \* _BACKTEST_STATE of the server process
  curve,   \* the artifact <id>.json
  job,     \* what each runner is doing
  runs     \* how often an id was handed to the engine (bound only)

vars == <<rows, list, rq, mem, curve, job, runs>>

Runners == Threads \cup {Worker}
NoId    == "none"
Free    == [pc |-> "free", id |-> NoId]
Status  == {"queued", "running", "completed", "failed"}

TypeOK ==
  /\ rows \in [Ids -> Status \cup {"absent"}]
  /\ list \subseteq Ids /\ rq \subseteq Ids
  /\ mem \in [Ids -> Status \cup {"absent"}]
  /\ curve \in [Ids -> {"absent", "partial", "whole"}]
  /\ job \in [Runners -> [pc : {"free", "checked", "start", "mark", "compute", "dump",
                                "finish", "fail", "report"},
                          id : Ids \cup {NoId}]]
  /\ runs \in [Ids -> 0..MaxRuns]

Init ==
  /\ rows = [i \in Ids |-> "absent"]
  /\ list = {} /\ rq = {}
  /\ mem = [i \in Ids |-> "absent"]
  /\ curve = [i \in Ids |-> "absent"]
  /\ job = [r \in Runners |-> Free]
  /\ runs = [i \in Ids |-> 0]

-----------------------------------------------------------------------------
(* The backend.                                                            *)

(* enqueue: the row is committed first, the push may fail and only logs.   *)
Enqueue(i) ==
  /\ rows[i] = "absent"
  /\ rows' = [rows EXCEPT ![i] = "queued"]
  /\ list' \in {list, list \cup {i}}
  /\ UNCHANGED <<rq, mem, curve, job, runs>>

(* enqueue_backtest puts the id on the RQ queue.  No code of the           *)
(* repository calls it.                                                    *)
EnqueueRQ(i) ==
  /\ runs[i] < MaxRuns
  /\ rq' = rq \cup {i}
  /\ runs' = [runs EXCEPT ![i] = @ + 1]
  /\ UNCHANGED <<rows, list, mem, curve, job>>

-----------------------------------------------------------------------------
(* POST /run-backtest: 409 only while the memory says running.             *)
RunBacktest(t, i) ==
  /\ job[t].pc = "free" /\ runs[i] < MaxRuns
  /\ mem[i] # "running"
  /\ job' = [job EXCEPT ![t] = [pc |-> "checked", id |-> i]]
  /\ runs' = [runs EXCEPT ![i] = @ + 1]
  /\ UNCHANGED <<rows, list, rq, mem, curve>>

(* Then, with nothing to keep another request from the check meanwhile,    *)
(* the memory says queued and a thread is started.                         *)
Accept(t) ==
  /\ t \in Threads /\ job[t].pc = "checked"
  /\ mem' = [mem EXCEPT ![job[t].id] = "queued"]
  /\ job' = [job EXCEPT ![t].pc = "start"]
  /\ UNCHANGED <<rows, list, rq, curve, runs>>

(* _run_backtest_inproc: the thread says running.                          *)
ThreadStarts(t) ==
  /\ t \in Threads /\ job[t].pc = "start"
  /\ mem' = [mem EXCEPT ![job[t].id] = "running"]
  /\ job' = [job EXCEPT ![t].pc = "mark"]
  /\ UNCHANGED <<rows, list, rq, curve, runs>>

(* The RQ worker takes an id of its queue.                                 *)
WorkerTakes(i) ==
  /\ job[Worker].pc = "free" /\ i \in rq
  /\ rq' = rq \ {i}
  /\ job' = [job EXCEPT ![Worker] = [pc |-> "mark", id |-> i]]
  /\ UNCHANGED <<rows, list, mem, curve, runs>>

-----------------------------------------------------------------------------
(* run_backtest_job.                                                       *)

Goes(r, pc) == job' = [job EXCEPT ![r].pc = pc]

(* _update_backtest_row: an UPDATE, so it needs the row; any failure is    *)
(* logged and swallowed.                                                   *)
UpdateRow(i, s) ==
  rows' \in {rows, IF rows[i] = "absent" THEN rows ELSE [rows EXCEPT ![i] = s]}

Mark(r) ==
  /\ job[r].pc = "mark"
  /\ UpdateRow(job[r].id, "running")
  /\ Goes(r, "compute")
  /\ UNCHANGED <<list, rq, mem, curve, runs>>

(* Slip: the row is updated before the file is written.                    *)
RowBeforeArtifact(r) ==
  /\ job[r].pc = "compute"
  /\ UpdateRow(job[r].id, "completed")
  /\ Goes(r, "dump")
  /\ UNCHANGED <<list, rq, mem, curve, runs>>

(* The strategy, the data and the runner; then the file is opened, which   *)
(* truncates it.                                                           *)
OpenArtifact(r) ==
  /\ job[r].pc = "compute"
  /\ curve' = [curve EXCEPT ![job[r].id] = "partial"]
  /\ Goes(r, "dump")
  /\ UNCHANGED <<rows, list, rq, mem, runs>>

Dump(r) ==
  /\ job[r].pc = "dump"
  /\ curve' = [curve EXCEPT ![job[r].id] = "whole"]
  /\ Goes(r, "finish")
  /\ UNCHANGED <<rows, list, rq, mem, runs>>

(* Any of it raises, RQ's timeout included: except Exception, so that the  *)
(* handler of _run_backtest_inproc never sees it.                          *)
Raises(r) ==
  /\ job[r].pc \in {"compute", "dump"}
  /\ Goes(r, "fail")
  /\ UNCHANGED <<rows, list, rq, mem, curve, runs>>

(* The job is over: the thread goes back to _run_backtest_inproc, the RQ   *)
(* worker to its queue.                                                    *)
Returns(r) ==
  job' = [job EXCEPT ![r] = IF r = Worker THEN Free ELSE [@ EXCEPT !.pc = "report"]]

Complete(r) ==
  /\ job[r].pc = "finish"
  /\ UpdateRow(job[r].id, "completed")
  /\ Returns(r)
  /\ UNCHANGED <<list, rq, mem, curve, runs>>

Fail(r) ==
  /\ job[r].pc = "fail"
  /\ UpdateRow(job[r].id, "failed")
  /\ Returns(r)
  /\ UNCHANGED <<list, rq, mem, curve, runs>>

(* _run_backtest_inproc: the job never raises, so its result, a failure    *)
(* too, is stored as completed.                                            *)
Report(t) ==
  /\ job[t].pc = "report"
  /\ mem' = [mem EXCEPT ![job[t].id] = "completed"]
  /\ job' = [job EXCEPT ![t] = Free]
  /\ UNCHANGED <<rows, list, rq, curve, runs>>

-----------------------------------------------------------------------------
ServerHasState ==
  (\E i \in Ids : mem[i] # "absent") \/ (\E t \in Threads : job[t].pc # "free")

(* Slip: the memory outlives the process, the threads do not.              *)
ServerCrashKeepsState ==
  /\ ServerHasState
  /\ job' = [r \in Runners |-> IF r \in Threads THEN Free ELSE job[r]]
  /\ UNCHANGED <<rows, list, rq, mem, curve, runs>>

(* The server process ends: its threads and its memory are gone.           *)
ServerCrash ==
  /\ ServerHasState
  /\ mem' = [i \in Ids |-> "absent"]
  /\ job' = [r \in Runners |-> IF r \in Threads THEN Free ELSE job[r]]
  /\ UNCHANGED <<rows, list, rq, curve, runs>>

(* The RQ worker's process ends: the job is not taken up again.            *)
WorkerCrash ==
  /\ job[Worker].pc # "free"
  /\ job' = [job EXCEPT ![Worker] = Free]
  /\ UNCHANGED <<rows, list, rq, mem, curve, runs>>

-----------------------------------------------------------------------------
JobStep(r) ==
  \/ Accept(r) \/ ThreadStarts(r) \/ Mark(r) \/ OpenArtifact(r) \/ Dump(r) \/ Raises(r)
  \/ Complete(r) \/ Fail(r) \/ Report(r)

Next ==
  \/ \E i \in Ids : Enqueue(i) \/ EnqueueRQ(i) \/ WorkerTakes(i)
  \/ \E t \in Threads, i \in Ids : RunBacktest(t, i)
  \/ \E r \in Runners : JobStep(r)
  \/ ServerCrash \/ WorkerCrash

Spec == Init /\ [][Next]_vars

(* A job on a processor goes on (RQ ends it after 30 minutes with an       *)
(* exception), and the RQ worker serves its queue.                         *)
Fairness ==
  /\ \A r \in Runners : WF_vars(JobStep(r))
  /\ WF_vars(\E i \in Ids : WorkerTakes(i))

FairSpec == Spec /\ Fairness

-----------------------------------------------------------------------------
(* A row that says completed has its artifact: the job writes the file     *)
(* before the row, so no crash between them, no failed update and no       *)
(* second job of the same id leaves a completed row without one            *)
(* (backtest_worker.py:239-248).                                           *)
CompletedHasCurve == \A i \in Ids : rows[i] = "completed" => curve[i] # "absent"

(* Every job that starts gives a verdict: the server does not go on        *)
(* answering running or queued for a job that has ended, whatever the job  *)
(* raised; only a crash takes the verdict away (server.py:150-176).        *)
JobsGiveAVerdict ==
  \A i \in Ids : mem[i] \in {"queued", "running"} ~> mem[i] \notin {"queued", "running"}

(* What docs/strategies/backtest-api.md:98 says: a backtest that is        *)
(* already running is refused.  Violated: the memory is checked and        *)
(* written in two steps, and queued is not refused (server.py:199-203).    *)
OneJobPerId ==
  \A t, u \in Threads :
    t # u /\ {job[t].pc, job[u].pc} \cap {"free", "checked", "start"} = {}
      => job[t].id # job[u].id

(* What the header of backtest_service.py says (5, 8-9): the worker gets   *)
(* the job, if not from the queue then by sweeping the queued rows.        *)
(* Violated: no worker reads the list, and there is no sweep.              *)
QueuedIsWorkedOn == \A i \in Ids : rows[i] = "queued" ~> rows[i] # "queued"
=============================================================================
