-------------------------- MODULE ReportPipeline ---------------------------
(***************************************************************************)
(* From a finished run to its report.                                      *)
(*                                                                         *)
(*   - The handler of a detect task (worker/handlers/detect.py) compares   *)
(*     the run with the previous successful one, stores the differences    *)
(*     and publishes a report task.                                        *)
(*   - The handler of a report task (worker/handlers/report.py) stores a   *)
(*     report row, asks the AI for its content and completes the row.      *)
(*                                                                         *)
(* Runs are numbered as the database numbers them.  How a run comes to its *)
(* end is ScanRun's matter; here StartRun, EndRun and RequestDetect are    *)
(* the steps RunLifecycle allows.  A run has one detect task (proved in    *)
(* ScanRunProofs) and as many report tasks as deliveries of it publish.    *)
(***************************************************************************)
EXTENDS JobStream, Sequences

CONSTANTS
    Runs,           \* ids of the job's runs
    Kind,           \* "detect" or "report", for each task
    RunOf,          \* the run each task is about
    Differs,        \* pairs <<q, r>> of runs whose tracked positions differ
    AIConfigured,   \* does the worker have an AI client?
    Overlap,        \* may the job have two runs in progress?
    Faults          \* the kinds of fault that may happen

FaultKinds == {
    "raise",         \* a database, NATS or event call of a handler raises
    "publish_lost",  \* a report task is stored, and its confirmation is lost
    "worker_crash"}  \* a worker process dies

ASSUME PipelineAssumption ==
    /\ Runs \in SUBSET Nat
    /\ Kind \in [Tasks -> {"detect", "report"}]
    /\ RunOf \in [Tasks -> Runs]
    /\ Differs \in SUBSET (Runs \X Runs)
    /\ {AIConfigured, Overlap} \in SUBSET BOOLEAN
    /\ Faults \in SUBSET FaultKinds

VARIABLES
    runStatus,  \* job_runs.status
    diffs,      \* committed batches of rank_diffs: the run compared with
    reports,    \* the rows of reports
    pc,         \* where each worker's handler is
    prev,       \* the run a detect handler compares with
    seen,       \* how many batches of diffs a report handler has read
    attempt,    \* AI calls a report handler has made
    row         \* the report a handler has inserted

localVars == <<prev, seen, attempt, row>>
vars == <<streamVars, runStatus, diffs, reports, pc, localVars>>

Successful == {"completed", "partial"}
Steps == {"idle", "fresh", "compared", "trigger", "report", "prompt",
          "asking", "answered", "unanswered", "returned"}
ReportRows == [run : Runs, diffs : Nat, status : {"generating", "generated", "failed"}]

MAX_AI_RETRIES == 2

\* Rows, handlers and messages have the values the code gives them; the AI is
\* asked MAX_AI_RETRIES times at most for one task.
TypeOK ==
    /\ StreamTypeOK
    /\ runStatus \in [Runs -> {"none", "running", "failed"} \cup Successful]
    /\ diffs \in [Runs -> Seq(Runs)]
    /\ reports \in Seq(ReportRows)
    /\ pc \in [Workers -> Steps]
    /\ prev \in [Workers -> Runs \cup {None}]
    /\ seen \in [Workers -> Nat]
    /\ attempt \in [Workers -> 0 .. MAX_AI_RETRIES]
    /\ row \in [Workers -> 0 .. Len(reports)]

Init ==
    /\ StreamInit
    /\ runStatus = [r \in Runs |-> "none"]
    /\ diffs = [r \in Runs |-> << >>]
    /\ reports = << >>
    /\ pc = [w \in Workers |-> "idle"]
    /\ prev = [w \in Workers |-> None]
    /\ seen = [w \in Workers |-> 0]
    /\ attempt = [w \in Workers |-> 0]
    /\ row = [w \in Workers |-> 0]

ReportsOf(r) == {i \in DOMAIN reports : reports[i].run = r}

----------------------------------------------------------------------------
(***************************************************************************)
(* The runs.                                                               *)
(***************************************************************************)

StartRun(r) ==
    /\ runStatus[r] = "none"
    /\ \A q \in Runs : q < r => runStatus[q] # "none"
    /\ Overlap \/ \A q \in Runs : runStatus[q] # "running"
    /\ runStatus' = [runStatus EXCEPT ![r] = "running"]
    /\ UNCHANGED <<streamVars, diffs, reports, pc, localVars>>

EndRun(r) ==
    /\ runStatus[r] = "running"
    /\ \E s \in Successful \cup {"failed"} : runStatus' = [runStatus EXCEPT ![r] = s]
    /\ UNCHANGED <<streamVars, diffs, reports, pc, localVars>>

RequestDetect(r) ==
    /\ runStatus[r] \in Successful
    /\ \E m \in Tasks \ stored : Kind[m] = "detect" /\ RunOf[m] = r /\ Store(m)
    /\ UNCHANGED <<deliveries, unacked, holder, late, acked, inbox, task,
                   runStatus, diffs, reports, pc, localVars>>

----------------------------------------------------------------------------
(***************************************************************************)
(* handle_change_detection                                                 *)
(***************************************************************************)

Goto(w, s) == pc' = [pc EXCEPT ![w] = s]

\* Mutant: diffs that exist end the handler.
AcceptDetect_SkipReport(w, m) ==
    /\ Kind[m] = "detect"
    /\ Take(w, m)
    /\ Goto(w, IF diffs[RunOf[m]] # << >> THEN "returned" ELSE "fresh")
    /\ UNCHANGED <<runStatus, diffs, reports, localVars>>

\* Mutant: the comparison is made again on every delivery.
AcceptDetect_Always(w, m) ==
    /\ Kind[m] = "detect"
    /\ Take(w, m)
    /\ Goto(w, "fresh")
    /\ UNCHANGED <<runStatus, diffs, reports, localVars>>

\* The idempotency check: diffs that exist are not computed again.
AcceptDetect(w, m) ==
    /\ Kind[m] = "detect"
    /\ Take(w, m)
    /\ Goto(w, IF diffs[RunOf[m]] # << >> THEN "trigger" ELSE "fresh")
    /\ UNCHANGED <<runStatus, diffs, reports, localVars>>

\* Mutant: the oldest successful run.
Previous_First(r) ==
    LET before == {q \in Runs : q < r /\ runStatus[q] \in Successful}
    IN  {q \in before : \A k \in before : q <= k}

\* The last run before r that was successful: a set of at most one.
Previous(r) ==
    LET before == {q \in Runs : q < r /\ runStatus[q] \in Successful}
    IN  {q \in before : \A k \in before : k <= q}

\* After detect_started: no previous run, nothing to compare.
NothingToCompare(w) ==
    /\ pc[w] = "fresh"
    /\ Previous(RunOf[task[w]]) = {}
    /\ Goto(w, "trigger")
    /\ UNCHANGED <<streamVars, runStatus, diffs, reports, localVars>>

\* The results of both runs are read and compared.
CompareRuns(w) ==
    /\ pc[w] = "fresh"
    /\ \E q \in Previous(RunOf[task[w]]) : prev' = [prev EXCEPT ![w] = q]
    /\ Goto(w, "compared")
    /\ UNCHANGED <<streamVars, runStatus, diffs, reports, seen, attempt, row>>

\* The differences, if there are any, are committed and announced.
CommitDiffs(w) ==
    LET r == RunOf[task[w]] IN
    /\ pc[w] = "compared"
    /\ diffs' = IF <<prev[w], r>> \in Differs
                THEN [diffs EXCEPT ![r] = Append(@, prev[w])] ELSE diffs
    /\ prev' = [prev EXCEPT ![w] = None]
    /\ Goto(w, "trigger")
    /\ UNCHANGED <<streamVars, runStatus, reports, seen, attempt, row>>

\* The report tasks about r that were not published yet.
NewReportTasks(r) == {m \in Tasks \ stored : Kind[m] = "report" /\ RunOf[m] = r}

\* _trigger_report publishes a task of its own on every call.
TriggerReport(w) ==
    /\ pc[w] = "trigger"
    /\ \E m \in NewReportTasks(RunOf[task[w]]) : Store(m)
    /\ Goto(w, "returned")
    /\ UNCHANGED <<deliveries, unacked, holder, late, acked, inbox, task,
                   runStatus, diffs, reports, localVars>>

----------------------------------------------------------------------------
(***************************************************************************)
(* handle_report_generation                                                *)
(***************************************************************************)

AcceptReport(w, m) ==
    /\ Kind[m] = "report"
    /\ Take(w, m)
    /\ Goto(w, "report")
    /\ UNCHANGED <<runStatus, diffs, reports, localVars>>

\* Mutant: only a generated report counts as existing.
HasReport_Generated(r) == \E i \in ReportsOf(r) : reports[i].status = "generated"

\* The idempotency check looks at no status.
HasReport(r) == ReportsOf(r) # {}

\* No AI client, or a report exists: nothing is done.
SkipReport(w) ==
    /\ pc[w] = "report"
    /\ ~AIConfigured \/ HasReport(RunOf[task[w]])
    /\ Goto(w, "returned")
    /\ UNCHANGED <<streamVars, runStatus, diffs, reports, localVars>>

\* Results and diffs are read and no report is found.
ReadInputs(w) ==
    /\ pc[w] = "report"
    /\ AIConfigured /\ ~HasReport(RunOf[task[w]])
    /\ seen' = [seen EXCEPT ![w] = Len(diffs[RunOf[task[w]]])]
    /\ Goto(w, "prompt")
    /\ UNCHANGED <<streamVars, runStatus, diffs, reports, prev, attempt, row>>

\* The row is committed as "generating" before the AI is asked.
InsertReport(w) ==
    /\ pc[w] = "prompt"
    /\ reports' = Append(reports, [run |-> RunOf[task[w]], diffs |-> seen[w],
                                   status |-> "generating"])
    /\ row' = [row EXCEPT ![w] = Len(reports) + 1]
    /\ seen' = [seen EXCEPT ![w] = 0]
    /\ Goto(w, "asking")
    /\ UNCHANGED <<streamVars, runStatus, diffs, prev, attempt>>

\* The AI returns JSON.  A code fence around "null" ends the attempts as well,
\* but counts as no answer.
AIAnswers(w) ==
    /\ pc[w] = "asking"
    /\ \E s \in {"answered", "unanswered"} : Goto(w, s)
    /\ UNCHANGED <<streamVars, runStatus, diffs, reports, localVars>>

\* It raises, or returns something else.
AIFails(w) ==
    /\ pc[w] = "asking"
    /\ attempt' = [attempt EXCEPT ![w] = @ + 1]
    /\ Goto(w, IF attempt[w] + 1 = MAX_AI_RETRIES THEN "unanswered" ELSE "asking")
    /\ UNCHANGED <<streamVars, runStatus, diffs, reports, prev, seen, row>>

ResetLocal(w) ==
    /\ prev' = [prev EXCEPT ![w] = None]
    /\ seen' = [seen EXCEPT ![w] = 0]
    /\ attempt' = [attempt EXCEPT ![w] = 0]
    /\ row' = [row EXCEPT ![w] = 0]

\* Mutant: a failed report is left as it is.
SettleReport_KeepFailed(w) ==
    /\ pc[w] \in {"answered", "unanswered"}
    /\ reports' = IF pc[w] = "answered"
                  THEN [reports EXCEPT ![row[w]].status = "generated"] ELSE reports
    /\ ResetLocal(w)
    /\ Goto(w, "returned")
    /\ UNCHANGED <<streamVars, runStatus, diffs>>

\* Mutant: the outcome is written to every report of the run.
SettleReport_ByRun(w) ==
    /\ pc[w] \in {"answered", "unanswered"}
    /\ reports' = [i \in DOMAIN reports |->
                      IF i \in ReportsOf(RunOf[task[w]])
                      THEN [reports[i] EXCEPT !.status =
                              IF pc[w] = "answered" THEN "generated" ELSE "failed"]
                      ELSE reports[i]]
    /\ ResetLocal(w)
    /\ Goto(w, "returned")
    /\ UNCHANGED <<streamVars, runStatus, diffs>>

\* The row is completed, or marked failed, and the outcome announced.
SettleReport(w) ==
    /\ pc[w] \in {"answered", "unanswered"}
    /\ reports' = [reports EXCEPT ![row[w]].status =
                      IF pc[w] = "answered" THEN "generated" ELSE "failed"]
    /\ ResetLocal(w)
    /\ Goto(w, "returned")
    /\ UNCHANGED <<streamVars, runStatus, diffs>>

----------------------------------------------------------------------------
(***************************************************************************)
(* The end of a handler.                                                   *)
(***************************************************************************)

AckTask(w) ==
    /\ pc[w] = "returned"
    /\ Ack(w)
    /\ Goto(w, "idle")
    /\ UNCHANGED <<runStatus, diffs, reports, localVars>>

\* A call raises before it has an effect: the loop naks the task.  The AI's
\* exceptions are caught; in "asking" only reading back the new row's id raises.
HandlerRaises(w) ==
    /\ "raise" \in Faults
    /\ pc[w] # "idle"
    /\ pc[w] = "asking" => attempt[w] = 0
    /\ Nak(w)
    /\ ResetLocal(w)
    /\ Goto(w, "idle")
    /\ UNCHANGED <<runStatus, diffs, reports>>

\* The report task was stored but not confirmed: the detect handler raises.
ReportUnconfirmed(w) ==
    /\ "publish_lost" \in Faults
    /\ pc[w] = "trigger"
    /\ \E m \in NewReportTasks(RunOf[task[w]]) : StoreThenNak(w, m)
    /\ Goto(w, "idle")
    /\ UNCHANGED <<runStatus, diffs, reports, localVars>>

WorkerCrash(w) ==
    /\ "worker_crash" \in Faults
    /\ Crash(w)
    /\ ResetLocal(w)
    /\ Goto(w, "idle")
    /\ UNCHANGED <<runStatus, diffs, reports>>

DeliverTask(w, m) == Deliver(w, m) /\ UNCHANGED <<runStatus, diffs, reports, pc, localVars>>

ExpireTask(m) == AckWaitExpires(m) /\ UNCHANGED <<runStatus, diffs, reports, pc, localVars>>

Environment(r) == StartRun(r) \/ EndRun(r) \/ RequestDetect(r)

Work(w) ==
    \/ \E m \in Tasks : AcceptDetect(w, m) \/ AcceptReport(w, m)
    \/ NothingToCompare(w) \/ CompareRuns(w) \/ CommitDiffs(w) \/ TriggerReport(w)
    \/ SkipReport(w) \/ ReadInputs(w) \/ InsertReport(w)
    \/ AIAnswers(w) \/ AIFails(w) \/ SettleReport(w)
    \/ AckTask(w)

WorkerFault(w) == HandlerRaises(w) \/ ReportUnconfirmed(w) \/ WorkerCrash(w)

Next ==
    \/ \E r \in Runs : Environment(r)
    \/ \E w \in Workers : Work(w) \/ WorkerFault(w)
    \/ \E w \in Workers, m \in Tasks : DeliverTask(w, m)
    \/ \E m \in Tasks : ExpireTask(m)

Spec == Init /\ [][Next]_vars

\* As in ScanRun; that a successful run has its detection requested is what
\* RunFinishes of ScanRun says of fault-free behaviours.
Fairness ==
    /\ \A r \in Runs : WF_vars(RequestDetect(r))
    /\ \A w \in Workers : WF_vars(Work(w))
    /\ \A m \in Tasks : WF_vars(\E w \in Workers : DeliverTask(w, m))
    /\ \A m \in Tasks : WF_vars(ExpireTask(m))

FairSpec == Spec /\ Fairness

----------------------------------------------------------------------------
(***************************************************************************)
(* Properties under every fault and early redelivery.                      *)
(***************************************************************************)

TasksOf(r, k) == {m \in stored : RunOf[m] = r /\ Kind[m] = k}

\* A detect task is acknowledged only when a report task for its run is in
\* the stream: whichever of its exits (no previous run, diffs exist, diffs
\* committed) a delivery takes, detect.py ends in _trigger_report.
AckedDetectTriggersReport ==
    \A m \in acked : Kind[m] = "detect" => TasksOf(RunOf[m], "report") # {}

\* A report that was generated or failed keeps its status and content: a
\* handler completes the row it inserted and no other one, even when two
\* handlers have one each for the same run.
SettledReportIsKept ==
    [][\A i \in DOMAIN reports :
          reports[i].status # "generating" => reports'[i] = reports[i]]_vars

\* The existence check and the insert of report.py (66 and 113) are two steps,
\* so handlers that looked before the first row was there each insert one: a
\* run may have several reports, but never more than there are workers,
\* however often its report tasks are redelivered, retried or doubled.
ReportsPerWorker ==
    \A r \in Runs : Cardinality(ReportsOf(r)) <= Cardinality(Workers)

(***************************************************************************)
(* Properties that need one handler at a time, or no fault.                *)
(***************************************************************************)

\* The diffs of a run are stored once (detect.py:17).
DiffsOnce == \A r \in Runs : Len(diffs[r]) <= 1

\* A run is compared with the last successful run before it, and is not
\* overtaken by one that becomes successful later.
NearestPrevious ==
    \A r \in Runs : \A i \in DOMAIN diffs[r] :
        LET q == diffs[r][i] IN
        /\ q < r
        /\ runStatus[q] \in Successful
        /\ \A k \in Runs : q < k /\ k < r => runStatus[k] \notin Successful

\* A run has at most one report (report.py:66).
OneReport == \A r \in Runs : Cardinality(ReportsOf(r)) <= 1

\* The report was written from all the diffs of its run: none is committed
\* after its handler read them.
ReportDescribesDiffs ==
    \A i \in DOMAIN reports : reports[i].diffs = Len(diffs[reports[i].run])

\* Unless a handler raises or dies, every successful run gets a report with an outcome,
\* though confirmations are lost and tasks are redelivered to a second worker.
EveryRunReported ==
    \A r \in Runs :
        runStatus[r] \in Successful ~>
            \E i \in ReportsOf(r) : reports[i].status \in {"generated", "failed"}

============================================================================
