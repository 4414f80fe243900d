----------------------- MODULE ReportPipelineProofs ------------------------
(***************************************************************************)
(* What is proved of ReportPipeline for any number of runs, tasks and      *)
(* workers, early redelivery and every fault included.                     *)
(***************************************************************************)
EXTENDS ReportPipeline, JobStreamProofs, SequenceTheorems, TLAPS

----------------------------------------------------------------------------
(***************************************************************************)
(* The inductive invariant: a handler runs exactly while its worker has a  *)
(* task, it is the handler of that kind of task, a detect handler has      *)
(* published before it returns, and a report handler that is past its      *)
(* insert owns a row which is still open and which nobody else owns.       *)
(***************************************************************************)

Asking == {"asking", "answered", "unanswered"}

Triggered(r) == \E m \in stored : Kind[m] = "report" /\ RunOf[m] = r

HandlersHaveTasks == \A w \in Workers : pc[w] = "idle" <=> task[w] = None

AttemptsLeft == \A w \in Workers : pc[w] = "asking" => attempt[w] < MAX_AI_RETRIES

PrevIsChosen == \A w \in Workers : pc[w] = "compared" => prev[w] \in Runs

AttemptsAreOwn == \A w \in Workers : pc[w] \notin Asking => attempt[w] = 0

RowIsOwn ==
    \A w \in Workers :
        /\ pc[w] \in Asking <=> row[w] # 0
        /\ row[w] # 0 => reports[row[w]].status = "generating"
        /\ \A v \in Workers : v # w /\ row[w] # 0 => row[v] # row[w]

ReturnedHasTriggered ==
    \A w \in Workers :
        pc[w] = "returned" /\ Kind[task[w]] = "detect" => Triggered(RunOf[task[w]])

ReportHandlers ==
    \A w \in Workers : pc[w] \in {"report", "prompt"} \cup Asking => Kind[task[w]] = "report"

DetectHandlers ==
    \A w \in Workers : pc[w] \in {"fresh", "compared", "trigger"} => Kind[task[w]] = "detect"

PipelineInv ==
    /\ TypeOK
    /\ HeldIsStored
    /\ HandlersHaveTasks
    /\ AttemptsLeft
    /\ AttemptsAreOwn
    /\ PrevIsChosen
    /\ RowIsOwn
    /\ ReportHandlers
    /\ DetectHandlers
    /\ ReturnedHasTriggered
    /\ AckedDetectTriggersReport

LEMMA InitInv == Init => PipelineInv
<1> USE StreamAssumption, PipelineAssumption
<1>1. Init => TypeOK
  BY EmptySeq DEF Init, StreamInit, TypeOK, StreamTypeOK, Steps, Successful, MAX_AI_RETRIES
<1>2. QED
  BY <1>1 DEF Init, StreamInit, PipelineInv, HandlersHaveTasks, AttemptsLeft, AttemptsAreOwn,
              PrevIsChosen, RowIsOwn, ReportHandlers, DetectHandlers, ReturnedHasTriggered, Asking,
              AckedDetectTriggersReport, HeldIsStored, Holds

----------------------------------------------------------------------------
(***************************************************************************)
(* Facts about single actions.                                             *)
(***************************************************************************)

\* A row that changes only its status is still a row, and the others stay.
LEMMA StatusUpdate ==
    ASSUME NEW rows \in Seq(ReportRows), NEW i \in 1 .. Len(rows),
           NEW s \in {"generating", "generated", "failed"}
    PROVE  /\ [rows EXCEPT ![i].status = s] \in Seq(ReportRows)
           /\ Len([rows EXCEPT ![i].status = s]) = Len(rows)
           /\ \A j \in 1 .. Len(rows) : j # i => [rows EXCEPT ![i].status = s][j] = rows[j]
<1> DEFINE e == [rows[i] EXCEPT !.status = s]
<1>1. rows[i] \in ReportRows
  BY ElementOfSeq
<1>2. e \in ReportRows
  BY <1>1 DEF ReportRows
<1>3. [rows EXCEPT ![i].status = s] = [rows EXCEPT ![i] = e]
  OBVIOUS
<1> HIDE DEF e
<1>4. QED
  BY <1>2, <1>3, ExceptSeq

\* A working handler has a task of the constant set.
LEMMA WorkingTask ==
    ASSUME PipelineInv, NEW w \in Workers, pc[w] # "idle"
    PROVE  task[w] \in Tasks /\ RunOf[task[w]] \in Runs
BY PipelineAssumption DEF PipelineInv, HandlersHaveTasks, TypeOK, StreamTypeOK

\* An action of the runs or of the server leaves the handlers alone.
LEMMA OthersLeaveHandlers ==
    ASSUME [Next]_vars
    PROVE  \/ \E w \in Workers : Work(w) \/ WorkerFault(w)
           \/ /\ UNCHANGED <<task, acked, diffs, reports, pc, localVars>>
              /\ stored \subseteq stored'
BY DEF Next, Environment, StartRun, EndRun, RequestDetect, Store, DeliverTask, Deliver,
       ExpireTask, AckWaitExpires, vars, streamVars, localVars

\* No step takes a task out of the stream.
LEMMA StoredGrows ==
    ASSUME [Next]_vars
    PROVE  stored \subseteq stored'
<1>1. ASSUME NEW w \in Workers, Work(w) PROVE stored \subseteq stored'
  BY <1>1 DEF Work, AcceptDetect, AcceptReport, Take, NothingToCompare, CompareRuns, CommitDiffs,
              TriggerReport, Store, SkipReport, ReadInputs, InsertReport, AIAnswers, AIFails,
              SettleReport, AckTask, Ack, streamVars
<1>2. ASSUME NEW w \in Workers, WorkerFault(w) PROVE stored \subseteq stored'
  BY <1>2 DEF WorkerFault, HandlerRaises, Nak, ReportUnconfirmed, StoreThenNak, Store,
              WorkerCrash, Crash
<1>3. QED
  BY <1>1, <1>2, OthersLeaveHandlers

\* The worker that acts is the only one whose handler changes.
LEMMA OneHandlerMoves ==
    ASSUME TypeOK, NEW w \in Workers, Work(w) \/ WorkerFault(w),
           NEW v \in Workers, v # w
    PROVE  /\ pc'[v] = pc[v] /\ task'[v] = task[v] /\ prev'[v] = prev[v]
           /\ seen'[v] = seen[v] /\ attempt'[v] = attempt[v] /\ row'[v] = row[v]
<1> USE DEF TypeOK, StreamTypeOK, Goto, streamVars, localVars, ResetLocal
<1>1. CASE WorkerFault(w)
  BY <1>1 DEF WorkerFault, HandlerRaises, Nak, ReportUnconfirmed, StoreThenNak, WorkerCrash, Crash
<1>2. CASE \E m \in Tasks : AcceptDetect(w, m) \/ AcceptReport(w, m)
  BY <1>2 DEF AcceptDetect, AcceptReport, Take
<1>3. CASE NothingToCompare(w) \/ CompareRuns(w) \/ CommitDiffs(w) \/ TriggerReport(w)
  BY <1>3 DEF NothingToCompare, CompareRuns, CommitDiffs, TriggerReport
<1>4. CASE SkipReport(w) \/ ReadInputs(w) \/ InsertReport(w)
  BY <1>4 DEF SkipReport, ReadInputs, InsertReport
<1>5. CASE AIAnswers(w) \/ AIFails(w) \/ SettleReport(w)
  BY <1>5 DEF AIAnswers, AIFails, SettleReport
<1>6. CASE AckTask(w)
  BY <1>6 DEF AckTask, Ack
<1>7. QED
  BY <1>1, <1>2, <1>3, <1>4, <1>5, <1>6 DEF Work

----------------------------------------------------------------------------
(***************************************************************************)
(* Type correctness.                                                       *)
(***************************************************************************)

LEMMA TypeStep ==
    ASSUME PipelineInv, [Next]_vars
    PROVE  TypeOK'
<1> USE PipelineAssumption DEF TypeOK, localVars, Steps, Goto
<1>0. TypeOK
  BY DEF PipelineInv
<1>1. ASSUME NEW r \in Runs, Environment(r) PROVE TypeOK'
  <2>1. CASE StartRun(r) \/ EndRun(r)
    BY <1>0, <2>1 DEF StartRun, EndRun, Successful, streamVars, StreamTypeOK
  <2>2. CASE RequestDetect(r)
    BY <1>0, <2>2 DEF RequestDetect, Store, StreamTypeOK
  <2>3. QED
    BY <1>1, <2>1, <2>2 DEF Environment
<1>2. ASSUME NEW w \in Workers, NEW m \in Tasks, AcceptDetect(w, m) \/ AcceptReport(w, m)
      PROVE  TypeOK'
  <2>1. StreamTypeOK'
    BY <1>0, <1>2, StreamTypeStep DEF AcceptDetect, AcceptReport
  <2>2. pc' \in [Workers -> Steps]
    BY <1>0, <1>2 DEF AcceptDetect, AcceptReport
  <2>3. UNCHANGED <<runStatus, diffs, reports, prev, seen, attempt, row>>
    BY <1>2 DEF AcceptDetect, AcceptReport
  <2>4. QED
    BY <1>0, <2>1, <2>2, <2>3
<1>3. ASSUME NEW w \in Workers, NothingToCompare(w) \/ CompareRuns(w) PROVE TypeOK'
  <2>1. CASE NothingToCompare(w)
    BY <1>0, <2>1 DEF NothingToCompare, streamVars, StreamTypeOK
  <2>2. CASE CompareRuns(w)
    <3>1. PICK q \in Runs : prev' = [prev EXCEPT ![w] = q]
      BY <2>2 DEF CompareRuns, Previous
    <3>2. prev' \in [Workers -> Runs \cup {None}]
      BY <1>0, <3>1
    <3>3. QED
      BY <1>0, <2>2, <3>2 DEF CompareRuns, streamVars, StreamTypeOK
  <2>3. QED
    BY <1>3, <2>1, <2>2
<1>4. ASSUME NEW w \in Workers, CommitDiffs(w) PROVE TypeOK'
  <2> DEFINE r == RunOf[task[w]]
  <2>1. r \in Runs /\ prev[w] \in Runs
    BY <1>4, WorkingTask DEF CommitDiffs, PipelineInv, PrevIsChosen
  <2>2. Append(diffs[r], prev[w]) \in Seq(Runs)
    <3>1. diffs[r] \in Seq(Runs)
      BY <1>0, <2>1
    <3> HIDE DEF r
    <3>2. QED
      BY <2>1, <3>1, AppendProperties
  <2>3. diffs' \in [Runs -> Seq(Runs)]
    BY <1>0, <1>4, <2>1, <2>2 DEF CommitDiffs
  <2>4. QED
    BY <1>0, <1>4, <2>3 DEF CommitDiffs, streamVars, StreamTypeOK
<1>5. ASSUME NEW w \in Workers, TriggerReport(w) PROVE TypeOK'
  BY <1>0, <1>5 DEF TriggerReport, NewReportTasks, Store, StreamTypeOK
<1>6. ASSUME NEW w \in Workers, SkipReport(w) \/ AIAnswers(w) PROVE TypeOK'
  BY <1>0, <1>6 DEF SkipReport, AIAnswers, streamVars, StreamTypeOK
<1>7. ASSUME NEW w \in Workers, ReadInputs(w) PROVE TypeOK'
  <2>1. Len(diffs[RunOf[task[w]]]) \in Nat
    BY <1>0, <1>7, WorkingTask DEF ReadInputs
  <2>2. QED
    BY <1>0, <1>7, <2>1 DEF ReadInputs, streamVars, StreamTypeOK
<1>8. ASSUME NEW w \in Workers, InsertReport(w) PROVE TypeOK'
  <2>1. [run |-> RunOf[task[w]], diffs |-> seen[w], status |-> "generating"] \in ReportRows
    BY <1>0, <1>8, WorkingTask DEF ReportRows, InsertReport
  <2>2. reports' \in Seq(ReportRows) /\ Len(reports') = Len(reports) + 1
    BY <1>0, <1>8, <2>1 DEF InsertReport
  <2>3. row' \in [Workers -> 0 .. Len(reports')]
    BY <1>0, <1>8, <2>2 DEF InsertReport
  <2>4. QED
    BY <1>0, <1>8, <2>2, <2>3 DEF InsertReport, streamVars, StreamTypeOK
<1>9. ASSUME NEW w \in Workers, AIFails(w) PROVE TypeOK'
  <2>1. attempt[w] \in Nat /\ attempt[w] + 1 \in 0 .. MAX_AI_RETRIES
    <3>1. attempt[w] \in 0 .. 2
      BY <1>0 DEF MAX_AI_RETRIES
    <3>2. attempt[w] < 2
      BY <1>9 DEF AIFails, PipelineInv, AttemptsLeft, MAX_AI_RETRIES
    <3>3. QED
      BY <3>1, <3>2 DEF MAX_AI_RETRIES
  <2>2. attempt' \in [Workers -> 0 .. MAX_AI_RETRIES]
    BY <1>0, <1>9, <2>1 DEF AIFails
  <2>3. QED
    BY <1>0, <1>9, <2>2 DEF AIFails, streamVars, StreamTypeOK
<1>10. ASSUME NEW w \in Workers, SettleReport(w) PROVE TypeOK'
  <2>1. row[w] \in 1 .. Len(reports)
    BY <1>0, <1>10 DEF SettleReport, PipelineInv, RowIsOwn, Asking
  <2>2. reports' \in Seq(ReportRows) /\ Len(reports') = Len(reports)
    BY <1>0, <1>10, <2>1, StatusUpdate DEF SettleReport
  <2>3. QED
    BY <1>0, <1>10, <2>2 DEF SettleReport, ResetLocal, streamVars, StreamTypeOK, MAX_AI_RETRIES
<1>11. ASSUME NEW w \in Workers, AckTask(w) PROVE TypeOK'
  BY <1>0, <1>11 DEF AckTask, Ack, Waiting, StreamTypeOK
<1>12. ASSUME NEW w \in Workers, HandlerRaises(w) PROVE TypeOK'
  BY <1>0, <1>12 DEF HandlerRaises, Nak, Waiting, ResetLocal, StreamTypeOK, MAX_AI_RETRIES
<1>13. ASSUME NEW w \in Workers, ReportUnconfirmed(w) PROVE TypeOK'
  BY <1>0, <1>13 DEF ReportUnconfirmed, NewReportTasks, StoreThenNak, Store, Waiting, StreamTypeOK
<1>14. ASSUME NEW w \in Workers, WorkerCrash(w) PROVE TypeOK'
  BY <1>0, <1>14 DEF WorkerCrash, Crash, ResetLocal, StreamTypeOK, MAX_AI_RETRIES
<1>15. ASSUME NEW w \in Workers, NEW m \in Tasks, DeliverTask(w, m) PROVE TypeOK'
  <2>1. StreamTypeOK'
    BY <1>0, <1>15, StreamTypeStep DEF DeliverTask
  <2>2. QED
    BY <1>0, <1>15, <2>1 DEF DeliverTask
<1>16. ASSUME NEW m \in Tasks, ExpireTask(m) PROVE TypeOK'
  BY <1>0, <1>16 DEF ExpireTask, AckWaitExpires, StreamTypeOK
<1>17. CASE UNCHANGED vars
  BY <1>0, <1>17 DEF vars, streamVars, StreamTypeOK
<1>18. QED
  BY <1>1, <1>2, <1>3, <1>4, <1>5, <1>6, <1>7, <1>8, <1>9, <1>10, <1>11, <1>12, <1>13, <1>14,
     <1>15, <1>16, <1>17 DEF Next, Work, WorkerFault
LEMMA HeldStep ==
    ASSUME PipelineInv, [Next]_vars
    PROVE  HeldIsStored'
<1> USE DEF TypeOK, PipelineInv
<1>1. ASSUME UNCHANGED <<inbox, task>>, stored \subseteq stored' PROVE HeldIsStored'
  BY <1>1 DEF HeldIsStored, Holds
<1>2. ASSUME NEW r \in Runs, Environment(r) PROVE HeldIsStored'
  BY <1>1, <1>2 DEF Environment, StartRun, EndRun, RequestDetect, Store, streamVars
<1>3. ASSUME NEW w \in Workers, NEW m \in Tasks, AcceptDetect(w, m) \/ AcceptReport(w, m)
      PROVE  HeldIsStored'
  BY <1>3, HeldIsStoredStep DEF AcceptDetect, AcceptReport
<1>4. ASSUME NEW w \in Workers,
             \/ NothingToCompare(w) \/ CompareRuns(w) \/ CommitDiffs(w) \/ TriggerReport(w)
             \/ SkipReport(w) \/ ReadInputs(w) \/ InsertReport(w)
             \/ AIAnswers(w) \/ AIFails(w) \/ SettleReport(w)
      PROVE  HeldIsStored'
  BY <1>1, <1>4 DEF NothingToCompare, CompareRuns, CommitDiffs, TriggerReport, Store, SkipReport,
                    ReadInputs, InsertReport, AIAnswers, AIFails, SettleReport, streamVars
<1>5. ASSUME NEW w \in Workers, AckTask(w) \/ WorkerFault(w) PROVE HeldIsStored'
  BY <1>5, StreamAssumption
     DEF AckTask, Ack, WorkerFault, HandlerRaises, ReportUnconfirmed, StoreThenNak, Store,
         WorkerCrash, Nak, Crash, HeldIsStored, Holds, StreamTypeOK
<1>6. ASSUME NEW w \in Workers, NEW m \in Tasks, DeliverTask(w, m) PROVE HeldIsStored'
  BY <1>6, HeldIsStoredStep DEF DeliverTask
<1>7. ASSUME NEW m \in Tasks, ExpireTask(m) PROVE HeldIsStored'
  BY <1>1, <1>7 DEF ExpireTask, AckWaitExpires
<1>8. CASE UNCHANGED vars
  BY <1>1, <1>8 DEF vars, streamVars
<1>9. QED
  BY <1>2, <1>3, <1>4, <1>5, <1>6, <1>7, <1>8 DEF Next, Work

----------------------------------------------------------------------------
(***************************************************************************)
(* The other conjuncts.                                                    *)
(***************************************************************************)

\* What the invariant says of one handler's own variables.
HandlerOK(w) ==
    /\ pc[w] = "idle" <=> task[w] = None
    /\ pc[w] = "asking" => attempt[w] < MAX_AI_RETRIES
    /\ pc[w] \notin Asking => attempt[w] = 0
    /\ pc[w] = "compared" => prev[w] \in Runs
    /\ pc[w] \in {"report", "prompt"} \cup Asking => Kind[task[w]] = "report"
    /\ pc[w] \in {"fresh", "compared", "trigger"} => Kind[task[w]] = "detect"

LEMMA ActorStep ==
    ASSUME PipelineInv, NEW w \in Workers, Work(w) \/ WorkerFault(w)
    PROVE  HandlerOK(w)'
<1> USE StreamAssumption, PipelineAssumption
    DEF HandlerOK, Asking, Goto, ResetLocal, streamVars, localVars, MAX_AI_RETRIES
<1>1. HandlerOK(w)
  BY DEF PipelineInv, HandlersHaveTasks, AttemptsLeft, AttemptsAreOwn, PrevIsChosen, ReportHandlers,
         DetectHandlers
<1>2. /\ pc \in [Workers -> Steps] /\ task \in [Workers -> Tasks \cup {None}]
      /\ attempt \in [Workers -> 0 .. 2] /\ prev \in [Workers -> Runs \cup {None}]
      /\ row \in [Workers -> 0 .. Len(reports)] /\ seen \in [Workers -> Nat]
  BY DEF PipelineInv, TypeOK, StreamTypeOK
<1>3. ASSUME NEW m \in Tasks, AcceptDetect(w, m) \/ AcceptReport(w, m) PROVE HandlerOK(w)'
  BY <1>1, <1>2, <1>3 DEF AcceptDetect, AcceptReport, Take
<1>4. CASE NothingToCompare(w) \/ CommitDiffs(w) \/ TriggerReport(w)
  BY <1>1, <1>2, <1>4 DEF NothingToCompare, CommitDiffs, TriggerReport
<1>5. CASE CompareRuns(w)
  <2>1. PICK q \in Runs : prev' = [prev EXCEPT ![w] = q]
    BY <1>5 DEF CompareRuns, Previous
  <2>2. prev'[w] \in Runs
    BY <1>2, <2>1
  <2>3. QED
    BY <1>1, <1>2, <1>5, <2>2 DEF CompareRuns
<1>6. CASE SkipReport(w) \/ ReadInputs(w) \/ InsertReport(w) \/ AIAnswers(w)
  BY <1>1, <1>2, <1>6 DEF SkipReport, ReadInputs, InsertReport, AIAnswers
<1>7. CASE AIFails(w)
  <2>1. pc[w] = "asking" /\ attempt[w] \in 0 .. 1 /\ attempt'[w] = attempt[w] + 1
    BY <1>1, <1>2, <1>7 DEF AIFails
  <2>2. pc'[w] = IF attempt[w] + 1 = 2 THEN "unanswered" ELSE "asking"
    BY <1>2, <1>7 DEF AIFails
  <2>3. task'[w] = task[w]
    BY <1>7 DEF AIFails
  <2>4. QED
    BY <1>1, <2>1, <2>2, <2>3
<1>8. CASE SettleReport(w)
  BY <1>1, <1>2, <1>8 DEF SettleReport
<1>9. CASE AckTask(w)
  BY <1>1, <1>2, <1>9 DEF AckTask, Ack
<1>10. CASE HandlerRaises(w) \/ WorkerCrash(w)
  BY <1>1, <1>2, <1>10 DEF HandlerRaises, Nak, WorkerCrash, Crash
<1>11. CASE ReportUnconfirmed(w)
  BY <1>1, <1>2, <1>11 DEF ReportUnconfirmed, StoreThenNak
<1>12. QED
  BY <1>3, <1>4, <1>5, <1>6, <1>7, <1>8, <1>9, <1>10, <1>11 DEF Work, WorkerFault

LEMMA HandlerStep ==
    ASSUME PipelineInv, [Next]_vars
    PROVE  \A v \in Workers : HandlerOK(v)'
<1> SUFFICES ASSUME NEW v \in Workers PROVE HandlerOK(v)'
  OBVIOUS
<1>1. HandlerOK(v) /\ TypeOK
  BY DEF PipelineInv, HandlersHaveTasks, AttemptsLeft, AttemptsAreOwn, PrevIsChosen,
         ReportHandlers, DetectHandlers, HandlerOK
<1>2. ASSUME NEW w \in Workers, Work(w) \/ WorkerFault(w), v # w PROVE HandlerOK(v)'
  BY <1>1, <1>2, OneHandlerMoves DEF HandlerOK
<1>3. CASE UNCHANGED <<task, acked, diffs, reports, pc, localVars>>
  BY <1>1, <1>3 DEF HandlerOK, localVars
<1>4. QED
  BY <1>2, <1>3, ActorStep, OthersLeaveHandlers

\* What the acting worker may do to the rows and to its own row number.
LEMMA RowsStep ==
    ASSUME PipelineInv, NEW w \in Workers, Work(w) \/ WorkerFault(w)
    PROVE  \/ /\ reports' = reports
              /\ pc[w] \in Asking /\ pc'[w] \in Asking /\ row'[w] = row[w]
           \/ /\ reports' = reports
              /\ pc'[w] \notin Asking /\ row'[w] = 0
           \/ /\ Len(reports') = Len(reports) + 1
              /\ \A i \in 1 .. Len(reports) : reports'[i] = reports[i]
              /\ reports'[Len(reports) + 1].status = "generating"
              /\ pc'[w] \in Asking /\ row'[w] = Len(reports) + 1
           \/ /\ Len(reports') = Len(reports)
              /\ pc[w] \in Asking /\ row[w] \in 1 .. Len(reports)
              /\ \A i \in 1 .. Len(reports) : i # row[w] => reports'[i] = reports[i]
              /\ pc'[w] \notin Asking /\ row'[w] = 0
<1> USE DEF Asking, Goto, ResetLocal, streamVars, localVars
<1>1. pc[w] \in Asking <=> row[w] # 0
  BY DEF PipelineInv, RowIsOwn
<1>2. /\ pc \in [Workers -> Steps] /\ row \in [Workers -> 0 .. Len(reports)]
      /\ reports \in Seq(ReportRows) /\ task \in [Workers -> Tasks \cup {None}]
  BY DEF PipelineInv, TypeOK, StreamTypeOK
<1>3. pc[w] # "idle" => task[w] \in Tasks
  BY WorkingTask
<1>4. ASSUME NEW m \in Tasks, AcceptDetect(w, m) \/ AcceptReport(w, m)
      PROVE  reports' = reports /\ pc'[w] \notin Asking /\ row'[w] = 0
  <2>1. pc[w] = "idle"
    BY <1>4 DEF AcceptDetect, AcceptReport, Take, PipelineInv, HandlersHaveTasks
  <2>2. QED
    BY <1>1, <1>2, <1>4, <2>1 DEF AcceptDetect, AcceptReport
<1>5. CASE NothingToCompare(w) \/ CompareRuns(w) \/ CommitDiffs(w) \/ TriggerReport(w)
  BY <1>1, <1>2, <1>5 DEF NothingToCompare, CompareRuns, CommitDiffs, TriggerReport
<1>6. CASE SkipReport(w) \/ ReadInputs(w) \/ AckTask(w)
  BY <1>1, <1>2, <1>6 DEF SkipReport, ReadInputs, AckTask
<1>7. CASE InsertReport(w)
  <2>1. Len(reports') = Len(reports) + 1 /\ \A i \in 1 .. Len(reports) : reports'[i] = reports[i]
    BY <1>2, <1>7 DEF InsertReport
  <2>2. reports'[Len(reports) + 1].status = "generating"
    BY <1>2, <1>7 DEF InsertReport
  <2>3. pc'[w] \in Asking /\ row'[w] = Len(reports) + 1
    BY <1>2, <1>7 DEF InsertReport
  <2>4. QED
    BY <2>1, <2>2, <2>3
<1>8. CASE AIAnswers(w) \/ AIFails(w)
  BY <1>1, <1>2, <1>8 DEF AIAnswers, AIFails
<1>9. CASE SettleReport(w)
  <2>1. pc[w] \in Asking /\ row[w] \in 1 .. Len(reports)
    BY <1>1, <1>2, <1>9 DEF SettleReport
  <2>2. /\ Len(reports') = Len(reports)
        /\ \A i \in 1 .. Len(reports) : i # row[w] => reports'[i] = reports[i]
    BY <1>2, <1>9, <2>1, StatusUpdate DEF SettleReport
  <2>3. pc'[w] \notin Asking /\ row'[w] = 0
    BY <1>2, <1>9 DEF SettleReport
  <2>4. QED
    BY <2>1, <2>2, <2>3
<1>10. CASE HandlerRaises(w) \/ WorkerCrash(w)
  BY <1>2, <1>10 DEF HandlerRaises, WorkerCrash
<1>11. CASE ReportUnconfirmed(w)
  BY <1>1, <1>2, <1>11 DEF ReportUnconfirmed
<1>12. QED
  BY <1>4, <1>5, <1>6, <1>7, <1>8, <1>9, <1>10, <1>11 DEF Work, WorkerFault

LEMMA RowStep ==
    ASSUME PipelineInv, [Next]_vars
    PROVE  RowIsOwn'
<1>1. RowIsOwn /\ TypeOK
  BY DEF PipelineInv
<1>2. \A v \in Workers : row[v] \in 0 .. Len(reports)
  BY <1>1 DEF TypeOK
<1>3. ASSUME NEW w \in Workers, Work(w) \/ WorkerFault(w) PROVE RowIsOwn'
  <2>1. \A v \in Workers : v # w => pc'[v] = pc[v] /\ row'[v] = row[v]
    BY <1>1, <1>3, OneHandlerMoves
  <2>2. Len(reports) \in Nat
    BY <1>1 DEF TypeOK
  <2>3. \A v \in Workers : v # w /\ row[v] # 0 =>
            row[v] \in 1 .. Len(reports) /\ row[v] # row[w] /\ reports[row[v]].status = "generating"
    BY <1>1, <1>2 DEF RowIsOwn
  <2>4. \A v \in Workers : pc[v] \in Asking <=> row[v] # 0
    BY <1>1 DEF RowIsOwn
  <2>5. CASE reports' = reports /\ pc[w] \in Asking /\ pc'[w] \in Asking /\ row'[w] = row[w]
    BY <1>1, <2>1, <2>5 DEF RowIsOwn
  <2>6. CASE reports' = reports /\ pc'[w] \notin Asking /\ row'[w] = 0
    BY <1>1, <2>1, <2>6 DEF RowIsOwn
  <2>7. CASE /\ Len(reports') = Len(reports) + 1
             /\ \A i \in 1 .. Len(reports) : reports'[i] = reports[i]
             /\ reports'[Len(reports) + 1].status = "generating"
             /\ pc'[w] \in Asking /\ row'[w] = Len(reports) + 1
    <3>1. \A v \in Workers : v # w => row'[v] # Len(reports) + 1
      BY <1>2, <2>1, <2>2
    <3>2. \A v \in Workers : row'[v] # 0 => reports'[row'[v]].status = "generating"
      BY <2>1, <2>3, <2>7
    <3>3. \A v \in Workers : pc'[v] \in Asking <=> row'[v] # 0
      BY <2>1, <2>2, <2>4, <2>7
    <3>4. \A u, v \in Workers : v # u /\ row'[u] # 0 => row'[v] # row'[u]
      BY <1>1, <2>1, <2>7, <3>1 DEF RowIsOwn
    <3>5. QED
      BY <3>2, <3>3, <3>4 DEF RowIsOwn
  <2>8. CASE /\ Len(reports') = Len(reports)
             /\ pc[w] \in Asking /\ row[w] \in 1 .. Len(reports)
             /\ \A i \in 1 .. Len(reports) : i # row[w] => reports'[i] = reports[i]
             /\ pc'[w] \notin Asking /\ row'[w] = 0
    <3>1. \A v \in Workers : row'[v] # 0 => reports'[row'[v]].status = "generating"
      BY <2>1, <2>3, <2>8
    <3>2. \A v \in Workers : pc'[v] \in Asking <=> row'[v] # 0
      BY <2>1, <2>4, <2>8
    <3>3. \A u, v \in Workers : v # u /\ row'[u] # 0 => row'[v] # row'[u]
      BY <1>1, <2>1, <2>8 DEF RowIsOwn
    <3>4. QED
      BY <3>1, <3>2, <3>3 DEF RowIsOwn
  <2>9. QED
    BY <1>3, <2>5, <2>6, <2>7, <2>8, RowsStep
<1>4. CASE UNCHANGED <<task, acked, diffs, reports, pc, localVars>>
  BY <1>1, <1>4 DEF RowIsOwn, localVars
<1>5. QED
  BY <1>3, <1>4, OthersLeaveHandlers

LEMMA TriggeredStep ==
    ASSUME PipelineInv, [Next]_vars
    PROVE  ReturnedHasTriggered' /\ AckedDetectTriggersReport'
<1> USE PipelineAssumption
<1>1. ReturnedHasTriggered /\ AckedDetectTriggersReport /\ TypeOK
  BY DEF PipelineInv
<1>2. \A r : Triggered(r) => Triggered(r)'
  BY StoredGrows DEF Triggered
<1>3. ASSUME NEW w \in Workers, Work(w) \/ WorkerFault(w),
             pc'[w] = "returned", Kind[task'[w]] = "detect",
             NEW r, r = RunOf[task'[w]]
      PROVE  Triggered(r)'
  <2>1. CASE TriggerReport(w)
    <3>1. PICK m \in NewReportTasks(RunOf[task[w]]) : Store(m)
      BY <2>1 DEF TriggerReport
    <3>2. task' = task /\ m \in stored'
      BY <2>1, <3>1 DEF TriggerReport, Store
    <3>3. QED
      BY <1>3, <3>1, <3>2 DEF NewReportTasks, Triggered
  <2>2. CASE SkipReport(w) \/ SettleReport(w)
    <3>1. Kind[task[w]] = "report" /\ task' = task
      BY <2>2 DEF SkipReport, SettleReport, PipelineInv, ReportHandlers, Asking, streamVars
    <3>2. QED
      BY <1>3, <3>1
  <2>3. CASE ~TriggerReport(w) /\ ~SkipReport(w) /\ ~SettleReport(w)
    <3>1. pc \in [Workers -> Steps]
      BY <1>1 DEF TypeOK
    <3>2. CASE WorkerFault(w)
      BY <1>3, <3>1, <3>2 DEF WorkerFault, HandlerRaises, ReportUnconfirmed, WorkerCrash, Goto
    <3>3. CASE \E m \in Tasks : AcceptDetect(w, m) \/ AcceptReport(w, m)
      BY <1>3, <3>1, <3>3 DEF AcceptDetect, AcceptReport, Goto
    <3>4. CASE NothingToCompare(w) \/ CompareRuns(w) \/ CommitDiffs(w) \/ ReadInputs(w)
               \/ InsertReport(w) \/ AIAnswers(w) \/ AIFails(w) \/ AckTask(w)
      BY <1>3, <3>1, <3>4 DEF NothingToCompare, CompareRuns, CommitDiffs, ReadInputs,
              InsertReport, AIAnswers, AIFails, AckTask, Goto
    <3>5. QED
      BY <1>3, <2>3, <3>2, <3>3, <3>4 DEF Work
  <2>4. QED
    BY <2>1, <2>2, <2>3
<1>4. ReturnedHasTriggered'
  <2>1. ASSUME NEW w \in Workers, Work(w) \/ WorkerFault(w) PROVE ReturnedHasTriggered'
    <3>1. \A v \in Workers : v # w => pc'[v] = pc[v] /\ task'[v] = task[v]
      BY <1>1, <2>1, OneHandlerMoves
    <3>2. ASSUME NEW v \in Workers, pc'[v] = "returned", Kind[task'[v]] = "detect",
                 NEW r, r = RunOf[task'[v]]
          PROVE  Triggered(r)'
      <4>1. CASE v = w
        BY <1>3, <2>1, <3>2, <4>1
      <4>2. CASE v # w
        <5>1. Triggered(r)
          BY <1>1, <3>1, <3>2, <4>2 DEF ReturnedHasTriggered
        <5>2. QED
          BY <1>2, <5>1
      <4>3. QED
        BY <4>1, <4>2
    <3>3. QED
      BY <3>2 DEF ReturnedHasTriggered, Triggered
  <2>2. CASE UNCHANGED <<task, acked, diffs, reports, pc, localVars>>
    BY <1>1, <1>2, <2>2 DEF ReturnedHasTriggered
  <2>3. QED
    BY <2>1, <2>2, OthersLeaveHandlers
<1>5. ASSUME NEW m \in acked', Kind[m] = "detect" PROVE Triggered(RunOf[m])'
  <2>1. CASE m \in acked
    BY <1>1, <1>2, <1>5, <2>1 DEF AckedDetectTriggersReport, TasksOf, Triggered
  <2>2. CASE m \notin acked
    <3>1. PICK w \in Workers : Work(w) \/ WorkerFault(w)
      BY <1>5, <2>2, OthersLeaveHandlers
    <3>2. AckTask(w)
      BY <1>5, <2>2, <3>1 DEF Work, WorkerFault, AcceptDetect, AcceptReport, Take,
           NothingToCompare, CompareRuns, CommitDiffs, TriggerReport, SkipReport, ReadInputs,
           InsertReport, AIAnswers, AIFails, SettleReport, HandlerRaises, Nak, ReportUnconfirmed,
           StoreThenNak, WorkerCrash, Crash, streamVars
    <3>3. m = task[w] /\ pc[w] = "returned"
      BY <1>5, <2>2, <3>2 DEF AckTask, Ack
    <3>4. QED
      BY <1>1, <1>2, <1>5, <3>3 DEF ReturnedHasTriggered
  <2>3. QED
    BY <2>1, <2>2
<1>6. AckedDetectTriggersReport'
  BY <1>5 DEF AckedDetectTriggersReport, TasksOf, Triggered
<1>7. QED
  BY <1>4, <1>6

----------------------------------------------------------------------------
(***************************************************************************)
(* Theorems about every queue, every instance and every fault.             *)
(***************************************************************************)

LEMMA PipelineStep == PipelineInv /\ [Next]_vars => PipelineInv'
BY TypeStep, HeldStep, HandlerStep, RowStep, TriggeredStep
   DEF PipelineInv, HandlerOK, HandlersHaveTasks, AttemptsLeft, AttemptsAreOwn, PrevIsChosen,
       ReportHandlers, DetectHandlers

\* The invariant holds in every reachable state.
THEOREM PipelineInvariant == Spec => []PipelineInv
BY PipelineStep, InitInv, PTL DEF Spec

\* Every reachable state is of its type: row numbers exist, no handler asks
\* the AI more than MAX_AI_RETRIES times.
THEOREM TypeCorrect == Spec => []TypeOK
<1>1. PipelineInv => TypeOK
  BY DEF PipelineInv
<1>2. QED
  BY <1>1, PipelineInvariant, PTL

\* AckedDetectTriggersReport for every instance.
THEOREM DetectionIsReported == Spec => []AckedDetectTriggersReport
<1>1. PipelineInv => AckedDetectTriggersReport
  BY DEF PipelineInv
<1>2. QED
  BY <1>1, PipelineInvariant, PTL

\* SettledReportIsKept for every instance.
THEOREM SettledReportsStay == Spec => SettledReportIsKept
<1>1. PipelineInv /\ [Next]_vars =>
        \A i \in DOMAIN reports : reports[i].status # "generating" => reports'[i] = reports[i]
  <2> SUFFICES ASSUME PipelineInv, [Next]_vars, NEW i \in DOMAIN reports,
                      reports[i].status # "generating"
               PROVE  reports'[i] = reports[i]
    OBVIOUS
  <2>1. i \in 1 .. Len(reports)
    BY DEF PipelineInv, TypeOK
  <2>2. ASSUME NEW w \in Workers, Work(w) \/ WorkerFault(w) PROVE reports'[i] = reports[i]
    <3>1. row[w] # 0 => row[w] # i
      BY DEF PipelineInv, RowIsOwn
    <3>2. QED
      BY <2>1, <2>2, <3>1, RowsStep
  <2>3. QED
    BY <2>2, OthersLeaveHandlers
<1>2. QED
  BY <1>1, PipelineInvariant, PTL DEF Spec, SettledReportIsKept

----------------------------------------------------------------------------
(***************************************************************************)
(* What changes the runs, the stream, the diffs and the handlers.          *)
(***************************************************************************)

LEMMA StatusStep ==
    ASSUME [Next]_vars
    PROVE  UNCHANGED runStatus \/ \E r \in Runs : StartRun(r) \/ EndRun(r)
<1>1. ASSUME NEW w \in Workers, Work(w) PROVE UNCHANGED runStatus
  BY <1>1 DEF Work, AcceptDetect, AcceptReport, NothingToCompare, CompareRuns, CommitDiffs,
              TriggerReport, SkipReport, ReadInputs, InsertReport, AIAnswers, AIFails,
              SettleReport, AckTask
<1>2. ASSUME NEW w \in Workers, WorkerFault(w) PROVE UNCHANGED runStatus
  BY <1>2 DEF WorkerFault, HandlerRaises, ReportUnconfirmed, WorkerCrash
<1>3. QED
  BY <1>1, <1>2 DEF Next, Environment, RequestDetect, DeliverTask, ExpireTask, vars

\* A run that ended stays as it is.
LEMMA FinalStays ==
    ASSUME TypeOK, [Next]_vars, NEW r \in Runs, runStatus[r] \notin {"none", "running"}
    PROVE  runStatus'[r] = runStatus[r]
<1>1. ASSUME NEW q \in Runs, StartRun(q) \/ EndRun(q) PROVE runStatus'[r] = runStatus[r]
  <2>1. q # r
    BY <1>1 DEF StartRun, EndRun
  <2>2. QED
    BY <1>1, <2>1 DEF StartRun, EndRun, TypeOK
<1>2. QED
  BY <1>1, StatusStep

\* Where a new task of the stream comes from.
LEMMA NewTask ==
    ASSUME PipelineInv, [Next]_vars, NEW m \in Tasks, m \in stored', m \notin stored
    PROVE  \/ Kind[m] = "detect" /\ runStatus[RunOf[m]] \in Successful
           \/ /\ Kind[m] = "report"
              /\ \E w \in Workers : pc[w] = "trigger" /\ RunOf[task[w]] = RunOf[m]
<1>1. CASE \E r \in Runs : RequestDetect(r)
  BY <1>1 DEF RequestDetect, Store
<1>2. CASE \E w \in Workers : TriggerReport(w) \/ ReportUnconfirmed(w)
  BY <1>2 DEF TriggerReport, ReportUnconfirmed, StoreThenNak, NewReportTasks, Store
<1>3. ASSUME ~\E r \in Runs : RequestDetect(r),
             ~\E w \in Workers : TriggerReport(w) \/ ReportUnconfirmed(w)
      PROVE  stored' = stored
  <2>1. ASSUME NEW w \in Workers, Work(w) PROVE stored' = stored
    BY <1>3, <2>1
       DEF Work, AcceptDetect, AcceptReport, Take, NothingToCompare, CompareRuns, CommitDiffs,
           SkipReport, ReadInputs, InsertReport, AIAnswers, AIFails, SettleReport, AckTask, Ack,
           streamVars
  <2>2. ASSUME NEW w \in Workers, WorkerFault(w) PROVE stored' = stored
    BY <1>3, <2>2 DEF WorkerFault, HandlerRaises, Nak, WorkerCrash, Crash
  <2>3. QED
    BY <1>3, <2>1, <2>2 DEF Next, Environment, StartRun, EndRun, DeliverTask, Deliver,
       ExpireTask, AckWaitExpires, vars, streamVars
<1>4. QED
  BY <1>1, <1>2, <1>3

\* Only a commit changes the diffs, and only those of its own run.
LEMMA DiffsStep ==
    ASSUME PipelineInv, [Next]_vars
    PROVE  \/ diffs' = diffs
           \/ \E w \in Workers :
                 /\ CommitDiffs(w)
                 /\ <<prev[w], RunOf[task[w]]>> \in Differs
                 /\ diffs' = [diffs EXCEPT ![RunOf[task[w]]] = Append(@, prev[w])]
<1>1. ASSUME NEW w \in Workers, Work(w), ~CommitDiffs(w) PROVE diffs' = diffs
  BY <1>1 DEF Work, AcceptDetect, AcceptReport, NothingToCompare, CompareRuns,
              TriggerReport, SkipReport, ReadInputs, InsertReport, AIAnswers, AIFails,
              SettleReport, AckTask
<1>2. ASSUME NEW w \in Workers, WorkerFault(w) PROVE diffs' = diffs
  BY <1>2 DEF WorkerFault, HandlerRaises, ReportUnconfirmed, WorkerCrash
<1>3. ASSUME NEW w \in Workers, CommitDiffs(w), diffs' # diffs
      PROVE  /\ <<prev[w], RunOf[task[w]]>> \in Differs
             /\ diffs' = [diffs EXCEPT ![RunOf[task[w]]] = Append(@, prev[w])]
  BY <1>3 DEF CommitDiffs
<1>4. QED
  BY <1>1, <1>2, <1>3, OthersLeaveHandlers

\* The way into the steps of a handler that read or write diffs.
LEMMA StepsInto ==
    ASSUME PipelineInv, NEW w \in Workers, Work(w) \/ WorkerFault(w)
    PROVE  /\ pc'[w] = "fresh" =>
                 \E m \in Tasks : AcceptDetect(w, m) /\ diffs[RunOf[m]] = << >> /\ task'[w] = m
           /\ pc'[w] = "compared" => CompareRuns(w)
           /\ pc'[w] = "trigger" =>
                 \/ \E m \in Tasks : AcceptDetect(w, m) /\ diffs[RunOf[m]] # << >> /\ task'[w] = m
                 \/ NothingToCompare(w) \/ CommitDiffs(w)
           /\ pc'[w] = "prompt" => ReadInputs(w)
<1> USE DEF Goto
<1>1. pc \in [Workers -> Steps] /\ task \in [Workers -> Tasks \cup {None}]
  BY DEF PipelineInv, TypeOK, StreamTypeOK
<1>2. ASSUME NEW m \in Tasks, AcceptDetect(w, m)
      PROVE  /\ task'[w] = m
             /\ pc'[w] = IF diffs[RunOf[m]] # << >> THEN "trigger" ELSE "fresh"
  BY <1>1, <1>2 DEF AcceptDetect, Take
<1>3. ASSUME NEW m \in Tasks, AcceptReport(w, m) PROVE pc'[w] = "report"
  BY <1>1, <1>3 DEF AcceptReport
<1>4. CASE NothingToCompare(w) \/ CompareRuns(w) \/ CommitDiffs(w) \/ TriggerReport(w)
  BY <1>1, <1>4 DEF NothingToCompare, CompareRuns, CommitDiffs, TriggerReport
<1>5. CASE SkipReport(w) \/ ReadInputs(w) \/ InsertReport(w) \/ AIAnswers(w) \/ AIFails(w)
  BY <1>1, <1>5 DEF SkipReport, ReadInputs, InsertReport, AIAnswers, AIFails
<1>6. CASE SettleReport(w) \/ AckTask(w) \/ WorkerFault(w)
  BY <1>1, <1>6 DEF SettleReport, AckTask, WorkerFault, HandlerRaises, ReportUnconfirmed,
                    WorkerCrash
<1>7. QED
  BY <1>2, <1>3, <1>4, <1>5, <1>6 DEF Work

----------------------------------------------------------------------------
(***************************************************************************)
(* The run a run is compared with, when the job has one run at a time: the *)
(* runs before a successful one have all ended, so that the choice of      *)
(* CompareRuns is still the right one when the diffs are committed, and    *)
(* ever after.                                                             *)
(***************************************************************************)

RunsInOrder ==
    \A q, r \in Runs : q < r /\ runStatus[r] # "none" => runStatus[q] \notin {"none", "running"}

TasksAboutSuccess == \A m \in stored : runStatus[RunOf[m]] \in Successful

PrevIsPrevious == \A w \in Workers : pc[w] = "compared" => prev[w] \in Previous(RunOf[task[w]])

DiffsAboutSuccess == \A r \in Runs : diffs[r] # << >> => runStatus[r] \in Successful

DiffsArePrevious == \A r \in Runs : \A i \in DOMAIN diffs[r] : diffs[r][i] \in Previous(r)

ChoiceInv ==
    /\ PipelineInv
    /\ RunsInOrder
    /\ TasksAboutSuccess
    /\ PrevIsPrevious
    /\ DiffsAboutSuccess
    /\ DiffsArePrevious

LEMMA ChoiceInit == Init => ChoiceInv
BY InitInv DEF Init, StreamInit, ChoiceInv, RunsInOrder, TasksAboutSuccess, PrevIsPrevious,
               DiffsAboutSuccess, DiffsArePrevious

LEMMA OrderStep ==
    ASSUME TypeOK, RunsInOrder, ~Overlap, [Next]_vars
    PROVE  RunsInOrder'
<1>1. ASSUME NEW s \in Runs, StartRun(s) PROVE RunsInOrder'
  BY <1>1 DEF StartRun, RunsInOrder, TypeOK
<1>2. ASSUME NEW s \in Runs, EndRun(s) PROVE RunsInOrder'
  BY <1>2 DEF EndRun, RunsInOrder, TypeOK, Successful
<1>3. CASE UNCHANGED runStatus
  BY <1>3 DEF RunsInOrder
<1>4. QED
  BY <1>1, <1>2, <1>3, StatusStep

\* Once a run has started, the run before it is settled.
LEMMA PreviousStays ==
    ASSUME TypeOK, RunsInOrder, [Next]_vars, NEW r \in Runs, runStatus[r] # "none"
    PROVE  Previous(r)' = Previous(r)
<1>1. \A q \in Runs : q < r => runStatus'[q] = runStatus[q]
  BY FinalStays DEF RunsInOrder
<1>2. {q \in Runs : q < r /\ runStatus'[q] \in Successful}
        = {q \in Runs : q < r /\ runStatus[q] \in Successful}
  BY <1>1
<1>3. QED
  BY <1>2 DEF Previous

\* A handler of a detect task is about a successful run.
LEMMA DetectHandlerRun ==
    ASSUME PipelineInv, TasksAboutSuccess, NEW w \in Workers,
           pc[w] \in {"fresh", "compared", "trigger"}
    PROVE  /\ task[w] \in stored
           /\ RunOf[task[w]] \in Runs
           /\ runStatus[RunOf[task[w]]] \in Successful
<1>1. task[w] \in Tasks /\ RunOf[task[w]] \in Runs /\ Kind[task[w]] = "detect"
  BY WorkingTask DEF PipelineInv, DetectHandlers
<1>2. task[w] \in stored
  BY <1>1 DEF PipelineInv, HeldIsStored, Holds
<1>3. QED
  BY <1>1, <1>2 DEF TasksAboutSuccess

LEMMA AboutSuccessStep ==
    ASSUME PipelineInv, TasksAboutSuccess, [Next]_vars
    PROVE  TasksAboutSuccess'
<1> SUFFICES ASSUME NEW m \in stored' PROVE runStatus'[RunOf[m]] \in Successful
  BY DEF TasksAboutSuccess
<1>1. TypeOK /\ TypeOK'
  BY TypeStep DEF PipelineInv
<1>2. m \in Tasks /\ RunOf[m] \in Runs
  BY <1>1, PipelineAssumption DEF TypeOK, StreamTypeOK
<1>3. runStatus[RunOf[m]] \in Successful
  BY <1>2, NewTask, DetectHandlerRun DEF TasksAboutSuccess
<1>4. QED
  BY <1>1, <1>2, <1>3, FinalStays DEF Successful

LEMMA PrevStep ==
    ASSUME PipelineInv, RunsInOrder, TasksAboutSuccess, PrevIsPrevious, [Next]_vars
    PROVE  PrevIsPrevious'
<1> SUFFICES ASSUME NEW v \in Workers, pc'[v] = "compared", NEW r, r = RunOf[task'[v]]
             PROVE  prev'[v] \in Previous(r)'
  BY DEF PrevIsPrevious, Previous
<1>1. TypeOK
  BY DEF PipelineInv
<1>2. ASSUME pc[v] = "compared", task'[v] = task[v], prev'[v] = prev[v]
      PROVE  prev'[v] \in Previous(r)'
  <2>1. r \in Runs /\ runStatus[r] # "none"
    BY <1>2, DetectHandlerRun DEF Successful
  <2>2. Previous(r)' = Previous(r)
    BY <1>1, <2>1, PreviousStays
  <2>3. QED
    BY <1>2, <2>2 DEF PrevIsPrevious
<1>3. CASE Work(v) \/ WorkerFault(v)
  <2>1. CompareRuns(v)
    BY <1>3, StepsInto
  <2>2. /\ runStatus' = runStatus /\ task' = task
        /\ \E q \in Previous(RunOf[task[v]]) : prev' = [prev EXCEPT ![v] = q]
    BY <2>1 DEF CompareRuns, streamVars
  <2>3. prev'[v] \in Previous(r)
    BY <1>1, <2>2 DEF TypeOK
  <2>4. QED
    BY <2>2, <2>3 DEF Previous
<1>4. ASSUME NEW w \in Workers, Work(w) \/ WorkerFault(w), w # v
      PROVE  prev'[v] \in Previous(r)'
  BY <1>1, <1>2, <1>4, OneHandlerMoves
<1>5. CASE UNCHANGED <<task, acked, diffs, reports, pc, localVars>>
  BY <1>2, <1>5 DEF localVars
<1>6. QED
  BY <1>3, <1>4, <1>5, OthersLeaveHandlers

LEMMA DiffsAboutSuccessStep ==
    ASSUME PipelineInv, TasksAboutSuccess, DiffsAboutSuccess, [Next]_vars
    PROVE  DiffsAboutSuccess'
<1> SUFFICES ASSUME NEW r \in Runs, diffs'[r] # << >>
             PROVE  runStatus'[r] \in Successful
  BY DEF DiffsAboutSuccess
<1>1. TypeOK
  BY DEF PipelineInv
<1>2. runStatus[r] \in Successful
  <2>1. CASE diffs'[r] = diffs[r]
    BY <2>1 DEF DiffsAboutSuccess
  <2>2. CASE diffs'[r] # diffs[r]
    <3>1. PICK w \in Workers : CommitDiffs(w) /\ r = RunOf[task[w]]
      BY <1>1, <2>2, DiffsStep DEF TypeOK
    <3>2. QED
      BY <3>1, DetectHandlerRun DEF CommitDiffs
  <2>3. QED
    BY <2>1, <2>2
<1>3. QED
  BY <1>1, <1>2, FinalStays DEF Successful

LEMMA DiffsArePreviousStep ==
    ASSUME ChoiceInv, [Next]_vars
    PROVE  DiffsArePrevious'
<1> SUFFICES ASSUME NEW r \in Runs, NEW i \in DOMAIN diffs'[r]
             PROVE  diffs'[r][i] \in Previous(r)'
  BY DEF DiffsArePrevious, Previous
<1>1. PipelineInv /\ TypeOK /\ RunsInOrder /\ TasksAboutSuccess /\ diffs[r] \in Seq(Runs)
  BY DEF ChoiceInv, PipelineInv, TypeOK
<1>2. CASE diffs'[r] = diffs[r]
  <2>1. runStatus[r] # "none" /\ diffs[r][i] \in Previous(r)
    BY <1>1, <1>2 DEF ChoiceInv, DiffsAboutSuccess, DiffsArePrevious, Successful
  <2>2. QED
    BY <1>1, <1>2, <2>1, PreviousStays
<1>3. CASE diffs'[r] # diffs[r]
  <2>1. PICK w \in Workers :
          CommitDiffs(w) /\ r = RunOf[task[w]] /\ diffs'[r] = Append(diffs[r], prev[w])
    BY <1>1, <1>3, DiffsStep DEF TypeOK
  <2>2. pc[w] = "compared" /\ runStatus[r] # "none" /\ prev[w] \in Previous(r)
    BY <1>1, <2>1, DetectHandlerRun DEF CommitDiffs, ChoiceInv, PrevIsPrevious, Successful
  <2>3. Previous(r)' = Previous(r) /\ prev[w] \in Runs
    BY <1>1, <2>2, PreviousStays DEF Previous
  <2>4. \A j \in DOMAIN diffs[r] : diffs[r][j] \in Previous(r)
    BY DEF ChoiceInv, DiffsArePrevious
  <2>5. i \in 1 .. Len(diffs[r]) + 1
        /\ diffs'[r][i] = IF i = Len(diffs[r]) + 1 THEN prev[w] ELSE diffs[r][i]
    BY <1>1, <2>1, <2>3, AppendProperties
  <2>6. QED
    BY <1>1, <2>2, <2>3, <2>4, <2>5
<1>4. QED
  BY <1>2, <1>3

LEMMA ChoiceStep == ~Overlap /\ ChoiceInv /\ [Next]_vars => ChoiceInv'
BY PipelineStep, OrderStep, AboutSuccessStep, PrevStep, DiffsAboutSuccessStep, DiffsArePreviousStep
   DEF ChoiceInv, PipelineInv

\* NearestPrevious for every instance in which the job has one run at a time,
\* under every fault and any redelivery.
THEOREM NearestRunCompared == ~Overlap => (Spec => []NearestPrevious)
<1> SUFFICES ASSUME ~Overlap PROVE Spec => []NearestPrevious
  OBVIOUS
<1>1. ChoiceInv => NearestPrevious
  <2> SUFFICES ASSUME ChoiceInv, NEW r \in Runs, NEW i \in DOMAIN diffs[r]
               PROVE  /\ diffs[r][i] < r /\ runStatus[diffs[r][i]] \in Successful
                      /\ \A k \in Runs : diffs[r][i] < k /\ k < r => runStatus[k] \notin Successful
    BY DEF NearestPrevious
  <2>1. diffs[r][i] \in Previous(r)
    BY DEF ChoiceInv, DiffsArePrevious
  <2>2. \A q \in Previous(r), k \in Runs :
           /\ q < r /\ runStatus[q] \in Successful
           /\ q < k /\ k < r => runStatus[k] \notin Successful
    BY PipelineAssumption DEF Previous
  <2>3. QED
    BY <2>1, <2>2
<1>2. ChoiceInv /\ [Next]_vars => ChoiceInv'
  BY ChoiceStep
<1>3. QED
  BY <1>1, <1>2, ChoiceInit, PTL DEF Spec

----------------------------------------------------------------------------
(***************************************************************************)
(* One comparison of a run at a time: either no task is delivered while    *)
(* another is unacknowledged, or no ack_wait runs out early and a run has  *)
(* one detect task (which is what ScanRunProofs shows of the runs it       *)
(* ends).  Then a handler that compares finds no diffs, and still finds    *)
(* none when it commits its own.                                           *)
(***************************************************************************)

OneDetectPerRun ==
    \A m, n \in Tasks : Kind[m] = "detect" /\ Kind[n] = "detect" /\ RunOf[m] = RunOf[n] => m = n

SerialDetect == MaxAckPending = 1 \/ (~QueueWait /\ OneDetectPerRun)

LEMMA PipelineExclusiveStep ==
    ASSUME TypeOK, Exclusive, NoEarlyExpiry, [Next]_vars
    PROVE  Exclusive'
<1> USE DEF TypeOK
<1>1. ASSUME UNCHANGED <<unacked, holder, late, inbox, task>> PROVE Exclusive'
  BY <1>1 DEF Exclusive, HeldOnce, OnePending, Holds
<1>2. ASSUME NEW r \in Runs, Environment(r) PROVE Exclusive'
  BY <1>1, <1>2 DEF Environment, StartRun, EndRun, RequestDetect, streamVars
<1>3. ASSUME NEW w \in Workers, NEW m \in Tasks, AcceptDetect(w, m) \/ AcceptReport(w, m)
      PROVE  Exclusive'
  BY <1>3, ExclusiveStep DEF AcceptDetect, AcceptReport
<1>4. ASSUME NEW w \in Workers,
             \/ NothingToCompare(w) \/ CompareRuns(w) \/ CommitDiffs(w) \/ TriggerReport(w)
             \/ SkipReport(w) \/ ReadInputs(w) \/ InsertReport(w)
             \/ AIAnswers(w) \/ AIFails(w) \/ SettleReport(w)
      PROVE  Exclusive'
  BY <1>1, <1>4 DEF NothingToCompare, CompareRuns, CommitDiffs, TriggerReport, SkipReport,
                    ReadInputs, InsertReport, AIAnswers, AIFails, SettleReport, streamVars
<1>5. ASSUME NEW w \in Workers, AckTask(w) \/ WorkerFault(w) PROVE Exclusive'
  <2>1. task[w] = None => Crash(w)
    BY <1>5 DEF AckTask, Ack, WorkerFault, HandlerRaises, Nak, ReportUnconfirmed, StoreThenNak,
                WorkerCrash
  <2>2. PICK m \in Tasks : Ack(w) \/ Nak(w) \/ Crash(w) \/ StoreThenNak(w, m)
    <3>1. Ack(w) \/ Nak(w) \/ Crash(w) \/ \E m \in Tasks : StoreThenNak(w, m)
      BY <1>5 DEF AckTask, WorkerFault, HandlerRaises, ReportUnconfirmed, NewReportTasks,
                  WorkerCrash
    <3>2. Crash(w) => \E m \in Tasks : TRUE
      BY StreamAssumption DEF Crash, Busy, StreamTypeOK
    <3>3. task[w] # None => task[w] \in Tasks
      BY DEF StreamTypeOK
    <3>4. QED
      BY <2>1, <3>1, <3>2, <3>3
  <2>3. QED
    BY <2>2, ExclusiveStep
<1>6. ASSUME NEW w \in Workers, NEW m \in Tasks, DeliverTask(w, m) PROVE Exclusive'
  BY <1>6, ExclusiveStep DEF DeliverTask
<1>7. ASSUME NEW m \in Tasks, ExpireTask(m) PROVE Exclusive'
  <2>1. CASE Workers = {}
    BY <1>7, <2>1 DEF ExpireTask, AckWaitExpires, Exclusive, HeldOnce, OnePending
  <2>2. CASE Workers # {}
    BY <1>7, <2>2, ExclusiveStep DEF ExpireTask
  <2>3. QED
    BY <2>1, <2>2
<1>8. CASE UNCHANGED vars
  BY <1>1, <1>8 DEF vars, streamVars
<1>9. QED
  BY <1>2, <1>3, <1>4, <1>5, <1>6, <1>7, <1>8 DEF Next, Work

\* With one unacknowledged task there is one busy handler.
LEMMA OneBusyHandler ==
    ASSUME Exclusive, MaxAckPending = 1, NEW v \in Workers, NEW w \in Workers,
           task[v] \in Tasks, task[w] \in Tasks
    PROVE  v = w
<1>1. task[v] = task[w]
  BY DEF Exclusive, HeldOnce, OnePending, Holds
<1>2. QED
  BY <1>1, OneWorkerPerTask DEF Holds

LEMMA OneDetectHandler ==
    ASSUME SerialDetect, Exclusive, NEW v \in Workers, NEW w \in Workers,
           task[v] \in Tasks, task[w] \in Tasks,
           Kind[task[v]] = "detect", Kind[task[w]] = "detect", RunOf[task[v]] = RunOf[task[w]]
    PROVE  v = w
<1>1. CASE MaxAckPending = 1
  BY <1>1, OneBusyHandler
<1>2. CASE OneDetectPerRun
  BY <1>2, OneWorkerPerTask DEF OneDetectPerRun, Holds
<1>3. QED
  BY <1>1, <1>2 DEF SerialDetect

NotYetCompared ==
    \A w \in Workers : pc[w] \in {"fresh", "compared"} => diffs[RunOf[task[w]]] = << >>

OnceInv ==
    /\ PipelineInv
    /\ Exclusive
    /\ NotYetCompared
    /\ DiffsOnce

LEMMA OnceInit == Init => OnceInv
<1>1. Init => PipelineInv /\ Exclusive
  BY InitInv, ExclusiveInit DEF PipelineInv, TypeOK, Init
<1>2. Init => NotYetCompared /\ DiffsOnce
  BY EmptySeq DEF Init, NotYetCompared, DiffsOnce
<1>3. QED
  BY <1>1, <1>2 DEF OnceInv

LEMMA NotYetComparedStep ==
    ASSUME OnceInv, SerialDetect, [Next]_vars
    PROVE  NotYetCompared'
<1> SUFFICES ASSUME NEW v \in Workers, pc'[v] \in {"fresh", "compared"},
                    NEW r, r = RunOf[task'[v]]
             PROVE  diffs'[r] = << >>
  BY DEF NotYetCompared
<1>1. PipelineInv /\ TypeOK /\ Exclusive
  BY DEF OnceInv, PipelineInv
<1>2. ASSUME pc[v] \in {"fresh", "compared"}, task'[v] = task[v], ~CommitDiffs(v)
      PROVE  diffs'[r] = << >>
  <2>1. r \in Runs /\ diffs[r] = << >> /\ task[v] \in Tasks /\ Kind[task[v]] = "detect"
    BY <1>1, <1>2, WorkingTask DEF OnceInv, NotYetCompared, PipelineInv, DetectHandlers
  <2>2. ASSUME NEW w \in Workers, CommitDiffs(w), RunOf[task[w]] = r PROVE FALSE
    <3>1. task[w] \in Tasks /\ Kind[task[w]] = "detect"
      BY <1>1, <2>2, WorkingTask DEF CommitDiffs, PipelineInv, DetectHandlers
    <3>2. v = w
      BY <1>1, <1>2, <2>1, <2>2, <3>1, OneDetectHandler
    <3>3. QED
      BY <1>2, <2>2, <3>2
  <2>3. QED
    BY <1>1, <2>1, <2>2, DiffsStep DEF TypeOK
<1>3. CASE Work(v) \/ WorkerFault(v)
  <2>1. CASE pc'[v] = "fresh"
    BY <1>1, <1>3, <2>1, StepsInto DEF AcceptDetect
  <2>2. CASE pc'[v] = "compared"
    BY <1>1, <1>3, <2>2, StepsInto DEF CompareRuns, streamVars, OnceInv, NotYetCompared
  <2>3. QED
    BY <2>1, <2>2
<1>4. ASSUME NEW w \in Workers, Work(w) \/ WorkerFault(w), w # v
      PROVE  diffs'[r] = << >>
  <2>1. pc'[v] = pc[v] /\ task'[v] = task[v]
    BY <1>1, <1>4, OneHandlerMoves
  <2>2. ~CommitDiffs(v)
    BY <1>1, <2>1 DEF CommitDiffs, Goto, TypeOK
  <2>3. QED
    BY <1>2, <2>1, <2>2
<1>5. CASE UNCHANGED <<task, acked, diffs, reports, pc, localVars>>
  BY <1>5 DEF OnceInv, NotYetCompared
<1>6. QED
  BY <1>3, <1>4, <1>5, OthersLeaveHandlers

LEMMA DiffsOnceStep ==
    ASSUME OnceInv, [Next]_vars
    PROVE  DiffsOnce'
<1> SUFFICES ASSUME NEW r \in Runs PROVE Len(diffs'[r]) <= 1
  BY DEF DiffsOnce
<1>1. PipelineInv /\ TypeOK /\ Len(diffs[r]) <= 1
  BY DEF OnceInv, PipelineInv, DiffsOnce
<1>2. CASE diffs'[r] = diffs[r]
  BY <1>1, <1>2
<1>3. CASE diffs'[r] # diffs[r]
  <2>1. PICK w \in Workers :
          CommitDiffs(w) /\ r = RunOf[task[w]] /\ diffs'[r] = Append(diffs[r], prev[w])
    BY <1>1, <1>3, DiffsStep DEF TypeOK
  <2>2. diffs[r] = << >> /\ prev[w] \in Runs
    BY <1>1, <2>1 DEF CommitDiffs, OnceInv, NotYetCompared, PipelineInv, PrevIsChosen
  <2>3. Len(diffs'[r]) = 1
    BY <2>1, <2>2, EmptySeq, AppendProperties
  <2>4. QED
    BY <2>3
<1>4. QED
  BY <1>2, <1>3

LEMMA OnceStep == SerialDetect /\ OnceInv /\ [Next]_vars => OnceInv'
<1> SUFFICES ASSUME SerialDetect, OnceInv, [Next]_vars PROVE OnceInv'
  OBVIOUS
<1>1. Exclusive'
  BY PipelineExclusiveStep DEF SerialDetect, NoEarlyExpiry, OnceInv, PipelineInv
<1>2. QED
  BY <1>1, PipelineStep, NotYetComparedStep, DiffsOnceStep DEF OnceInv

\* DiffsOnce for every instance in which a run is compared by one handler at
\* a time, under every fault: a comparison that is cut short has stored
\* nothing, and one that stored its diffs is not made again.
THEOREM DiffsStoredOnce == SerialDetect => (Spec => []DiffsOnce)
<1> SUFFICES ASSUME SerialDetect PROVE Spec => []DiffsOnce
  OBVIOUS
<1>1. OnceInv /\ [Next]_vars => OnceInv'
  BY OnceStep
<1>2. OnceInv => DiffsOnce
  BY DEF OnceInv
<1>3. QED
  BY <1>1, <1>2, OnceInit, PTL DEF Spec

----------------------------------------------------------------------------
(***************************************************************************)
(* What a report describes.  A report task is published when the diffs of  *)
(* its run are final: they exist, or the comparison found none.  So none   *)
(* is committed between a report handler's read and its insert, or later.  *)
(***************************************************************************)

DiffsDone(r) == diffs[r] # << >> \/ \A q \in Previous(r) : <<q, r>> \notin Differs

TriggersAfterDiffs == \A w \in Workers : pc[w] = "trigger" => DiffsDone(RunOf[task[w]])

ReportsAfterDiffs == \A m \in stored : Kind[m] = "report" => DiffsDone(RunOf[m])

RowsAreRequested == \A i \in DOMAIN reports : Triggered(reports[i].run)

PromptHasSeen == \A w \in Workers : pc[w] = "prompt" => seen[w] = Len(diffs[RunOf[task[w]]])

DescribeInv ==
    /\ ChoiceInv
    /\ OnceInv
    /\ TriggersAfterDiffs
    /\ ReportsAfterDiffs
    /\ RowsAreRequested
    /\ PromptHasSeen
    /\ ReportDescribesDiffs

LEMMA DescribeInit == Init => DescribeInv
<1>1. Init => ChoiceInv /\ OnceInv
  BY ChoiceInit, OnceInit
<1>2. Init => /\ TriggersAfterDiffs /\ ReportsAfterDiffs /\ RowsAreRequested
              /\ PromptHasSeen /\ ReportDescribesDiffs
  BY DEF Init, StreamInit, TriggersAfterDiffs, ReportsAfterDiffs, RowsAreRequested,
         PromptHasSeen, ReportDescribesDiffs
<1>3. QED
  BY <1>1, <1>2 DEF DescribeInv

\* The diffs of a run a report was requested for do not change any more.
LEMMA RequestedDiffsStay ==
    ASSUME DescribeInv, [Next]_vars, NEW r \in Runs, Triggered(r)
    PROVE  diffs'[r] = diffs[r]
<1>1. PipelineInv /\ TypeOK
  BY DEF DescribeInv, OnceInv, PipelineInv
<1>2. DiffsDone(r)
  BY DEF DescribeInv, ReportsAfterDiffs, Triggered
<1>3. ASSUME NEW w \in Workers, CommitDiffs(w), <<prev[w], r>> \in Differs, RunOf[task[w]] = r
      PROVE  FALSE
  <2>1. diffs[r] = << >> /\ prev[w] \in Previous(r)
    BY <1>3 DEF CommitDiffs, DescribeInv, OnceInv, NotYetCompared, ChoiceInv, PrevIsPrevious
  <2>2. QED
    BY <1>2, <1>3, <2>1 DEF DiffsDone
<1>4. QED
  BY <1>1, <1>3, DiffsStep DEF TypeOK

\* Diffs that are final stay so.
LEMMA DoneStays ==
    ASSUME DescribeInv, [Next]_vars, NEW r \in Runs, runStatus[r] # "none", DiffsDone(r)
    PROVE  DiffsDone(r)'
<1>1. PipelineInv /\ TypeOK /\ RunsInOrder
  BY DEF DescribeInv, ChoiceInv, OnceInv, PipelineInv
<1>2. Previous(r)' = Previous(r)
  BY <1>1, PreviousStays
<1>3. diffs[r] # << >> => diffs'[r] # << >>
  <2>1. CASE diffs'[r] = diffs[r]
    BY <2>1
  <2>2. CASE diffs'[r] # diffs[r]
    <3>1. PICK w \in Workers : CommitDiffs(w) /\ r = RunOf[task[w]]
      BY <1>1, <2>2, DiffsStep DEF TypeOK
    <3>2. diffs[r] = << >>
      BY <3>1 DEF CommitDiffs, DescribeInv, OnceInv, NotYetCompared
    <3>3. QED
      BY <3>2
  <2>3. QED
    BY <2>1, <2>2
<1>4. QED
  BY <1>2, <1>3 DEF DiffsDone

LEMMA OnePrevious ==
    ASSUME NEW r, NEW p \in Previous(r), NEW q \in Previous(r)
    PROVE  p = q
<1>1. p \in Nat /\ q \in Nat /\ p <= q /\ q <= p
  BY PipelineAssumption DEF Previous
<1>2. QED
  BY <1>1

LEMMA TriggersAfterDiffsStep ==
    ASSUME DescribeInv, [Next]_vars
    PROVE  TriggersAfterDiffs'
<1> SUFFICES ASSUME NEW v \in Workers, pc'[v] = "trigger", NEW r, r = RunOf[task'[v]]
             PROVE  DiffsDone(r)'
  BY DEF TriggersAfterDiffs, DiffsDone, Previous
<1>1. PipelineInv /\ TypeOK /\ TasksAboutSuccess
  BY DEF DescribeInv, ChoiceInv, OnceInv, PipelineInv
<1>2. ASSUME pc[v] = "trigger", task'[v] = task[v] PROVE DiffsDone(r)'
  BY <1>1, <1>2, DetectHandlerRun, DoneStays DEF DescribeInv, TriggersAfterDiffs, Successful
<1>3. CASE Work(v) \/ WorkerFault(v)
  <2>1. ASSUME NEW m \in Tasks, AcceptDetect(v, m), diffs[RunOf[m]] # << >>, task'[v] = m
        PROVE  DiffsDone(r)'
    BY <2>1 DEF AcceptDetect, DiffsDone
  <2>2. CASE NothingToCompare(v)
    BY <2>2 DEF NothingToCompare, streamVars, DiffsDone, Previous
  <2>3. CASE CommitDiffs(v)
    <3>1. /\ pc[v] = "compared" /\ r = RunOf[task[v]] /\ runStatus' = runStatus
          /\ diffs' = IF <<prev[v], r>> \in Differs
                      THEN [diffs EXCEPT ![r] = Append(@, prev[v])] ELSE diffs
      BY <2>3 DEF CommitDiffs, streamVars
    <3>2. r \in Runs /\ prev[v] \in Previous(r) /\ prev[v] \in Runs
      BY <1>1, <3>1, WorkingTask DEF DescribeInv, ChoiceInv, PrevIsPrevious, Previous
    <3>3. CASE <<prev[v], r>> \in Differs
      <4>1. diffs'[r] = Append(diffs[r], prev[v]) /\ diffs[r] \in Seq(Runs)
        BY <1>1, <3>1, <3>2, <3>3 DEF TypeOK
      <4>2. diffs'[r] # << >>
        BY <3>2, <4>1, AppendProperties, EmptySeq
      <4>3. QED
        BY <4>2 DEF DiffsDone
    <3>4. CASE <<prev[v], r>> \notin Differs
      <4>1. Previous(r)' = Previous(r)
        BY <3>1 DEF Previous
      <4>2. \A q \in Previous(r) : q = prev[v]
        BY <3>2, OnePrevious
      <4>3. QED
        BY <3>4, <4>1, <4>2 DEF DiffsDone
    <3>5. QED
      BY <3>3, <3>4
  <2>4. QED
    BY <1>1, <1>3, <2>1, <2>2, <2>3, StepsInto
<1>4. ASSUME NEW w \in Workers, Work(w) \/ WorkerFault(w), w # v
      PROVE  DiffsDone(r)'
  BY <1>1, <1>2, <1>4, OneHandlerMoves
<1>5. CASE UNCHANGED <<task, acked, diffs, reports, pc, localVars>>
  BY <1>2, <1>5
<1>6. QED
  BY <1>3, <1>4, <1>5, OthersLeaveHandlers

LEMMA ReportsAfterDiffsStep ==
    ASSUME DescribeInv, [Next]_vars
    PROVE  ReportsAfterDiffs'
<1> SUFFICES ASSUME NEW m \in stored', Kind[m] = "report", NEW r, r = RunOf[m]
             PROVE  DiffsDone(r)'
  BY DEF ReportsAfterDiffs, DiffsDone, Previous
<1>1. PipelineInv /\ TypeOK /\ TypeOK' /\ TasksAboutSuccess
  BY TypeStep DEF DescribeInv, ChoiceInv, OnceInv, PipelineInv
<1>2. m \in Tasks /\ r \in Runs
  BY <1>1, PipelineAssumption DEF TypeOK, StreamTypeOK
<1>3. runStatus[r] \in Successful /\ DiffsDone(r)
  <2>1. CASE m \in stored
    BY <1>1, <2>1 DEF TasksAboutSuccess, DescribeInv, ReportsAfterDiffs
  <2>2. CASE m \notin stored
    <3>1. PICK w \in Workers : pc[w] = "trigger" /\ RunOf[task[w]] = r
      BY <1>1, <1>2, <2>2, NewTask
    <3>2. QED
      BY <1>1, <3>1, DetectHandlerRun DEF DescribeInv, TriggersAfterDiffs
  <2>3. QED
    BY <2>1, <2>2
<1>4. QED
  BY <1>2, <1>3, DoneStays DEF Successful

\* Rows are only added, and keep the run and the diffs they are about.
LEMMA RowContents ==
    ASSUME PipelineInv, [Next]_vars
    PROVE  \/ /\ Len(reports') = Len(reports)
              /\ \A i \in 1 .. Len(reports) :
                    reports'[i].run = reports[i].run /\ reports'[i].diffs = reports[i].diffs
           \/ \E w \in Workers : InsertReport(w)
<1>1. ASSUME NEW w \in Workers, Work(w), ~InsertReport(w), ~SettleReport(w)
      PROVE  reports' = reports
  BY <1>1 DEF Work, AcceptDetect, AcceptReport, NothingToCompare, CompareRuns, CommitDiffs,
              TriggerReport, SkipReport, ReadInputs, AIAnswers, AIFails, AckTask
<1>2. ASSUME NEW w \in Workers, WorkerFault(w) PROVE reports' = reports
  BY <1>2 DEF WorkerFault, HandlerRaises, ReportUnconfirmed, WorkerCrash
<1>3. ASSUME NEW w \in Workers, SettleReport(w)
      PROVE  /\ Len(reports') = Len(reports)
             /\ \A i \in 1 .. Len(reports) :
                   reports'[i].run = reports[i].run /\ reports'[i].diffs = reports[i].diffs
  <2>1. reports \in Seq(ReportRows) /\ Len(reports) \in Nat
    BY DEF PipelineInv, TypeOK
  <2>2. \A i \in 1 .. Len(reports) : reports[i] \in ReportRows
    BY <2>1, ElementOfSeq
  <2>3. PICK s : reports' = [reports EXCEPT ![row[w]].status = s]
    BY <1>3 DEF SettleReport
  <2>4. DOMAIN reports' = DOMAIN reports /\ reports' \in Seq(ReportRows)
    BY <1>3, <2>3, TypeStep, RowsStep DEF PipelineInv, TypeOK, Work
  <2>5. QED
    BY <2>1, <2>2, <2>3, <2>4 DEF ReportRows
<1>4. QED
  BY <1>1, <1>2, <1>3, OthersLeaveHandlers

LEMMA InsertedRow ==
    ASSUME PipelineInv, NEW w \in Workers, InsertReport(w)
    PROVE  /\ Len(reports') = Len(reports) + 1
           /\ \A i \in 1 .. Len(reports) : reports'[i] = reports[i]
           /\ reports'[Len(reports) + 1].run = RunOf[task[w]]
           /\ reports'[Len(reports) + 1].diffs = seen[w]
           /\ Kind[task[w]] = "report" /\ task[w] \in stored
           /\ diffs' = diffs /\ stored' = stored
BY WorkingTask
   DEF InsertReport, PipelineInv, TypeOK, ReportHandlers, HeldIsStored, Holds, streamVars

LEMMA PromptHasSeenStep ==
    ASSUME DescribeInv, [Next]_vars
    PROVE  PromptHasSeen'
<1> SUFFICES ASSUME NEW v \in Workers, pc'[v] = "prompt", NEW r, r = RunOf[task'[v]]
             PROVE  seen'[v] = Len(diffs'[r])
  BY DEF PromptHasSeen
<1>1. PipelineInv /\ TypeOK
  BY DEF DescribeInv, OnceInv, PipelineInv
<1>2. ASSUME pc[v] = "prompt", task'[v] = task[v], seen'[v] = seen[v]
      PROVE  seen'[v] = Len(diffs'[r])
  <2>1. task[v] \in Tasks /\ r \in Runs /\ Kind[task[v]] = "report"
    BY <1>1, <1>2, WorkingTask DEF PipelineInv, ReportHandlers
  <2>2. Triggered(r)
    BY <1>1, <1>2, <2>1 DEF Triggered, PipelineInv, HeldIsStored, Holds
  <2>3. QED
    BY <1>2, <2>1, <2>2, RequestedDiffsStay DEF DescribeInv, PromptHasSeen
<1>3. CASE Work(v) \/ WorkerFault(v)
  BY <1>1, <1>3, StepsInto DEF ReadInputs, streamVars, TypeOK
<1>4. ASSUME NEW w \in Workers, Work(w) \/ WorkerFault(w), w # v
      PROVE  seen'[v] = Len(diffs'[r])
  BY <1>1, <1>2, <1>4, OneHandlerMoves
<1>5. CASE UNCHANGED <<task, acked, diffs, reports, pc, localVars>>
  BY <1>2, <1>5 DEF localVars
<1>6. QED
  BY <1>3, <1>4, <1>5, OthersLeaveHandlers

LEMMA RowsStayDescribed ==
    ASSUME DescribeInv, [Next]_vars
    PROVE  RowsAreRequested' /\ ReportDescribesDiffs'
<1> SUFFICES ASSUME NEW i \in DOMAIN reports', NEW r, r = reports'[i].run
             PROVE  Triggered(r)' /\ reports'[i].diffs = Len(diffs'[r])
  BY DEF RowsAreRequested, ReportDescribesDiffs, Triggered
<1>1. PipelineInv /\ TypeOK /\ Len(reports) \in Nat
  BY DEF DescribeInv, OnceInv, PipelineInv, TypeOK
<1>2. reports' \in Seq(ReportRows) /\ i \in 1 .. Len(reports')
  BY <1>1, TypeStep DEF TypeOK
<1>3. r \in Runs
  <2>1. reports'[i] \in ReportRows
    BY <1>2, ElementOfSeq
  <2>2. QED
    BY <2>1 DEF ReportRows
<1>4. ASSUME i \in 1 .. Len(reports), reports'[i].run = reports[i].run,
             reports'[i].diffs = reports[i].diffs
      PROVE  Triggered(r)' /\ reports'[i].diffs = Len(diffs'[r])
  <2>1. i \in DOMAIN reports
    BY <1>1, <1>4 DEF TypeOK
  <2>2. Triggered(r) /\ reports[i].diffs = Len(diffs[r])
    BY <1>4, <2>1 DEF DescribeInv, RowsAreRequested, ReportDescribesDiffs
  <2>3. QED
    BY <1>3, <1>4, <2>2, RequestedDiffsStay, StoredGrows DEF Triggered
<1>5. ASSUME NEW w \in Workers, InsertReport(w)
      PROVE  Triggered(r)' /\ reports'[i].diffs = Len(diffs'[r])
  <2>1. CASE i \in 1 .. Len(reports)
    BY <1>1, <1>4, <1>5, <2>1, InsertedRow
  <2>2. CASE i = Len(reports) + 1
    BY <1>1, <1>5, <2>2, InsertedRow DEF Triggered, InsertReport, DescribeInv, PromptHasSeen
  <2>3. QED
    BY <1>1, <1>2, <1>5, <2>1, <2>2, InsertedRow
<1>6. CASE /\ Len(reports') = Len(reports)
           /\ \A j \in 1 .. Len(reports) :
                 reports'[j].run = reports[j].run /\ reports'[j].diffs = reports[j].diffs
  BY <1>2, <1>4, <1>6
<1>7. QED
  BY <1>1, <1>5, <1>6, RowContents

\* ReportDescribesDiffs for every instance with one run at a time and one
\* comparison of a run at a time, under every fault.
THEOREM ReportsDescribeDiffs == SerialDetect /\ ~Overlap => (Spec => []ReportDescribesDiffs)
<1> SUFFICES ASSUME SerialDetect, ~Overlap PROVE Spec => []ReportDescribesDiffs
  OBVIOUS
<1>1. DescribeInv /\ [Next]_vars => DescribeInv'
  BY ChoiceStep, OnceStep, TriggersAfterDiffsStep, ReportsAfterDiffsStep, PromptHasSeenStep,
     RowsStayDescribed DEF DescribeInv
<1>2. DescribeInv => ReportDescribesDiffs
  BY DEF DescribeInv
<1>3. QED
  BY <1>1, <1>2, DescribeInit, PTL DEF Spec

----------------------------------------------------------------------------
(***************************************************************************)
(* How many reports a run can have.  The existence check of report.py and  *)
(* its insert are two steps: handlers that look before there is a row all  *)
(* insert one.  They were all at work when the first row was inserted, and *)
(* a worker's loop is sequential, so there are no more rows than workers.  *)
(***************************************************************************)

\* The handlers that found no report of r and have not inserted theirs.
Prompting(r) == {w \in Workers : pc[w] = "prompt" /\ RunOf[task[w]] = r}

RacersInv ==
    \A r \in Runs : Cardinality(ReportsOf(r)) + Cardinality(Prompting(r)) <= Cardinality(Workers)

LEMMA RowsAreFinite ==
    ASSUME PipelineInv, NEW r \in Runs
    PROVE  /\ IsFiniteSet(ReportsOf(r)) /\ Cardinality(ReportsOf(r)) \in Nat
           /\ IsFiniteSet(Prompting(r)) /\ Cardinality(Prompting(r)) \in Nat
           /\ IsFiniteSet(Workers) /\ Cardinality(Workers) \in Nat
<1>1. reports \in Seq(ReportRows) /\ Len(reports) \in Nat
  BY DEF PipelineInv, TypeOK
<1>2. ReportsOf(r) \in SUBSET (1 .. Len(reports))
  BY <1>1 DEF ReportsOf
<1>3. IsFiniteSet(1 .. Len(reports))
  BY <1>1, FS_Interval
<1>4. Prompting(r) \in SUBSET Workers /\ IsFiniteSet(Workers)
  BY StreamAssumption DEF Prompting
<1>5. QED
  BY <1>2, <1>3, <1>4, FS_Subset, FS_CardinalityType

\* A step that adds no row of r and brings no handler of r to the insert.
LEMMA NoMoreRacers ==
    ASSUME PipelineInv, RacersInv, NEW r \in Runs,
           ReportsOf(r)' = ReportsOf(r), Prompting(r)' \subseteq Prompting(r)
    PROVE  Cardinality(ReportsOf(r))' + Cardinality(Prompting(r))' <= Cardinality(Workers)
<1>1. Cardinality(Prompting(r)') <= Cardinality(Prompting(r)) /\ IsFiniteSet(Prompting(r)')
  BY RowsAreFinite, FS_Subset
<1>2. Cardinality(Prompting(r)') \in Nat
  BY <1>1, FS_CardinalityType
<1>3. Cardinality(ReportsOf(r)') = Cardinality(ReportsOf(r))
  OBVIOUS
<1>4. QED
  BY <1>1, <1>2, <1>3, RowsAreFinite DEF RacersInv

LEMMA RowsOfRunStay ==
    ASSUME PipelineInv, [Next]_vars, NEW r \in Runs,
           \A w \in Workers : InsertReport(w) => RunOf[task[w]] # r
    PROVE  ReportsOf(r)' = ReportsOf(r)
<1>1. reports \in Seq(ReportRows) /\ reports' \in Seq(ReportRows) /\ Len(reports) \in Nat
  BY TypeStep DEF PipelineInv, TypeOK
<1>2. ASSUME NEW w \in Workers, InsertReport(w) PROVE ReportsOf(r)' = ReportsOf(r)
  BY <1>1, <1>2, InsertedRow DEF ReportsOf
<1>3. CASE /\ Len(reports') = Len(reports)
           /\ \A i \in 1 .. Len(reports) :
                 reports'[i].run = reports[i].run /\ reports'[i].diffs = reports[i].diffs
  BY <1>1, <1>3 DEF ReportsOf
<1>4. QED
  BY <1>2, <1>3, RowContents

LEMMA RacersStep ==
    ASSUME PipelineInv, RacersInv, [Next]_vars
    PROVE  RacersInv'
<1> SUFFICES ASSUME NEW r \in Runs
             PROVE  Cardinality(ReportsOf(r))' + Cardinality(Prompting(r))' <= Cardinality(Workers)
  BY DEF RacersInv
<1>1. /\ reports \in Seq(ReportRows) /\ reports' \in Seq(ReportRows) /\ Len(reports) \in Nat
      /\ pc \in [Workers -> Steps] /\ task \in [Workers -> Tasks \cup {None}] /\ TypeOK
  BY TypeStep DEF PipelineInv, TypeOK, StreamTypeOK
<1>2. ASSUME NEW w \in Workers, InsertReport(w), RunOf[task[w]] = r
      PROVE  Cardinality(ReportsOf(r))' + Cardinality(Prompting(r))' <= Cardinality(Workers)
  <2>1. ReportsOf(r)' = ReportsOf(r) \cup {Len(reports) + 1} /\ Len(reports) + 1 \notin ReportsOf(r)
    BY <1>1, <1>2, InsertedRow DEF ReportsOf
  <2>2. Prompting(r)' = Prompting(r) \ {w} /\ w \in Prompting(r)
    BY <1>1, <1>2 DEF InsertReport, Goto, Prompting, streamVars
  <2>3. Cardinality(ReportsOf(r)') = Cardinality(ReportsOf(r)) + 1
    BY <2>1, RowsAreFinite, FS_AddElement
  <2>4. Cardinality(Prompting(r)') = Cardinality(Prompting(r)) - 1
    BY <2>2, RowsAreFinite, FS_RemoveElement
  <2>5. QED
    BY <2>3, <2>4, RowsAreFinite DEF RacersInv
<1>3. ASSUME NEW w \in Workers, ReadInputs(w), RunOf[task[w]] = r
      PROVE  Cardinality(ReportsOf(r))' + Cardinality(Prompting(r))' <= Cardinality(Workers)
  <2>1. ReportsOf(r)' = {}
    BY <1>3 DEF ReadInputs, HasReport, ReportsOf, streamVars
  <2>2. Cardinality(Prompting(r)') <= Cardinality(Workers) /\ Cardinality(Prompting(r)') \in Nat
    <3>1. Prompting(r)' \in SUBSET Workers
      BY DEF Prompting
    <3>2. QED
      BY <3>1, StreamAssumption, FS_Subset, FS_CardinalityType
  <2>3. QED
    BY <2>1, <2>2, RowsAreFinite, FS_EmptySet
<1>4. CASE \A w \in Workers : (InsertReport(w) \/ ReadInputs(w)) => RunOf[task[w]] # r
  <2>1. ReportsOf(r)' = ReportsOf(r)
    BY <1>4, RowsOfRunStay
  <2>2. ASSUME NEW v \in Workers, pc'[v] = "prompt", RunOf[task'[v]] = r PROVE v \in Prompting(r)
    <3>1. CASE Work(v) \/ WorkerFault(v)
      <4>1. ReadInputs(v)
        BY <2>2, <3>1, StepsInto
      <4>2. QED
        BY <1>4, <2>2, <4>1 DEF ReadInputs, streamVars
    <3>2. ASSUME NEW w \in Workers, Work(w) \/ WorkerFault(w), w # v PROVE v \in Prompting(r)
      BY <1>1, <2>2, <3>2, OneHandlerMoves DEF Prompting
    <3>3. CASE UNCHANGED <<task, acked, diffs, reports, pc, localVars>>
      BY <2>2, <3>3 DEF Prompting
    <3>4. QED
      BY <3>1, <3>2, <3>3, OthersLeaveHandlers
  <2>3. Prompting(r)' \subseteq Prompting(r)
    BY <2>2 DEF Prompting
  <2>4. QED
    BY <2>1, <2>3, NoMoreRacers
<1>5. QED
  BY <1>2, <1>3, <1>4

LEMMA RacersInit == Init => RacersInv
<1> SUFFICES ASSUME Init, NEW r \in Runs
             PROVE  Cardinality(ReportsOf(r)) + Cardinality(Prompting(r)) <= Cardinality(Workers)
  BY DEF RacersInv
<1>1. ReportsOf(r) = {} /\ Prompting(r) = {}
  BY DEF Init, ReportsOf, Prompting
<1>2. QED
  BY <1>1, InitInv, RowsAreFinite, FS_EmptySet

\* ReportsPerWorker for every instance: under every fault, early redelivery
\* and any max_ack_pending.
THEOREM ReportsBounded == Spec => []ReportsPerWorker
<1>1. PipelineInv /\ RacersInv /\ [Next]_vars => (PipelineInv /\ RacersInv)'
  BY PipelineStep, RacersStep
<1>2. PipelineInv /\ RacersInv => ReportsPerWorker
  BY RowsAreFinite DEF RacersInv, ReportsPerWorker
<1>3. QED
  BY <1>1, <1>2, InitInv, RacersInit, PTL DEF Spec

(***************************************************************************)
(* One report per run: always with one worker process, the deployment of   *)
(* the README.  With several of them it takes one report handler per run   *)
(* at a time: either no task is delivered while another is unacknowledged, *)
(* or nothing goes wrong and a run has one detect task, which then         *)
(* publishes one report task.                                              *)
(***************************************************************************)

Quiet == ~QueueWait /\ OneDetectPerRun /\ Faults = {}

SerialReport == MaxAckPending = 1 \/ Quiet

\* A report task was published by the run's detect handler, which is over.
ReportsFollowDetect ==
    \A m \in stored : Kind[m] = "report" =>
        \E n \in Tasks :
            /\ Kind[n] = "detect" /\ RunOf[n] = RunOf[m]
            /\ n \in acked \/ \E w \in Workers : task[w] = n /\ pc[w] = "returned"

OneReportTask ==
    \A m, n \in stored :
        Kind[m] = "report" /\ Kind[n] = "report" /\ RunOf[m] = RunOf[n] => m = n

QuietInv == HandledOnce /\ ReportsFollowDetect /\ OneReportTask

LEMMA QuietStepHandled ==
    ASSUME TypeOK, Exclusive, HandledOnce, Quiet, [Next]_vars
    PROVE  HandledOnce'
<1> USE DEF TypeOK
<1>1. ASSUME UNCHANGED <<unacked, holder, acked, inbox, task>> PROVE HandledOnce'
  BY <1>1 DEF HandledOnce, Holds
<1>2. ASSUME NEW r \in Runs, Environment(r) PROVE HandledOnce'
  BY <1>1, <1>2 DEF Environment, StartRun, EndRun, RequestDetect, streamVars
<1>3. ASSUME NEW w \in Workers, NEW m \in Tasks, AcceptDetect(w, m) \/ AcceptReport(w, m)
      PROVE  HandledOnce'
  BY <1>3, HandledOnceStep DEF AcceptDetect, AcceptReport, Quiet
<1>4. ASSUME NEW w \in Workers,
             \/ NothingToCompare(w) \/ CompareRuns(w) \/ CommitDiffs(w) \/ TriggerReport(w)
             \/ SkipReport(w) \/ ReadInputs(w) \/ InsertReport(w)
             \/ AIAnswers(w) \/ AIFails(w) \/ SettleReport(w)
      PROVE  HandledOnce'
  BY <1>1, <1>4 DEF NothingToCompare, CompareRuns, CommitDiffs, TriggerReport, SkipReport,
                    ReadInputs, InsertReport, AIAnswers, AIFails, SettleReport, streamVars
<1>5. ASSUME NEW w \in Workers, AckTask(w) PROVE HandledOnce'
  <2>1. task[w] \in Tasks /\ Ack(w)
    BY <1>5 DEF AckTask, Ack, StreamTypeOK
  <2>2. QED
    BY <2>1, HandledOnceStep DEF Quiet
<1>6. ASSUME NEW w \in Workers, WorkerFault(w) PROVE HandledOnce'
  BY <1>6 DEF Quiet, WorkerFault, HandlerRaises, ReportUnconfirmed, WorkerCrash
<1>7. ASSUME NEW w \in Workers, NEW m \in Tasks, DeliverTask(w, m) PROVE HandledOnce'
  BY <1>7, HandledOnceStep DEF DeliverTask, Quiet
<1>8. ASSUME NEW m \in Tasks, ExpireTask(m) PROVE HandledOnce'
  BY <1>8 DEF ExpireTask, AckWaitExpires, Quiet, HandledOnce
<1>9. CASE UNCHANGED vars
  BY <1>1, <1>9 DEF vars, streamVars
<1>10. QED
  BY <1>2, <1>3, <1>4, <1>5, <1>6, <1>7, <1>8, <1>9 DEF Next, Work

\* Without faults only a trigger publishes report tasks.
LEMMA NewReportTask ==
    ASSUME PipelineInv, Quiet, [Next]_vars, NEW m \in stored', m \notin stored, Kind[m] = "report"
    PROVE  \E w \in Workers : TriggerReport(w) /\ RunOf[task[w]] = RunOf[m] /\ stored' = stored \cup {m}
<1>1. ASSUME NEW r \in Runs, RequestDetect(r) PROVE FALSE
  BY <1>1 DEF RequestDetect, Store
<1>2. ASSUME NEW w \in Workers, TriggerReport(w)
      PROVE  RunOf[task[w]] = RunOf[m] /\ stored' = stored \cup {m}
  BY <1>2 DEF TriggerReport, NewReportTasks, Store
<1>3. ASSUME ~\E r \in Runs : RequestDetect(r), ~\E w \in Workers : TriggerReport(w)
      PROVE  stored' = stored
  <2>1. ASSUME NEW w \in Workers, Work(w) PROVE stored' = stored
    BY <1>3, <2>1
       DEF Work, AcceptDetect, AcceptReport, Take, NothingToCompare, CompareRuns, CommitDiffs,
           SkipReport, ReadInputs, InsertReport, AIAnswers, AIFails, SettleReport, AckTask, Ack,
           streamVars
  <2>2. ASSUME NEW w \in Workers, WorkerFault(w) PROVE FALSE
    BY <2>2 DEF WorkerFault, HandlerRaises, ReportUnconfirmed, WorkerCrash, Quiet
  <2>3. QED
    BY <1>3, <2>1, <2>2 DEF Next, Environment, StartRun, EndRun, DeliverTask, Deliver,
       ExpireTask, AckWaitExpires, vars, streamVars
<1>4. QED
  BY <1>1, <1>2, <1>3

\* Without faults a handler that has returned is acknowledged.
LEMMA ReturnedIsAcked ==
    ASSUME PipelineInv, Quiet, [Next]_vars, NEW n \in Tasks,
           n \in acked \/ \E w \in Workers : task[w] = n /\ pc[w] = "returned"
    PROVE  n \in acked' \/ \E w \in Workers : task'[w] = n /\ pc'[w] = "returned"
<1>1. TypeOK
  BY DEF PipelineInv
<1>2. acked \subseteq acked'
  <2>1. ASSUME NEW w \in Workers, Work(w) PROVE acked \subseteq acked'
    BY <2>1
       DEF Work, AcceptDetect, AcceptReport, Take, NothingToCompare, CompareRuns, CommitDiffs,
           TriggerReport, SkipReport, ReadInputs, InsertReport, AIAnswers, AIFails,
           SettleReport, AckTask, Ack, streamVars
  <2>2. ASSUME NEW w \in Workers, WorkerFault(w) PROVE FALSE
    BY <2>2 DEF WorkerFault, HandlerRaises, ReportUnconfirmed, WorkerCrash, Quiet
  <2>3. QED
    BY <2>1, <2>2, OthersLeaveHandlers
<1>3. ASSUME NEW w \in Workers, task[w] = n, pc[w] = "returned"
      PROVE  n \in acked' \/ (task'[w] = n /\ pc'[w] = "returned")
  <2>1. CASE Work(w) \/ WorkerFault(w)
    <3>1. task[w] # None
      BY StreamAssumption, <1>3
    <3>2. AckTask(w)
      BY <1>3, <2>1, <3>1
         DEF Work, AcceptDetect, AcceptReport, Take, NothingToCompare, CompareRuns, CommitDiffs,
             TriggerReport, SkipReport, ReadInputs, InsertReport, AIAnswers, AIFails, SettleReport,
             WorkerFault, HandlerRaises, ReportUnconfirmed, WorkerCrash, Quiet
    <3>3. QED
      BY <1>3, <3>2 DEF AckTask, Ack
  <2>2. ASSUME NEW v \in Workers, Work(v) \/ WorkerFault(v), v # w
        PROVE  task'[w] = n /\ pc'[w] = "returned"
    BY <1>1, <1>3, <2>2, OneHandlerMoves
  <2>3. CASE UNCHANGED <<task, acked, diffs, reports, pc, localVars>>
    BY <1>3, <2>3
  <2>4. QED
    BY <2>1, <2>2, <2>3, OthersLeaveHandlers
<1>4. QED
  BY <1>2, <1>3

LEMMA QuietStep ==
    ASSUME PipelineInv, Exclusive, QuietInv, Quiet, [Next]_vars
    PROVE  QuietInv'
<1>1. TypeOK /\ HandledOnce /\ ReportsFollowDetect /\ OneReportTask
  BY DEF PipelineInv, QuietInv
<1>2. ASSUME NEW w \in Workers, TriggerReport(w)
      PROVE  /\ task[w] \in Tasks /\ Kind[task[w]] = "detect"
             /\ task'[w] = task[w] /\ pc'[w] = "returned"
  BY <1>1, <1>2, WorkingTask
     DEF TriggerReport, Goto, TypeOK, StreamTypeOK, PipelineInv, DetectHandlers
<1>3. ReportsFollowDetect'
  <2> SUFFICES ASSUME NEW m \in stored', Kind[m] = "report"
               PROVE  \E n \in Tasks :
                         /\ Kind[n] = "detect" /\ RunOf[n] = RunOf[m]
                         /\ n \in acked' \/ \E w \in Workers : task'[w] = n /\ pc'[w] = "returned"
    BY DEF ReportsFollowDetect
  <2>1. CASE m \in stored
    BY <1>1, <2>1, ReturnedIsAcked DEF ReportsFollowDetect
  <2>2. CASE m \notin stored
    BY <1>2, <2>2, NewReportTask
  <2>3. QED
    BY <2>1, <2>2
<1>4. ASSUME NEW m \in stored', m \notin stored, Kind[m] = "report",
             NEW k \in stored, Kind[k] = "report", RunOf[k] = RunOf[m]
      PROVE  FALSE
  <2>1. PICK w \in Workers : TriggerReport(w) /\ RunOf[task[w]] = RunOf[m]
    BY <1>4, NewReportTask
  <2>2. PICK n \in Tasks :
          /\ Kind[n] = "detect" /\ RunOf[n] = RunOf[k]
          /\ n \in acked \/ \E v \in Workers : task[v] = n /\ pc[v] = "returned"
    BY <1>1, <1>4 DEF ReportsFollowDetect
  <2>3. n = task[w]
    BY <1>2, <1>4, <2>1, <2>2 DEF Quiet, OneDetectPerRun
  <2>4. n \notin acked
    BY <1>1, <2>3 DEF HandledOnce, Exclusive, HeldOnce, Holds
  <2>5. PICK v \in Workers : task[v] = n /\ pc[v] = "returned"
    BY <2>2, <2>4
  <2>6. v = w
    BY <2>3, <2>5, OneWorkerPerTask DEF Holds
  <2>7. QED
    BY <2>1, <2>5, <2>6 DEF TriggerReport
<1>5. OneReportTask'
  <2> SUFFICES ASSUME NEW m \in stored', NEW k \in stored', Kind[m] = "report",
                      Kind[k] = "report", RunOf[m] = RunOf[k]
               PROVE  m = k
    BY DEF OneReportTask
  <2>1. CASE m \in stored /\ k \in stored
    BY <1>1, <2>1 DEF OneReportTask
  <2>2. CASE m \notin stored /\ k \notin stored
    BY <2>2, NewReportTask
  <2>3. QED
    BY <1>4, <2>1, <2>2
<1>6. QED
  BY <1>1, <1>3, <1>5, QuietStepHandled DEF QuietInv

PromptIsFirst == \A w \in Workers : pc[w] = "prompt" => ReportsOf(RunOf[task[w]]) = {}

OneRowPerRun == \A i, j \in DOMAIN reports : reports[i].run = reports[j].run => i = j

OneReportInv ==
    /\ PipelineInv
    /\ Exclusive
    /\ MaxAckPending # 1 => QuietInv
    /\ PromptIsFirst
    /\ OneRowPerRun

LEMMA OneReportInit == Init => OneReportInv
<1>1. Init => PipelineInv /\ Exclusive
  BY InitInv, ExclusiveInit DEF PipelineInv, TypeOK, Init
<1>2. Init => QuietInv
  BY DEF Init, StreamInit, QuietInv, HandledOnce, ReportsFollowDetect, OneReportTask
<1>3. Init => PromptIsFirst /\ OneRowPerRun
  BY DEF Init, PromptIsFirst, OneRowPerRun
<1>4. QED
  BY <1>1, <1>2, <1>3 DEF OneReportInv

LEMMA OneReportHandler ==
    ASSUME SerialReport, OneReportInv, NEW v \in Workers, NEW w \in Workers,
           task[v] \in Tasks, task[w] \in Tasks,
           Kind[task[v]] = "report", Kind[task[w]] = "report", RunOf[task[v]] = RunOf[task[w]]
    PROVE  v = w
<1>1. PipelineInv /\ Exclusive
  BY DEF OneReportInv
<1>2. CASE MaxAckPending = 1
  BY <1>1, <1>2, OneBusyHandler
<1>3. CASE MaxAckPending # 1
  <2>1. task[v] \in stored /\ task[w] \in stored
    BY <1>1 DEF PipelineInv, HeldIsStored, Holds
  <2>2. task[v] = task[w]
    BY <1>3, <2>1 DEF OneReportInv, QuietInv, OneReportTask
  <2>3. QED
    BY <1>1, <2>2, OneWorkerPerTask DEF Holds
<1>4. QED
  BY <1>2, <1>3

\* Another handler's insert, or any other step, leaves a run without reports
\* as it is.
LEMMA StillNoReport ==
    ASSUME PipelineInv, [Next]_vars, NEW r \in Runs, ReportsOf(r) = {},
           \A w \in Workers : InsertReport(w) => RunOf[task[w]] # r
    PROVE  ReportsOf(r)' = {}
<1>1. reports \in Seq(ReportRows) /\ reports' \in Seq(ReportRows) /\ Len(reports) \in Nat
  BY TypeStep DEF PipelineInv, TypeOK
<1>2. \A i \in 1 .. Len(reports) : reports[i].run # r
  BY <1>1 DEF ReportsOf
<1>3. \A i \in 1 .. Len(reports') : reports'[i].run # r
  <2>1. CASE \E w \in Workers : InsertReport(w)
    BY <1>1, <1>2, <2>1, InsertedRow
  <2>2. CASE ~\E w \in Workers : InsertReport(w)
    BY <1>1, <1>2, <2>2, RowContents
  <2>3. QED
    BY <2>1, <2>2
<1>4. QED
  BY <1>1, <1>3 DEF ReportsOf

LEMMA PromptIsFirstStep ==
    ASSUME SerialReport, OneReportInv, [Next]_vars
    PROVE  PromptIsFirst'
<1> SUFFICES ASSUME NEW v \in Workers, pc'[v] = "prompt", NEW r, r = RunOf[task'[v]]
             PROVE  ReportsOf(r)' = {}
  BY DEF PromptIsFirst, ReportsOf
<1>1. PipelineInv /\ TypeOK
  BY DEF OneReportInv, PipelineInv
<1>2. ASSUME pc[v] = "prompt", task'[v] = task[v] PROVE ReportsOf(r)' = {}
  <2>1. task[v] \in Tasks /\ r \in Runs /\ Kind[task[v]] = "report" /\ ReportsOf(r) = {}
    BY <1>1, <1>2, WorkingTask DEF PipelineInv, ReportHandlers, OneReportInv, PromptIsFirst
  <2>2. ASSUME NEW w \in Workers, InsertReport(w), RunOf[task[w]] = r PROVE FALSE
    <3>1. task[w] \in Tasks /\ Kind[task[w]] = "report"
      BY <1>1, <2>2, WorkingTask DEF InsertReport, PipelineInv, ReportHandlers
    <3>2. v = w
      BY <1>2, <2>1, <2>2, <3>1, OneReportHandler
    <3>3. pc'[v] = "asking"
      BY <1>1, <2>2, <3>2 DEF InsertReport, Goto, TypeOK
    <3>4. QED
      BY <3>3
  <2>3. QED
    BY <1>1, <2>1, <2>2, StillNoReport
<1>3. CASE Work(v) \/ WorkerFault(v)
  <2>1. ReadInputs(v)
    BY <1>1, <1>3, StepsInto
  <2>2. QED
    BY <2>1 DEF ReadInputs, HasReport, ReportsOf, streamVars
<1>4. ASSUME NEW w \in Workers, Work(w) \/ WorkerFault(w), w # v PROVE ReportsOf(r)' = {}
  BY <1>1, <1>2, <1>4, OneHandlerMoves
<1>5. CASE UNCHANGED <<task, acked, diffs, reports, pc, localVars>>
  BY <1>2, <1>5
<1>6. QED
  BY <1>3, <1>4, <1>5, OthersLeaveHandlers

LEMMA OneRowStep ==
    ASSUME OneReportInv, [Next]_vars
    PROVE  OneRowPerRun'
<1>1. PipelineInv /\ OneRowPerRun
  BY DEF OneReportInv
<1>2. reports \in Seq(ReportRows) /\ reports' \in Seq(ReportRows) /\ Len(reports) \in Nat
  BY <1>1, TypeStep DEF PipelineInv, TypeOK
<1>3. \A i, j \in 1 .. Len(reports) : reports[i].run = reports[j].run => i = j
  BY <1>1, <1>2 DEF OneRowPerRun
<1>4. ASSUME NEW w \in Workers, InsertReport(w) PROVE OneRowPerRun'
  <2>1. ReportsOf(RunOf[task[w]]) = {}
    BY <1>4 DEF InsertReport, OneReportInv, PromptIsFirst
  <2>2. \A i \in 1 .. Len(reports) : reports[i].run # RunOf[task[w]]
    BY <1>2, <2>1 DEF ReportsOf
  <2>3. \A i, j \in 1 .. Len(reports') : reports'[i].run = reports'[j].run => i = j
    BY <1>1, <1>2, <1>3, <1>4, <2>2, InsertedRow
  <2>4. QED
    BY <1>2, <2>3 DEF OneRowPerRun
<1>5. CASE /\ Len(reports') = Len(reports)
           /\ \A i \in 1 .. Len(reports) :
                 reports'[i].run = reports[i].run /\ reports'[i].diffs = reports[i].diffs
  BY <1>2, <1>3, <1>5 DEF OneRowPerRun
<1>6. QED
  BY <1>1, <1>4, <1>5, RowContents

LEMMA OneReportSerially == SerialReport => (Spec => []OneReport)
<1> SUFFICES ASSUME SerialReport PROVE Spec => []OneReport
  OBVIOUS
<1>1. OneReportInv /\ [Next]_vars => OneReportInv'
  <2> SUFFICES ASSUME OneReportInv, [Next]_vars PROVE OneReportInv'
    OBVIOUS
  <2>1. Exclusive'
    BY PipelineExclusiveStep DEF SerialReport, Quiet, NoEarlyExpiry, OneReportInv, PipelineInv
  <2>2. MaxAckPending # 1 => QuietInv'
    BY QuietStep DEF SerialReport, OneReportInv
  <2>3. QED
    BY <2>1, <2>2, PipelineStep, PromptIsFirstStep, OneRowStep DEF OneReportInv
<1>2. OneReportInv => OneReport
  <2> SUFFICES ASSUME OneReportInv, NEW r \in Runs PROVE Cardinality(ReportsOf(r)) <= 1
    BY DEF OneReport
  <2>1. \A i, j \in ReportsOf(r) : i = j
    BY DEF OneReportInv, OneRowPerRun, ReportsOf
  <2>2. CASE ReportsOf(r) = {}
    BY <2>2, FS_EmptySet
  <2>3. ASSUME NEW i \in ReportsOf(r) PROVE Cardinality(ReportsOf(r)) <= 1
    <3>1. ReportsOf(r) = {i}
      BY <2>1, <2>3
    <3>2. QED
      BY <3>1, FS_Singleton
  <2>4. QED
    BY <2>2, <2>3
<1>3. QED
  BY <1>1, <1>2, OneReportInit, PTL DEF Spec

\* OneReport for every instance with one worker, whatever is redelivered and
\* whichever fault happens, and for those in which a run has one report
\* handler at a time.
THEOREM OneReportPerRun == Cardinality(Workers) = 1 \/ SerialReport => (Spec => []OneReport)
<1>1. ASSUME Cardinality(Workers) = 1 PROVE Spec => []OneReport
  <2>1. ReportsPerWorker => OneReport
    BY <1>1 DEF ReportsPerWorker, OneReport
  <2>2. QED
    BY <2>1, ReportsBounded, PTL
<1>2. QED
  BY <1>1, OneReportSerially

============================================================================
