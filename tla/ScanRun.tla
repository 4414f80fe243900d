------------------------------ MODULE ScanRun ------------------------------
(***************************************************************************)
(* One job's scan runs, from the trigger to the request for change         *)
(* detection.                                                              *)
(*                                                                         *)
(*   - TriggerScrapeForJob (internal/server/v1/job.go) creates the run row *)
(*     and then, one by one, a search pair and its scrape task.            *)
(*   - Each worker (worker/handlers/scrape.py) takes a scrape task, checks *)
(*     whether its pair is already settled, marks it running, searches,    *)
(*     and commits the pair's result together with the run's counter.      *)
(*   - After every commit it runs _check_run_completion, which finalizes   *)
(*     the run and publishes the detect task.                              *)
(*                                                                         *)
(* A scrape task and its pair share an identity: Tasks of JobStream are    *)
(* the pairs of all the runs, RunOf says to which run a pair belongs.      *)
(***************************************************************************)
EXTENDS JobStream

CONSTANTS
    Runs,       \* runs of the job, one per trigger request
    RunOf,      \* the run each pair belongs to
    Faults      \* the kinds of fault that may happen

FaultKinds == {
    "trigger_race",  \* two triggers between their count and their create
    "api_crash",     \* the API process dies inside the pair loop
    "pair_insert",   \* inserting a pair fails
    "publish_lost",  \* publishing a scrape task fails
    "raise",         \* a database or NATS call of the handler raises
    "worker_crash"}  \* a worker process dies

ASSUME RunAssumption ==
    /\ RunOf \in [Tasks -> Runs]
    /\ Faults \in SUBSET FaultKinds

VARIABLES
    trigger,    \* where each trigger request is
    todo,       \* pairs its loop has not reached
    runStatus,  \* job_runs.status
    total,      \* job_runs.total_pairs
    completed,  \* job_runs.completed_pairs
    failed,     \* job_runs.failed_pairs
    pairStatus, \* search_pairs.status, "none" before the row exists
    pc,         \* where each worker's handler is
    detectSent  \* detect tasks published for each run

runVars == <<runStatus, total, completed, failed, detectSent>>
vars == <<streamVars, trigger, todo, runStatus, total, completed, failed,
          pairStatus, pc, detectSent>>

Terminal == {"completed", "partial", "failed"}
Settled == {"completed", "failed"}
Steps == {"idle", "accepted", "searching", "recorded", "finalized",
          "run_failed", "returned"}

PairsOf(r) == {p \in Tasks : RunOf[p] = r}
CreatedPairs(r) == {p \in PairsOf(r) : pairStatus[p] # "none"}
PairsIn(r, s) == {p \in PairsOf(r) : pairStatus[p] = s}

\* Mutant: any failed pair fails the run.
FinalStatus_AnyFailure(c, f) == IF f > 0 THEN "failed" ELSE "completed"

\* What a run with c completed and f failed pairs ends as.
FinalStatus(c, f) ==
    CASE f > 0 /\ c = 0 -> "failed"
      [] f > 0 /\ c # 0 -> "partial"
      [] OTHER          -> "completed"

\* Rows, handlers and messages have the values the code gives them; no message is
\* delivered more than max_deliver times.
TypeOK ==
    /\ StreamTypeOK
    /\ trigger \in [Runs -> {"idle", "checked", "pairs", "done", "dead"}]
    /\ todo \in [Runs -> SUBSET Tasks]
    /\ runStatus \in [Runs -> {"none", "running"} \cup Terminal]
    /\ total \in [Runs -> Nat]
    /\ completed \in [Runs -> Nat]
    /\ failed \in [Runs -> Nat]
    /\ pairStatus \in [Tasks -> {"none", "pending", "running"} \cup Settled]
    /\ pc \in [Workers -> Steps]
    /\ detectSent \in [Runs -> Nat]

Init ==
    /\ StreamInit
    /\ trigger = [r \in Runs |-> "idle"]
    /\ todo = [r \in Runs |-> {}]
    /\ runStatus = [r \in Runs |-> "none"]
    /\ total = [r \in Runs |-> 0]
    /\ completed = [r \in Runs |-> 0]
    /\ failed = [r \in Runs |-> 0]
    /\ pairStatus = [p \in Tasks |-> "none"]
    /\ pc = [w \in Workers |-> "idle"]
    /\ detectSent = [r \in Runs |-> 0]

----------------------------------------------------------------------------
(***************************************************************************)
(* The trigger.  Its transaction runs at READ COMMITTED, so the count of   *)
(* active runs and the insert are two steps; a refused trigger changes     *)
(* nothing.                                                                *)
(***************************************************************************)

\* The transaction counts no pending or running run of the job.
CountActiveRuns(r) ==
    /\ trigger[r] = "idle"
    /\ \A q \in Runs : runStatus[q] # "running"
    /\ "trigger_race" \in Faults \/ \A q \in Runs : trigger[q] # "checked"
    /\ trigger' = [trigger EXCEPT ![r] = "checked"]
    /\ UNCHANGED <<streamVars, todo, runVars, pairStatus, pc>>

\* It inserts the run and commits.
CreateRun(r) ==
    /\ trigger[r] = "checked"
    /\ trigger' = [trigger EXCEPT ![r] = "pairs"]
    /\ todo' = [todo EXCEPT ![r] = PairsOf(r)]
    /\ runStatus' = [runStatus EXCEPT ![r] = "running"]
    /\ total' = [total EXCEPT ![r] = Cardinality(PairsOf(r))]
    /\ UNCHANGED <<streamVars, completed, failed, pairStatus, pc, detectSent>>

\* One iteration: the pair row is inserted and its task published.
CreatePair(r, p) ==
    /\ trigger[r] = "pairs" /\ p \in todo[r]
    /\ todo' = [todo EXCEPT ![r] = @ \ {p}]
    /\ pairStatus' = [pairStatus EXCEPT ![p] = "pending"]
    /\ Store(p)
    /\ UNCHANGED <<deliveries, unacked, holder, late, acked, inbox, task,
                   trigger, runVars, pc>>

\* The row is inserted but publishing fails: the error is only logged.
CreatePairUnpublished(r, p) ==
    /\ "publish_lost" \in Faults
    /\ trigger[r] = "pairs" /\ p \in todo[r]
    /\ todo' = [todo EXCEPT ![r] = @ \ {p}]
    /\ pairStatus' = [pairStatus EXCEPT ![p] = "pending"]
    /\ UNCHANGED <<streamVars, trigger, runVars, pc>>

\* The insert fails: the loop goes on without this pair.
SkipPair(r, p) ==
    /\ "pair_insert" \in Faults
    /\ trigger[r] = "pairs" /\ p \in todo[r]
    /\ todo' = [todo EXCEPT ![r] = @ \ {p}]
    /\ UNCHANGED <<streamVars, trigger, runVars, pairStatus, pc>>

\* After the loop total_pairs becomes the number of pairs really created.
FinishTrigger(r) ==
    /\ trigger[r] = "pairs" /\ todo[r] = {}
    /\ trigger' = [trigger EXCEPT ![r] = "done"]
    /\ total' = [total EXCEPT ![r] = Cardinality(CreatedPairs(r))]
    /\ UNCHANGED <<streamVars, todo, runStatus, completed, failed, pairStatus,
                   pc, detectSent>>

\* The API process dies after the run was created; nothing resumes the loop.
ApiCrash(r) ==
    /\ "api_crash" \in Faults
    /\ trigger[r] = "pairs"
    /\ trigger' = [trigger EXCEPT ![r] = "dead"]
    /\ UNCHANGED <<streamVars, todo, runVars, pairStatus, pc>>

----------------------------------------------------------------------------
(***************************************************************************)
(* handle_scrape_task, one action per database transaction or publish.     *)
(***************************************************************************)

Goto(w, s) == pc' = [pc EXCEPT ![w] = s]

\* Mutant: no idempotency check.
AcceptTask_NoCheck(w, p) ==
    /\ Take(w, p)
    /\ Goto(w, "accepted")
    /\ UNCHANGED <<trigger, todo, runVars, pairStatus>>

\* The loop takes a task; the idempotency check lets it through unless the
\* pair is already settled.
AcceptTask(w, p) ==
    /\ Take(w, p)
    /\ Goto(w, IF pairStatus[p] \in Settled THEN "returned" ELSE "accepted")
    /\ UNCHANGED <<trigger, todo, runVars, pairStatus>>

\* After scrape_started the pair is marked running, whatever it is by now.
MarkRunning(w) ==
    /\ pc[w] = "accepted"
    /\ pairStatus' = [pairStatus EXCEPT ![task[w]] = "running"]
    /\ Goto(w, "searching")
    /\ UNCHANGED <<streamVars, trigger, todo, runVars>>

\* The search succeeded: results, pair and counter in one transaction.
RecordSuccess(w) ==
    LET r == RunOf[task[w]] IN
    /\ pc[w] = "searching"
    /\ pairStatus' = [pairStatus EXCEPT ![task[w]] = "completed"]
    /\ completed' = [completed EXCEPT ![r] = @ + 1]
    /\ Goto(w, "recorded")
    /\ UNCHANGED <<streamVars, trigger, todo, runStatus, total, failed, detectSent>>

\* Mutant: the failure of a pair is not counted.
RecordFailure_NotCounted(w) ==
    /\ pc[w] = "searching"
    /\ pairStatus' = [pairStatus EXCEPT ![task[w]] = "failed"]
    /\ Goto(w, "recorded")
    /\ UNCHANGED <<streamVars, trigger, todo, runVars>>

\* Every attempt and the fallback failed: pair and counter in one transaction.
RecordFailure(w) ==
    LET r == RunOf[task[w]] IN
    /\ pc[w] = "searching"
    /\ pairStatus' = [pairStatus EXCEPT ![task[w]] = "failed"]
    /\ failed' = [failed EXCEPT ![r] = @ + 1]
    /\ Goto(w, "recorded")
    /\ UNCHANGED <<streamVars, trigger, todo, runStatus, total, completed, detectSent>>

\* Mutant: the comparison with total_pairs is off by one.
RunStillOpen_OffByOne(w) ==
    LET r == RunOf[task[w]] IN
    /\ pc[w] = "recorded"
    /\ completed[r] + failed[r] <= total[r] \/ runStatus[r] \in Terminal
    /\ Goto(w, "returned")
    /\ UNCHANGED <<streamVars, trigger, todo, runVars, pairStatus>>

\* _check_run_completion returns without a change: pairs are outstanding,
\* or the run is already final.
RunStillOpen(w) ==
    LET r == RunOf[task[w]] IN
    /\ pc[w] = "recorded"
    /\ completed[r] + failed[r] < total[r] \/ runStatus[r] \in Terminal
    /\ Goto(w, "returned")
    /\ UNCHANGED <<streamVars, trigger, todo, runVars, pairStatus>>

\* Mutant: one pair too early.
FinalizeRun_OffByOne(w) ==
    LET r == RunOf[task[w]]
        s == FinalStatus(completed[r], failed[r]) IN
    /\ pc[w] = "recorded"
    /\ completed[r] + failed[r] >= total[r] - 1
    /\ runStatus[r] \notin Terminal
    /\ runStatus' = [runStatus EXCEPT ![r] = s]
    /\ Goto(w, IF s = "failed" THEN "run_failed" ELSE "finalized")
    /\ UNCHANGED <<streamVars, trigger, todo, total, completed, failed,
                   pairStatus, detectSent>>

\* Mutant: a run that is already final is finalized again.
FinalizeRun_Again(w) ==
    LET r == RunOf[task[w]]
        s == FinalStatus(completed[r], failed[r]) IN
    /\ pc[w] = "recorded"
    /\ completed[r] + failed[r] >= total[r]
    /\ runStatus' = [runStatus EXCEPT ![r] = s]
    /\ Goto(w, IF s = "failed" THEN "run_failed" ELSE "finalized")
    /\ UNCHANGED <<streamVars, trigger, todo, total, completed, failed,
                   pairStatus, detectSent>>

\* _check_run_completion finalizes the run under its row lock.
FinalizeRun(w) ==
    LET r == RunOf[task[w]]
        s == FinalStatus(completed[r], failed[r]) IN
    /\ pc[w] = "recorded"
    /\ completed[r] + failed[r] >= total[r]
    /\ runStatus[r] \notin Terminal
    /\ runStatus' = [runStatus EXCEPT ![r] = s]
    /\ Goto(w, IF s = "failed" THEN "run_failed" ELSE "finalized")
    /\ UNCHANGED <<streamVars, trigger, todo, total, completed, failed,
                   pairStatus, detectSent>>

\* Mutant: the early return is missing, so detection follows a failed run.
AnnounceFailure_Detect(w) ==
    LET r == RunOf[task[w]] IN
    /\ pc[w] = "run_failed"
    /\ detectSent' = [detectSent EXCEPT ![r] = @ + 1]
    /\ Goto(w, "returned")
    /\ UNCHANGED <<streamVars, trigger, todo, runStatus, total, completed,
                   failed, pairStatus>>

\* A failed run is only announced (run_failed); nothing follows it.
AnnounceFailure(w) ==
    /\ pc[w] = "run_failed"
    /\ Goto(w, "returned")
    /\ UNCHANGED <<streamVars, trigger, todo, runVars, pairStatus>>

\* run_complete is emitted and the detect task published.
PublishDetect(w) ==
    LET r == RunOf[task[w]] IN
    /\ pc[w] = "finalized"
    /\ detectSent' = [detectSent EXCEPT ![r] = @ + 1]
    /\ Goto(w, "returned")
    /\ UNCHANGED <<streamVars, trigger, todo, runStatus, total, completed,
                   failed, pairStatus>>

AckTask(w) ==
    /\ pc[w] = "returned"
    /\ Ack(w)
    /\ Goto(w, "idle")
    /\ UNCHANGED <<trigger, todo, runVars, pairStatus>>

\* A transaction, an event, the detect publish or the final ack raises before
\* it has an effect: the loop naks the task.
HandlerRaises(w) ==
    /\ "raise" \in Faults
    /\ pc[w] # "idle"
    /\ Nak(w)
    /\ Goto(w, "idle")
    /\ UNCHANGED <<trigger, todo, runVars, pairStatus>>

\* js.publish stored the detect task, but its confirmation did not arrive.
DetectUnconfirmed(w) ==
    LET r == RunOf[task[w]] IN
    /\ "raise" \in Faults
    /\ pc[w] = "finalized"
    /\ detectSent' = [detectSent EXCEPT ![r] = @ + 1]
    /\ Nak(w)
    /\ Goto(w, "idle")
    /\ UNCHANGED <<trigger, todo, runStatus, total, completed, failed, pairStatus>>

WorkerCrash(w) ==
    /\ "worker_crash" \in Faults
    /\ Crash(w)
    /\ Goto(w, "idle")
    /\ UNCHANGED <<trigger, todo, runVars, pairStatus>>

----------------------------------------------------------------------------
DeliverTask(w, p) == Deliver(w, p) /\ UNCHANGED <<trigger, todo, runVars, pairStatus, pc>>

ExpireTask(p) == AckWaitExpires(p) /\ UNCHANGED <<trigger, todo, runVars, pairStatus, pc>>

Trigger(r) ==
    \/ CountActiveRuns(r)
    \/ CreateRun(r)
    \/ \E p \in Tasks : CreatePair(r, p)
    \/ FinishTrigger(r)

TriggerFault(r) ==
    \/ \E p \in Tasks : CreatePairUnpublished(r, p) \/ SkipPair(r, p)
    \/ ApiCrash(r)

Work(w) ==
    \/ \E p \in Tasks : AcceptTask(w, p)
    \/ MarkRunning(w)
    \/ RecordSuccess(w) \/ RecordFailure(w)
    \/ RunStillOpen(w) \/ FinalizeRun(w)
    \/ AnnounceFailure(w) \/ PublishDetect(w)
    \/ AckTask(w)

WorkerFault(w) == HandlerRaises(w) \/ DetectUnconfirmed(w) \/ WorkerCrash(w)

Next ==
    \/ \E r \in Runs : Trigger(r) \/ TriggerFault(r)
    \/ \E w \in Workers : Work(w) \/ WorkerFault(w)
    \/ \E w \in Workers, p \in Tasks : DeliverTask(w, p)
    \/ \E p \in Tasks : ExpireTask(p)

Spec == Init /\ [][Next]_vars

\* The API goroutine, each worker's loop and the stream keep running; no
\* fault is ever bound to happen.  A trigger that is refused is not retried.
Fairness ==
    /\ \A r \in Runs : WF_vars(Trigger(r) /\ trigger[r] # "idle")
    /\ \A w \in Workers : WF_vars(Work(w))
    /\ \A p \in Tasks : WF_vars(\E w \in Workers : DeliverTask(w, p))
    /\ \A p \in Tasks : WF_vars(ExpireTask(p))

FairSpec == Spec /\ Fairness

----------------------------------------------------------------------------
(***************************************************************************)
(* Properties that hold whatever faults happen, early redelivery included. *)
(***************************************************************************)

\* The run's counters never fall behind its pairs: no interleaving of
\* workers, redeliveries or crashes loses the increment of a settled pair
\* (the pair and the counter are committed together, scrape.py 102-109 and
\* 131-172).  A lost increment would leave the run running for ever.
NeverUndercounts ==
    \A r \in Runs : completed[r] + failed[r] >=
        Cardinality(PairsIn(r, "completed") \cup PairsIn(r, "failed"))

\* A run is final only once its counters reached total_pairs, even though
\* the trigger lowers total_pairs while workers compare against it.
FinalOnlyWhenCounted ==
    \A r \in Runs : runStatus[r] \in Terminal => completed[r] + failed[r] >= total[r]

\* Change detection is requested at most once per run, and only for a run
\* that ended completed or partial (scrape.py 251-274): the row lock and the
\* status test keep two workers, or a redelivery, from both requesting it.
DetectOncePerSuccess ==
    \A r \in Runs :
        /\ detectSent[r] <= 1
        /\ detectSent[r] = 1 => runStatus[r] \in {"completed", "partial"}

\* A final run status is never changed again, neither by a worker that
\* finishes a duplicate delivery late nor by one that recounts.
FinalStatusIsKept ==
    [][\A r \in Runs : runStatus[r] \in Terminal => runStatus'[r] = runStatus[r]]_vars

(***************************************************************************)
(* Properties that need a task to be handled by one worker at a time: they *)
(* hold when ack_wait cannot run out for a task that is still being        *)
(* handled, or when max_ack_pending is 1.                                  *)
(***************************************************************************)

\* The counters say exactly how many pairs completed and how many failed.
CountersAreExact ==
    \A r \in Runs :
        /\ completed[r] = Cardinality(PairsIn(r, "completed"))
        /\ failed[r] = Cardinality(PairsIn(r, "failed"))

\* A final run has no pair still open, and its status is the one its pairs
\* imply: "completed" hides no failed pair and no pair never searched.
FinalStatusIsTruthful ==
    \A r \in Runs : runStatus[r] \in Terminal =>
        /\ \A p \in CreatedPairs(r) : pairStatus[p] \in Settled
        /\ runStatus[r] = FinalStatus(Cardinality(PairsIn(r, "completed")),
                                      Cardinality(PairsIn(r, "failed")))

(***************************************************************************)
(* The trigger and progress.                                               *)
(***************************************************************************)

\* A job never has two runs in progress (job.go 528-557).
OneActiveRun ==
    Cardinality({r \in Runs : runStatus[r] = "running"}) <= 1

\* A run with pairs ends, and one that did not fail is handed to change
\* detection, provided no fault happens.
RunFinishes ==
    \A r \in Runs : PairsOf(r) # {} =>
        (runStatus[r] = "running" ~>
            runStatus[r] = "failed" \/ (runStatus[r] \in Terminal /\ detectSent[r] = 1))

\* Every published scrape task is acknowledged or delivered max_deliver
\* times, whatever the handlers and the worker processes do.
NoTaskForgotten ==
    \A p \in Tasks : p \in stored ~> (p \in acked \/ deliveries[p] = MaxDeliver)

(***************************************************************************)
(* The runs behave as RunLifecycle promises: loosely in every case, and    *)
(* exactly when no task is delivered twice at once.                        *)
(***************************************************************************)
Loose == INSTANCE RunLifecycle WITH Exact <- FALSE
Strict == INSTANCE RunLifecycle WITH Exact <- TRUE

\* What GetRun shows of a run obeys the life cycle under every fault.
LooseLifecycle == Loose!LifecycleSpec

\* Its counters are moreover exact and frozen at the end.
StrictLifecycle == Strict!LifecycleSpec

============================================================================
