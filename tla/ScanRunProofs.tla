--------------------------- MODULE ScanRunProofs ---------------------------
(***************************************************************************)
(* What is proved of ScanRun for any number of runs, pairs and workers and *)
(* any combination of faults.                                              *)
(***************************************************************************)
EXTENDS ScanRun, JobStreamProofs, FiniteSetTheorems, TLAPS

\* The set of pairs of a run, and any part of it, is finite.
LEMMA PairsFinite ==
    ASSUME NEW S \in SUBSET Tasks
    PROVE  IsFiniteSet(S) /\ Cardinality(S) \in Nat
BY StreamAssumption, FS_Subset, FS_CardinalityType

----------------------------------------------------------------------------
(***************************************************************************)
(* Type correctness.                                                       *)
(***************************************************************************)

LEMMA TypeInit == Init => TypeOK
BY StreamAssumption, RunAssumption
   DEF Init, StreamInit, TypeOK, StreamTypeOK, Steps

LEMMA TypeStep == TypeOK /\ [Next]_vars => TypeOK'
<1> SUFFICES ASSUME TypeOK, [Next]_vars PROVE TypeOK'
  OBVIOUS
<1> USE RunAssumption DEF TypeOK, runVars, Terminal, Settled, Steps, Goto
<1>1. ASSUME NEW r \in Runs, Trigger(r) PROVE TypeOK'
  <2>1. CASE CountActiveRuns(r)
    BY <2>1 DEF CountActiveRuns, streamVars, StreamTypeOK
  <2>2. CASE CreateRun(r)
    <3>1. PairsOf(r) \in SUBSET Tasks /\ Cardinality(PairsOf(r)) \in Nat
      BY PairsFinite DEF PairsOf
    <3>2. QED
      BY <2>2, <3>1 DEF CreateRun, streamVars, StreamTypeOK
  <2>3. ASSUME NEW p \in Tasks, CreatePair(r, p) PROVE TypeOK'
    BY <2>3 DEF CreatePair, Store, StreamTypeOK
  <2>4. CASE FinishTrigger(r)
    <3>1. Cardinality(CreatedPairs(r)) \in Nat
      BY PairsFinite DEF PairsOf, CreatedPairs
    <3>2. QED
      BY <2>4, <3>1 DEF FinishTrigger, streamVars, StreamTypeOK
  <2>5. QED
    BY <1>1, <2>1, <2>2, <2>3, <2>4 DEF Trigger
<1>2. ASSUME NEW r \in Runs, TriggerFault(r) PROVE TypeOK'
  <2>1. StreamTypeOK'
    BY <1>2 DEF TriggerFault, CreatePairUnpublished, SkipPair, ApiCrash, streamVars, StreamTypeOK
  <2>2. ASSUME NEW p \in Tasks, CreatePairUnpublished(r, p) PROVE TypeOK'
    BY <2>1, <2>2 DEF CreatePairUnpublished
  <2>3. ASSUME NEW p \in Tasks, SkipPair(r, p) PROVE TypeOK'
    BY <2>1, <2>3 DEF SkipPair
  <2>4. CASE ApiCrash(r)
    BY <2>1, <2>4 DEF ApiCrash
  <2>5. QED
    BY <1>2, <2>2, <2>3, <2>4 DEF TriggerFault
<1>3. ASSUME NEW w \in Workers, Work(w) PROVE TypeOK'
  <2>1. ASSUME NEW p \in Tasks, AcceptTask(w, p) PROVE TypeOK'
    BY <2>1, StreamTypeStep DEF AcceptTask
  <2>2. CASE MarkRunning(w) \/ RecordSuccess(w) \/ RecordFailure(w)
    <3>1. StreamTypeOK'
      BY <2>2 DEF MarkRunning, RecordSuccess, RecordFailure, streamVars, StreamTypeOK
    <3>2. QED
      BY <2>2, <3>1 DEF MarkRunning, RecordSuccess, RecordFailure
  <2>3. CASE RunStillOpen(w) \/ AnnounceFailure(w) \/ PublishDetect(w)
    <3>1. StreamTypeOK'
      BY <2>3 DEF RunStillOpen, AnnounceFailure, PublishDetect, streamVars, StreamTypeOK
    <3>2. QED
      BY <2>3, <3>1 DEF RunStillOpen, AnnounceFailure, PublishDetect
  <2>4. CASE FinalizeRun(w)
    <3>1. StreamTypeOK'
      BY <2>4 DEF FinalizeRun, streamVars, StreamTypeOK
    <3>2. QED
      BY <2>4, <3>1 DEF FinalizeRun, FinalStatus
  <2>5. CASE AckTask(w)
    <3>1. StreamTypeOK'
      BY <2>5, StreamTypeStep DEF AckTask, Ack, StreamTypeOK
    <3>2. QED
      BY <2>5, <3>1 DEF AckTask
  <2>6. QED
    BY <1>3, <2>1, <2>2, <2>3, <2>4, <2>5 DEF Work
<1>4. ASSUME NEW w \in Workers, WorkerFault(w) PROVE TypeOK'
  <2>1. StreamTypeOK'
    BY <1>4, StreamTypeStep
       DEF WorkerFault, HandlerRaises, DetectUnconfirmed, WorkerCrash, Crash, Nak, Busy, StreamTypeOK
  <2>2. QED
    BY <1>4, <2>1 DEF WorkerFault, HandlerRaises, DetectUnconfirmed, WorkerCrash
<1>5. ASSUME NEW w \in Workers, NEW p \in Tasks, DeliverTask(w, p)
      PROVE  TypeOK'
  BY <1>5, StreamTypeStep DEF DeliverTask
<1>6. ASSUME NEW p \in Tasks, ExpireTask(p) PROVE TypeOK'
  BY <1>6 DEF ExpireTask, AckWaitExpires, StreamTypeOK
<1>7. CASE UNCHANGED vars
  BY <1>7 DEF vars, streamVars, StreamTypeOK
<1>8. QED
  BY <1>1, <1>2, <1>3, <1>4, <1>5, <1>6, <1>7 DEF Next

\* In every reachable state each variable has its type: no delivery count
\* passes max_deliver and no handler reaches a step that does not exist.
THEOREM TypeCorrect == Spec => []TypeOK
<1>1. QED
  BY TypeInit, TypeStep, PTL DEF Spec

----------------------------------------------------------------------------
(***************************************************************************)
(* The bookkeeping the other invariants rest on: a handler runs exactly    *)
(* while its worker has a task, tasks come from runs that were started,    *)
(* and the trigger's loop stays inside its own run.                        *)
(***************************************************************************)

HandlersHaveTasks == \A w \in Workers : pc[w] = "idle" <=> task[w] = None

RunsAreStarted == \A r \in Runs : runStatus[r] = "none" <=> trigger[r] \in {"idle", "checked"}

LoopIsOwn ==
    \A r \in Runs :
        /\ todo[r] \subseteq PairsOf(r)
        /\ trigger[r] = "pairs" => total[r] = Cardinality(PairsOf(r))

StoredIsStarted == \A p \in stored : runStatus[RunOf[p]] # "none"

Bookkeeping ==
    /\ TypeOK
    /\ HandlersHaveTasks
    /\ RunsAreStarted
    /\ LoopIsOwn
    /\ StoredIsStarted
    /\ HeldIsStored

LEMMA BookkeepingInit == Init => Bookkeeping
BY TypeInit, RunAssumption, StreamAssumption
   DEF Init, StreamInit, Bookkeeping, HandlersHaveTasks, RunsAreStarted, LoopIsOwn,
       StoredIsStarted, HeldIsStored, Holds

\* Nothing of a trigger touches the worker side.
LEMMA TriggersLeaveWorkers ==
    ASSUME NEW r \in Runs, Trigger(r) \/ TriggerFault(r)
    PROVE  /\ UNCHANGED <<pc, task, inbox, completed, failed, detectSent>>
           /\ stored \subseteq stored'
BY DEF Trigger, TriggerFault, CountActiveRuns, CreateRun, CreatePair, FinishTrigger,
       CreatePairUnpublished, SkipPair, ApiCrash, Store, streamVars, runVars

LEMMA HandlersStep ==
    ASSUME TypeOK, HandlersHaveTasks, [Next]_vars
    PROVE  HandlersHaveTasks'
<1> USE StreamAssumption DEF HandlersHaveTasks, TypeOK, StreamTypeOK, streamVars, Goto, Steps
<1>1. ASSUME NEW r \in Runs, Trigger(r) \/ TriggerFault(r) PROVE HandlersHaveTasks'
  BY <1>1, TriggersLeaveWorkers
<1>2. ASSUME NEW w \in Workers, NEW p \in Tasks, AcceptTask(w, p) PROVE HandlersHaveTasks'
  BY <1>2 DEF AcceptTask, Take
<1>3. ASSUME NEW w \in Workers, MarkRunning(w) \/ RecordSuccess(w) \/ RecordFailure(w)
      PROVE  HandlersHaveTasks'
  BY <1>3 DEF MarkRunning, RecordSuccess, RecordFailure
<1>4. ASSUME NEW w \in Workers,
             RunStillOpen(w) \/ FinalizeRun(w) \/ AnnounceFailure(w) \/ PublishDetect(w)
      PROVE  HandlersHaveTasks'
  BY <1>4 DEF RunStillOpen, FinalizeRun, AnnounceFailure, PublishDetect
<1>5. ASSUME NEW w \in Workers, AckTask(w) PROVE HandlersHaveTasks'
  BY <1>5 DEF AckTask, Ack
<1>6. ASSUME NEW w \in Workers, WorkerFault(w) PROVE HandlersHaveTasks'
  BY <1>6 DEF WorkerFault, HandlerRaises, DetectUnconfirmed, WorkerCrash, Nak, Crash
<1>7. ASSUME NEW w \in Workers, NEW p \in Tasks, DeliverTask(w, p) PROVE HandlersHaveTasks'
  BY <1>7 DEF DeliverTask, Deliver
<1>8. ASSUME NEW p \in Tasks, ExpireTask(p) PROVE HandlersHaveTasks'
  BY <1>8 DEF ExpireTask, AckWaitExpires
<1>9. CASE UNCHANGED vars
  BY <1>9 DEF vars
<1>10. QED
  BY <1>1, <1>2, <1>3, <1>4, <1>5, <1>6, <1>7, <1>8, <1>9 DEF Next, Work

LEMMA HeldStep ==
    ASSUME TypeOK, HeldIsStored, [Next]_vars
    PROVE  HeldIsStored'
<1> USE DEF TypeOK
<1>1. ASSUME UNCHANGED <<inbox, task>>, stored \subseteq stored' PROVE HeldIsStored'
  BY <1>1 DEF HeldIsStored, Holds
<1>2. ASSUME NEW r \in Runs, Trigger(r) \/ TriggerFault(r) PROVE HeldIsStored'
  BY <1>1, <1>2, TriggersLeaveWorkers
<1>3. ASSUME NEW w \in Workers, NEW p \in Tasks, AcceptTask(w, p) PROVE HeldIsStored'
  BY <1>3, HeldIsStoredStep DEF AcceptTask
<1>4. ASSUME NEW w \in Workers,
             \/ MarkRunning(w) \/ RecordSuccess(w) \/ RecordFailure(w) \/ RunStillOpen(w)
             \/ FinalizeRun(w) \/ AnnounceFailure(w) \/ PublishDetect(w)
      PROVE  HeldIsStored'
  BY <1>1, <1>4 DEF MarkRunning, RecordSuccess, RecordFailure, RunStillOpen, FinalizeRun,
                    AnnounceFailure, PublishDetect, streamVars
<1>5. ASSUME NEW w \in Workers, AckTask(w) \/ WorkerFault(w) PROVE HeldIsStored'
  BY <1>5, StreamAssumption
     DEF AckTask, Ack, WorkerFault, HandlerRaises, DetectUnconfirmed, WorkerCrash, Nak, Crash,
         HeldIsStored, Holds, StreamTypeOK
<1>6. ASSUME NEW w \in Workers, NEW p \in Tasks, DeliverTask(w, p) PROVE HeldIsStored'
  BY <1>6, HeldIsStoredStep DEF DeliverTask
<1>7. ASSUME NEW p \in Tasks, ExpireTask(p) PROVE HeldIsStored'
  BY <1>1, <1>7 DEF ExpireTask, AckWaitExpires
<1>8. CASE UNCHANGED vars
  BY <1>1, <1>8 DEF vars, streamVars
<1>9. QED
  BY <1>2, <1>3, <1>4, <1>5, <1>6, <1>7, <1>8 DEF Next, Work

\* A status changes in two places: a trigger starts a run that had none, and
\* a worker makes a run final that was started and was not final.
LEMMA StatusStep ==
    ASSUME Bookkeeping, [Next]_vars
    PROVE  \/ UNCHANGED runStatus
           \/ \E r \in Runs : CreateRun(r) /\ runStatus[r] = "none"
           \/ \E w \in Workers :
                 /\ FinalizeRun(w)
                 /\ task[w] \in Tasks
                 /\ RunOf[task[w]] \in Runs
                 /\ runStatus[RunOf[task[w]]] = "running"
<1>1. ASSUME NEW w \in Workers, FinalizeRun(w)
      PROVE  task[w] \in Tasks /\ RunOf[task[w]] \in Runs /\ runStatus[RunOf[task[w]]] = "running"
  <2>1. task[w] \in Tasks
    BY <1>1 DEF FinalizeRun, Bookkeeping, HandlersHaveTasks, TypeOK, StreamTypeOK
  <2>2. RunOf[task[w]] \in Runs
    BY <2>1, RunAssumption
  <2>3. runStatus[RunOf[task[w]]] # "none"
    BY <2>1 DEF Bookkeeping, HeldIsStored, StoredIsStarted, Holds
  <2>4. QED
    BY <1>1, <2>1, <2>2, <2>3 DEF FinalizeRun, Bookkeeping, TypeOK
<1>2. ASSUME NEW r \in Runs, CreateRun(r) PROVE runStatus[r] = "none"
  BY <1>2 DEF CreateRun, Bookkeeping, RunsAreStarted
<1>3. ASSUME NEW r \in Runs, Trigger(r), ~CreateRun(r) PROVE UNCHANGED runStatus
  BY <1>3 DEF Trigger, CountActiveRuns, CreatePair, FinishTrigger, runVars
<1>4. ASSUME NEW r \in Runs, TriggerFault(r) PROVE UNCHANGED runStatus
  BY <1>4 DEF TriggerFault, CreatePairUnpublished, SkipPair, ApiCrash, runVars
<1>5. ASSUME NEW w \in Workers, Work(w), ~FinalizeRun(w) PROVE UNCHANGED runStatus
  BY <1>5 DEF Work, AcceptTask, MarkRunning, RecordSuccess, RecordFailure, RunStillOpen,
              AnnounceFailure, PublishDetect, AckTask, runVars
<1>6. ASSUME NEW w \in Workers, WorkerFault(w) PROVE UNCHANGED runStatus
  BY <1>6 DEF WorkerFault, HandlerRaises, DetectUnconfirmed, WorkerCrash, runVars
<1>7. ASSUME NEW w \in Workers, NEW p \in Tasks, DeliverTask(w, p) PROVE UNCHANGED runStatus
  BY <1>7 DEF DeliverTask, runVars
<1>8. ASSUME NEW p \in Tasks, ExpireTask(p) PROVE UNCHANGED runStatus
  BY <1>8 DEF ExpireTask, runVars
<1>9. CASE UNCHANGED vars
  BY <1>9 DEF vars
<1>10. QED
  BY <1>1, <1>2, <1>3, <1>4, <1>5, <1>6, <1>7, <1>8, <1>9 DEF Next

\* A run's trigger leaves "idle" and "checked" only by creating the run.
LEMMA StartedStep ==
    ASSUME Bookkeeping, [Next]_vars
    PROVE  RunsAreStarted'
<1> USE DEF Bookkeeping, RunsAreStarted, TypeOK
<1>1. ASSUME NEW r \in Runs, Trigger(r) PROVE RunsAreStarted'
  <2>1. CASE CountActiveRuns(r)
    BY <2>1 DEF CountActiveRuns, runVars
  <2>2. CASE CreateRun(r)
    BY <2>2 DEF CreateRun
  <2>3. ASSUME NEW p \in Tasks, CreatePair(r, p) PROVE RunsAreStarted'
    BY <2>3 DEF CreatePair, runVars
  <2>4. CASE FinishTrigger(r)
    BY <2>4 DEF FinishTrigger
  <2>5. QED
    BY <1>1, <2>1, <2>2, <2>3, <2>4 DEF Trigger
<1>2. ASSUME NEW r \in Runs, TriggerFault(r) PROVE RunsAreStarted'
  BY <1>2 DEF TriggerFault, CreatePairUnpublished, SkipPair, ApiCrash, runVars
<1>3. ASSUME NEW w \in Workers, FinalizeRun(w) PROVE RunsAreStarted'
  <2>1. task[w] \in Tasks
    BY <1>3 DEF FinalizeRun, HandlersHaveTasks, StreamTypeOK
  <2>2. RunOf[task[w]] \in Runs /\ runStatus[RunOf[task[w]]] # "none"
    BY <2>1, RunAssumption DEF HeldIsStored, StoredIsStarted, Holds
  <2>3. QED
    BY <1>3, <2>2 DEF FinalizeRun, FinalStatus
<1>4. ASSUME NEW w \in Workers, Work(w), ~FinalizeRun(w) PROVE RunsAreStarted'
  BY <1>4 DEF Work, AcceptTask, MarkRunning, RecordSuccess, RecordFailure, RunStillOpen,
              AnnounceFailure, PublishDetect, AckTask, runVars
<1>5. ASSUME NEW w \in Workers, WorkerFault(w) PROVE RunsAreStarted'
  BY <1>5 DEF WorkerFault, HandlerRaises, DetectUnconfirmed, WorkerCrash, runVars
<1>6. ASSUME NEW w \in Workers, NEW p \in Tasks, DeliverTask(w, p) PROVE RunsAreStarted'
  BY <1>6 DEF DeliverTask, runVars
<1>7. ASSUME NEW p \in Tasks, ExpireTask(p) PROVE RunsAreStarted'
  BY <1>7 DEF ExpireTask, runVars
<1>8. CASE UNCHANGED vars
  BY <1>8 DEF vars
<1>9. QED
  BY <1>1, <1>2, <1>3, <1>4, <1>5, <1>6, <1>7, <1>8 DEF Next

LEMMA LoopStep ==
    ASSUME Bookkeeping, [Next]_vars
    PROVE  LoopIsOwn'
<1> USE DEF Bookkeeping, LoopIsOwn, TypeOK
<1>1. ASSUME NEW r \in Runs, Trigger(r) PROVE LoopIsOwn'
  <2>1. CASE CountActiveRuns(r)
    BY <2>1 DEF CountActiveRuns, runVars
  <2>2. CASE CreateRun(r)
    BY <2>2 DEF CreateRun
  <2>3. ASSUME NEW p \in Tasks, CreatePair(r, p) PROVE LoopIsOwn'
    BY <2>3 DEF CreatePair, runVars
  <2>4. CASE FinishTrigger(r)
    BY <2>4 DEF FinishTrigger
  <2>5. QED
    BY <1>1, <2>1, <2>2, <2>3, <2>4 DEF Trigger
<1>2. ASSUME NEW r \in Runs, TriggerFault(r) PROVE LoopIsOwn'
  <2>1. ASSUME NEW p \in Tasks, CreatePairUnpublished(r, p) PROVE LoopIsOwn'
    BY <2>1 DEF CreatePairUnpublished, runVars
  <2>2. ASSUME NEW p \in Tasks, SkipPair(r, p) PROVE LoopIsOwn'
    BY <2>2 DEF SkipPair, runVars
  <2>3. CASE ApiCrash(r)
    BY <2>3 DEF ApiCrash, runVars
  <2>4. QED
    BY <1>2, <2>1, <2>2, <2>3 DEF TriggerFault
<1>3. ASSUME NEW w \in Workers, Work(w) \/ WorkerFault(w) PROVE LoopIsOwn'
  BY <1>3 DEF Work, AcceptTask, MarkRunning, RecordSuccess, RecordFailure, RunStillOpen,
              FinalizeRun, AnnounceFailure, PublishDetect, AckTask, WorkerFault, HandlerRaises,
              DetectUnconfirmed, WorkerCrash, runVars
<1>4. ASSUME NEW w \in Workers, NEW p \in Tasks, DeliverTask(w, p) PROVE LoopIsOwn'
  BY <1>4 DEF DeliverTask, runVars
<1>5. ASSUME NEW p \in Tasks, ExpireTask(p) PROVE LoopIsOwn'
  BY <1>5 DEF ExpireTask, runVars
<1>6. CASE UNCHANGED vars
  BY <1>6 DEF vars
<1>7. QED
  BY <1>1, <1>2, <1>3, <1>4, <1>5, <1>6 DEF Next

\* Only CreatePair stores a task, and its run has been created by then.
LEMMA StoredStep ==
    ASSUME Bookkeeping, [Next]_vars
    PROVE  StoredIsStarted'
<1> USE DEF StoredIsStarted
<1>1. \A r \in Runs : runStatus[r] # "none" => runStatus'[r] # "none"
  BY StartedStep, StatusStep DEF Bookkeeping, TypeOK, CreateRun, FinalizeRun, FinalStatus
<1>2. stored \subseteq Tasks /\ \A p \in stored : RunOf[p] \in Runs /\ runStatus[RunOf[p]] # "none"
  BY RunAssumption DEF Bookkeeping, TypeOK, StreamTypeOK
<1>3. ASSUME NEW r \in Runs, NEW p \in Tasks, CreatePair(r, p) PROVE StoredIsStarted'
  <2>1. stored' = stored \cup {p} /\ RunOf[p] = r
    BY <1>3 DEF CreatePair, Store, Bookkeeping, LoopIsOwn, PairsOf
  <2>2. runStatus[r] # "none"
    BY <1>3 DEF CreatePair, Bookkeeping, RunsAreStarted
  <2>3. QED
    BY <1>1, <1>2, <2>1, <2>2
<1>4. CASE stored' = stored
  BY <1>1, <1>2, <1>4
<1>5. ASSUME NEW r \in Runs, Trigger(r) \/ TriggerFault(r)
      PROVE  stored' = stored \/ \E p \in Tasks : CreatePair(r, p)
  BY <1>5 DEF Trigger, TriggerFault, CountActiveRuns, CreateRun, FinishTrigger,
              CreatePairUnpublished, SkipPair, ApiCrash, streamVars
<1>6. ASSUME NEW w \in Workers, Work(w) \/ WorkerFault(w) PROVE stored' = stored
  BY <1>6 DEF Work, AcceptTask, MarkRunning, RecordSuccess, RecordFailure, RunStillOpen,
              FinalizeRun, AnnounceFailure, PublishDetect, AckTask, WorkerFault, HandlerRaises,
              DetectUnconfirmed, WorkerCrash, streamVars, Take, Ack, Nak, Crash
<1>7. ASSUME NEW w \in Workers, NEW p \in Tasks, DeliverTask(w, p) PROVE stored' = stored
  BY <1>7 DEF DeliverTask, Deliver
<1>8. ASSUME NEW p \in Tasks, ExpireTask(p) PROVE stored' = stored
  BY <1>8 DEF ExpireTask, AckWaitExpires
<1>9. CASE UNCHANGED vars
  BY <1>4, <1>9 DEF vars, streamVars
<1>10. QED
  BY <1>3, <1>4, <1>5, <1>6, <1>7, <1>8, <1>9 DEF Next

\* In every reachable state the bookkeeping is right.
THEOREM BookkeepingInvariant == Spec => []Bookkeeping
<1>1. Bookkeeping /\ [Next]_vars => Bookkeeping'
  BY TypeStep, HandlersStep, HeldStep, StartedStep, LoopStep, StoredStep DEF Bookkeeping
<1>2. QED
  BY <1>1, BookkeepingInit, PTL DEF Spec

\* FinalStatusIsKept for every instance: by StatusStep only a run that is
\* "none" or "running" gets another status.
THEOREM FinalStatusKept == Spec => FinalStatusIsKept
<1>1. ASSUME Bookkeeping, [Next]_vars, NEW r \in Runs, runStatus[r] \in Terminal
      PROVE  runStatus'[r] = runStatus[r]
  BY <1>1, StatusStep DEF CreateRun, FinalizeRun, Terminal, Bookkeeping, TypeOK
<1>2. Bookkeeping /\ [Next]_vars =>
        [\A r \in Runs : runStatus[r] \in Terminal => runStatus'[r] = runStatus[r]]_vars
  BY <1>1
<1>3. QED
  BY <1>2, BookkeepingInvariant, PTL DEF Spec, FinalStatusIsKept

----------------------------------------------------------------------------
(***************************************************************************)
(* The counters never fall behind the pairs.                               *)
(***************************************************************************)

SettledPairs(r) == PairsIn(r, "completed") \cup PairsIn(r, "failed")

\* Only a handler that records a result settles a pair, and it counts it.
LEMMA SettleStep ==
    ASSUME Bookkeeping, [Next]_vars, NEW r \in Runs
    PROVE  \/ /\ SettledPairs(r)' \subseteq SettledPairs(r)
              /\ completed'[r] = completed[r] /\ failed'[r] = failed[r]
           \/ /\ \E p \in Tasks : SettledPairs(r)' \subseteq SettledPairs(r) \cup {p}
              /\ completed'[r] + failed'[r] = completed[r] + failed[r] + 1
<1> DEFINE Same == /\ SettledPairs(r)' \subseteq SettledPairs(r)
                   /\ completed'[r] = completed[r] /\ failed'[r] = failed[r]
           More == /\ \E p \in Tasks : SettledPairs(r)' \subseteq SettledPairs(r) \cup {p}
                   /\ completed'[r] + failed'[r] = completed[r] + failed[r] + 1
<1> USE DEF SettledPairs, PairsIn, PairsOf
<1>1. CASE UNCHANGED <<pairStatus, completed, failed>>
  BY <1>1
<1>2. ASSUME NEW p \in Tasks, NEW s \in {"pending", "running"},
             pairStatus' = [pairStatus EXCEPT ![p] = s], UNCHANGED <<completed, failed>>
      PROVE  Same
  BY <1>2 DEF Bookkeeping, TypeOK
<1>3. ASSUME NEW q \in Runs, Trigger(q) PROVE Same
  <2>1. ASSUME NEW p \in Tasks, CreatePair(q, p) PROVE Same
    BY <2>1, <1>2 DEF CreatePair, runVars
  <2>2. CASE CountActiveRuns(q) \/ CreateRun(q) \/ FinishTrigger(q)
    BY <2>2, <1>1 DEF CountActiveRuns, CreateRun, FinishTrigger, runVars
  <2>3. QED
    BY <1>3, <2>1, <2>2 DEF Trigger
<1>4. ASSUME NEW q \in Runs, TriggerFault(q) PROVE Same
  <2>1. ASSUME NEW p \in Tasks, CreatePairUnpublished(q, p) PROVE Same
    BY <2>1, <1>2 DEF CreatePairUnpublished, runVars
  <2>2. ASSUME NEW p \in Tasks, SkipPair(q, p) PROVE Same
    BY <2>2, <1>1 DEF SkipPair, runVars
  <2>3. CASE ApiCrash(q)
    BY <2>3, <1>1 DEF ApiCrash, runVars
  <2>4. QED
    BY <1>4, <2>1, <2>2, <2>3 DEF TriggerFault
<1>5. ASSUME NEW w \in Workers, pc[w] # "idle" PROVE task[w] \in Tasks /\ RunOf[task[w]] \in Runs
  BY <1>5, RunAssumption DEF Bookkeeping, HandlersHaveTasks, TypeOK, StreamTypeOK
<1>6. ASSUME NEW w \in Workers, MarkRunning(w) PROVE Same
  <2>1. task[w] \in Tasks
    BY <1>5, <1>6 DEF MarkRunning
  <2>2. QED
    BY <1>2, <1>6, <2>1 DEF MarkRunning, runVars
<1>7. ASSUME NEW w \in Workers, RecordSuccess(w) PROVE Same \/ More
  <2>1. task[w] \in Tasks /\ RunOf[task[w]] \in Runs
    BY <1>5, <1>7 DEF RecordSuccess
  <2>2. CASE RunOf[task[w]] = r
    <3>1. SettledPairs(r)' \subseteq SettledPairs(r) \cup {task[w]}
      BY <1>7, <2>1 DEF RecordSuccess, Bookkeeping, TypeOK
    <3>2. completed'[r] + failed'[r] = completed[r] + failed[r] + 1
      BY <1>7, <2>1, <2>2 DEF RecordSuccess, Bookkeeping, TypeOK
    <3>3. QED
      BY <2>1, <3>1, <3>2
  <2>3. CASE RunOf[task[w]] # r
    BY <1>7, <2>1, <2>3 DEF RecordSuccess, Bookkeeping, TypeOK
  <2>4. QED
    BY <2>2, <2>3
<1>8. ASSUME NEW w \in Workers, RecordFailure(w) PROVE Same \/ More
  <2>1. task[w] \in Tasks /\ RunOf[task[w]] \in Runs
    BY <1>5, <1>8 DEF RecordFailure
  <2>2. CASE RunOf[task[w]] = r
    <3>1. SettledPairs(r)' \subseteq SettledPairs(r) \cup {task[w]}
      BY <1>8, <2>1 DEF RecordFailure, Bookkeeping, TypeOK
    <3>2. completed'[r] + failed'[r] = completed[r] + failed[r] + 1
      BY <1>8, <2>1, <2>2 DEF RecordFailure, Bookkeeping, TypeOK
    <3>3. QED
      BY <2>1, <3>1, <3>2
  <2>3. CASE RunOf[task[w]] # r
    BY <1>8, <2>1, <2>3 DEF RecordFailure, Bookkeeping, TypeOK
  <2>4. QED
    BY <2>2, <2>3
<1>9. ASSUME NEW w \in Workers,
             \/ \E p \in Tasks : AcceptTask(w, p) \/ DeliverTask(w, p)
             \/ RunStillOpen(w) \/ FinalizeRun(w) \/ AnnounceFailure(w)
             \/ PublishDetect(w) \/ AckTask(w) \/ WorkerFault(w)
      PROVE  Same
  BY <1>1, <1>9 DEF AcceptTask, RunStillOpen, FinalizeRun, AnnounceFailure, PublishDetect, AckTask,
                    WorkerFault, HandlerRaises, DetectUnconfirmed, WorkerCrash, DeliverTask, runVars
<1>10. ASSUME NEW p \in Tasks, ExpireTask(p) PROVE Same
  BY <1>1, <1>10 DEF ExpireTask, runVars
<1>11. CASE UNCHANGED vars
  BY <1>1, <1>11 DEF vars, runVars
<1>12. Same \/ More
  BY <1>3, <1>4, <1>6, <1>7, <1>8, <1>9, <1>10, <1>11 DEF Next, Work
<1>13. QED
  BY <1>12

LEMMA UndercountStep ==
    ASSUME Bookkeeping, NeverUndercounts, [Next]_vars
    PROVE  NeverUndercounts'
<1> SUFFICES ASSUME NEW r \in Runs
             PROVE  completed'[r] + failed'[r] >= Cardinality(SettledPairs(r)')
  BY DEF NeverUndercounts, SettledPairs
<1>1. completed[r] + failed[r] >= Cardinality(SettledPairs(r))
  BY DEF NeverUndercounts, SettledPairs
<1>2. /\ SettledPairs(r) \in SUBSET Tasks /\ SettledPairs(r)' \in SUBSET Tasks
      /\ completed[r] \in Nat /\ failed[r] \in Nat
  BY DEF SettledPairs, PairsIn, PairsOf, Bookkeeping, TypeOK
<1>3. /\ IsFiniteSet(SettledPairs(r)) /\ Cardinality(SettledPairs(r)) \in Nat
      /\ IsFiniteSet(SettledPairs(r)') /\ Cardinality(SettledPairs(r)') \in Nat
  BY <1>2, PairsFinite
<1>4. CASE SettledPairs(r)' \subseteq SettledPairs(r) /\ completed'[r] = completed[r] /\ failed'[r] = failed[r]
  <2>1. Cardinality(SettledPairs(r)') <= Cardinality(SettledPairs(r))
    BY <1>3, <1>4, FS_Subset
  <2>2. QED
    BY <1>1, <1>2, <1>3, <1>4, <2>1
<1>5. ASSUME NEW p \in Tasks, SettledPairs(r)' \subseteq SettledPairs(r) \cup {p},
             completed'[r] + failed'[r] = completed[r] + failed[r] + 1
      PROVE  completed'[r] + failed'[r] >= Cardinality(SettledPairs(r)')
  <2>1. /\ IsFiniteSet(SettledPairs(r) \cup {p})
        /\ Cardinality(SettledPairs(r) \cup {p}) =
             IF p \in SettledPairs(r) THEN Cardinality(SettledPairs(r))
             ELSE Cardinality(SettledPairs(r)) + 1
    BY <1>3, FS_AddElement, Zenon
  <2>2. Cardinality(SettledPairs(r)') <= Cardinality(SettledPairs(r) \cup {p})
    BY <1>5, <2>1, FS_Subset
  <2>3. Cardinality(SettledPairs(r) \cup {p}) <= Cardinality(SettledPairs(r)) + 1
    BY <1>3, <2>1
  <2>4. Cardinality(SettledPairs(r) \cup {p}) \in Nat
    BY <1>3, <2>1
  <2>5. QED
    BY <1>1, <1>2, <1>3, <1>5, <2>2, <2>3, <2>4
<1>6. QED
  BY <1>4, <1>5, SettleStep

\* NeverUndercounts for every instance: whatever crashes, redeliveries and
\* interleavings happen, a settled pair has been counted.
THEOREM CountersKeepUp == Spec => []NeverUndercounts
<1>1. Init => NeverUndercounts
  BY FS_EmptySet DEF Init, NeverUndercounts, PairsIn, PairsOf
<1>2. Bookkeeping /\ NeverUndercounts /\ [Next]_vars => NeverUndercounts'
  BY UndercountStep
<1>3. QED
  BY <1>1, <1>2, BookkeepingInvariant, PTL DEF Spec

----------------------------------------------------------------------------
(***************************************************************************)
(* A final run was counted to its end, and its detection is requested by   *)
(* the one handler that made it final.                                     *)
(***************************************************************************)

Requests(w, r) == pc[w] = "finalized" /\ RunOf[task[w]] = r

Successful == {"completed", "partial"}

OneRequester ==
    \A r \in Runs, w \in Workers : Requests(w, r) =>
        /\ runStatus[r] \in Successful
        /\ detectSent[r] = 0
        /\ \A v \in Workers : Requests(v, r) => v = w

DetectInv ==
    /\ OneRequester
    /\ DetectOncePerSuccess

\* The loop never creates more pairs than it counted, so total_pairs only
\* goes down once the run exists, and the counters only go up.
LEMMA CountStep ==
    ASSUME Bookkeeping, [Next]_vars, NEW r \in Runs, runStatus[r] # "none"
    PROVE  /\ total'[r] <= total[r]
           /\ completed'[r] >= completed[r]
           /\ failed'[r] >= failed[r]
<1> USE DEF Bookkeeping, TypeOK
<1>1. ASSUME NEW q \in Runs, FinishTrigger(q) PROVE total'[r] <= total[r]
  <2>1. IsFiniteSet(PairsOf(q)) /\ CreatedPairs(q) \in SUBSET PairsOf(q)
    BY PairsFinite DEF PairsOf, CreatedPairs
  <2>2. Cardinality(CreatedPairs(q)) <= Cardinality(PairsOf(q))
    BY <2>1, FS_Subset
  <2>3. total[q] = Cardinality(PairsOf(q)) /\ total'[q] = Cardinality(CreatedPairs(q))
    BY <1>1 DEF FinishTrigger, LoopIsOwn
  <2>4. q # r => total'[r] = total[r]
    BY <1>1 DEF FinishTrigger
  <2>5. QED
    BY <2>2, <2>3, <2>4
<1>2. ASSUME NEW q \in Runs, CreateRun(q) PROVE total'[r] = total[r]
  BY <1>2 DEF CreateRun, RunsAreStarted
<1>3. ASSUME NEW q \in Runs, Trigger(q), ~FinishTrigger(q), ~CreateRun(q) PROVE total'[r] = total[r]
  BY <1>3 DEF Trigger, CountActiveRuns, CreatePair, runVars
<1>4. ASSUME NEW q \in Runs, TriggerFault(q) PROVE total'[r] = total[r]
  BY <1>4 DEF TriggerFault, CreatePairUnpublished, SkipPair, ApiCrash, runVars
<1>5. ASSUME NEW w \in Workers, Work(w) \/ WorkerFault(w) PROVE total'[r] = total[r]
  BY <1>5 DEF Work, AcceptTask, MarkRunning, RecordSuccess, RecordFailure, RunStillOpen,
              FinalizeRun, AnnounceFailure, PublishDetect, AckTask, WorkerFault, HandlerRaises,
              DetectUnconfirmed, WorkerCrash, runVars
<1>6. ASSUME NEW w \in Workers, NEW p \in Tasks, DeliverTask(w, p) PROVE total'[r] = total[r]
  BY <1>6 DEF DeliverTask, runVars
<1>7. ASSUME NEW p \in Tasks, ExpireTask(p) PROVE total'[r] = total[r]
  BY <1>7 DEF ExpireTask, runVars
<1>8. total'[r] <= total[r]
  BY <1>1, <1>2, <1>3, <1>4, <1>5, <1>6, <1>7 DEF Next, vars
<1>9. completed'[r] >= completed[r] /\ failed'[r] >= failed[r]
  <2>1. ASSUME NEW w \in Workers, Work(w) PROVE completed'[r] >= completed[r] /\ failed'[r] >= failed[r]
    BY <2>1 DEF Work, AcceptTask, MarkRunning, RecordSuccess, RecordFailure, RunStillOpen,
                FinalizeRun, AnnounceFailure, PublishDetect, AckTask, runVars
  <2>2. ASSUME NEW q \in Runs, Trigger(q) \/ TriggerFault(q) PROVE UNCHANGED <<completed, failed>>
    BY <2>2, TriggersLeaveWorkers
  <2>3. ASSUME NEW w \in Workers, WorkerFault(w) PROVE UNCHANGED <<completed, failed>>
    BY <2>3 DEF WorkerFault, HandlerRaises, DetectUnconfirmed, WorkerCrash, runVars
  <2>4. ASSUME NEW w \in Workers, NEW p \in Tasks, DeliverTask(w, p) PROVE UNCHANGED <<completed, failed>>
    BY <2>4 DEF DeliverTask, runVars
  <2>5. ASSUME NEW p \in Tasks, ExpireTask(p) PROVE UNCHANGED <<completed, failed>>
    BY <2>5 DEF ExpireTask, runVars
  <2>6. QED
    BY <2>1, <2>2, <2>3, <2>4, <2>5 DEF Next, vars
<1>10. QED
  BY <1>8, <1>9

LEMMA CountedStep ==
    ASSUME Bookkeeping, FinalOnlyWhenCounted, [Next]_vars
    PROVE  FinalOnlyWhenCounted'
<1> SUFFICES ASSUME NEW r \in Runs, runStatus'[r] \in Terminal
             PROVE  completed'[r] + failed'[r] >= total'[r]
  BY DEF FinalOnlyWhenCounted
<1>1. /\ completed[r] \in Nat /\ failed[r] \in Nat /\ total[r] \in Nat
      /\ completed'[r] \in Nat /\ failed'[r] \in Nat /\ total'[r] \in Nat
  BY TypeStep DEF Bookkeeping, TypeOK
<1>2. completed[r] + failed[r] >= total[r] /\ runStatus[r] # "none"
  <2>1. CASE runStatus'[r] = runStatus[r]
    BY <2>1 DEF FinalOnlyWhenCounted, Terminal
  <2>2. CASE runStatus'[r] # runStatus[r]
    <3>1. PICK w \in Workers : FinalizeRun(w) /\ RunOf[task[w]] \in Runs /\ runStatus[RunOf[task[w]]] = "running"
      BY <2>2, StatusStep DEF CreateRun, Terminal, Bookkeeping, TypeOK
    <3>2. RunOf[task[w]] = r
      BY <2>2, <3>1 DEF FinalizeRun, Bookkeeping, TypeOK
    <3>3. QED
      BY <3>1, <3>2 DEF FinalizeRun
  <2>3. QED
    BY <2>1, <2>2
<1>3. QED
  BY <1>1, <1>2, CountStep

\* FinalOnlyWhenCounted for every instance, although the trigger lowers
\* total_pairs while the workers compare with it.
THEOREM FinalRunsAreCounted == Spec => []FinalOnlyWhenCounted
<1>1. Init => FinalOnlyWhenCounted
  BY DEF Init, FinalOnlyWhenCounted, Terminal
<1>2. Bookkeeping /\ FinalOnlyWhenCounted /\ [Next]_vars => FinalOnlyWhenCounted'
  BY CountedStep
<1>3. QED
  BY <1>1, <1>2, BookkeepingInvariant, PTL DEF Spec

LEMMA DetectStep ==
    ASSUME Bookkeeping, DetectInv, [Next]_vars
    PROVE  DetectInv'
<1> USE RunAssumption, StreamAssumption
    DEF DetectInv, OneRequester, DetectOncePerSuccess, Requests, Successful
<1>1. ASSUME NEW w \in Workers, pc[w] # "idle" PROVE task[w] \in Tasks /\ RunOf[task[w]] \in Runs
  BY <1>1 DEF Bookkeeping, HandlersHaveTasks, TypeOK, StreamTypeOK
<1>2. ASSUME UNCHANGED <<pc, task, runStatus, detectSent>> PROVE DetectInv'
  BY <1>2
<1>3. ASSUME NEW w \in Workers, NEW s \in Steps, s # "finalized", Goto(w, s),
             \A v \in Workers : v # w => task'[v] = task[v],
             UNCHANGED <<runStatus, detectSent>>
      PROVE  DetectInv'
  <2>1. pc' = [pc EXCEPT ![w] = s] /\ pc \in [Workers -> Steps]
    BY <1>3 DEF Goto, Bookkeeping, TypeOK
  <2>2. \A v \in Workers, r \in Runs : Requests(v, r)' => Requests(v, r)
    BY <1>3, <2>1
  <2>3. OneRequester'
    BY <1>3, <2>2 DEF OneRequester
  <2>4. QED
    BY <1>3, <2>3
<1>4. ASSUME NEW r \in Runs, Trigger(r) \/ TriggerFault(r) PROVE DetectInv'
  <2>1. CASE CreateRun(r)
    <3>1. runStatus[r] = "none"
      BY <2>1 DEF CreateRun, Bookkeeping, RunsAreStarted
    <3>2. UNCHANGED <<pc, task, detectSent>>
      BY <2>1 DEF CreateRun, streamVars
    <3>3. \A q \in Runs : runStatus[q] \in Successful => runStatus'[q] \in Successful
      BY <2>1, <3>1 DEF CreateRun, Bookkeeping, TypeOK
    <3>4. QED
      BY <3>2, <3>3 DEF Bookkeeping, TypeOK
  <2>2. CASE ~CreateRun(r)
    <3>1. UNCHANGED <<pc, task, detectSent>>
      BY <1>4, TriggersLeaveWorkers
    <3>2. UNCHANGED runStatus
      BY <1>4, <2>2 DEF Trigger, TriggerFault, CountActiveRuns, CreatePair, FinishTrigger,
                        CreatePairUnpublished, SkipPair, ApiCrash, runVars
    <3>3. QED
      BY <3>1, <3>2, <1>2
  <2>3. QED
    BY <2>1, <2>2
<1>5. ASSUME NEW w \in Workers, NEW p \in Tasks, AcceptTask(w, p) PROVE DetectInv'
  BY <1>3, <1>5 DEF AcceptTask, Take, Steps, runVars, Bookkeeping, TypeOK, StreamTypeOK
<1>6. ASSUME NEW w \in Workers, MarkRunning(w) \/ RecordSuccess(w) \/ RecordFailure(w)
      PROVE  DetectInv'
  BY <1>3, <1>6 DEF MarkRunning, RecordSuccess, RecordFailure, Steps, runVars, streamVars
<1>7. ASSUME NEW w \in Workers, RunStillOpen(w) \/ AnnounceFailure(w) PROVE DetectInv'
  BY <1>3, <1>7 DEF RunStillOpen, AnnounceFailure, Steps, runVars, streamVars
<1>8. ASSUME NEW w \in Workers, AckTask(w) \/ HandlerRaises(w) PROVE DetectInv'
  BY <1>3, <1>8 DEF AckTask, HandlerRaises, Ack, Nak, Steps, runVars, Bookkeeping, TypeOK, StreamTypeOK
<1>9. ASSUME NEW w \in Workers, WorkerCrash(w) PROVE DetectInv'
  BY <1>3, <1>9 DEF WorkerCrash, Crash, Steps, runVars, Bookkeeping, TypeOK, StreamTypeOK
<1>10. ASSUME NEW w \in Workers, FinalizeRun(w) PROVE DetectInv'
  <2> DEFINE r == RunOf[task[w]]
  <2>1. task[w] \in Tasks /\ r \in Runs
    BY <1>1, <1>10 DEF FinalizeRun
  <2>2. runStatus[r] \notin Successful
    BY <1>10 DEF FinalizeRun, Terminal
  <2>3. detectSent[r] = 0 /\ \A v \in Workers : ~Requests(v, r)
    <3>1. \A v \in Workers : ~Requests(v, r)
      BY <2>1, <2>2
    <3>2. detectSent[r] \in Nat /\ detectSent[r] <= 1 /\ detectSent[r] # 1
      BY <2>1, <2>2 DEF Bookkeeping, TypeOK
    <3>3. QED
      BY <3>1, <3>2
  <2>4. \A q \in Runs : q # r => runStatus'[q] = runStatus[q]
    BY <1>10 DEF FinalizeRun, Bookkeeping, TypeOK
  <2>5. UNCHANGED <<task, detectSent>> /\ \A v \in Workers : v # w => pc'[v] = pc[v]
    BY <1>10 DEF FinalizeRun, streamVars, Goto, Bookkeeping, TypeOK
  <2>6. pc'[w] = "finalized" => runStatus'[r] \in Successful
    BY <1>10, <2>1 DEF FinalizeRun, FinalStatus, Goto, Bookkeeping, TypeOK
  <2>7. QED
    BY <2>1, <2>3, <2>4, <2>5, <2>6
<1>11. ASSUME NEW w \in Workers, PublishDetect(w) \/ DetectUnconfirmed(w) PROVE DetectInv'
  <2> DEFINE r == RunOf[task[w]]
  <2>1. task[w] \in Tasks /\ r \in Runs /\ Requests(w, r)
    BY <1>1, <1>11 DEF PublishDetect, DetectUnconfirmed
  <2>2. runStatus[r] \in Successful /\ detectSent[r] = 0 /\ \A v \in Workers : Requests(v, r) => v = w
    BY <2>1
  <2>3. detectSent' = [detectSent EXCEPT ![r] = 1] /\ UNCHANGED runStatus
    BY <1>11, <2>2 DEF PublishDetect, DetectUnconfirmed
  <2>4. pc'[w] # "finalized" /\ \A v \in Workers : v # w => pc'[v] = pc[v] /\ task'[v] = task[v]
    BY <1>11 DEF PublishDetect, DetectUnconfirmed, Nak, Goto, streamVars, Bookkeeping, TypeOK, StreamTypeOK
  <2>5. QED
    BY <2>1, <2>2, <2>3, <2>4 DEF Bookkeeping, TypeOK
<1>12. ASSUME NEW w \in Workers, NEW p \in Tasks, DeliverTask(w, p) PROVE DetectInv'
  BY <1>2, <1>12 DEF DeliverTask, Deliver, runVars
<1>13. ASSUME NEW p \in Tasks, ExpireTask(p) PROVE DetectInv'
  BY <1>2, <1>13 DEF ExpireTask, AckWaitExpires, runVars
<1>14. CASE UNCHANGED vars
  BY <1>2, <1>14 DEF vars, streamVars
<1>15. QED
  BY <1>4, <1>5, <1>6, <1>7, <1>8, <1>9, <1>10, <1>11, <1>12, <1>13, <1>14 DEF Next, Work, WorkerFault

\* In every reachable state at most one handler is about to request
\* detection for a run, and none once it has been requested.
THEOREM DetectInvariant == Spec => []DetectInv
<1>1. Init => DetectInv
  BY DEF Init, DetectInv, OneRequester, Requests, DetectOncePerSuccess
<1>2. Bookkeeping /\ DetectInv /\ [Next]_vars => DetectInv'
  BY DetectStep
<1>3. QED
  BY <1>1, <1>2, BookkeepingInvariant, PTL DEF Spec

\* DetectOncePerSuccess for every instance.
THEOREM DetectIsRequestedOnce == Spec => []DetectOncePerSuccess
<1>1. DetectInv => DetectOncePerSuccess
  BY DEF DetectInv
<1>2. QED
  BY <1>1, DetectInvariant, PTL

----------------------------------------------------------------------------
(***************************************************************************)
(* The runs implement their life cycle.                                    *)
(***************************************************************************)

LEMMA LifecycleStep ==
    ASSUME Bookkeeping, DetectInv, [Next]_vars
    PROVE  [Loose!LifecycleNext]_(Loose!lifecycleVars)
<1> USE RunAssumption
    DEF Bookkeeping, TypeOK, Loose!LifecycleNext, Loose!lifecycleVars, runVars
<1>1. ASSUME NEW w \in Workers, pc[w] # "idle"
      PROVE  task[w] \in Tasks /\ RunOf[task[w]] \in Runs /\ runStatus[RunOf[task[w]]] # "none"
  BY <1>1 DEF HandlersHaveTasks, HeldIsStored, StoredIsStarted, StreamTypeOK, Holds
<1>2. ASSUME NEW r \in Runs, CreateRun(r) PROVE Loose!LifecycleNext
  <2>1. runStatus[r] = "none"
    BY <1>2 DEF CreateRun, RunsAreStarted
  <2>2. total'[r] \in Nat /\ total' = [total EXCEPT ![r] = total'[r]]
    BY <1>2, PairsFinite DEF CreateRun, PairsOf
  <2>3. Loose!Start(r)
    BY <1>2, <2>1, <2>2 DEF CreateRun, Loose!Start
  <2>4. QED
    BY <2>3
<1>3. ASSUME NEW r \in Runs, FinishTrigger(r) PROVE Loose!LifecycleNext
  <2>1. runStatus[r] # "none"
    BY <1>3 DEF FinishTrigger, LoopIsOwn, RunsAreStarted
  <2>2. total'[r] \in Nat /\ total' = [total EXCEPT ![r] = total'[r]]
    BY <1>3, PairsFinite DEF FinishTrigger, CreatedPairs, PairsOf
  <2>3. total'[r] <= total[r]
    BY <2>1, CountStep
  <2>4. Loose!LowerTotal(r)
    BY <1>3, <2>1, <2>2, <2>3 DEF FinishTrigger, Loose!LowerTotal
  <2>5. QED
    BY <2>4
<1>4. ASSUME NEW w \in Workers, RecordSuccess(w) PROVE Loose!LifecycleNext
  BY <1>1, <1>4 DEF RecordSuccess, Loose!CountCompleted, Loose!MayCount
<1>5. ASSUME NEW w \in Workers, RecordFailure(w) PROVE Loose!LifecycleNext
  BY <1>1, <1>5 DEF RecordFailure, Loose!CountFailed, Loose!MayCount
<1>6. ASSUME NEW w \in Workers, FinalizeRun(w) PROVE Loose!LifecycleNext
  <2> DEFINE r == RunOf[task[w]]
             s == FinalStatus(completed[r], failed[r])
  <2>1. r \in Runs /\ runStatus[r] = "running"
    BY <1>1, <1>6 DEF FinalizeRun, Terminal
  <2>2. s \in Loose!Outcomes(r)
    BY <2>1 DEF FinalStatus, Loose!Outcomes
  <2>3. Loose!Finish(r)
    BY <1>6, <2>1, <2>2 DEF FinalizeRun, Loose!Finish, Loose!Counted
  <2>4. QED
    BY <2>1, <2>3
<1>7. ASSUME NEW w \in Workers, PublishDetect(w) \/ DetectUnconfirmed(w) PROVE Loose!LifecycleNext
  <2> DEFINE r == RunOf[task[w]]
  <2>1. r \in Runs /\ Requests(w, r)
    BY <1>1, <1>7 DEF PublishDetect, DetectUnconfirmed, Requests
  <2>2. runStatus[r] \in Successful /\ detectSent[r] = 0
    BY <2>1 DEF DetectInv, OneRequester
  <2>3. Loose!RequestDetect(r)
    BY <1>7, <2>2 DEF PublishDetect, DetectUnconfirmed, Loose!RequestDetect, Successful
  <2>4. QED
    BY <2>1, <2>3
<1>8. ASSUME NEW r \in Runs, Trigger(r) \/ TriggerFault(r), ~CreateRun(r), ~FinishTrigger(r)
      PROVE  UNCHANGED Loose!lifecycleVars
  BY <1>8 DEF Trigger, TriggerFault, CountActiveRuns, CreatePair, CreatePairUnpublished, SkipPair,
              ApiCrash
<1>9. ASSUME NEW w \in Workers, Work(w) \/ WorkerFault(w),
             ~RecordSuccess(w), ~RecordFailure(w), ~FinalizeRun(w),
             ~PublishDetect(w), ~DetectUnconfirmed(w)
      PROVE  UNCHANGED Loose!lifecycleVars
  BY <1>9 DEF Work, WorkerFault, AcceptTask, MarkRunning, RunStillOpen, AnnounceFailure, AckTask,
              HandlerRaises, WorkerCrash
<1>10. ASSUME NEW w \in Workers, NEW p \in Tasks, DeliverTask(w, p)
       PROVE  UNCHANGED Loose!lifecycleVars
  BY <1>10 DEF DeliverTask
<1>11. ASSUME NEW p \in Tasks, ExpireTask(p) PROVE UNCHANGED Loose!lifecycleVars
  BY <1>11 DEF ExpireTask
<1>12. CASE UNCHANGED vars
  BY <1>12 DEF vars
<1>13. QED
  BY <1>2, <1>3, <1>4, <1>5, <1>6, <1>7, <1>8, <1>9, <1>10, <1>11, <1>12 DEF Next

\* LooseLifecycle for every instance: under every fault, crash and early
\* redelivery the runs behave as the abstract life cycle allows.
THEOREM RunsFollowLifecycle == Spec => LooseLifecycle
<1>1. Init => Loose!LifecycleInit
  BY DEF Init, Loose!LifecycleInit
<1>2. Bookkeeping /\ DetectInv /\ [Next]_vars => [Loose!LifecycleNext]_(Loose!lifecycleVars)
  BY LifecycleStep
<1>3. QED
  BY <1>1, <1>2, BookkeepingInvariant, DetectInvariant, PTL
     DEF Spec, LooseLifecycle, Loose!LifecycleSpec

----------------------------------------------------------------------------
(***************************************************************************)
(* Where a task is in one worker's hands at a time (NoEarlyExpiry), the    *)
(* counters are exact, a final status tells the truth about every pair,    *)
(* and the runs obey the strict life cycle.  Every fault may happen.       *)
(***************************************************************************)

Handling(w) == pc[w] \in {"accepted", "searching"}

OpenWhileHandled == \A w \in Workers : Handling(w) => pairStatus[task[w]] \notin Settled

StoredIsCreated == \A p \in stored : pairStatus[p] # "none"

\* A pair the trigger has not reached has no row and no task.
LoopAhead ==
    \A r \in Runs : \A p \in PairsOf(r) :
        trigger[r] \in {"idle", "checked"} \/ p \in todo[r] =>
            pairStatus[p] = "none" /\ p \notin stored

TotalIsTrue ==
    \A r \in Runs :
        /\ trigger[r] = "done" => total[r] = Cardinality(CreatedPairs(r)) /\ todo[r] = {}
        /\ trigger[r] = "dead" => total[r] = Cardinality(PairsOf(r))

\* When a run is final its loop has reached every pair and no pair is open.
FinalIsSettled ==
    \A r \in Runs : runStatus[r] \in Terminal =>
        /\ CreatedPairs(r) \subseteq SettledPairs(r)
        /\ trigger[r] = "pairs" => todo[r] = {}
        /\ runStatus[r] = FinalStatus(completed[r], failed[r])

PairsInv == OpenWhileHandled /\ StoredIsCreated /\ LoopAhead

ExactInv == Exclusive /\ PairsInv /\ TotalIsTrue /\ CountersAreExact /\ FinalIsSettled

LEMMA ExclusiveKept ==
    ASSUME Bookkeeping, Exclusive, NoEarlyExpiry, [Next]_vars
    PROVE  Exclusive'
<1>0. StreamTypeOK
  BY DEF Bookkeeping, TypeOK
<1>1. ASSUME UNCHANGED <<unacked, holder, late, inbox, task>> PROVE Exclusive'
  BY <1>1 DEF Exclusive, HeldOnce, OnePending, Holds
<1>2. ASSUME NEW r \in Runs, Trigger(r) \/ TriggerFault(r) PROVE Exclusive'
  BY <1>1, <1>2 DEF Trigger, TriggerFault, CountActiveRuns, CreateRun, CreatePair, FinishTrigger,
     CreatePairUnpublished, SkipPair, ApiCrash, streamVars
<1>3. ASSUME NEW w \in Workers, NEW p \in Tasks, AcceptTask(w, p) \/ DeliverTask(w, p)
      PROVE  Exclusive'
  BY <1>0, <1>3, ExclusiveStep DEF AcceptTask, DeliverTask
<1>4. ASSUME NEW w \in Workers, AckTask(w) \/ WorkerFault(w) PROVE Exclusive'
  <2>1. Ack(w) \/ Nak(w) \/ Crash(w)
    BY <1>4 DEF AckTask, WorkerFault, HandlerRaises, DetectUnconfirmed, WorkerCrash
  <2>2. PICK p \in Tasks : TRUE
    BY <1>0, <2>1 DEF Ack, Nak, Crash, Busy, StreamTypeOK
  <2>3. QED
    BY <1>0, <2>1, <2>2, ExclusiveStep
<1>5. ASSUME NEW w \in Workers, Work(w), ~AckTask(w), \A p \in Tasks : ~AcceptTask(w, p)
      PROVE  Exclusive'
  BY <1>1, <1>5 DEF Work, MarkRunning, RecordSuccess, RecordFailure, RunStillOpen, FinalizeRun,
     AnnounceFailure, PublishDetect, streamVars
<1>6. ASSUME NEW p \in Tasks, ExpireTask(p) PROVE Exclusive'
  <2>1. CASE Workers = {}
    BY <1>6, <2>1 DEF ExpireTask, AckWaitExpires, Exclusive, HeldOnce, OnePending
  <2>2. ASSUME NEW w \in Workers PROVE Exclusive'
    BY <1>0, <1>6, ExclusiveStep DEF ExpireTask
  <2>3. QED
    BY <2>1, <2>2
<1>7. CASE UNCHANGED vars
  BY <1>1, <1>7 DEF vars, streamVars
<1>8. QED
  BY <1>2, <1>3, <1>4, <1>5, <1>6, <1>7 DEF Next

\* What a handler's task is.
LEMMA HandlersTask ==
    ASSUME Bookkeeping, NEW w \in Workers, pc[w] # "idle"
    PROVE  /\ task[w] \in Tasks /\ task[w] \in stored
           /\ RunOf[task[w]] \in Runs /\ runStatus[RunOf[task[w]]] # "none"
BY RunAssumption
   DEF Bookkeeping, HandlersHaveTasks, HeldIsStored, StoredIsStarted, TypeOK, StreamTypeOK, Holds

\* The steps that leave runs and pairs alone.
Elsewhere == UNCHANGED <<trigger, todo, runStatus, total, completed, failed, pairStatus, stored>>

LEMMA PairsElsewhere ==
    ASSUME PairsInv, Elsewhere,
           \A w \in Workers : Handling(w)' => Handling(w) /\ task'[w] = task[w]
    PROVE  PairsInv'
BY DEF PairsInv, Elsewhere, OpenWhileHandled, StoredIsCreated, LoopAhead, PairsOf

\* A pair some worker handles gets a status; it goes on to a step s.
LEMMA PairsHandled ==
    ASSUME Bookkeeping, Exclusive, PairsInv, NEW w \in Workers, pc[w] # "idle",
           NEW v \in {"running"} \cup Settled, NEW s \in Steps,
           s \in {"accepted", "searching"} => v = "running",
           pairStatus' = [pairStatus EXCEPT ![task[w]] = v], Goto(w, s),
           UNCHANGED <<stored, task, trigger, todo>>
    PROVE  PairsInv'
<1>1. task[w] \in Tasks /\ task[w] \in stored
  BY HandlersTask
<1>2. /\ \A p \in Tasks : pairStatus'[p] = IF p = task[w] THEN v ELSE pairStatus[p]
      /\ \A u \in Workers : pc'[u] = IF u = w THEN s ELSE pc[u]
  BY <1>1 DEF Goto, Bookkeeping, TypeOK
<1>3. \A u \in Workers : u # w /\ pc[u] # "idle" => task[u] \in Tasks /\ task[u] # task[w]
  BY <1>1, HandlersTask DEF Exclusive, HeldOnce, Holds
<1>4. OpenWhileHandled'
  <2>1. ASSUME NEW u \in Workers, Handling(u)' PROVE pairStatus'[task[u]] \notin Settled
    <3>1. CASE u = w
      BY <1>1, <1>2, <2>1, <3>1 DEF Handling, Settled
    <3>2. CASE u # w
      BY <1>2, <1>3, <2>1, <3>2 DEF Handling, PairsInv, OpenWhileHandled
    <3>3. QED
      BY <3>1, <3>2
  <2>2. QED
    BY <2>1 DEF OpenWhileHandled
<1>5. StoredIsCreated'
  BY <1>2 DEF PairsInv, StoredIsCreated, Settled, Bookkeeping, TypeOK, StreamTypeOK
<1>6. LoopAhead'
  BY <1>1, <1>2 DEF PairsInv, LoopAhead, PairsOf
<1>7. QED
  BY <1>4, <1>5, <1>6 DEF PairsInv

LEMMA PairsStep ==
    ASSUME Bookkeeping, Exclusive, PairsInv, [Next]_vars
    PROVE  PairsInv'
<1> USE StreamAssumption DEF streamVars, runVars
<1>0. TypeOK /\ StreamTypeOK
  BY DEF Bookkeeping, TypeOK
<1>1. ASSUME NEW r \in Runs, CountActiveRuns(r) \/ FinishTrigger(r) \/ ApiCrash(r)
      PROVE  PairsInv'
  <2>1. \A q \in Runs : trigger'[q] \in {"idle", "checked"} => trigger[q] \in {"idle", "checked"}
    BY <1>0, <1>1 DEF CountActiveRuns, FinishTrigger, ApiCrash, TypeOK
  <2>2. UNCHANGED <<todo, pairStatus, stored, pc, task>>
    BY <1>1 DEF CountActiveRuns, FinishTrigger, ApiCrash
  <2>3. QED
    BY <2>1, <2>2 DEF PairsInv, OpenWhileHandled, StoredIsCreated, LoopAhead, Handling, PairsOf
<1>2. ASSUME NEW r \in Runs, CreateRun(r) PROVE PairsInv'
  BY <1>0, <1>2 DEF CreateRun, TypeOK, PairsInv, OpenWhileHandled, StoredIsCreated, LoopAhead,
     Handling, PairsOf
<1>3. ASSUME NEW r \in Runs, NEW p \in Tasks,
             CreatePair(r, p) \/ CreatePairUnpublished(r, p)
      PROVE  PairsInv'
  <2>1. /\ trigger[r] = "pairs" /\ p \in todo[r] /\ todo' = [todo EXCEPT ![r] = @ \ {p}]
        /\ pairStatus' = [pairStatus EXCEPT ![p] = "pending"]
        /\ stored' \in {stored, stored \cup {p}} /\ UNCHANGED <<trigger, pc, task>>
    BY <1>3 DEF CreatePair, CreatePairUnpublished, Store
  <2>2. RunOf[p] = r
    BY <2>1 DEF Bookkeeping, LoopIsOwn, PairsOf
  <2>3. OpenWhileHandled'
    BY <1>0, <2>1, HandlersTask DEF PairsInv, OpenWhileHandled, Handling, TypeOK, Settled
  <2>4. StoredIsCreated'
    BY <1>0, <2>1 DEF PairsInv, StoredIsCreated, TypeOK, StreamTypeOK
  <2>5. LoopAhead'
    BY <1>0, <2>1, <2>2 DEF PairsInv, LoopAhead, PairsOf, TypeOK
  <2>6. QED
    BY <2>3, <2>4, <2>5 DEF PairsInv
<1>4. ASSUME NEW r \in Runs, NEW p \in Tasks, SkipPair(r, p) PROVE PairsInv'
  BY <1>0, <1>4 DEF SkipPair, TypeOK, PairsInv, OpenWhileHandled, StoredIsCreated, LoopAhead,
     Handling, PairsOf
<1>5. ASSUME NEW w \in Workers, NEW p \in Tasks, AcceptTask(w, p) PROVE PairsInv'
  <2>1. Elsewhere /\ task' = [task EXCEPT ![w] = p] /\ task[w] = None
    BY <1>5 DEF AcceptTask, Take, Elsewhere
  <2>2. pc' = [pc EXCEPT ![w] = IF pairStatus[p] \in Settled THEN "returned" ELSE "accepted"]
    BY <1>5 DEF AcceptTask, Goto
  <2>3. OpenWhileHandled'
    BY <1>0, <2>1, <2>2 DEF PairsInv, OpenWhileHandled, Handling, Elsewhere, TypeOK, StreamTypeOK
  <2>4. QED
    BY <2>1, <2>3 DEF Elsewhere, PairsInv, StoredIsCreated, LoopAhead, PairsOf
<1>6. ASSUME NEW w \in Workers, MarkRunning(w) PROVE PairsInv'
  BY <1>6, PairsHandled DEF MarkRunning, Steps
<1>7. ASSUME NEW w \in Workers, RecordSuccess(w) \/ RecordFailure(w) PROVE PairsInv'
  BY <1>7, PairsHandled DEF RecordSuccess, RecordFailure, Steps, Settled
<1>8. ASSUME NEW w \in Workers, RunStillOpen(w) \/ AnnounceFailure(w) \/ PublishDetect(w)
      PROVE  PairsInv'
  <2>1. pc' = [pc EXCEPT ![w] = "returned"]
        /\ UNCHANGED <<trigger, todo, pairStatus, stored, task>>
    BY <1>8 DEF RunStillOpen, AnnounceFailure, PublishDetect, Goto
  <2>2. QED
    BY <1>0, <2>1 DEF PairsInv, OpenWhileHandled, StoredIsCreated, LoopAhead, Handling, PairsOf, TypeOK
<1>9. ASSUME NEW w \in Workers, FinalizeRun(w) PROVE PairsInv'
  <2>1. PICK s \in {"run_failed", "finalized"} : pc' = [pc EXCEPT ![w] = s]
    BY <1>9 DEF FinalizeRun, Goto
  <2>2. UNCHANGED <<trigger, todo, pairStatus, stored, task>>
    BY <1>9 DEF FinalizeRun
  <2>3. QED
    BY <1>0, <2>1, <2>2 DEF PairsInv, OpenWhileHandled, StoredIsCreated, LoopAhead, Handling, PairsOf, TypeOK
<1>10. ASSUME NEW w \in Workers, AckTask(w) \/ WorkerFault(w) PROVE PairsInv'
  <2>1. pc' = [pc EXCEPT ![w] = "idle"] /\ task' = [task EXCEPT ![w] = None]
        /\ UNCHANGED <<trigger, todo, pairStatus, stored>>
    BY <1>10 DEF AckTask, WorkerFault, HandlerRaises, DetectUnconfirmed, WorkerCrash, Ack, Nak, Crash,
       Goto
  <2>2. QED
    BY <1>0, <2>1 DEF PairsInv, OpenWhileHandled, StoredIsCreated, LoopAhead, Handling, PairsOf, TypeOK,
       StreamTypeOK
<1>11. ASSUME NEW w \in Workers, NEW p \in Tasks, DeliverTask(w, p) PROVE PairsInv'
  BY <1>11, PairsElsewhere DEF DeliverTask, Deliver, Elsewhere, Handling
<1>12. ASSUME NEW p \in Tasks, ExpireTask(p) PROVE PairsInv'
  BY <1>12, PairsElsewhere DEF ExpireTask, AckWaitExpires, Elsewhere, Handling
<1>13. CASE UNCHANGED vars
  BY <1>13, PairsElsewhere DEF vars, Elsewhere, Handling
<1>14. QED
  BY <1>1, <1>2, <1>3, <1>4, <1>5, <1>6, <1>7, <1>8, <1>9, <1>10, <1>11, <1>12, <1>13
     DEF Next, Trigger, TriggerFault, Work

\* A pair that was not settled gets another status.
LEMMA PairsInStep ==
    ASSUME Bookkeeping, NEW r \in Runs, NEW p \in Tasks, pairStatus[p] \notin Settled,
           NEW v, pairStatus' = [pairStatus EXCEPT ![p] = v], NEW s \in Settled
    PROVE  /\ Cardinality(PairsIn(r, s)) \in Nat
           /\ Cardinality(PairsIn(r, s)') =
                Cardinality(PairsIn(r, s)) + (IF v = s /\ RunOf[p] = r THEN 1 ELSE 0)
<1>1. IsFiniteSet(PairsIn(r, s)) /\ Cardinality(PairsIn(r, s)) \in Nat
  BY PairsFinite DEF PairsIn, PairsOf
<1>2. p \notin PairsIn(r, s)
  BY DEF PairsIn
<1>3. PairsIn(r, s)' = IF v = s /\ RunOf[p] = r THEN PairsIn(r, s) \cup {p} ELSE PairsIn(r, s)
  BY DEF PairsIn, PairsOf, Bookkeeping, TypeOK
<1>4. Cardinality(PairsIn(r, s) \cup {p}) = Cardinality(PairsIn(r, s)) + 1
  BY <1>1, <1>2, FS_AddElement
<1>5. QED
  BY <1>1, <1>3, <1>4

\* The steps that change a pair or a counter.
LEMMA CountKinds ==
    ASSUME Bookkeeping, Exclusive, PairsInv, [Next]_vars
    PROVE  \/ UNCHANGED <<pairStatus, completed, failed>>
           \/ \E p \in Tasks, v \in {"pending", "running"} :
                 /\ pairStatus' = [pairStatus EXCEPT ![p] = v]
                 /\ pairStatus[p] \notin Settled
                 /\ v = "running" => pairStatus[p] # "none"
                 /\ v = "pending" => trigger[RunOf[p]] = "pairs" /\ p \in todo[RunOf[p]]
                 /\ UNCHANGED <<completed, failed>>
           \/ \E w \in Workers : RecordSuccess(w) \/ RecordFailure(w)
<1> USE DEF runVars
<1>1. ASSUME NEW r \in Runs, Trigger(r) \/ TriggerFault(r), ~UNCHANGED pairStatus
      PROVE  \E p \in Tasks :
                 /\ pairStatus' = [pairStatus EXCEPT ![p] = "pending"]
                 /\ pairStatus[p] \notin Settled
                 /\ trigger[RunOf[p]] = "pairs" /\ p \in todo[RunOf[p]]
                 /\ UNCHANGED <<completed, failed>>
  <2>1. PICK p \in Tasks : CreatePair(r, p) \/ CreatePairUnpublished(r, p)
    BY <1>1 DEF Trigger, TriggerFault, CountActiveRuns, CreateRun, FinishTrigger, SkipPair, ApiCrash
  <2>2. p \in todo[r] /\ p \in PairsOf(r) /\ trigger[r] = "pairs"
    BY <2>1 DEF CreatePair, CreatePairUnpublished, Bookkeeping, LoopIsOwn
  <2>3. pairStatus[p] = "none" /\ RunOf[p] = r
    BY <2>2 DEF PairsInv, LoopAhead, PairsOf
  <2>4. pairStatus' = [pairStatus EXCEPT ![p] = "pending"] /\ UNCHANGED <<completed, failed>>
    BY <2>1 DEF CreatePair, CreatePairUnpublished
  <2>5. pairStatus[p] \notin Settled /\ trigger[RunOf[p]] = "pairs" /\ p \in todo[RunOf[p]]
    BY <2>2, <2>3 DEF Settled
  <2>6. QED
    BY <2>4, <2>5
<1>2. ASSUME NEW r \in Runs, Trigger(r) \/ TriggerFault(r) PROVE UNCHANGED <<completed, failed>>
  BY <1>2, TriggersLeaveWorkers
<1>3. ASSUME NEW w \in Workers, MarkRunning(w)
      PROVE  \E p \in Tasks :
                 /\ pairStatus' = [pairStatus EXCEPT ![p] = "running"]
                 /\ pairStatus[p] \notin Settled /\ pairStatus[p] # "none"
                 /\ UNCHANGED <<completed, failed>>
  <2>1. task[w] \in Tasks /\ task[w] \in stored
    BY <1>3, HandlersTask DEF MarkRunning
  <2>2. QED
    BY <1>3, <2>1 DEF MarkRunning, PairsInv, OpenWhileHandled, Handling, StoredIsCreated
<1>4. ASSUME NEW w \in Workers, Work(w), ~MarkRunning(w), ~RecordSuccess(w), ~RecordFailure(w)
      PROVE  UNCHANGED <<pairStatus, completed, failed>>
  BY <1>4 DEF Work, AcceptTask, RunStillOpen, FinalizeRun, AnnounceFailure, PublishDetect, AckTask
<1>5. ASSUME NEW w \in Workers, WorkerFault(w) PROVE UNCHANGED <<pairStatus, completed, failed>>
  BY <1>5 DEF WorkerFault, HandlerRaises, DetectUnconfirmed, WorkerCrash
<1>6. ASSUME NEW w \in Workers, NEW p \in Tasks, DeliverTask(w, p)
      PROVE  UNCHANGED <<pairStatus, completed, failed>>
  BY <1>6 DEF DeliverTask
<1>7. ASSUME NEW p \in Tasks, ExpireTask(p) PROVE UNCHANGED <<pairStatus, completed, failed>>
  BY <1>7 DEF ExpireTask
<1>8. CASE UNCHANGED vars
  BY <1>8 DEF vars
<1>9. QED
  BY <1>1, <1>2, <1>3, <1>4, <1>5, <1>6, <1>7, <1>8 DEF Next

\* A result is recorded for a pair that was open.
LEMMA RecordStep ==
    ASSUME Bookkeeping, PairsInv, NEW w \in Workers, RecordSuccess(w) \/ RecordFailure(w)
    PROVE  \E s \in Settled :
              /\ pairStatus' = [pairStatus EXCEPT ![task[w]] = s]
              /\ \A r \in Runs :
                    /\ completed'[r] = completed[r]
                         + (IF s = "completed" /\ RunOf[task[w]] = r THEN 1 ELSE 0)
                    /\ failed'[r] = failed[r]
                         + (IF s = "failed" /\ RunOf[task[w]] = r THEN 1 ELSE 0)
              /\ task[w] \in Tasks /\ RunOf[task[w]] \in Runs
              /\ runStatus[RunOf[task[w]]] # "none"
              /\ pairStatus[task[w]] \notin Settled \cup {"none"}
              /\ UNCHANGED <<trigger, todo, runStatus, total>>
<1>1. /\ task[w] \in Tasks /\ task[w] \in stored
      /\ RunOf[task[w]] \in Runs /\ runStatus[RunOf[task[w]]] # "none"
  BY HandlersTask DEF RecordSuccess, RecordFailure
<1>2. pairStatus[task[w]] \notin Settled \cup {"none"}
  BY <1>1 DEF PairsInv, OpenWhileHandled, StoredIsCreated, Handling, RecordSuccess, RecordFailure
<1>3. CASE RecordSuccess(w)
  BY <1>1, <1>2, <1>3 DEF RecordSuccess, Bookkeeping, TypeOK, Settled
<1>4. CASE RecordFailure(w)
  BY <1>1, <1>2, <1>4 DEF RecordFailure, Bookkeeping, TypeOK, Settled
<1>5. QED
  BY <1>3, <1>4

LEMMA ExactStep ==
    ASSUME Bookkeeping, Exclusive, PairsInv, CountersAreExact, [Next]_vars
    PROVE  CountersAreExact'
<1> SUFFICES ASSUME NEW r \in Runs
             PROVE  /\ completed'[r] = Cardinality(PairsIn(r, "completed")')
                    /\ failed'[r] = Cardinality(PairsIn(r, "failed")')
  BY DEF CountersAreExact
<1>1. /\ completed[r] = Cardinality(PairsIn(r, "completed"))
      /\ failed[r] = Cardinality(PairsIn(r, "failed"))
      /\ completed[r] \in Nat /\ failed[r] \in Nat
  BY DEF CountersAreExact, Bookkeeping, TypeOK
<1>2. CASE UNCHANGED <<pairStatus, completed, failed>>
  BY <1>1, <1>2 DEF PairsIn
<1>3. ASSUME NEW p \in Tasks, NEW v \in {"pending", "running"},
             pairStatus' = [pairStatus EXCEPT ![p] = v], pairStatus[p] \notin Settled,
             UNCHANGED <<completed, failed>>
      PROVE  /\ completed'[r] = Cardinality(PairsIn(r, "completed")')
             /\ failed'[r] = Cardinality(PairsIn(r, "failed")')
  <2>1. ASSUME NEW t \in Settled
        PROVE  Cardinality(PairsIn(r, t)') = Cardinality(PairsIn(r, t))
    <3>1. v # t
      BY <1>3 DEF Settled
    <3>2. /\ Cardinality(PairsIn(r, t)) \in Nat
          /\ Cardinality(PairsIn(r, t)') =
               Cardinality(PairsIn(r, t)) + (IF v = t /\ RunOf[p] = r THEN 1 ELSE 0)
      BY <1>3, PairsInStep
    <3>3. QED
      BY <3>1, <3>2
  <2>2. QED
    BY <1>1, <1>3, <2>1 DEF Settled
<1>4. ASSUME NEW w \in Workers, RecordSuccess(w) \/ RecordFailure(w)
      PROVE  /\ completed'[r] = Cardinality(PairsIn(r, "completed")')
             /\ failed'[r] = Cardinality(PairsIn(r, "failed")')
  <2>1. PICK s \in Settled :
              /\ pairStatus' = [pairStatus EXCEPT ![task[w]] = s]
              /\ completed'[r] = completed[r]
                   + (IF s = "completed" /\ RunOf[task[w]] = r THEN 1 ELSE 0)
              /\ failed'[r] = failed[r]
                   + (IF s = "failed" /\ RunOf[task[w]] = r THEN 1 ELSE 0)
              /\ task[w] \in Tasks /\ pairStatus[task[w]] \notin Settled
    BY <1>4, RecordStep
  <2>2. ASSUME NEW t \in Settled
        PROVE  /\ Cardinality(PairsIn(r, t)) \in Nat
               /\ Cardinality(PairsIn(r, t)') =
                    Cardinality(PairsIn(r, t)) + (IF s = t /\ RunOf[task[w]] = r THEN 1 ELSE 0)
    BY <2>1, PairsInStep
  <2>3. \A t \in Settled :
          /\ Cardinality(PairsIn(r, t)) \in Nat
          /\ Cardinality(PairsIn(r, t)') =
               Cardinality(PairsIn(r, t)) + (IF s = t /\ RunOf[task[w]] = r THEN 1 ELSE 0)
    BY <2>2
  <2>4. QED
    BY <1>1, <2>1, <2>3 DEF Settled
<1>5. QED
  BY <1>2, <1>3, <1>4, CountKinds

\* How a trigger's loop goes on after its run was created.
LEMMA LoopGoesOn ==
    ASSUME Bookkeeping, [Next]_vars, NEW r \in Runs, runStatus[r] # "none"
    PROVE  /\ todo'[r] \subseteq todo[r]
           /\ trigger'[r] = "pairs" => trigger[r] = "pairs"
           /\ trigger'[r] = "done" => FinishTrigger(r) \/ (trigger[r] = "done" /\ total'[r] = total[r])
           /\ trigger'[r] = "dead" => total'[r] = total[r] /\ trigger[r] \in {"pairs", "dead"}
<1> DEFINE Goal ==
             /\ todo'[r] \subseteq todo[r]
             /\ trigger'[r] = "pairs" => trigger[r] = "pairs"
             /\ trigger'[r] = "done" =>
                   FinishTrigger(r) \/ (trigger[r] = "done" /\ total'[r] = total[r])
             /\ trigger'[r] = "dead" => total'[r] = total[r] /\ trigger[r] \in {"pairs", "dead"}
<1> USE DEF runVars
<1>0. trigger[r] \notin {"idle", "checked"} /\ TypeOK
  BY DEF Bookkeeping, RunsAreStarted
<1>1. CASE UNCHANGED <<trigger, todo, total>>
  BY <1>0, <1>1 DEF TypeOK
<1>2. ASSUME NEW q \in Runs, FinishTrigger(q) PROVE Goal
  <2>1. CASE q = r
    BY <1>0, <1>2, <2>1 DEF FinishTrigger, TypeOK
  <2>2. CASE q # r
    BY <1>0, <1>2, <2>2 DEF FinishTrigger, TypeOK
  <2>3. QED
    BY <2>1, <2>2
<1>3. ASSUME NEW q \in Runs, Trigger(q), ~FinishTrigger(q) PROVE Goal
  BY <1>0, <1>3 DEF Trigger, CountActiveRuns, CreateRun, CreatePair, TypeOK
<1>4. ASSUME NEW q \in Runs, TriggerFault(q) PROVE Goal
  BY <1>0, <1>4 DEF TriggerFault, CreatePairUnpublished, SkipPair, ApiCrash, TypeOK
<1>5. ASSUME NEW w \in Workers, Work(w) \/ WorkerFault(w) PROVE UNCHANGED <<trigger, todo, total>>
  BY <1>5 DEF Work, AcceptTask, MarkRunning, RecordSuccess, RecordFailure, RunStillOpen, FinalizeRun,
     AnnounceFailure, PublishDetect, AckTask, WorkerFault, HandlerRaises, DetectUnconfirmed, WorkerCrash
<1>6. ASSUME NEW w \in Workers, NEW p \in Tasks, DeliverTask(w, p)
      PROVE  UNCHANGED <<trigger, todo, total>>
  BY <1>6 DEF DeliverTask
<1>7. ASSUME NEW p \in Tasks, ExpireTask(p) PROVE UNCHANGED <<trigger, todo, total>>
  BY <1>7 DEF ExpireTask
<1>8. CASE UNCHANGED vars
  BY <1>1, <1>8 DEF vars
<1>9. Goal
  BY <1>1, <1>2, <1>3, <1>4, <1>5, <1>6, <1>7, <1>8 DEF Next
<1>10. QED
  BY <1>9

\* No pair is created behind the loop's back.
LEMMA CreatedStep ==
    ASSUME Bookkeeping, Exclusive, PairsInv, [Next]_vars, NEW r \in Runs,
           trigger[r] # "pairs" \/ todo[r] = {}
    PROVE  CreatedPairs(r)' = CreatedPairs(r)
<1> USE DEF CreatedPairs, PairsOf
<1>1. CASE UNCHANGED <<pairStatus, completed, failed>>
  BY <1>1
<1>2. ASSUME NEW p \in Tasks, NEW v \in {"pending", "running"},
             pairStatus' = [pairStatus EXCEPT ![p] = v],
             v = "running" => pairStatus[p] # "none",
             v = "pending" => trigger[RunOf[p]] = "pairs" /\ p \in todo[RunOf[p]]
      PROVE  CreatedPairs(r)' = CreatedPairs(r)
  BY <1>2 DEF Bookkeeping, TypeOK
<1>3. ASSUME NEW w \in Workers, RecordSuccess(w) \/ RecordFailure(w)
      PROVE  CreatedPairs(r)' = CreatedPairs(r)
  <2>1. PICK s \in Settled : /\ pairStatus' = [pairStatus EXCEPT ![task[w]] = s]
                             /\ pairStatus[task[w]] # "none" /\ task[w] \in Tasks
    BY <1>3, RecordStep
  <2>2. QED
    BY <2>1 DEF Bookkeeping, TypeOK, Settled
<1>4. QED
  BY <1>1, <1>2, <1>3, CountKinds

LEMMA TotalStep ==
    ASSUME Bookkeeping, Exclusive, PairsInv, TotalIsTrue, [Next]_vars
    PROVE  TotalIsTrue'
<1> SUFFICES ASSUME NEW r \in Runs
             PROVE  /\ trigger'[r] = "done" => total'[r] = Cardinality(CreatedPairs(r)') /\ todo'[r] = {}
                    /\ trigger'[r] = "dead" => total'[r] = Cardinality(PairsOf(r))
  BY DEF TotalIsTrue, PairsOf
<1>1. CASE runStatus[r] = "none"
  <2>1. trigger[r] \in {"idle", "checked"}
    BY <1>1 DEF Bookkeeping, RunsAreStarted
  <2>2. trigger'[r] \notin {"done", "dead"}
    <3> USE DEF Bookkeeping, TypeOK, runVars
    <3>1. ASSUME NEW q \in Runs, Trigger(q) PROVE trigger'[r] \notin {"done", "dead"}
      BY <2>1, <3>1 DEF Trigger, CountActiveRuns, CreateRun, CreatePair, FinishTrigger
    <3>2. ASSUME NEW q \in Runs, TriggerFault(q) PROVE trigger'[r] \notin {"done", "dead"}
      BY <2>1, <3>2 DEF TriggerFault, CreatePairUnpublished, SkipPair, ApiCrash
    <3>3. ASSUME NEW w \in Workers, Work(w) \/ WorkerFault(w) PROVE UNCHANGED trigger
      BY <3>3 DEF Work, AcceptTask, MarkRunning, RecordSuccess, RecordFailure, RunStillOpen,
         FinalizeRun, AnnounceFailure, PublishDetect, AckTask, WorkerFault, HandlerRaises,
         DetectUnconfirmed, WorkerCrash
    <3>4. QED
      BY <2>1, <3>1, <3>2, <3>3 DEF Next, DeliverTask, ExpireTask, vars
  <2>3. QED
    BY <2>2
<1>2. CASE runStatus[r] # "none"
  <2>1. CASE FinishTrigger(r)
    <3>1. UNCHANGED pairStatus /\ total'[r] = Cardinality(CreatedPairs(r)) /\ todo'[r] = {}
          /\ trigger'[r] = "done"
      BY <2>1 DEF FinishTrigger, Bookkeeping, TypeOK
    <3>2. QED
      BY <3>1 DEF CreatedPairs
  <2>2. CASE ~FinishTrigger(r) /\ trigger'[r] = "done"
    <3>1. trigger[r] = "done" /\ total'[r] = total[r] /\ todo'[r] \subseteq todo[r]
      BY <1>2, <2>2, LoopGoesOn
    <3>2. todo'[r] = {} /\ total[r] = Cardinality(CreatedPairs(r))
      BY <3>1 DEF TotalIsTrue
    <3>3. QED
      BY <2>2, <3>1, <3>2, CreatedStep
  <2>3. CASE trigger'[r] = "dead"
    BY <1>2, <2>3, LoopGoesOn DEF TotalIsTrue, Bookkeeping, LoopIsOwn
  <2>4. QED
    BY <2>1, <2>2, <2>3
<1>3. QED
  BY <1>1, <1>2

\* The counters of a run together count its settled pairs; while one of its
\* pairs is open they are short of total_pairs.
LEMMA CountedPairs ==
    ASSUME Bookkeeping, ExactInv, NEW r \in Runs, runStatus[r] # "none"
    PROVE  /\ completed[r] + failed[r] = Cardinality(SettledPairs(r))
           /\ completed[r] + failed[r] <= Cardinality(CreatedPairs(r))
           /\ completed[r] + failed[r] <= total[r]
           /\ completed[r] + failed[r] = total[r] =>
                CreatedPairs(r) = SettledPairs(r) /\ (trigger[r] = "pairs" => todo[r] = {})
<1>1. /\ IsFiniteSet(PairsIn(r, "completed")) /\ IsFiniteSet(PairsIn(r, "failed"))
      /\ IsFiniteSet(SettledPairs(r)) /\ IsFiniteSet(CreatedPairs(r)) /\ IsFiniteSet(PairsOf(r))
      /\ Cardinality(SettledPairs(r)) \in Nat /\ Cardinality(CreatedPairs(r)) \in Nat
      /\ Cardinality(PairsOf(r)) \in Nat
  BY PairsFinite DEF SettledPairs, PairsIn, CreatedPairs, PairsOf
<1>2. completed[r] + failed[r] = Cardinality(SettledPairs(r))
  <2>1. PairsIn(r, "completed") \cap PairsIn(r, "failed") = {}
    BY DEF PairsIn
  <2>2. Cardinality(SettledPairs(r)) =
          Cardinality(PairsIn(r, "completed")) + Cardinality(PairsIn(r, "failed"))
          - Cardinality(PairsIn(r, "completed") \cap PairsIn(r, "failed"))
    BY <1>1, FS_Union DEF SettledPairs
  <2>3. Cardinality(PairsIn(r, "completed") \cap PairsIn(r, "failed")) = 0
    BY <2>1, FS_EmptySet
  <2>4. Cardinality(PairsIn(r, "completed")) \in Nat /\ Cardinality(PairsIn(r, "failed")) \in Nat
    BY <1>1, FS_CardinalityType
  <2>5. QED
    BY <2>2, <2>3, <2>4 DEF ExactInv, CountersAreExact
<1>3. /\ SettledPairs(r) \in SUBSET CreatedPairs(r)
      /\ SettledPairs(r) \in SUBSET PairsOf(r) /\ CreatedPairs(r) \in SUBSET PairsOf(r)
  BY DEF SettledPairs, PairsIn, CreatedPairs
<1>4. trigger[r] \in {"pairs", "done", "dead"}
  BY DEF Bookkeeping, RunsAreStarted, TypeOK
<1>5. CASE trigger[r] = "done"
  <2>1. total[r] = Cardinality(CreatedPairs(r))
    BY <1>5 DEF ExactInv, TotalIsTrue
  <2>2. /\ Cardinality(SettledPairs(r)) <= Cardinality(CreatedPairs(r))
        /\ Cardinality(SettledPairs(r)) = Cardinality(CreatedPairs(r)) =>
              SettledPairs(r) = CreatedPairs(r)
    BY <1>1, <1>3, FS_Subset
  <2>3. QED
    BY <1>2, <1>5, <2>1, <2>2
<1>6. CASE trigger[r] \in {"pairs", "dead"}
  <2>1. total[r] = Cardinality(PairsOf(r))
    BY <1>6 DEF ExactInv, TotalIsTrue, Bookkeeping, LoopIsOwn
  <2>2. /\ Cardinality(SettledPairs(r)) <= Cardinality(CreatedPairs(r))
        /\ Cardinality(SettledPairs(r)) <= Cardinality(PairsOf(r))
        /\ Cardinality(SettledPairs(r)) = Cardinality(PairsOf(r)) => SettledPairs(r) = PairsOf(r)
    BY <1>1, <1>3, FS_Subset
  <2>3. SettledPairs(r) = PairsOf(r) => CreatedPairs(r) = SettledPairs(r)
    BY <1>3
  <2>4. SettledPairs(r) = PairsOf(r) => todo[r] = {}
    <3>1. ASSUME NEW p \in todo[r], SettledPairs(r) = PairsOf(r) PROVE FALSE
      <4>1. p \in PairsOf(r)
        BY DEF Bookkeeping, LoopIsOwn
      <4>2. pairStatus[p] = "none"
        BY <4>1 DEF ExactInv, PairsInv, LoopAhead
      <4>3. QED
        BY <3>1, <4>1, <4>2 DEF SettledPairs, PairsIn
    <3>2. QED
      BY <3>1
  <2>5. QED
    BY <1>2, <2>1, <2>2, <2>3, <2>4
<1>7. QED
  BY <1>4, <1>5, <1>6

\* Nothing happens any more to the pairs and counters of a final run.
LEMMA FrozenStep ==
    ASSUME Bookkeeping, ExactInv, [Next]_vars, NEW r \in Runs, runStatus[r] \in Terminal
    PROVE  /\ \A p \in PairsOf(r) : pairStatus'[p] = pairStatus[p]
           /\ completed'[r] = completed[r] /\ failed'[r] = failed[r]
<1>0. /\ Exclusive /\ PairsInv /\ CreatedPairs(r) \subseteq SettledPairs(r)
      /\ trigger[r] = "pairs" => todo[r] = {}
  BY DEF ExactInv, FinalIsSettled
<1>1. \A p \in PairsOf(r) : pairStatus[p] # "none" => pairStatus[p] \in Settled
  BY <1>0 DEF CreatedPairs, SettledPairs, PairsIn, Settled
<1>2. CASE UNCHANGED <<pairStatus, completed, failed>>
  BY <1>2
<1>3. ASSUME NEW p \in Tasks, NEW v \in {"pending", "running"},
             pairStatus' = [pairStatus EXCEPT ![p] = v], pairStatus[p] \notin Settled,
             v = "running" => pairStatus[p] # "none",
             v = "pending" => trigger[RunOf[p]] = "pairs" /\ p \in todo[RunOf[p]],
             UNCHANGED <<completed, failed>>
      PROVE  /\ \A q \in PairsOf(r) : pairStatus'[q] = pairStatus[q]
             /\ completed'[r] = completed[r] /\ failed'[r] = failed[r]
  <2>1. p \notin PairsOf(r)
    BY <1>0, <1>1, <1>3 DEF PairsOf
  <2>2. QED
    BY <1>3, <2>1 DEF Bookkeeping, TypeOK, PairsOf
<1>4. ASSUME NEW w \in Workers, RecordSuccess(w) \/ RecordFailure(w)
      PROVE  /\ \A q \in PairsOf(r) : pairStatus'[q] = pairStatus[q]
             /\ completed'[r] = completed[r] /\ failed'[r] = failed[r]
  <2>1. PICK s \in Settled :
              /\ pairStatus' = [pairStatus EXCEPT ![task[w]] = s]
              /\ completed'[r] = completed[r]
                   + (IF s = "completed" /\ RunOf[task[w]] = r THEN 1 ELSE 0)
              /\ failed'[r] = failed[r]
                   + (IF s = "failed" /\ RunOf[task[w]] = r THEN 1 ELSE 0)
              /\ task[w] \in Tasks /\ pairStatus[task[w]] \notin Settled \cup {"none"}
    BY <1>0, <1>4, RecordStep
  <2>2. RunOf[task[w]] # r
    BY <1>1, <2>1 DEF PairsOf
  <2>3. QED
    BY <2>1, <2>2 DEF Bookkeeping, TypeOK, PairsOf
<1>5. QED
  BY <1>0, <1>2, <1>3, <1>4, CountKinds

LEMMA FinalStep ==
    ASSUME Bookkeeping, ExactInv, FinalOnlyWhenCounted, [Next]_vars
    PROVE  FinalIsSettled'
<1> SUFFICES ASSUME NEW r \in Runs, runStatus'[r] \in Terminal
             PROVE  /\ CreatedPairs(r)' \subseteq SettledPairs(r)'
                    /\ trigger'[r] = "pairs" => todo'[r] = {}
                    /\ runStatus'[r] = FinalStatus(completed'[r], failed'[r])
  BY DEF FinalIsSettled, FinalStatus
<1>1. CASE runStatus'[r] = runStatus[r]
  <2>1. /\ CreatedPairs(r) \subseteq SettledPairs(r)
        /\ trigger[r] = "pairs" => todo[r] = {}
        /\ runStatus[r] = FinalStatus(completed[r], failed[r])
    BY <1>1 DEF ExactInv, FinalIsSettled
  <2>2. /\ \A p \in PairsOf(r) : pairStatus'[p] = pairStatus[p]
        /\ completed'[r] = completed[r] /\ failed'[r] = failed[r]
    BY <1>1, FrozenStep
  <2>3. todo'[r] \subseteq todo[r] /\ (trigger'[r] = "pairs" => trigger[r] = "pairs")
    BY <1>1, LoopGoesOn DEF Terminal
  <2>4. CreatedPairs(r)' \subseteq SettledPairs(r)'
    BY <2>1, <2>2 DEF CreatedPairs, SettledPairs, PairsIn, PairsOf
  <2>5. QED
    BY <1>1, <2>1, <2>2, <2>3, <2>4 DEF FinalStatus
<1>2. CASE runStatus'[r] # runStatus[r]
  <2>1. PICK w \in Workers : FinalizeRun(w) /\ RunOf[task[w]] \in Runs /\ runStatus[RunOf[task[w]]] = "running"
    BY <1>2, StatusStep DEF CreateRun, Terminal, Bookkeeping, TypeOK
  <2>2. RunOf[task[w]] = r
    BY <1>2, <2>1 DEF FinalizeRun, Bookkeeping, TypeOK
  <2>3. /\ completed[r] + failed[r] >= total[r] /\ runStatus[r] = "running"
        /\ runStatus'[r] = FinalStatus(completed[r], failed[r])
        /\ UNCHANGED <<trigger, todo, completed, failed, pairStatus>>
    BY <2>1, <2>2 DEF FinalizeRun, Bookkeeping, TypeOK
  <2>4. completed[r] + failed[r] = total[r]
    <3>1. completed[r] + failed[r] <= total[r]
      BY <2>3, CountedPairs
    <3>2. QED
      BY <2>3, <3>1 DEF Bookkeeping, TypeOK
  <2>5. CreatedPairs(r) = SettledPairs(r) /\ (trigger[r] = "pairs" => todo[r] = {})
    BY <2>3, <2>4, CountedPairs
  <2>6. CreatedPairs(r)' = CreatedPairs(r) /\ SettledPairs(r)' = SettledPairs(r)
    BY <2>3 DEF CreatedPairs, SettledPairs, PairsIn
  <2>7. QED
    BY <2>3, <2>5, <2>6 DEF FinalStatus
<1>3. QED
  BY <1>1, <1>2

LEMMA ExactInvInit == Init => ExactInv
<1> SUFFICES ASSUME Init PROVE ExactInv
  OBVIOUS
<1>1. Exclusive
  BY TypeInit, ExclusiveInit DEF Init, TypeOK
<1>2. PairsInv
  BY DEF Init, StreamInit, PairsInv, OpenWhileHandled, Handling, StoredIsCreated, LoopAhead, PairsOf
<1>3. CountersAreExact
  <2>1. ASSUME NEW r \in Runs, NEW s \in Settled PROVE PairsIn(r, s) = {}
    BY DEF Init, PairsIn, PairsOf, Settled
  <2>2. QED
    BY <2>1, FS_EmptySet DEF Init, CountersAreExact, Settled
<1>4. TotalIsTrue /\ FinalIsSettled
  BY DEF Init, TotalIsTrue, FinalIsSettled, Terminal
<1>5. QED
  BY <1>1, <1>2, <1>3, <1>4 DEF ExactInv

\* In every reachable state: the inductive invariant of exclusive handling.
THEOREM ExactInvariant == NoEarlyExpiry => (Spec => []ExactInv)
<1> SUFFICES ASSUME NoEarlyExpiry PROVE Spec => []ExactInv
  OBVIOUS
<1>1. Bookkeeping /\ FinalOnlyWhenCounted /\ ExactInv /\ [Next]_vars => ExactInv'
  <2> SUFFICES ASSUME Bookkeeping, FinalOnlyWhenCounted, ExactInv, [Next]_vars PROVE ExactInv'
    OBVIOUS
  <2>1. Exclusive /\ PairsInv /\ TotalIsTrue /\ CountersAreExact
    BY DEF ExactInv
  <2>2. QED
    BY <2>1, ExclusiveKept, PairsStep, TotalStep, ExactStep, FinalStep DEF ExactInv
<1>2. QED
  BY <1>1, ExactInvInit, BookkeepingInvariant, FinalRunsAreCounted, PTL DEF Spec

\* CountersAreExact for every instance in which no task is redelivered while a
\* worker has it: crashes, failed inserts and publishes, and raised exceptions
\* never make a run count a pair twice.
THEOREM ExactCounters == NoEarlyExpiry => (Spec => []CountersAreExact)
<1>1. ExactInv => CountersAreExact
  BY DEF ExactInv
<1>2. QED
  BY <1>1, ExactInvariant, PTL

\* FinalStatusIsTruthful under the same condition: the last worker sees a total
\* that only counts pairs that exist, however the trigger's loop ended.
THEOREM FinalStatusTruthful == NoEarlyExpiry => (Spec => []FinalStatusIsTruthful)
<1>1. ExactInv => FinalStatusIsTruthful
  <2> SUFFICES ASSUME ExactInv, NEW r \in Runs, runStatus[r] \in Terminal
               PROVE  /\ \A p \in CreatedPairs(r) : pairStatus[p] \in Settled
                      /\ runStatus[r] = FinalStatus(Cardinality(PairsIn(r, "completed")),
                                                    Cardinality(PairsIn(r, "failed")))
    BY DEF FinalStatusIsTruthful
  <2>1. /\ CreatedPairs(r) \subseteq SettledPairs(r)
        /\ runStatus[r] = FinalStatus(completed[r], failed[r])
    BY DEF ExactInv, FinalIsSettled
  <2>2. \A p \in CreatedPairs(r) : pairStatus[p] \in Settled
    BY <2>1 DEF SettledPairs, PairsIn, Settled
  <2>3. QED
    BY <2>1, <2>2 DEF ExactInv, CountersAreExact
<1>2. QED
  BY <1>1, ExactInvariant, PTL

LEMMA StrictStep ==
    ASSUME Bookkeeping, DetectInv, ExactInv, NoEarlyExpiry, [Next]_vars
    PROVE  [Strict!LifecycleNext]_(Strict!lifecycleVars)
<1> USE RunAssumption
    DEF Strict!LifecycleNext, Strict!lifecycleVars, runVars
<1>0. TypeOK
  BY DEF Bookkeeping
<1>1. ASSUME NEW r \in Runs, CreateRun(r) PROVE Strict!LifecycleNext
  <2>1. runStatus[r] = "none"
    BY <1>1 DEF CreateRun, Bookkeeping, RunsAreStarted
  <2>2. total'[r] \in Nat /\ total' = [total EXCEPT ![r] = total'[r]]
    BY <1>0, <1>1, PairsFinite DEF CreateRun, PairsOf, TypeOK
  <2>3. Strict!Start(r)
    BY <1>1, <2>1, <2>2 DEF CreateRun, Strict!Start
  <2>4. QED
    BY <2>3
<1>2. ASSUME NEW r \in Runs, FinishTrigger(r) PROVE Strict!LifecycleNext
  <2>1. runStatus[r] # "none"
    BY <1>2 DEF FinishTrigger, Bookkeeping, RunsAreStarted
  <2>2. total'[r] \in Nat /\ total' = [total EXCEPT ![r] = total'[r]]
    BY <1>0, <1>2, PairsFinite DEF FinishTrigger, CreatedPairs, PairsOf, TypeOK
  <2>3. total'[r] <= total[r]
    BY <2>1, CountStep
  <2>4. completed[r] + failed[r] <= Cardinality(CreatedPairs(r))
    BY <2>1, CountedPairs
  <2>5. total'[r] = Cardinality(CreatedPairs(r))
    BY <1>0, <1>2 DEF FinishTrigger, TypeOK
  <2>6. Strict!LowerTotal(r)
    BY <1>2, <2>1, <2>2, <2>3, <2>4, <2>5 DEF FinishTrigger, Strict!LowerTotal, Strict!Counted
  <2>7. QED
    BY <2>6
<1>3. ASSUME NEW w \in Workers, RecordSuccess(w) \/ RecordFailure(w) PROVE Strict!LifecycleNext
  <2> DEFINE r == RunOf[task[w]]
  <2>1. /\ r \in Runs /\ runStatus[r] # "none" /\ task[w] \in Tasks
        /\ pairStatus[task[w]] \notin Settled \cup {"none"}
    BY <1>3, RecordStep DEF ExactInv
  <2>2. task[w] \in CreatedPairs(r) /\ task[w] \notin SettledPairs(r)
    BY <2>1 DEF CreatedPairs, SettledPairs, PairsIn, PairsOf, Settled
  <2>3. runStatus[r] = "running"
    BY <1>0, <2>1, <2>2 DEF ExactInv, FinalIsSettled, TypeOK
  <2>4. completed[r] + failed[r] < total[r]
    <3>1. completed[r] + failed[r] # total[r] /\ completed[r] + failed[r] <= total[r]
      BY <2>1, <2>2, CountedPairs
    <3>2. QED
      BY <1>0, <2>1, <3>1 DEF TypeOK
  <2>5. Strict!MayCount(r)
    BY <2>1, <2>3, <2>4 DEF Strict!MayCount, Strict!Counted
  <2>6. CASE RecordSuccess(w)
    <3>1. Strict!CountCompleted(r)
      BY <2>5, <2>6 DEF RecordSuccess, Strict!CountCompleted
    <3>2. QED
      BY <2>1, <3>1
  <2>7. CASE RecordFailure(w)
    <3>1. Strict!CountFailed(r)
      BY <2>5, <2>7 DEF RecordFailure, Strict!CountFailed
    <3>2. QED
      BY <2>1, <3>1
  <2>8. QED
    BY <1>3, <2>6, <2>7
<1>4. ASSUME NEW w \in Workers, FinalizeRun(w) PROVE Strict!LifecycleNext
  <2> DEFINE r == RunOf[task[w]]
             s == FinalStatus(completed[r], failed[r])
  <2>1. r \in Runs /\ runStatus[r] = "running"
    BY <1>0, <1>4, HandlersTask DEF FinalizeRun, Terminal, TypeOK
  <2>2. completed[r] \in Nat /\ failed[r] \in Nat
    BY <1>0, <2>1 DEF TypeOK
  <2>3. s \in Strict!Outcomes(r)
    BY <2>2 DEF FinalStatus, Strict!Outcomes
  <2>4. Strict!Finish(r)
    BY <1>4, <2>1, <2>3 DEF FinalizeRun, Strict!Finish, Strict!Counted
  <2>5. QED
    BY <2>1, <2>4
<1>5. ASSUME NEW w \in Workers, PublishDetect(w) \/ DetectUnconfirmed(w) PROVE Strict!LifecycleNext
  <2> DEFINE r == RunOf[task[w]]
  <2>1. r \in Runs /\ Requests(w, r)
    BY <1>5, HandlersTask DEF PublishDetect, DetectUnconfirmed, Requests
  <2>2. runStatus[r] \in Successful /\ detectSent[r] = 0
    BY <2>1 DEF DetectInv, OneRequester
  <2>3. Strict!RequestDetect(r)
    BY <1>5, <2>2 DEF PublishDetect, DetectUnconfirmed, Strict!RequestDetect, Successful
  <2>4. QED
    BY <2>1, <2>3
<1>6. ASSUME NEW r \in Runs, Trigger(r) \/ TriggerFault(r), ~CreateRun(r), ~FinishTrigger(r)
      PROVE  UNCHANGED Strict!lifecycleVars
  BY <1>6 DEF Trigger, TriggerFault, CountActiveRuns, CreatePair, CreatePairUnpublished, SkipPair,
              ApiCrash
<1>7. ASSUME NEW w \in Workers, Work(w) \/ WorkerFault(w),
             ~RecordSuccess(w), ~RecordFailure(w), ~FinalizeRun(w),
             ~PublishDetect(w), ~DetectUnconfirmed(w)
      PROVE  UNCHANGED Strict!lifecycleVars
  BY <1>7 DEF Work, WorkerFault, AcceptTask, MarkRunning, RunStillOpen, AnnounceFailure, AckTask,
              HandlerRaises, WorkerCrash
<1>8. ASSUME NEW w \in Workers, NEW p \in Tasks, DeliverTask(w, p)
       PROVE  UNCHANGED Strict!lifecycleVars
  BY <1>8 DEF DeliverTask
<1>9. ASSUME NEW p \in Tasks, ExpireTask(p) PROVE UNCHANGED Strict!lifecycleVars
  BY <1>9 DEF ExpireTask
<1>10. CASE UNCHANGED vars
  BY <1>10 DEF vars
<1>11. QED
  BY <1>1, <1>2, <1>3, <1>4, <1>5, <1>6, <1>7, <1>8, <1>9, <1>10 DEF Next

\* StrictLifecycle under the same condition: what GetRun shows never counts a
\* pair beyond total_pairs, and is frozen once the run is final.
THEOREM RunsFollowStrictLifecycle == NoEarlyExpiry => (Spec => StrictLifecycle)
<1> SUFFICES ASSUME NoEarlyExpiry PROVE Spec => StrictLifecycle
  OBVIOUS
<1>1. Init => Strict!LifecycleInit
  BY DEF Init, Strict!LifecycleInit
<1>2. Bookkeeping /\ DetectInv /\ ExactInv /\ [Next]_vars => [Strict!LifecycleNext]_(Strict!lifecycleVars)
  BY StrictStep
<1>3. QED
  BY <1>1, <1>2, BookkeepingInvariant, DetectInvariant, ExactInvariant, PTL
     DEF Spec, StrictLifecycle, Strict!LifecycleSpec

============================================================================
