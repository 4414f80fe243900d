---------------------------- MODULE JobSchedule ----------------------------
(***************************************************************************)
(* Jobs and their schedule: the handlers of job.go that change a job, and  *)
(* the scheduler (pkg/scheduler) with one cron entry per scheduled job.    *)
(* The database has the truth; the entries live in the process.  A handler *)
(* changes the row first and the entry afterwards; a firing entry reloads  *)
(* the row before it starts a run.  What becomes of a run is ScanRun's     *)
(* matter: here it is in progress until it ends, unless it has no pairs.   *)
(*                                                                         *)
(* A slot is a goroutine: a request's, or a firing's.                      *)
(***************************************************************************)
EXTENDS Integers, FiniteSets

CONSTANTS
    Nil,
    Slots,
    Jobs,          \* ids of rows in srg_jobs, created or not yet
    Keywords,
    Schedules,     \* schedule_time values requests give; "" is none
    Parsed,        \* those the cron parser accepts
    MaxChanges,    \* bound on requests
    MaxRestarts    \* bound on restarts of the process

ASSUME JobScheduleAssumption ==
    /\ IsFiniteSet(Jobs) /\ IsFiniteSet(Keywords) /\ Nil \notin Nat
    /\ Parsed \subseteq Schedules \ {""} /\ MaxChanges \in Nat /\ MaxRestarts \in Nat

VARIABLES
    jobs,      \* id -> [active, sched, deleted], or Nil
    words,     \* id -> its keyword rows: <<keyword, number>>
    cron,      \* cron's entries: [id, job, sched]
    entries,   \* the scheduler's map: id -> entry id, or Nil
    lastId,    \* last entry id given
    step,      \* slot -> where its goroutine is
    held,      \* slot -> what it holds: [job, row, had, new], or Nil
    open,      \* id -> "none", "running", or "empty" for a run without pairs
    changes,   \* number of requests so far
    restarts,  \* number of restarts so far
    wanted,    \* history: id -> the keywords last asked for
    raced      \* history: jobs two goroutines changed at once

scheduler == <<cron, entries, lastId>>
vars == <<jobs, words, scheduler, step, held, open, changes, restarts, wanted, raced>>

Init ==
    /\ jobs = [j \in Jobs |-> Nil] /\ words = [j \in Jobs |-> {}]
    /\ cron = {} /\ entries = [j \in Jobs |-> Nil] /\ lastId = 0
    /\ step = [q \in Slots |-> "idle"] /\ held = [q \in Slots |-> Nil]
    /\ open = [j \in Jobs |-> "none"]
    /\ changes = 0 /\ restarts = 0 /\ wanted = [j \in Jobs |-> {}] /\ raced = {}

Visible(j) == jobs[j] # Nil /\ ~jobs[j].deleted

Named(rows) == {w[1] : w \in rows}

\* Goroutines that are about to change the row or the entry of a job.
Changing(j) == {q \in Slots :
    step[q] \notin {"idle", "reload", "trigger"} /\ held[q].job = j}

Go(q, s) == step' = [step EXCEPT ![q] = s]

Done(q) == Go(q, "idle") /\ held' = [held EXCEPT ![q] = Nil]

\* A request on a job begins, or a firing decides to drop the entry.
Touch(q, j) == raced' = IF Changing(j) \ {q} = {} THEN raced ELSE raced \cup {j}

Request(q, j) ==
    /\ step[q] = "idle" /\ changes < MaxChanges
    /\ changes' = changes + 1
    /\ Touch(q, j)

Hold(q, s, j, row, had, new) ==
    /\ Go(q, s)
    /\ held' = [held EXCEPT ![q] = [job |-> j, row |-> row, had |-> had, new |-> new]]

----------------------------------------------------------------------------
(***************************************************************************)
(* pkg/scheduler.  Adding and removing hold its mutex.                     *)
(***************************************************************************)
RemoveJob(j) ==
    /\ cron' = {e \in cron : e.id # entries[j]}
    /\ entries' = [entries EXCEPT ![j] = Nil]
    /\ UNCHANGED lastId

\* Mutant: the entry there was is not removed from cron.
AddJob_KeepsOld(j, sched) ==
    IF sched = "" THEN RemoveJob(j)
    ELSE IF sched \in Parsed
    THEN /\ lastId' = lastId + 1
         /\ cron' = cron \cup {[id |-> lastId + 1, job |-> j, sched |-> sched]}
         /\ entries' = [entries EXCEPT ![j] = lastId + 1]
    ELSE UNCHANGED scheduler

\* Registers or replaces the entry.  A schedule cron cannot parse leaves the job
\* without an entry, and the map with the old entry's id.
AddJob(j, sched) ==
    IF sched = "" THEN RemoveJob(j)
    ELSE IF sched \in Parsed
    THEN /\ lastId' = lastId + 1
         /\ cron' = {e \in cron : e.id # entries[j]}
                    \cup {[id |-> lastId + 1, job |-> j, sched |-> sched]}
         /\ entries' = [entries EXCEPT ![j] = lastId + 1]
    ELSE /\ cron' = {e \in cron : e.id # entries[j]}
         /\ UNCHANGED <<entries, lastId>>

\* At start: an entry for every active job with a schedule.
LoadAll == LET due == {j \in Jobs : Visible(j) /\ jobs[j].active /\ jobs[j].sched \in Parsed}
           IN \E id \in [due -> lastId + 1 .. lastId + Cardinality(due)] :
    /\ \A i, j \in due : i # j => id[i] # id[j]
    /\ cron' = {[id |-> id[j], job |-> j, sched |-> jobs[j].sched] : j \in due}
    /\ entries' = [j \in Jobs |-> IF j \in due THEN id[j] ELSE Nil]
    /\ lastId' = lastId + Cardinality(due)

----------------------------------------------------------------------------
(***************************************************************************)
(* Requests.                                                               *)
(***************************************************************************)

\* Blank keywords and repetitions are dropped, so that none may be left.
deduplicateKeywords(ks) == {k \in ks : k # ""}

\* Numbers for new keyword rows, of no row there is or a goroutine knows.
Number(j, k) == CHOOSE n \in 1 .. MaxChanges + 1 :
    /\ <<k, n>> \notin words[j]
    /\ \A q \in Slots : held[q] = Nil \/ <<k, n>> \notin held[q].had

\* The row is active whatever the request says: gorm writes a column's default
\* (true) for a zero value.
CreateJob(q) == \E j \in Jobs, ks \in SUBSET Keywords, sched \in Schedules :
    LET row == [active |-> TRUE, sched |-> sched, deleted |-> FALSE] IN
    /\ jobs[j] = Nil
    /\ Request(q, j)
    /\ jobs' = [jobs EXCEPT ![j] = row]
    /\ words' = [words EXCEPT ![j] = {<<k, 1>> : k \in deduplicateKeywords(ks)}]
    /\ wanted' = [wanted EXCEPT ![j] = deduplicateKeywords(ks)]
    /\ Hold(q, "schedule", j, row, {}, {})
    /\ UNCHANGED <<scheduler, open, restarts>>

\* The row and its keywords are read; the copy takes the new values.
UpdateJob(q) == \E j \in Jobs, ks \in SUBSET Keywords, sched \in Schedules, active \in BOOLEAN :
    /\ Visible(j)
    /\ Request(q, j)
    /\ Hold(q, "keywords", j, [jobs[j] EXCEPT !.active = active, !.sched = sched],
            words[j], deduplicateKeywords(ks))
    /\ UNCHANGED <<jobs, words, scheduler, open, wanted, restarts>>

\* The transaction on keywords: those gone lose the row that was read, those not
\* read get one.
UpdateKeywords(q) == LET h == held[q] IN
    /\ step[q] = "keywords"
    /\ words' = [words EXCEPT ![h.job] =
          {w \in @ : w \notin h.had \/ w[1] \in h.new}
          \cup {<<k, Number(h.job, k)>> : k \in h.new \ Named(h.had)}]
    /\ wanted' = [wanted EXCEPT ![h.job] = h.new]
    /\ Go(q, "save")
    /\ UNCHANGED <<jobs, scheduler, held, open, changes, raced, restarts>>

\* Mutant: the scheduler is not told.
SaveJob_Silent(q) ==
    /\ step[q] = "save"
    /\ jobs' = [jobs EXCEPT ![held[q].job] = held[q].row]
    /\ Done(q)
    /\ UNCHANGED <<words, scheduler, open, changes, wanted, raced, restarts>>

\* The whole row is saved.
SaveJob(q) ==
    /\ step[q] = "save"
    /\ jobs' = [jobs EXCEPT ![held[q].job] = held[q].row]
    /\ Go(q, "schedule")
    /\ UNCHANGED <<words, scheduler, held, open, changes, wanted, raced, restarts>>

PatchJobStatus(q) == \E j \in Jobs, active \in BOOLEAN :
    /\ Visible(j)
    /\ Request(q, j)
    /\ Hold(q, "save", j, [jobs[j] EXCEPT !.active = active], {}, {})
    /\ UNCHANGED <<jobs, words, scheduler, open, wanted, restarts>>

\* A soft delete; the entry is removed by the next step.
DeleteJob(q) == \E j \in Jobs :
    /\ Visible(j)
    /\ Request(q, j)
    /\ jobs' = [jobs EXCEPT ![j].deleted = TRUE]
    /\ Hold(q, "unschedule", j, Nil, {}, {})
    /\ UNCHANGED <<words, scheduler, open, wanted, restarts>>

\* The handler passes its copy to the scheduler.
Reschedule(q) ==
    /\ \/ step[q] = "schedule" /\ AddJob(held[q].job, held[q].row.sched)
       \/ step[q] \in {"unschedule", "drop"} /\ RemoveJob(held[q].job)
    /\ Done(q)
    /\ UNCHANGED <<jobs, words, open, changes, wanted, raced, restarts>>

----------------------------------------------------------------------------
(***************************************************************************)
(* An entry fires: the row is reloaded, and a run started or the entry     *)
(* dropped.                                                                *)
(***************************************************************************)
Fire(j) == \E q \in Slots :
    /\ step[q] = "idle"
    /\ \E e \in cron : e.job = j
    /\ Hold(q, "reload", j, Nil, {}, {})
    /\ UNCHANGED <<jobs, words, scheduler, open, changes, wanted, raced, restarts>>

\* A deleted row is not found; a paused one, or one without a schedule, costs the entry.
Reload(q) == LET j == held[q].job IN
    /\ step[q] = "reload"
    /\ \/ /\ ~Visible(j)
          /\ Done(q) /\ UNCHANGED raced
       \/ /\ Visible(j) /\ (~jobs[j].active \/ jobs[j].sched = "")
          /\ Go(q, "drop") /\ Touch(q, j) /\ UNCHANGED held
       \/ /\ Visible(j) /\ jobs[j].active /\ jobs[j].sched # ""
          /\ Hold(q, "trigger", j, jobs[j], words[j], {}) /\ UNCHANGED raced
    /\ UNCHANGED <<jobs, words, scheduler, open, changes, wanted, restarts>>

\* One run at a time, with a pair for every keyword (and region, of which there
\* is one).  A run without pairs has no task whose worker would end it.
TriggerScrapeForJob(j, rows) ==
    open' = IF open[j] # "none" THEN open
            ELSE [open EXCEPT ![j] = IF rows = {} THEN "empty" ELSE "running"]

\* Mutant: a trigger that is refused costs the entry.
Trigger_DropsEntry(q) == LET j == held[q].job IN
    /\ step[q] = "trigger"
    /\ TriggerScrapeForJob(j, held[q].had)
    /\ Done(q)
    /\ IF open[j] # "none" THEN RemoveJob(j) ELSE UNCHANGED scheduler
    /\ UNCHANGED <<jobs, words, changes, wanted, raced, restarts>>

\* A run in progress lets the trigger fail, which is only logged.
Trigger(q) ==
    /\ step[q] = "trigger"
    /\ TriggerScrapeForJob(held[q].job, held[q].had)
    /\ Done(q)
    /\ UNCHANGED <<jobs, words, scheduler, changes, wanted, raced, restarts>>

\* By hand, for an active job.
TriggerScrape(q) == \E j \in Jobs :
    /\ step[q] = "idle" /\ changes < MaxChanges
    /\ changes' = changes + 1
    /\ Visible(j) /\ jobs[j].active
    /\ Hold(q, "trigger", j, jobs[j], words[j], {})
    /\ UNCHANGED <<jobs, words, scheduler, open, wanted, raced, restarts>>

RunEnds(j) ==
    /\ open[j] = "running"
    /\ open' = [open EXCEPT ![j] = "none"]
    /\ UNCHANGED <<jobs, words, scheduler, step, held, changes, wanted, raced, restarts>>

JobRequest(q) == CreateJob(q) \/ UpdateJob(q) \/ PatchJobStatus(q) \/ DeleteJob(q) \/ TriggerScrape(q)

Work(q) == UpdateKeywords(q) \/ SaveJob(q) \/ Reschedule(q) \/ Reload(q) \/ Trigger(q)

\* A crash or a shutdown, which waits for no goroutine: they are cut off, and the entries are loaded anew from the rows.
Restart ==
    /\ restarts < MaxRestarts /\ restarts' = restarts + 1
    /\ LoadAll
    /\ step' = [q \in Slots |-> "idle"] /\ held' = [q \in Slots |-> Nil]
    /\ raced' = {j \in Jobs : Cardinality(Named(words[j])) < Cardinality(words[j])
                              \/ Named(words[j]) # wanted[j]}
    /\ UNCHANGED <<jobs, words, open, changes, wanted>>

Next ==
    \/ \E q \in Slots : JobRequest(q) \/ Work(q)
    \/ \E j \in Jobs : Fire(j) \/ RunEnds(j)
    \/ Restart

Spec == Init /\ [][Next]_vars

\* Goroutines run, cron fires, and workers end runs; requests need not come.
FairSpec ==
    /\ Spec
    /\ \A q \in Slots : WF_vars(Work(q))
    /\ \A j \in Jobs : SF_vars(Fire(j)) /\ WF_vars(RunEnds(j))

----------------------------------------------------------------------------
(***************************************************************************)
(* Properties.                                                             *)
(***************************************************************************)
Steps == {"idle", "keywords", "save", "schedule", "unschedule", "reload", "drop", "trigger"}

Rows == [active : BOOLEAN, sched : Schedules, deleted : BOOLEAN]

\* Entry ids were given out by cron, for expressions its parser accepts; each
\* goroutine at work holds a job, and a row of it when it is to save or pass one.
TypeOK ==
    /\ lastId \in Nat
    /\ cron \subseteq [id : Nat, job : Jobs, sched : Parsed]
    /\ entries \in [Jobs -> {Nil} \cup Nat]
    /\ jobs \in [Jobs -> {Nil} \cup Rows]
    /\ step \in [Slots -> Steps]
    /\ DOMAIN held = Slots
    /\ \A q \in Slots :
          /\ step[q] # "idle" => held[q].job \in Jobs
          /\ step[q] \in {"keywords", "save", "schedule"} => held[q].row \in Rows

\* Every cron entry is the one the scheduler knows of its job: no job fires
\* twice, and none has an entry no call could remove.
EntriesAreTracked == \A e \in cron : entries[e.job] = e.id

Settled(j) == jobs[j] # Nil /\ Changing(j) = {} /\ j \notin raced

\* When its requests are through, and never changed it at once, a job has the
\* keywords last asked for, once each, and fires as its row says: an active job
\* with a schedule does, one deleted or without a schedule does not.
ScheduleFollowsRow == \A j \in Jobs : Settled(j) =>
    LET mine == {e \in cron : e.job = j} IN
    /\ Named(words[j]) = wanted[j] /\ Cardinality(words[j]) = Cardinality(wanted[j])
    /\ Visible(j) /\ jobs[j].active /\ jobs[j].sched \in Parsed =>
          \E e \in mine : e.sched = jobs[j].sched
    /\ jobs[j].deleted \/ jobs[j].sched \notin Parsed => mine = {}

Due(j) == Settled(j) /\ Visible(j) /\ jobs[j].active /\ jobs[j].sched \in Parsed
          /\ open[j] # "empty"

\* A job that stays active, scheduled and unraced, and has no run without pairs
\* in its way, is scanned again and again.
JobsKeepBeingScanned == \A j \in Jobs :
    <>[]Due(j) => []<>(open[j] = "running") /\ []<>(open[j] = "none")
============================================================================
