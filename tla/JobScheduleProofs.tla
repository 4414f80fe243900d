-------------------------- MODULE JobScheduleProofs --------------------------
(***************************************************************************)
(* What is proved of JobSchedule for any number of jobs, goroutines,       *)
(* requests and restarts.                                                  *)
(***************************************************************************)
EXTENDS JobSchedule, FunctionTheorems, FiniteSetTheorems, TLAPS

\* What TypeOK says of the goroutines and the rows, and of the scheduler.
Goroutines ==
    /\ jobs \in [Jobs -> {Nil} \cup Rows]
    /\ step \in [Slots -> Steps]
    /\ DOMAIN held = Slots
    /\ \A q \in Slots :
          /\ step[q] # "idle" => held[q].job \in Jobs
          /\ step[q] \in {"keywords", "save", "schedule"} => held[q].row \in Rows

Entries ==
    /\ lastId \in Nat
    /\ cron \subseteq [id : Nat, job : Jobs, sched : Parsed]
    /\ entries \in [Jobs -> {Nil} \cup Nat]

LEMMA Parts == TypeOK <=> Entries /\ Goroutines
  BY DEF TypeOK, Entries, Goroutines

----------------------------------------------------------------------------
(***************************************************************************)
(* The calls of the scheduler.                                             *)
(***************************************************************************)

LEMMA RemoveKeeps ==
  ASSUME NEW j \in Jobs, Entries, EntriesAreTracked, RemoveJob(j)
  PROVE  Entries' /\ EntriesAreTracked'
  BY DEF Entries, EntriesAreTracked, RemoveJob

\* A new entry replaces the one the map names, which is the only one of the job.
LEMMA AddKeeps ==
  ASSUME NEW j \in Jobs, NEW sched \in Schedules, Entries, EntriesAreTracked, AddJob(j, sched)
  PROVE  Entries' /\ EntriesAreTracked'
<1>1. CASE sched = ""
  BY <1>1, RemoveKeeps DEF AddJob
<1>2. CASE sched # "" /\ sched \notin Parsed
  BY <1>2 DEF AddJob, Entries, EntriesAreTracked
<1>3. CASE sched # "" /\ sched \in Parsed
  <2> DEFINE new == [id |-> lastId + 1, job |-> j, sched |-> sched]
  <2>1. /\ lastId' = lastId + 1
        /\ cron' = {e \in cron : e.id # entries[j]} \cup {new}
        /\ entries' = [entries EXCEPT ![j] = lastId + 1]
    BY <1>3 DEF AddJob
  <2>2. lastId' \in Nat /\ new \in [id : Nat, job : Jobs, sched : Parsed]
    <3>1. lastId \in Nat
      BY DEF Entries
    <3>2. lastId + 1 \in Nat
      BY <3>1
    <3>3. QED
      BY <1>3, <2>1, <3>2
  <2>3. /\ cron' \subseteq [id : Nat, job : Jobs, sched : Parsed]
        /\ entries' \in [Jobs -> {Nil} \cup Nat]
    BY <2>1, <2>2 DEF Entries
  <2>4. Entries'
    BY <2>2, <2>3 DEF Entries
  <2>5. ASSUME NEW e \in cron, e.id # entries[j]
        PROVE  entries'[e.job] = e.id
    BY <2>1, <2>5 DEF Entries, EntriesAreTracked
  <2>6. entries'[new.job] = new.id
    BY <2>1 DEF Entries
  <2>7. QED
    BY <2>1, <2>4, <2>5, <2>6 DEF EntriesAreTracked
<1>4. QED
  BY <1>1, <1>2, <1>3

\* A start gives each job that is due one entry.
LEMMA LoadMakes ==
  ASSUME Entries, LoadAll
  PROVE  Entries' /\ EntriesAreTracked'
<1> DEFINE due == {j \in Jobs : Visible(j) /\ jobs[j].active /\ jobs[j].sched \in Parsed}
           n == Cardinality(due)
<1>1. n \in Nat
  BY FS_Subset, FS_CardinalityType, JobScheduleAssumption
<1>2. PICK id \in [due -> lastId + 1 .. lastId + n] :
          /\ cron' = {[id |-> id[j], job |-> j, sched |-> jobs[j].sched] : j \in due}
          /\ entries' = [j \in Jobs |-> IF j \in due THEN id[j] ELSE Nil]
          /\ lastId' = lastId + n
  BY DEF LoadAll
<1> HIDE DEF n
<1>3. lastId' \in Nat /\ \A j \in due : id[j] \in Nat
  <2>1. lastId \in Nat
    BY DEF Entries
  <2>2. lastId + n \in Nat /\ \A k \in lastId + 1 .. lastId + n : k \in Nat
    BY <1>1, <2>1
  <2>3. QED
    BY <1>2, <2>2
<1>4. \A j \in due : j \in Jobs /\ jobs[j].sched \in Parsed
  OBVIOUS
<1> HIDE DEF due
<1>5. ASSUME NEW e \in cron'
      PROVE  e \in [id : Nat, job : Jobs, sched : Parsed] /\ entries'[e.job] = e.id
  <2>1. PICK j \in due : e = [id |-> id[j], job |-> j, sched |-> jobs[j].sched]
    BY <1>2, <1>5
  <2>2. QED
    BY <1>2, <1>3, <1>4, <2>1
<1>6. entries' \in [Jobs -> {Nil} \cup Nat]
  BY <1>2, <1>3
<1>7. QED
  BY <1>3, <1>5, <1>6 DEF Entries, EntriesAreTracked
----------------------------------------------------------------------------
(***************************************************************************)
(* Steps.                                                                  *)
(***************************************************************************)

\* A goroutine that takes hold of a job, with a row of it if it is to save one.
LEMMA HoldKeeps ==
  ASSUME NEW q \in Slots, NEW j \in Jobs, NEW row, NEW had, NEW new,
         NEW s \in Steps, Goroutines, Hold(q, s, j, row, had, new),
         s \in {"keywords", "save", "schedule"} => row \in Rows,
         jobs' \in [Jobs -> {Nil} \cup Rows]
  PROVE  Goroutines'
<1>1. /\ step' = [step EXCEPT ![q] = s]
      /\ held' = [held EXCEPT ![q] = [job |-> j, row |-> row, had |-> had, new |-> new]]
  BY DEF Hold, Go
<1>2. held'[q].job = j /\ held'[q].row = row /\ step'[q] = s
  BY <1>1 DEF Goroutines
<1>3. \A p \in Slots \ {q} : held'[p] = held[p] /\ step'[p] = step[p]
  BY <1>1 DEF Goroutines
<1>4. step' \in [Slots -> Steps] /\ DOMAIN held' = Slots
  BY <1>1 DEF Goroutines
<1>5. QED
  BY <1>2, <1>3, <1>4 DEF Goroutines

LEMMA GoKeeps ==
  ASSUME Goroutines, [Next]_vars
  PROVE  Goroutines'
<1> USE DEF Steps
<1>1. ASSUME NEW q \in Slots, CreateJob(q) PROVE Goroutines'
  <2>1. PICK j \in Jobs, row \in Rows :
           Hold(q, "schedule", j, row, {}, {}) /\ jobs' = [jobs EXCEPT ![j] = row]
    BY <1>1 DEF CreateJob, Rows
  <2>2. QED
    BY <2>1, HoldKeeps DEF Goroutines
<1>2. ASSUME NEW q \in Slots, UpdateJob(q) PROVE Goroutines'
  <2>1. PICK j \in Jobs, ks \in SUBSET Keywords, sched \in Schedules, active \in BOOLEAN :
           /\ Visible(j) /\ jobs' = jobs
           /\ Hold(q, "keywords", j, [jobs[j] EXCEPT !.active = active, !.sched = sched],
                   words[j], deduplicateKeywords(ks))
    BY <1>2 DEF UpdateJob
  <2>2. [jobs[j] EXCEPT !.active = active, !.sched = sched] \in Rows
    BY <2>1 DEF Visible, Goroutines, Rows
  <2>3. QED
    BY <2>1, <2>2, HoldKeeps DEF Goroutines
<1>3. ASSUME NEW q \in Slots, PatchJobStatus(q) PROVE Goroutines'
  <2>1. PICK j \in Jobs, active \in BOOLEAN :
           /\ Visible(j) /\ jobs' = jobs
           /\ Hold(q, "save", j, [jobs[j] EXCEPT !.active = active], {}, {})
    BY <1>3 DEF PatchJobStatus
  <2>2. [jobs[j] EXCEPT !.active = active] \in Rows
    BY <2>1 DEF Visible, Goroutines, Rows
  <2>3. QED
    BY <2>1, <2>2, HoldKeeps DEF Goroutines
<1>4. ASSUME NEW q \in Slots, DeleteJob(q) PROVE Goroutines'
  <2>1. PICK j \in Jobs :
           /\ Visible(j) /\ jobs' = [jobs EXCEPT ![j].deleted = TRUE]
           /\ Hold(q, "unschedule", j, Nil, {}, {})
    BY <1>4 DEF DeleteJob
  <2>2. jobs[j] \in Rows
    BY <2>1 DEF Visible, Goroutines
  <2>3. [jobs[j] EXCEPT !.deleted = TRUE] \in Rows
    BY <2>2 DEF Rows
  <2>4. jobs' \in [Jobs -> {Nil} \cup Rows]
    BY <2>1, <2>3 DEF Goroutines
  <2>5. QED
    BY <2>1, <2>4, HoldKeeps
<1>5. ASSUME NEW q \in Slots, TriggerScrape(q) PROVE Goroutines'
  <2>1. PICK j \in Jobs : jobs' = jobs /\ Hold(q, "trigger", j, jobs[j], words[j], {})
    BY <1>5 DEF TriggerScrape
  <2>2. QED
    BY <2>1, HoldKeeps DEF Goroutines
<1>6. ASSUME NEW q \in Slots, UpdateKeywords(q) PROVE Goroutines'
  BY <1>6 DEF UpdateKeywords, Go, Goroutines
<1>7. ASSUME NEW q \in Slots, SaveJob(q) PROVE Goroutines'
  <2>1. held[q].job \in Jobs /\ held[q].row \in Rows
    BY <1>7 DEF SaveJob, Goroutines
  <2>2. jobs' \in [Jobs -> {Nil} \cup Rows]
    BY <1>7, <2>1 DEF SaveJob, Goroutines
  <2>3. QED
    BY <1>7, <2>2 DEF SaveJob, Go, Goroutines
<1>8. ASSUME NEW q \in Slots, Done(q), UNCHANGED jobs PROVE Goroutines'
  BY <1>8 DEF Done, Go, Goroutines
<1>9. ASSUME NEW q \in Slots, Reload(q) PROVE Goroutines'
  <2>1. held[q].job \in Jobs /\ jobs' = jobs
    BY <1>9 DEF Reload, Goroutines
  <2>2. CASE Done(q)
    BY <1>8, <2>1, <2>2
  <2>3. CASE Go(q, "drop") /\ UNCHANGED held
    BY <2>1, <2>3 DEF Go, Goroutines
  <2>4. CASE Hold(q, "trigger", held[q].job, jobs[held[q].job], words[held[q].job], {})
    BY <2>1, <2>4, HoldKeeps DEF Goroutines
  <2>5. QED
    BY <1>9, <2>2, <2>3, <2>4 DEF Reload
<1>10. ASSUME NEW q \in Slots, Reschedule(q) \/ Trigger(q) PROVE Goroutines'
  BY <1>8, <1>10 DEF Reschedule, Trigger
<1>11. ASSUME NEW j \in Jobs, Fire(j) PROVE Goroutines'
  <2>1. PICK q \in Slots : jobs' = jobs /\ Hold(q, "reload", j, Nil, {}, {})
    BY <1>11 DEF Fire
  <2>2. QED
    BY <2>1, HoldKeeps DEF Goroutines
<1>12. ASSUME NEW j \in Jobs, RunEnds(j) PROVE Goroutines'
  BY <1>12 DEF RunEnds, Goroutines
<1>13. CASE Restart
  BY <1>13 DEF Restart, Goroutines
<1>14. CASE UNCHANGED vars
  BY <1>14 DEF vars, Goroutines
<1>15. QED
  BY <1>1, <1>2, <1>3, <1>4, <1>5, <1>6, <1>7, <1>9, <1>10, <1>11, <1>12, <1>13, <1>14
     DEF Next, JobRequest, Work

LEMMA EntriesKeep ==
  ASSUME Entries, Goroutines, EntriesAreTracked, [Next]_vars
  PROVE  Entries' /\ EntriesAreTracked'
<1>1. CASE UNCHANGED scheduler
  BY <1>1 DEF scheduler, Entries, EntriesAreTracked
<1>2. ASSUME NEW q \in Slots, Reschedule(q) PROVE Entries' /\ EntriesAreTracked'
  <2>1. CASE step[q] = "schedule" /\ AddJob(held[q].job, held[q].row.sched)
    <3>1. held[q].job \in Jobs /\ held[q].row.sched \in Schedules
      BY <2>1 DEF Goroutines, Rows
    <3>2. QED
      BY <2>1, <3>1, AddKeeps
  <2>2. CASE step[q] \in {"unschedule", "drop"} /\ RemoveJob(held[q].job)
    <3>1. held[q].job \in Jobs
      BY <2>2 DEF Goroutines
    <3>2. QED
      BY <2>2, <3>1, RemoveKeeps
  <2>3. QED
    BY <1>2, <2>1, <2>2 DEF Reschedule
<1>3. CASE Restart
  BY <1>3, LoadMakes DEF Restart
<1>4. CASE UNCHANGED vars
  BY <1>1, <1>4 DEF vars, scheduler
<1>5. ASSUME NEW q \in Slots, JobRequest(q) PROVE UNCHANGED scheduler
  BY <1>5 DEF JobRequest, CreateJob, UpdateJob, PatchJobStatus, DeleteJob, TriggerScrape
<1>6. ASSUME NEW q \in Slots, Work(q), ~Reschedule(q) PROVE UNCHANGED scheduler
  BY <1>6 DEF Work, UpdateKeywords, SaveJob, Reload, Trigger
<1>7. ASSUME NEW j \in Jobs, Fire(j) \/ RunEnds(j) PROVE UNCHANGED scheduler
  BY <1>7 DEF Fire, RunEnds
<1>8. QED
  BY <1>1, <1>2, <1>3, <1>4, <1>5, <1>6, <1>7 DEF Next

----------------------------------------------------------------------------
(***************************************************************************)
(* What holds of a job no two goroutines changed at once.                  *)
(***************************************************************************)

\* Ids were given out once; one left behind in the map is given to no other job.
IdsApart ==
    /\ \A i, j \in Jobs : entries[i] = entries[j] /\ entries[i] # Nil => i = j
    /\ \A j \in Jobs : entries[j] # Nil => entries[j] <= lastId

\* No keyword has two rows.
OneRowEach(rows) == \A v, w \in rows : v[1] = w[1] => v = w

WordsFit(j) == Named(words[j]) = wanted[j] /\ OneRowEach(words[j])

\* The entries of a job are those its row asks for; a paused job may have one.
EntriesFit(j) == jobs[j] # Nil =>
    /\ Visible(j) /\ jobs[j].active /\ jobs[j].sched \in Parsed =>
          \E e \in cron : e.job = j /\ e.sched = jobs[j].sched
    /\ jobs[j].deleted \/ jobs[j].sched \notin Parsed => \A e \in cron : e.job # j

\* What a goroutine holds is still what the database has.
CopyFits(q) == LET j == held[q].job IN
    /\ step[q] = "keywords" => held[q].had = words[j]
    /\ step[q] = "schedule" => jobs[j] = held[q].row
    /\ step[q] = "unschedule" => jobs[j].deleted
    /\ step[q] = "drop" => ~jobs[j].active \/ jobs[j].sched = ""

JobFits(j) ==
    /\ WordsFit(j)
    /\ \A q, p \in Changing(j) : q = p
    /\ \A q \in Changing(j) : CopyFits(q)
    /\ Changing(j) = {} => EntriesFit(j)

\* A goroutine never holds a deleted row, or more keywords than there are.
Copies == \A q \in Slots :
    /\ step[q] \in {"keywords", "save", "schedule"} => ~held[q].row.deleted
    /\ step[q] = "keywords" => held[q].new \subseteq Keywords

Histories ==
    /\ DOMAIN words = Jobs /\ DOMAIN wanted = Jobs
    /\ \A j \in Jobs : IsFiniteSet(words[j])

FollowInv ==
    /\ TypeOK /\ EntriesAreTracked
    /\ IdsApart /\ Copies /\ Histories
    /\ \A j \in Jobs \ raced : JobFits(j)

\* Counting rows and counting the keywords they name agree exactly then.
LEMMA NamedOnce ==
  ASSUME NEW rows, IsFiniteSet(rows)
  PROVE  /\ IsFiniteSet(Named(rows))
         /\ Cardinality(rows) \in Nat /\ Cardinality(Named(rows)) \in Nat
         /\ Cardinality(Named(rows)) <= Cardinality(rows)
         /\ Cardinality(Named(rows)) = Cardinality(rows) <=> OneRowEach(rows)
<1> DEFINE f == [w \in rows |-> w[1]]
           T == Named(rows)
<1>1. f \in [rows -> T] /\ \A w \in rows : f[w] = w[1]
  BY DEF Named
<1>2. \A k \in T : \E w \in rows : w[1] = k
  BY DEF Named
<1> HIDE DEF f, T
<1>3. f \in Surjection(rows, T)
  BY <1>1, <1>2, Fun_IsSurj
<1>4. f \in Injection(rows, T) <=> OneRowEach(rows)
  BY <1>1 DEF Injection, IsInjective, OneRowEach
<1>5. /\ IsFiniteSet(T) /\ Cardinality(T) <= Cardinality(rows)
      /\ Cardinality(T) = Cardinality(rows) <=> f \in Injection(rows, T)
  BY <1>3, FS_Surjection
<1>6. Cardinality(rows) \in Nat /\ Cardinality(T) \in Nat
  BY <1>5, FS_CardinalityType
<1>7. QED
  BY <1>4, <1>5, <1>6 DEF T

----------------------------------------------------------------------------
(***************************************************************************)
(* The scheduler's calls change the entries of one job.                    *)
(***************************************************************************)
OthersKeep(j) == \A e \in cron \cup cron' : e.job # j => (e \in cron <=> e \in cron')

LEMMA IdsOfOthers ==
  ASSUME NEW j \in Jobs, Entries, EntriesAreTracked, IdsApart, NEW e \in cron
  PROVE  e.id # entries[j] <=> e.job # j
<1>1. e.job \in Jobs /\ e.id \in Nat /\ entries[e.job] = e.id
  BY DEF Entries, EntriesAreTracked
<1>2. entries[e.job] # Nil
  BY <1>1, JobScheduleAssumption
<1>3. QED
  BY <1>1, <1>2 DEF IdsApart

LEMMA RemovesOwn ==
  ASSUME NEW j \in Jobs, Entries, EntriesAreTracked, IdsApart, RemoveJob(j)
  PROVE  IdsApart' /\ OthersKeep(j) /\ \A e \in cron' : e.job # j
<1>1. cron' = {e \in cron : e.job # j}
  BY IdsOfOthers DEF RemoveJob
<1>2. IdsApart'
  BY DEF RemoveJob, IdsApart, Entries
<1>3. QED
  BY <1>1, <1>2 DEF OthersKeep

LEMMA AddsOwn ==
  ASSUME NEW j \in Jobs, NEW sched \in Schedules,
         Entries, EntriesAreTracked, IdsApart, AddJob(j, sched)
  PROVE  /\ IdsApart' /\ OthersKeep(j)
         /\ sched \in Parsed => \E e \in cron' : e.job = j /\ e.sched = sched
         /\ sched \notin Parsed => \A e \in cron' : e.job # j
<1>0. "" \notin Parsed
  BY JobScheduleAssumption
<1>1. CASE sched = ""
  BY <1>0, <1>1, RemovesOwn DEF AddJob
<1>2. {e \in cron : e.id # entries[j]} = {e \in cron : e.job # j}
  BY IdsOfOthers
<1>3. CASE sched # "" /\ sched \notin Parsed
  <2>1. cron' = {e \in cron : e.job # j} /\ UNCHANGED <<entries, lastId>>
    BY <1>2, <1>3 DEF AddJob
  <2>2. QED
    BY <1>3, <2>1 DEF OthersKeep, IdsApart
<1>4. CASE sched # "" /\ sched \in Parsed
  <2> DEFINE new == [id |-> lastId + 1, job |-> j, sched |-> sched]
  <2>1. /\ lastId' = lastId + 1
        /\ cron' = {e \in cron : e.job # j} \cup {new}
        /\ entries' = [entries EXCEPT ![j] = lastId + 1]
    BY <1>2, <1>4 DEF AddJob
  <2>2. new.job = j /\ new.sched = sched
    OBVIOUS
  <2>3. IdsApart'
    <3>1. lastId \in Nat /\ \A i \in Jobs : entries[i] # Nil => entries[i] \in Nat
      BY DEF Entries
    <3>2. entries'[j] = lastId + 1 /\ \A i \in Jobs \ {j} : entries'[i] = entries[i]
      BY <2>1 DEF Entries
    <3>3. \A i \in Jobs \ {j} : entries[i] # Nil => entries[i] <= lastId
      BY DEF IdsApart
    <3>4. \A i \in Jobs : entries'[i] # Nil => entries'[i] <= lastId'
      BY <2>1, <3>1, <3>2, <3>3
    <3>5. \A i \in Jobs \ {j} : entries'[i] # Nil => entries'[i] # entries'[j]
      BY <3>1, <3>2, <3>3
    <3>6. \A i, k \in Jobs : entries'[i] = entries'[k] /\ entries'[i] # Nil => i = k
      BY <3>2, <3>5 DEF IdsApart
    <3>7. QED
      BY <3>4, <3>6 DEF IdsApart
  <2> HIDE DEF new
  <2>4. OthersKeep(j)
    BY <2>1, <2>2 DEF OthersKeep
  <2>5. QED
    BY <1>4, <2>1, <2>2, <2>3, <2>4
<1>5. QED
  BY <1>1, <1>3, <1>4

\* A start makes the entries the rows ask for.
LEMMA LoadFits ==
  ASSUME Entries, LoadAll, UNCHANGED jobs
  PROVE  IdsApart' /\ \A j \in Jobs : EntriesFit(j)'
<1> DEFINE due == {j \in Jobs : Visible(j) /\ jobs[j].active /\ jobs[j].sched \in Parsed}
           n == Cardinality(due)
<1>1. n \in Nat
  BY FS_Subset, FS_CardinalityType, JobScheduleAssumption
<1>2. PICK id \in [due -> lastId + 1 .. lastId + n] :
          /\ \A i, j \in due : i # j => id[i] # id[j]
          /\ cron' = {[id |-> id[j], job |-> j, sched |-> jobs[j].sched] : j \in due}
          /\ entries' = [j \in Jobs |-> IF j \in due THEN id[j] ELSE Nil]
          /\ lastId' = lastId + n
  BY DEF LoadAll
<1>3. \A j \in Jobs : j \in due <=> Visible(j) /\ jobs[j].active /\ jobs[j].sched \in Parsed
  OBVIOUS
<1>4. due \subseteq Jobs
  OBVIOUS
<1> HIDE DEF n, due
<1>5. \A j \in due : id[j] <= lastId'
  BY <1>1, <1>2 DEF Entries
<1>6. \A i, j \in Jobs : entries'[i] = entries'[j] /\ entries'[i] # Nil => i = j
  BY <1>2
<1>7. \A j \in Jobs : entries'[j] # Nil => entries'[j] <= lastId'
  BY <1>2, <1>5
<1>8. ASSUME NEW j \in Jobs PROVE EntriesFit(j)'
  <2>1. CASE j \in due
    <3> DEFINE e == [id |-> id[j], job |-> j, sched |-> jobs[j].sched]
    <3>1. e \in cron' /\ e.job = j /\ e.sched = jobs[j].sched
      BY <1>2, <2>1
    <3>2. ~jobs[j].deleted /\ jobs[j].sched \in Parsed
      BY <1>3, <2>1 DEF Visible
    <3>3. QED
      BY <3>1, <3>2 DEF EntriesFit
  <2>2. CASE j \notin due
    <3>1. \A e \in cron' : e.job # j
      BY <1>2, <2>2
    <3>2. ~(Visible(j) /\ jobs[j].active /\ jobs[j].sched \in Parsed)
      BY <1>3, <2>2
    <3>3. QED
      BY <3>1, <3>2 DEF EntriesFit, Visible
  <2>3. QED
    BY <2>1, <2>2
<1>9. QED
  BY <1>6, <1>7, <1>8 DEF IdsApart

----------------------------------------------------------------------------
(***************************************************************************)
(* Steps of one goroutine, on one job.                                     *)
(***************************************************************************)
Waiting == {"idle", "reload", "trigger"}

\* The goroutine q moves; others stay where they are.
Alone(q) == \A p \in Slots \ {q} : step'[p] = step[p] /\ held'[p] = held[p]

\* Nothing of the job changes.
Aside(j) ==
    /\ jobs'[j] = jobs[j] /\ words'[j] = words[j] /\ wanted'[j] = wanted[j]
    /\ \A e \in cron \cup cron' : e.job = j => (e \in cron <=> e \in cron')
    /\ Changing(j)' = Changing(j)
    /\ \A q \in Changing(j) : step'[q] = step[q] /\ held'[q] = held[q]

LEMMA AsideKeeps ==
  ASSUME NEW j, Aside(j), JobFits(j)
  PROVE  JobFits(j)'
<1>1. WordsFit(j)'
  BY DEF Aside, JobFits, WordsFit
<1>2. \A q, p \in Changing(j)' : q = p
  BY DEF Aside, JobFits
<1>3. ASSUME NEW q \in Changing(j)' PROVE CopyFits(q)'
  <2>1. q \in Changing(j) /\ step'[q] = step[q] /\ held'[q] = held[q]
    BY <1>3 DEF Aside
  <2>2. held[q].job = j /\ CopyFits(q)
    BY <2>1 DEF Changing, JobFits
  <2>3. jobs'[j] = jobs[j] /\ words'[j] = words[j]
    BY DEF Aside
  <2>4. QED
    BY <2>1, <2>2, <2>3 DEF CopyFits
<1>4. Changing(j)' = {} => EntriesFit(j)'
  <2>1. ASSUME Changing(j)' = {} PROVE EntriesFit(j)'
    <3>1. EntriesFit(j)
      BY <2>1 DEF Aside, JobFits
    <3>2. QED
      BY <3>1 DEF Aside, EntriesFit, Visible
  <2>2. QED
    BY <2>1
<1>5. QED
  BY <1>1, <1>2, <1>3, <1>4 DEF JobFits

\* A step of q on job j, which is the only one it changes.
StepOn(q, j) ==
    /\ Alone(q)
    /\ step[q] \notin Waiting => held[q].job = j
    /\ step'[q] \notin Waiting => held'[q].job = j
    /\ OthersKeep(j)
    /\ \A i \in Jobs \ {j} :
          /\ jobs'[i] = jobs[i] /\ words'[i] = words[i] /\ wanted'[i] = wanted[i]
          /\ i \in raced => i \in raced'

LEMMA OneJobStep ==
  ASSUME NEW q \in Slots, NEW j \in Jobs, StepOn(q, j),
         \A i \in Jobs \ raced : JobFits(i), j \notin raced' => JobFits(j)'
  PROVE  \A i \in Jobs \ raced' : JobFits(i)'
<1> SUFFICES ASSUME NEW i \in Jobs \ raced' PROVE JobFits(i)'
  OBVIOUS
<1>1. CASE i = j
  BY <1>1
<1>2. CASE i # j
  <2>1. Changing(i)' = Changing(i) /\ q \notin Changing(i)
    BY <1>2 DEF StepOn, Alone, Changing, Waiting
  <2>2. \A e \in cron \cup cron' : e.job = i => (e \in cron <=> e \in cron')
    BY <1>2 DEF StepOn, OthersKeep
  <2>3. \A p \in Changing(i) : p \in Slots \ {q}
    BY <2>1 DEF Changing
  <2>4. Aside(i)
    BY <1>2, <2>1, <2>2, <2>3 DEF StepOn, Alone, Aside
  <2>5. QED
    BY <1>2, <2>4, AsideKeeps DEF StepOn
<1>3. QED
  BY <1>1, <1>2

\* The goroutine was not changing the job and is now, alone with it.
LEMMA Begins ==
  ASSUME NEW q \in Slots, NEW j \in Jobs, Alone(q), step[q] \in Waiting,
         step'[q] \notin Waiting, held'[q].job = j, Touch(q, j), j \notin raced'
  PROVE  j \notin raced /\ Changing(j) = {} /\ Changing(j)' = {q}
<1>1. q \notin Changing(j)
  BY DEF Changing, Waiting
<1>2. j \notin raced /\ Changing(j) \ {q} = {}
  BY DEF Touch
<1>3. QED
  BY <1>1, <1>2 DEF Alone, Changing, Waiting

\* It was changing the job, and is still or is done.
LEMMA GoesOn ==
  ASSUME NEW q \in Slots, NEW j \in Jobs, Alone(q), q \in Changing(j), JobFits(j)
  PROVE  /\ Changing(j) = {q}
         /\ step'[q] \notin Waiting /\ held'[q].job = j => Changing(j)' = {q}
         /\ step'[q] \in Waiting => Changing(j)' = {}
<1>1. Changing(j) = {q}
  BY DEF JobFits
<1>2. \A p \in Slots \ {q} : p \notin Changing(j)'
  BY <1>1 DEF Alone, Changing
<1>3. QED
  BY <1>1, <1>2 DEF Changing, Waiting

\* The job has its goroutine, whose copy fits.
LEMMA FitsWhileChanging ==
  ASSUME NEW q \in Slots, NEW j \in Jobs, Changing(j)' = {q}, WordsFit(j)', CopyFits(q)'
  PROVE  JobFits(j)'
BY DEF JobFits

LEMMA FitsWhenDone ==
  ASSUME NEW j \in Jobs, Changing(j)' = {}, WordsFit(j)', EntriesFit(j)'
  PROVE  JobFits(j)'
BY DEF JobFits

\* A goroutine that changes no job, before the step or after it.
LEMMA OnlyLooks ==
  ASSUME NEW q \in Slots, Alone(q), step[q] \in Waiting, step'[q] \in Waiting,
         UNCHANGED <<jobs, words, wanted, cron, raced>>,
         \A i \in Jobs \ raced : JobFits(i)
  PROVE  \A i \in Jobs \ raced' : JobFits(i)'
<1>1. ASSUME NEW i \in Jobs \ raced' PROVE JobFits(i)'
  <2>1. Changing(i)' = Changing(i) /\ q \notin Changing(i)
    BY DEF Alone, Changing, Waiting
  <2>2. \A p \in Changing(i) : p \in Slots \ {q}
    BY <2>1 DEF Changing
  <2>3. Aside(i)
    BY <2>1, <2>2 DEF Alone, Aside
  <2>4. QED
    BY <2>3, AsideKeeps
<1>2. QED
  BY <1>1

----------------------------------------------------------------------------
(***************************************************************************)
(* Each request and each step of a goroutine.                              *)
(***************************************************************************)

\* A request that changes one row and no entry.
LEMMA RequestOn ==
  ASSUME NEW q \in Slots, NEW j \in Jobs, Request(q, j), Alone(q), held'[q].job = j,
         UNCHANGED cron,
         \A i \in Jobs \ {j} : jobs'[i] = jobs[i] /\ words'[i] = words[i] /\ wanted'[i] = wanted[i]
  PROVE  StepOn(q, j)
<1>1. raced \subseteq raced' /\ step[q] \in Waiting
  BY DEF Request, Touch, Waiting
<1>2. QED
  BY <1>1 DEF StepOn, OthersKeep

LEMMA CreateFits ==
  ASSUME NEW q \in Slots, Goroutines, Histories, \A i \in Jobs \ raced : JobFits(i), CreateJob(q)
  PROVE  \A i \in Jobs \ raced' : JobFits(i)'
<1>1. PICK j \in Jobs, ks \in SUBSET Keywords, sched \in Schedules :
        LET row == [active |-> TRUE, sched |-> sched, deleted |-> FALSE] IN
        /\ Request(q, j)
        /\ jobs' = [jobs EXCEPT ![j] = row]
        /\ words' = [words EXCEPT ![j] = {<<k, 1>> : k \in deduplicateKeywords(ks)}]
        /\ wanted' = [wanted EXCEPT ![j] = deduplicateKeywords(ks)]
        /\ Hold(q, "schedule", j, row, {}, {})
        /\ UNCHANGED scheduler
  BY DEF CreateJob
<1> DEFINE row == [active |-> TRUE, sched |-> sched, deleted |-> FALSE]
           ds == deduplicateKeywords(ks)
<1>2. /\ jobs'[j] = row /\ words'[j] = {<<k, 1>> : k \in ds} /\ wanted'[j] = ds
      /\ \A i \in Jobs \ {j} : jobs'[i] = jobs[i] /\ words'[i] = words[i] /\ wanted'[i] = wanted[i]
  BY <1>1 DEF Goroutines, Histories
<1>3. /\ Alone(q) /\ step'[q] = "schedule"
      /\ held'[q] = [job |-> j, row |-> row, had |-> {}, new |-> {}]
  BY <1>1 DEF Hold, Go, Alone, Goroutines
<1> HIDE DEF row, ds
<1>4. held'[q].job = j /\ held'[q].row = row
  BY <1>3
<1>5. StepOn(q, j)
  BY <1>1, <1>2, <1>3, <1>4, RequestOn DEF scheduler
<1>6. ASSUME j \notin raced' PROVE JobFits(j)'
  <2>1. Changing(j)' = {q}
    BY <1>1, <1>3, <1>4, <1>6, Begins DEF Request, Waiting
  <2>2. WordsFit(j)'
    <3>1. \A w \in words'[j] : \E k \in ds : w = <<k, 1>> /\ w[1] = k
      BY <1>2
    <3>2. \A k \in ds : <<k, 1>> \in words'[j] /\ <<k, 1>>[1] = k
      BY <1>2
    <3>3. Named(words'[j]) = ds
      BY <3>1, <3>2 DEF Named
    <3>4. OneRowEach(words'[j])
      BY <3>1 DEF OneRowEach
    <3>5. QED
      BY <1>2, <3>3, <3>4 DEF WordsFit
  <2>3. CopyFits(q)'
    BY <1>2, <1>3, <1>4 DEF CopyFits
  <2>4. QED
    BY <2>1, <2>2, <2>3, FitsWhileChanging
<1>7. QED
  BY <1>5, <1>6, OneJobStep

LEMMA UpdateFits ==
  ASSUME NEW q \in Slots, Goroutines, \A i \in Jobs \ raced : JobFits(i), UpdateJob(q)
  PROVE  \A i \in Jobs \ raced' : JobFits(i)'
<1>1. PICK j \in Jobs, ks \in SUBSET Keywords, sched \in Schedules, active \in BOOLEAN :
        /\ Request(q, j)
        /\ Hold(q, "keywords", j, [jobs[j] EXCEPT !.active = active, !.sched = sched],
                words[j], deduplicateKeywords(ks))
        /\ UNCHANGED <<jobs, words, scheduler, wanted>>
  BY DEF UpdateJob
<1>2. Alone(q) /\ step'[q] = "keywords" /\ held'[q].job = j /\ held'[q].had = words[j]
  BY <1>1 DEF Hold, Go, Alone, Goroutines
<1>3. StepOn(q, j)
  BY <1>1, <1>2, RequestOn DEF scheduler
<1>4. ASSUME j \notin raced' PROVE JobFits(j)'
  <2>1. Changing(j)' = {q} /\ j \notin raced
    BY <1>1, <1>2, <1>4, Begins DEF Request, Waiting
  <2>2. WordsFit(j)'
    BY <1>1, <2>1 DEF JobFits, WordsFit
  <2>3. CopyFits(q)'
    BY <1>1, <1>2 DEF CopyFits
  <2>4. QED
    BY <2>1, <2>2, <2>3, FitsWhileChanging
<1>5. QED
  BY <1>3, <1>4, OneJobStep

LEMMA PatchFits ==
  ASSUME NEW q \in Slots, Goroutines, \A i \in Jobs \ raced : JobFits(i), PatchJobStatus(q)
  PROVE  \A i \in Jobs \ raced' : JobFits(i)'
<1>1. PICK j \in Jobs, active \in BOOLEAN :
        /\ Request(q, j)
        /\ Hold(q, "save", j, [jobs[j] EXCEPT !.active = active], {}, {})
        /\ UNCHANGED <<jobs, words, scheduler, wanted>>
  BY DEF PatchJobStatus
<1>2. Alone(q) /\ step'[q] = "save" /\ held'[q].job = j
  BY <1>1 DEF Hold, Go, Alone, Goroutines
<1>3. StepOn(q, j)
  BY <1>1, <1>2, RequestOn DEF scheduler
<1>4. ASSUME j \notin raced' PROVE JobFits(j)'
  <2>1. Changing(j)' = {q} /\ j \notin raced
    BY <1>1, <1>2, <1>4, Begins DEF Request, Waiting
  <2>2. WordsFit(j)'
    BY <1>1, <2>1 DEF JobFits, WordsFit
  <2>3. CopyFits(q)'
    BY <1>2 DEF CopyFits
  <2>4. QED
    BY <2>1, <2>2, <2>3, FitsWhileChanging
<1>5. QED
  BY <1>3, <1>4, OneJobStep

LEMMA DeleteFits ==
  ASSUME NEW q \in Slots, Goroutines, \A i \in Jobs \ raced : JobFits(i), DeleteJob(q)
  PROVE  \A i \in Jobs \ raced' : JobFits(i)'
<1>1. PICK j \in Jobs :
        /\ Visible(j) /\ Request(q, j)
        /\ jobs' = [jobs EXCEPT ![j].deleted = TRUE]
        /\ Hold(q, "unschedule", j, Nil, {}, {})
        /\ UNCHANGED <<words, scheduler, wanted>>
  BY DEF DeleteJob
<1>2. Alone(q) /\ step'[q] = "unschedule" /\ held'[q].job = j
  BY <1>1 DEF Hold, Go, Alone, Goroutines
<1>3. jobs'[j].deleted /\ \A i \in Jobs \ {j} : jobs'[i] = jobs[i]
  <2>1. jobs[j] \in Rows
    BY <1>1 DEF Visible, Goroutines
  <2>2. jobs'[j] = [jobs[j] EXCEPT !.deleted = TRUE]
    BY <1>1 DEF Goroutines
  <2>3. QED
    BY <1>1, <2>1, <2>2 DEF Rows, Goroutines
<1>4. StepOn(q, j)
  BY <1>1, <1>2, <1>3, RequestOn DEF scheduler
<1>5. ASSUME j \notin raced' PROVE JobFits(j)'
  <2>1. Changing(j)' = {q} /\ j \notin raced
    BY <1>1, <1>2, <1>5, Begins DEF Request, Waiting
  <2>2. WordsFit(j)'
    BY <1>1, <2>1 DEF JobFits, WordsFit
  <2>3. CopyFits(q)'
    BY <1>2, <1>3 DEF CopyFits
  <2>4. QED
    BY <2>1, <2>2, <2>3, FitsWhileChanging
<1>6. QED
  BY <1>4, <1>5, OneJobStep

\* The rows read make way for those of the new keywords, one each.
LEMMA KeywordsFit ==
  ASSUME NEW q \in Slots, Goroutines, Histories, \A i \in Jobs \ raced : JobFits(i),
         UpdateKeywords(q)
  PROVE  \A i \in Jobs \ raced' : JobFits(i)'
<1>0. PICK j, had, new : j = held[q].job /\ had = held[q].had /\ new = held[q].new
  OBVIOUS
<1> DEFINE n(k) == Number(j, k)
           rows == {w \in words[j] : w \notin had \/ w[1] \in new}
                   \cup {<<k, n(k)>> : k \in new \ Named(had)}
<1>1. j \in Jobs /\ step[q] = "keywords" /\ j = held[q].job
  BY <1>0 DEF UpdateKeywords, Goroutines
<1>2. words' = [words EXCEPT ![j] = rows] /\ wanted' = [wanted EXCEPT ![j] = new]
  BY <1>0 DEF UpdateKeywords
<1>3. Go(q, "save") /\ UNCHANGED <<jobs, scheduler, held, raced>>
  BY DEF UpdateKeywords
<1>4. Alone(q) /\ step'[q] = "save" /\ held'[q].job = j
  BY <1>1, <1>3 DEF Go, Alone, Goroutines
<1>5. /\ words'[j] = rows /\ wanted'[j] = new
      /\ \A i \in Jobs \ {j} : words'[i] = words[i] /\ wanted'[i] = wanted[i]
  BY <1>1, <1>2 DEF Histories
<1> HIDE DEF n
<1>6. StepOn(q, j)
  BY <1>3, <1>4, <1>5 DEF StepOn, OthersKeep, scheduler
<1>7. ASSUME j \notin raced PROVE JobFits(j)'
  <2>1. JobFits(j) /\ q \in Changing(j)
    BY <1>1, <1>7 DEF Changing
  <2>2. words[j] = had /\ OneRowEach(had)
    BY <1>0, <1>1, <2>1 DEF JobFits, CopyFits, WordsFit
  <2>3. Changing(j)' = {q}
    BY <1>1, <1>4, <2>1, GoesOn DEF Waiting
  <2>4. rows = {w \in had : w[1] \in new} \cup {<<k, n(k)>> : k \in new \ Named(had)}
    BY <2>2
  <2> HIDE DEF rows
  <2>5. Named(rows) = new
    <3>1. \A w \in rows : w[1] \in new
      BY <2>4
    <3>2. ASSUME NEW k \in new PROVE \E w \in rows : w[1] = k
      <4>1. CASE k \in Named(had)
        BY <2>4, <3>2, <4>1 DEF Named
      <4>2. CASE k \notin Named(had)
        <5>1. <<k, n(k)>> \in rows
          BY <2>4, <3>2, <4>2
        <5>2. QED
          BY <5>1
      <4>3. QED
        BY <4>1, <4>2
    <3>3. QED
      BY <3>1, <3>2 DEF Named
  <2>6. OneRowEach(rows)
    BY <2>2, <2>4 DEF OneRowEach, Named
  <2>7. WordsFit(j)'
    BY <1>5, <2>5, <2>6 DEF WordsFit
  <2>8. CopyFits(q)'
    BY <1>4 DEF CopyFits
  <2>9. QED
    BY <1>1, <2>3, <2>7, <2>8, FitsWhileChanging
<1>8. QED
  BY <1>1, <1>3, <1>6, <1>7, OneJobStep

LEMMA SaveFits ==
  ASSUME NEW q \in Slots, Goroutines, \A i \in Jobs \ raced : JobFits(i), SaveJob(q)
  PROVE  \A i \in Jobs \ raced' : JobFits(i)'
<1>0. PICK j : j = held[q].job
  OBVIOUS
<1>1. j \in Jobs /\ step[q] = "save"
  BY <1>0 DEF SaveJob, Goroutines
<1>2. /\ jobs' = [jobs EXCEPT ![j] = held[q].row]
      /\ Go(q, "schedule") /\ UNCHANGED <<words, scheduler, held, wanted, raced>>
  BY <1>0 DEF SaveJob
<1>3. Alone(q) /\ step'[q] = "schedule" /\ held' = held
  BY <1>2 DEF Go, Alone, Goroutines
<1>4. jobs'[j] = held[q].row /\ \A i \in Jobs \ {j} : jobs'[i] = jobs[i]
  BY <1>1, <1>2 DEF Goroutines
<1>5. StepOn(q, j)
  BY <1>0, <1>2, <1>3, <1>4 DEF StepOn, OthersKeep, scheduler
<1>6. ASSUME j \notin raced PROVE JobFits(j)'
  <2>1. JobFits(j) /\ q \in Changing(j)
    BY <1>0, <1>1, <1>6 DEF Changing
  <2>2. Changing(j)' = {q}
    BY <1>0, <1>1, <1>3, <2>1, GoesOn DEF Waiting
  <2>3. WordsFit(j)'
    BY <1>2, <2>1 DEF JobFits, WordsFit
  <2>4. CopyFits(q)'
    BY <1>0, <1>3, <1>4 DEF CopyFits
  <2>5. QED
    BY <1>1, <2>2, <2>3, <2>4, FitsWhileChanging
<1>7. QED
  BY <1>1, <1>2, <1>5, <1>6, OneJobStep

\* The last step of a request: the entry becomes what the row asks for.
LEMMA RescheduleFits ==
  ASSUME NEW q \in Slots, Goroutines, Entries, EntriesAreTracked, IdsApart, Copies,
         \A i \in Jobs \ raced : JobFits(i), Reschedule(q)
  PROVE  \A i \in Jobs \ raced' : JobFits(i)'
<1>0. PICK j : j = held[q].job
  OBVIOUS
<1>1. j \in Jobs /\ step[q] \in {"schedule", "unschedule", "drop"}
  BY <1>0 DEF Reschedule, Goroutines
<1>2. Done(q) /\ UNCHANGED <<jobs, words, wanted, raced>>
  BY DEF Reschedule
<1>3. Alone(q) /\ step'[q] = "idle"
  BY <1>2 DEF Done, Go, Alone, Goroutines
<1>4. ASSUME step[q] = "schedule", AddJob(j, held[q].row.sched)
      PROVE  OthersKeep(j) /\ (CopyFits(q) => EntriesFit(j)')
  <2>1. held[q].row.sched \in Schedules
    BY <1>4 DEF Goroutines, Rows
  <2>2. /\ OthersKeep(j)
        /\ held[q].row.sched \in Parsed => \E e \in cron' : e.job = j /\ e.sched = held[q].row.sched
        /\ held[q].row.sched \notin Parsed => \A e \in cron' : e.job # j
    BY <1>1, <1>4, <2>1, AddsOwn
  <2>3. ASSUME CopyFits(q) PROVE EntriesFit(j)'
    <3>1. jobs'[j] = held[q].row /\ ~held[q].row.deleted
      BY <1>0, <1>2, <1>4, <2>3 DEF CopyFits, Copies
    <3>2. QED
      BY <2>2, <3>1 DEF EntriesFit
  <2>4. QED
    BY <2>2, <2>3
<1>5. ASSUME step[q] \in {"unschedule", "drop"}, RemoveJob(j)
      PROVE  OthersKeep(j) /\ (CopyFits(q) => EntriesFit(j)')
  <2>1. OthersKeep(j) /\ \A e \in cron' : e.job # j
    BY <1>1, <1>5, RemovesOwn
  <2>2. ASSUME CopyFits(q) PROVE EntriesFit(j)'
    <3>1. jobs[j].deleted \/ ~jobs[j].active \/ jobs[j].sched = ""
      BY <1>0, <1>5, <2>2 DEF CopyFits
    <3>2. jobs'[j] = jobs[j] /\ "" \notin Parsed
      BY <1>2, JobScheduleAssumption
    <3>3. QED
      BY <2>1, <3>1, <3>2 DEF EntriesFit, Visible
  <2>3. QED
    BY <2>1, <2>2
<1>6. OthersKeep(j) /\ (CopyFits(q) => EntriesFit(j)')
  BY <1>0, <1>4, <1>5 DEF Reschedule
<1>7. StepOn(q, j)
  BY <1>0, <1>2, <1>3, <1>6 DEF StepOn, Waiting
<1>8. ASSUME j \notin raced PROVE JobFits(j)'
  <2>1. JobFits(j) /\ q \in Changing(j)
    BY <1>0, <1>1, <1>8 DEF Changing
  <2>2. Changing(j)' = {}
    BY <1>1, <1>3, <2>1, GoesOn DEF Waiting
  <2>3. WordsFit(j)'
    BY <1>2, <2>1 DEF JobFits, WordsFit
  <2>4. EntriesFit(j)'
    BY <1>6, <2>1 DEF JobFits
  <2>5. QED
    BY <1>1, <2>2, <2>3, <2>4, FitsWhenDone
<1>9. QED
  BY <1>1, <1>2, <1>7, <1>8, OneJobStep

\* A firing reads the row, and is to change the job if the row wants no run.
LEMMA ReloadFits ==
  ASSUME NEW q \in Slots, Goroutines, \A i \in Jobs \ raced : JobFits(i), Reload(q)
  PROVE  \A i \in Jobs \ raced' : JobFits(i)'
<1>0. PICK j : j = held[q].job
  OBVIOUS
<1>1. j \in Jobs /\ step[q] = "reload" /\ UNCHANGED <<jobs, words, scheduler, wanted>>
  BY <1>0 DEF Reload, Goroutines
<1>2. CASE Done(q) /\ UNCHANGED raced
  <2>1. Alone(q) /\ step'[q] = "idle"
    BY <1>2 DEF Done, Go, Alone, Goroutines
  <2>2. QED
    BY <1>1, <1>2, <2>1, OnlyLooks DEF Waiting, scheduler
<1>3. CASE Hold(q, "trigger", j, jobs[j], words[j], {}) /\ UNCHANGED raced
  <2>1. Alone(q) /\ step'[q] = "trigger"
    BY <1>3 DEF Hold, Go, Alone, Goroutines
  <2>2. QED
    BY <1>1, <1>3, <2>1, OnlyLooks DEF Waiting, scheduler
<1>4. CASE /\ ~jobs[j].active \/ jobs[j].sched = ""
           /\ Go(q, "drop") /\ Touch(q, j) /\ UNCHANGED held
  <2>1. Alone(q) /\ step'[q] = "drop" /\ held' = held
    BY <1>4 DEF Go, Alone, Goroutines
  <2>2. raced \subseteq raced'
    BY <1>4 DEF Touch
  <2>3. StepOn(q, j)
    BY <1>0, <1>1, <2>1, <2>2 DEF StepOn, OthersKeep, scheduler
  <2>4. ASSUME j \notin raced' PROVE JobFits(j)'
    <3>1. Changing(j)' = {q} /\ j \notin raced
      BY <1>0, <1>1, <1>4, <2>1, <2>4, Begins DEF Waiting
    <3>2. WordsFit(j)'
      BY <1>1, <3>1 DEF JobFits, WordsFit
    <3>3. CopyFits(q)'
      BY <1>0, <1>1, <1>4, <2>1 DEF CopyFits
    <3>4. QED
      BY <1>1, <3>1, <3>2, <3>3, FitsWhileChanging
  <2>5. QED
    BY <1>1, <2>3, <2>4, OneJobStep
<1>5. QED
  BY <1>0, <1>2, <1>3, <1>4 DEF Reload

\* Starting runs changes no job.
LEMMA RunsFit ==
  ASSUME Goroutines, \A i \in Jobs \ raced : JobFits(i),
         \/ \E q \in Slots : TriggerScrape(q) \/ Trigger(q)
         \/ \E j \in Jobs : Fire(j) \/ RunEnds(j)
         \/ UNCHANGED vars
  PROVE  \A i \in Jobs \ raced' : JobFits(i)'
<1>1. ASSUME NEW q \in Slots, TriggerScrape(q) PROVE \A i \in Jobs \ raced' : JobFits(i)'
  <2>1. /\ step[q] = "idle" /\ UNCHANGED <<jobs, words, scheduler, wanted, raced>>
        /\ \E j \in Jobs : Hold(q, "trigger", j, jobs[j], words[j], {})
    BY <1>1 DEF TriggerScrape
  <2>2. Alone(q) /\ step'[q] = "trigger"
    BY <2>1 DEF Hold, Go, Alone, Goroutines
  <2>3. QED
    BY <2>1, <2>2, OnlyLooks DEF Waiting, scheduler
<1>2. ASSUME NEW q \in Slots, Trigger(q) PROVE \A i \in Jobs \ raced' : JobFits(i)'
  <2>1. step[q] = "trigger" /\ Done(q) /\ UNCHANGED <<jobs, words, scheduler, wanted, raced>>
    BY <1>2 DEF Trigger
  <2>2. Alone(q) /\ step'[q] = "idle"
    BY <2>1 DEF Done, Go, Alone, Goroutines
  <2>3. QED
    BY <2>1, <2>2, OnlyLooks DEF Waiting, scheduler
<1>3. ASSUME NEW j \in Jobs, Fire(j) PROVE \A i \in Jobs \ raced' : JobFits(i)'
  <2>1. PICK q \in Slots :
          /\ step[q] = "idle" /\ UNCHANGED <<jobs, words, scheduler, wanted, raced>>
          /\ Hold(q, "reload", j, Nil, {}, {})
    BY <1>3 DEF Fire
  <2>2. Alone(q) /\ step'[q] = "reload"
    BY <2>1 DEF Hold, Go, Alone, Goroutines
  <2>3. QED
    BY <2>1, <2>2, OnlyLooks DEF Waiting, scheduler
<1>4. ASSUME UNCHANGED <<jobs, words, scheduler, step, held, wanted, raced>>
      PROVE  \A i \in Jobs \ raced' : JobFits(i)'
  <2>1. \A i \in Jobs : Aside(i)
    BY <1>4 DEF Aside, Changing, scheduler
  <2>2. QED
    BY <1>4, <2>1, AsideKeeps
<1>5. QED
  BY <1>1, <1>2, <1>3, <1>4 DEF RunEnds, vars

\* A restart cuts off every goroutine; what its history keeps apart are jobs
\* with a keyword twice or with others than asked for.
LEMMA RestartFits ==
  ASSUME Entries, Histories, Restart
  PROVE  IdsApart' /\ \A i \in Jobs \ raced' : JobFits(i)'
<1>1. /\ LoadAll /\ UNCHANGED <<jobs, words, wanted>>
      /\ step' = [q \in Slots |-> "idle"]
      /\ raced' = {j \in Jobs : Cardinality(Named(words[j])) < Cardinality(words[j])
                                \/ Named(words[j]) # wanted[j]}
  BY DEF Restart
<1>2. IdsApart' /\ \A j \in Jobs : EntriesFit(j)'
  BY <1>1, LoadFits
<1>3. \A j \in Jobs : Changing(j)' = {}
  BY <1>1 DEF Changing
<1>4. ASSUME NEW i \in Jobs, i \notin raced' PROVE WordsFit(i)'
  <2>1. /\ ~(Cardinality(Named(words[i])) < Cardinality(words[i]))
        /\ Named(words[i]) = wanted[i]
    BY <1>1, <1>4
  <2>2. IsFiniteSet(words[i])
    BY DEF Histories
  <2>3. OneRowEach(words[i])
    BY <2>1, <2>2, NamedOnce
  <2>4. QED
    BY <1>1, <2>1, <2>3 DEF WordsFit
<1>5. QED
  BY <1>2, <1>3, <1>4, FitsWhenDone

----------------------------------------------------------------------------
(***************************************************************************)
(* Copies and finite sets of rows.                                         *)
(***************************************************************************)
LEMMA FiniteRows ==
  ASSUME NEW ks, IsFiniteSet(ks), NEW n
  PROVE  IsFiniteSet({<<k, n[k]>> : k \in ks})
<1> DEFINE rows == {<<k, n[k]>> : k \in ks}
           f == [k \in ks |-> <<k, n[k]>>]
<1>1. f \in [ks -> rows] /\ \A w \in rows : \E k \in ks : f[k] = w
  OBVIOUS
<1> HIDE DEF rows, f
<1>2. f \in Surjection(ks, rows)
  BY <1>1, Fun_IsSurj
<1>3. IsFiniteSet(rows)
  BY <1>2, FS_Surjection
<1>4. QED
  BY <1>3 DEF rows

CopyOf(q) ==
    /\ step[q] \in {"keywords", "save", "schedule"} => ~held[q].row.deleted
    /\ step[q] = "keywords" => held[q].new \subseteq Keywords

LEMMA CopiesOf ==
  ASSUME NEW q \in Slots, Alone(q), Copies, CopyOf(q)'
  PROVE  Copies'
<1>1. \A p \in Slots \ {q} : CopyOf(p)'
  BY DEF Alone, Copies, CopyOf
<1>2. QED
  BY <1>1 DEF Copies, CopyOf

LEMMA CopiesKeep ==
  ASSUME Goroutines, Copies, [Next]_vars
  PROVE  Copies'
<1>1. ASSUME NEW q \in Slots, CreateJob(q) PROVE Copies'
  <2>1. PICK j \in Jobs, sched \in Schedules :
          Hold(q, "schedule", j, [active |-> TRUE, sched |-> sched, deleted |-> FALSE], {}, {})
    BY <1>1 DEF CreateJob
  <2>2. Alone(q) /\ step'[q] = "schedule" /\ ~held'[q].row.deleted
    BY <2>1 DEF Hold, Go, Alone, Goroutines
  <2>3. QED
    BY <2>2, CopiesOf DEF CopyOf
<1>2. ASSUME NEW q \in Slots, UpdateJob(q) PROVE Copies'
  <2>1. PICK j \in Jobs, ks \in SUBSET Keywords, sched \in Schedules, active \in BOOLEAN :
           /\ Visible(j)
           /\ Hold(q, "keywords", j, [jobs[j] EXCEPT !.active = active, !.sched = sched],
                   words[j], deduplicateKeywords(ks))
    BY <1>2 DEF UpdateJob
  <2>2. jobs[j] \in Rows /\ ~jobs[j].deleted
    BY <2>1 DEF Visible, Goroutines
  <2>3. ~[jobs[j] EXCEPT !.active = active, !.sched = sched].deleted
    BY <2>2 DEF Rows
  <2>4. deduplicateKeywords(ks) \subseteq Keywords
    BY DEF deduplicateKeywords
  <2>5. /\ Alone(q) /\ step'[q] = "keywords" /\ ~held'[q].row.deleted
        /\ held'[q].new \subseteq Keywords
    BY <2>1, <2>3, <2>4 DEF Hold, Go, Alone, Goroutines
  <2>6. QED
    BY <2>5, CopiesOf DEF CopyOf
<1>3. ASSUME NEW q \in Slots, PatchJobStatus(q) PROVE Copies'
  <2>1. PICK j \in Jobs, active \in BOOLEAN :
           Visible(j) /\ Hold(q, "save", j, [jobs[j] EXCEPT !.active = active], {}, {})
    BY <1>3 DEF PatchJobStatus
  <2>2. jobs[j] \in Rows /\ ~jobs[j].deleted
    BY <2>1 DEF Visible, Goroutines
  <2>3. ~[jobs[j] EXCEPT !.active = active].deleted
    BY <2>2 DEF Rows
  <2>4. Alone(q) /\ step'[q] = "save" /\ ~held'[q].row.deleted
    BY <2>1, <2>3 DEF Hold, Go, Alone, Goroutines
  <2>5. QED
    BY <2>4, CopiesOf DEF CopyOf
<1>4. ASSUME NEW q \in Slots, UpdateKeywords(q) \/ SaveJob(q) PROVE Copies'
  <2>1. /\ Alone(q) /\ step'[q] \in {"save", "schedule"} /\ held' = held
        /\ step[q] \in {"keywords", "save"}
    BY <1>4 DEF UpdateKeywords, SaveJob, Go, Alone, Goroutines
  <2>2. CopyOf(q)'
    BY <2>1 DEF Copies, CopyOf
  <2>3. QED
    BY <2>1, <2>2, CopiesOf
<1>5. ASSUME NEW q \in Slots, Alone(q), step'[q] \notin {"keywords", "save", "schedule"}
      PROVE  Copies'
  BY <1>5, CopiesOf DEF CopyOf
<1>6. ASSUME NEW q \in Slots, DeleteJob(q) \/ TriggerScrape(q) PROVE Copies'
  <2>1. Alone(q) /\ step'[q] \in {"unschedule", "trigger"}
    BY <1>6 DEF DeleteJob, TriggerScrape, Hold, Go, Alone, Goroutines
  <2>2. QED
    BY <1>5, <2>1
<1>7. ASSUME NEW q \in Slots, Reschedule(q) \/ Reload(q) \/ Trigger(q) PROVE Copies'
  <2>1. Alone(q) /\ step'[q] \in {"idle", "drop", "trigger"}
    BY <1>7 DEF Reschedule, Reload, Trigger, Hold, Done, Go, Alone, Goroutines
  <2>2. QED
    BY <1>5, <2>1
<1>8. ASSUME NEW j \in Jobs, Fire(j) PROVE Copies'
  <2>1. PICK q \in Slots : Hold(q, "reload", j, Nil, {}, {})
    BY <1>8 DEF Fire
  <2>2. Alone(q) /\ step'[q] = "reload"
    BY <2>1 DEF Hold, Go, Alone, Goroutines
  <2>3. QED
    BY <1>5, <2>2
<1>9. CASE Restart
  BY <1>9 DEF Restart, Copies
<1>10. CASE UNCHANGED <<step, held>>
  BY <1>10 DEF Copies
<1>11. QED
  BY <1>1, <1>2, <1>3, <1>4, <1>6, <1>7, <1>8, <1>9, <1>10
     DEF Next, JobRequest, Work, RunEnds, vars

LEMMA HistoriesKeep ==
  ASSUME Goroutines, Copies, Histories, [Next]_vars
  PROVE  Histories'
<1>1. ASSUME NEW q \in Slots, CreateJob(q) PROVE Histories'
  <2>1. PICK j \in Jobs, ks \in SUBSET Keywords :
          /\ words' = [words EXCEPT ![j] = {<<k, 1>> : k \in deduplicateKeywords(ks)}]
          /\ wanted' = [wanted EXCEPT ![j] = deduplicateKeywords(ks)]
    BY <1>1 DEF CreateJob
  <2>2. IsFiniteSet(deduplicateKeywords(ks))
    BY FS_Subset, JobScheduleAssumption DEF deduplicateKeywords
  <2>3. IsFiniteSet({<<k, 1>> : k \in deduplicateKeywords(ks)})
    <3> DEFINE one == [k \in deduplicateKeywords(ks) |-> 1]
    <3>1. {<<k, 1>> : k \in deduplicateKeywords(ks)} = {<<k, one[k]>> : k \in deduplicateKeywords(ks)}
      OBVIOUS
    <3> HIDE DEF one
    <3>2. QED
      BY <2>2, <3>1, FiniteRows
  <2>4. QED
    BY <2>1, <2>3 DEF Histories
<1>2. ASSUME NEW q \in Slots, UpdateKeywords(q) PROVE Histories'
  <2>0. PICK j, h : j = held[q].job /\ h = held[q]
    OBVIOUS
  <2> DEFINE n == [k \in h.new |-> Number(j, k)]
             new == h.new \ Named(h.had)
             kept == {w \in words[j] : w \notin h.had \/ w[1] \in h.new}
             rows == kept \cup {<<k, n[k]>> : k \in new}
  <2>1. j \in Jobs /\ h.new \subseteq Keywords
    BY <1>2, <2>0 DEF UpdateKeywords, Goroutines, Copies
  <2>2. words' = [words EXCEPT ![j] = rows] /\ wanted' = [wanted EXCEPT ![j] = h.new]
    BY <1>2, <2>0 DEF UpdateKeywords
  <2>3. IsFiniteSet(new)
    BY <2>1, FS_Subset, JobScheduleAssumption
  <2>4. IsFiniteSet(kept)
    BY <2>1, FS_Subset DEF Histories
  <2> HIDE DEF n, new, kept
  <2>5. IsFiniteSet({<<k, n[k]>> : k \in new})
    BY <2>3, FiniteRows
  <2>6. IsFiniteSet(rows)
    BY <2>4, <2>5, FS_Union
  <2> HIDE DEF rows
  <2>7. QED
    BY <2>2, <2>6 DEF Histories
<1>3. CASE UNCHANGED <<words, wanted>>
  BY <1>3 DEF Histories
<1>4. ASSUME NEW q \in Slots, JobRequest(q), ~CreateJob(q) PROVE UNCHANGED <<words, wanted>>
  BY <1>4 DEF JobRequest, UpdateJob, PatchJobStatus, DeleteJob, TriggerScrape
<1>5. ASSUME NEW q \in Slots, Work(q), ~UpdateKeywords(q) PROVE UNCHANGED <<words, wanted>>
  BY <1>5 DEF Work, SaveJob, Reschedule, Reload, Trigger
<1>6. ASSUME NEW j \in Jobs, Fire(j) \/ RunEnds(j) PROVE UNCHANGED <<words, wanted>>
  BY <1>6 DEF Fire, RunEnds
<1>7. QED
  BY <1>1, <1>2, <1>3, <1>4, <1>5, <1>6 DEF Next, Restart, vars


LEMMA FollowStep == FollowInv /\ [Next]_vars => FollowInv'
<1> SUFFICES ASSUME FollowInv, [Next]_vars PROVE FollowInv'
  OBVIOUS
<1>0. /\ Entries /\ Goroutines /\ EntriesAreTracked /\ IdsApart /\ Copies /\ Histories
      /\ \A i \in Jobs \ raced : JobFits(i)
  BY Parts DEF FollowInv
<1>1. /\ Entries' /\ Goroutines' /\ EntriesAreTracked' /\ Copies' /\ Histories'
  BY <1>0, GoKeeps, EntriesKeep, CopiesKeep, HistoriesKeep
<1>2. TypeOK'
  BY <1>1 DEF TypeOK, Entries, Goroutines
<1>3. IdsApart' /\ \A i \in Jobs \ raced' : JobFits(i)'
  <2>1. ASSUME NEW q \in Slots, Reschedule(q) PROVE IdsApart'
    <3>1. CASE step[q] = "schedule" /\ AddJob(held[q].job, held[q].row.sched)
      <4>1. held[q].job \in Jobs /\ held[q].row.sched \in Schedules
        BY <1>0, <3>1 DEF Goroutines, Rows
      <4>2. QED
        BY <1>0, <3>1, <4>1, AddsOwn
    <3>2. CASE step[q] \in {"unschedule", "drop"} /\ RemoveJob(held[q].job)
      <4>1. held[q].job \in Jobs
        BY <1>0, <3>2 DEF Goroutines
      <4>2. QED
        BY <1>0, <3>2, <4>1, RemovesOwn
    <3>3. QED
      BY <2>1, <3>1, <3>2 DEF Reschedule
  <2>2. ASSUME UNCHANGED scheduler PROVE IdsApart'
    BY <1>0, <2>2 DEF scheduler, IdsApart
  <2>3. ASSUME NEW q \in Slots, JobRequest(q) \/ (Work(q) /\ ~Reschedule(q)) PROVE UNCHANGED scheduler
    BY <2>3 DEF JobRequest, CreateJob, UpdateJob, PatchJobStatus, DeleteJob, TriggerScrape,
                Work, UpdateKeywords, SaveJob, Reload, Trigger
  <2>4. ASSUME NEW j \in Jobs, Fire(j) \/ RunEnds(j) PROVE UNCHANGED scheduler
    BY <2>4 DEF Fire, RunEnds
  <2>5. ASSUME NEW q \in Slots, JobRequest(q) \/ Work(q) PROVE \A i \in Jobs \ raced' : JobFits(i)'
    BY <1>0, <2>5, CreateFits, UpdateFits, PatchFits, DeleteFits, KeywordsFit, SaveFits,
       RescheduleFits, ReloadFits, RunsFit DEF JobRequest, Work
  <2>6. ASSUME NEW q \in Slots, JobRequest(q) \/ Work(q) PROVE IdsApart'
    BY <2>1, <2>2, <2>3, <2>6 DEF Work
  <2>7. ASSUME NEW j \in Jobs, Fire(j) \/ RunEnds(j)
        PROVE  IdsApart' /\ \A i \in Jobs \ raced' : JobFits(i)'
    BY <1>0, <2>2, <2>4, <2>7, RunsFit
  <2>8. CASE UNCHANGED vars
    BY <1>0, <2>2, <2>8, RunsFit DEF vars, scheduler
  <2>9. CASE Restart
    BY <1>0, <2>9, RestartFits
  <2>10. QED
    BY <2>5, <2>6, <2>7, <2>8, <2>9 DEF Next
<1>4. QED
  BY <1>0, <1>1, <1>2, <1>3 DEF FollowInv

LEMMA FollowInit == Init => FollowInv
<1> SUFFICES ASSUME Init PROVE FollowInv
  OBVIOUS
<1>1. /\ cron = {} /\ lastId = 0 /\ entries = [j \in Jobs |-> Nil]
      /\ step = [q \in Slots |-> "idle"] /\ held = [q \in Slots |-> Nil]
      /\ jobs = [j \in Jobs |-> Nil] /\ words = [j \in Jobs |-> {}]
      /\ wanted = [j \in Jobs |-> {}] /\ raced = {}
  BY DEF Init
<1>2. Entries /\ EntriesAreTracked /\ Goroutines
  BY <1>1 DEF Entries, EntriesAreTracked, Goroutines, Steps
<1>3. IdsApart /\ Copies
  BY <1>1 DEF IdsApart, Copies
<1>4. Histories
  BY <1>1, FS_EmptySet DEF Histories
<1>5. ASSUME NEW j \in Jobs PROVE JobFits(j)
  <2>1. Changing(j) = {}
    BY <1>1 DEF Changing
  <2>2. WordsFit(j)
    BY <1>1 DEF WordsFit, Named, OneRowEach
  <2>3. EntriesFit(j)
    BY <1>1 DEF EntriesFit
  <2>4. QED
    BY <2>1, <2>2, <2>3 DEF JobFits
<1>6. QED
  BY <1>2, <1>3, <1>4, <1>5, Parts DEF FollowInv

----------------------------------------------------------------------------
(***************************************************************************)
(* Theorems.                                                               *)
(***************************************************************************)

\* The inductive invariant: the types of scheduler.go's map and of what the
\* goroutines hold, and one entry for a job at most.
THEOREM ScheduleInvariant == Spec => [](TypeOK /\ EntriesAreTracked)
<1>1. Init => TypeOK /\ EntriesAreTracked
  <2>1. ASSUME Init PROVE Entries /\ EntriesAreTracked
    <3>1. cron = {} /\ lastId = 0 /\ entries = [j \in Jobs |-> Nil]
      BY <2>1 DEF Init
    <3>2. QED
      BY <3>1 DEF Entries, EntriesAreTracked
  <2>2. Init => Goroutines
    BY DEF Init, Goroutines, Steps
  <2>3. QED
    BY <2>1, <2>2, Parts
<1>2. TypeOK /\ EntriesAreTracked /\ [Next]_vars => (TypeOK /\ EntriesAreTracked)'
  BY GoKeeps, EntriesKeep DEF TypeOK, Entries, Goroutines
<1>3. QED
  BY <1>1, <1>2, PTL DEF Spec

\* AddJob and RemoveJob keep scheduler.go's map and cron's entries in step,
\* whatever handlers, firings and restarts interleave: no job fires twice.
THEOREM EntriesTracked == Spec => []EntriesAreTracked
  BY ScheduleInvariant, PTL
\* Whatever requests, firings and restarts interleave: a job that was not
\* changed by two goroutines at once has, when they are through, the keywords
\* last asked for, once each, and the entry its row asks for.
THEOREM JobsFollowRows == Spec => []ScheduleFollowsRow
<1>1. FollowInv => ScheduleFollowsRow
  <2> SUFFICES ASSUME FollowInv, NEW j \in Jobs, Settled(j)
               PROVE  /\ Named(words[j]) = wanted[j]
                      /\ Cardinality(words[j]) = Cardinality(wanted[j])
                      /\ Visible(j) /\ jobs[j].active /\ jobs[j].sched \in Parsed =>
                            \E e \in {e \in cron : e.job = j} : e.sched = jobs[j].sched
                      /\ jobs[j].deleted \/ jobs[j].sched \notin Parsed =>
                            {e \in cron : e.job = j} = {}
    BY DEF ScheduleFollowsRow
  <2>1. jobs[j] # Nil /\ WordsFit(j) /\ EntriesFit(j) /\ IsFiniteSet(words[j])
    BY DEF FollowInv, Settled, JobFits, Histories
  <2>2. Cardinality(words[j]) = Cardinality(wanted[j])
    BY <2>1, NamedOnce DEF WordsFit
  <2>3. Named(words[j]) = wanted[j]
    BY <2>1 DEF WordsFit
  <2>4. /\ Visible(j) /\ jobs[j].active /\ jobs[j].sched \in Parsed =>
              \E e \in cron : e.job = j /\ e.sched = jobs[j].sched
        /\ jobs[j].deleted \/ jobs[j].sched \notin Parsed => \A e \in cron : e.job # j
    BY <2>1 DEF EntriesFit
  <2>5. QED
    BY <2>2, <2>3, <2>4
<1>2. QED
  BY <1>1, FollowInit, FollowStep, PTL DEF Spec

============================================================================
