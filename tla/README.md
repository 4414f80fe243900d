# SEO Rank Guardian: specifications, model checking and proofs

SEO Rank Guardian scans Google results for a job's keywords in a job's regions,
compares each run with the one before, and writes a report. A Go API server
(`src/app`, `src/internal`, `src/pkg`) triggers runs and serves the data; Python
workers (`src/worker`) scrape, compare and report. They share a PostgreSQL
database and a NATS JetStream work queue; the API also uses Redis and MinIO.

This directory holds TLA+ modules of the parts where order, failure and
concurrency matter, TLC configurations that check them, and TLAPS proofs.
`PROJECT.json` maps each definition to its source lines and lists every hazard
found, at its line, with the properties that guard against it.

## 1. Inventory

### Scanning

| Component | State | Operations | Modules |
|---|---|---|---|
| Scan trigger (`v1/job.go`) | `srg_job_runs`, `srg_search_pairs` | `TriggerScrapeForJob`, by hand or by the scheduler | `ScanRun` |
| Job queue (JetStream stream `SRG_JOBS`, consumer `srg-workers`; `worker/worker.py`) | messages, delivery counts, pending acks, each worker's buffer | publish, deliver, ack, nak, ack_wait | `JobStream` |
| Scrape handler (`worker/handlers/scrape.py`) | pair status, run counters, results | `handle_scrape_task`, `_check_run_completion` | `ScanRun`, `RunLifecycle` |
| Change detection (`worker/handlers/detect.py`) | `srg_rank_diffs` | `handle_change_detection` | `ReportPipeline`, `RankHistory` |
| Report (`worker/handlers/report.py`, `worker/ai`) | `srg_reports` | `handle_report_generation` | `ReportPipeline` |
| Scraper (`worker/scraper`) | browser, retry state | `search_async` | its outcome only |

What is hard: messages are delivered at least once; ack_wait runs while a
message waits in a worker's buffer; handlers are several transactions with
publishes between them; workers and the API die in the middle; the trigger still
inserts pairs while workers count them. What makes it correct: a pair is counted
once, a run ends exactly when its pairs are settled, its status tells what
happened to them, and detection and reporting follow once.

### The API

| Component | State | What is hard | Correct when | Modules |
|---|---|---|---|---|
| Job management (`v1/job.go`) | jobs, keywords | rows and cron entries change in separate steps; requests and firings overlap | the running schedule is the stored one | `JobSchedule` |
| Scheduler (`pkg/scheduler`) | cron entries, map of entry ids | edits during a firing, restart | one entry for a job at most, only if it is due | `JobSchedule` |
| History, dashboard (`v1/history.go`, `run.go`, `dashboard.go`) | none | the same fact computed by a dozen queries | all views tell the same story | `RankHistory` |
| Automatic IP block (`v1/auto_ip_block_middleware.go`, `admin_auto_ip_block.go`) | Redis counters and keys, block rows | counting, comparing and blocking are separate calls of many goroutines | blocks are earned, on record, and end | `RequestGuard` |
| Rate limits, bot rules, policies (`v1/rate_limit_middleware.go`, `bot_detection_middleware.go`, `pkg/cache`) | Redis windows, cached rules | cache-aside with invalidation by edits | limits hold, stale copies go | `RuleCache`, `Cache` |
| Sessions (`pkg/oauth2`, `v1/auth.go`, `middleware/protect.go`) | session rows, refresh keys, revocation marks | refresh against revocation, Redis failing | a revoked session stays out | `Session` |
| Accounts (`v1/admin.go`, `user.go`, `pkg/authz`, `pkg/seed`) | users, policies, avatar files | whole rows are read and saved back | changes touch their own field | `Accounts` |
| Live events (`v1/ws.go`, `pkg/manager`) | hub, channel of each client | handler, reader, writer, callback; close from either side | events are delivered in order or dropped on record; all goroutines end | `WsHub` |
| Log rotation (`pkg/logger`, `pkg/logrotate`) | open file, files, MinIO copies | upload and rotation are two steps; failure, midnight, restart | no day's file is left behind | `LogRotation` |

## 2. How the modules fit together

```
JobStream --+-- ScanRun --(refines)--> RunLifecycle      Cache -- RuleCache -- RequestGuard
            +-- ReportPipeline                            Session -- Accounts
RankHistory      JobSchedule                              WsHub + LogRotation -- ApiProcess
```

The modules meet at what they promise each other. `ReportPipeline` starts from
runs that end as `RunLifecycle` allows, with one detect task each (proved of
`ScanRun`). `RankHistory` starts from the rows those handlers leave, one batch of
differences and one report for a run, which `ReportPipeline` has as `OneReport`. `JobSchedule` uses "a run ends", which
`ScanRun` has as `RunFinishes`. `RequestGuard`'s request has a role, which
`Accounts` decides. `ApiProcess` composes the two parts of the process that
share its lifetime and its log: a callback that drops an event writes a line, and
a late callback's panic takes everything down.

Proofs are in `<module>Proofs`, instances for TLC in `MC<module>`.

## 3. Modules and the code

### JobStream.tla

The consumer as the worker configures it. One variable per thing the server or
a worker keeps:

| Variable | Meaning |
|---|---|
| `stored`, `acked` | messages in the stream, messages acknowledged |
| `deliveries` | delivery count of a message; `max_deliver` bounds it |
| `unacked` | delivered messages whose ack_wait timer runs; `max_ack_pending` bounds their number over all workers |
| `holder`, `late` | who got the latest delivery; whether it waited in the buffer until another task ended |
| `inbox`, `task` | nats-py's local buffer of each worker; the message its loop handles |

Server actions are external (modelled from the options in `ConsumerConfig`);
`Take`, `Ack`, `Nak`, `Crash` are the loop in `Worker.listen`. The buffer is a
bag: a FIFO buffer filled in another delivery order has the same behaviours,
and JetStream promises no order once redelivery is involved.

**Time.** There are no clocks. `AckWaitExpires` is possible when the worker that
got the message no longer has it (it crashed), and, if `QueueWait`, when the
message first had to wait for another one to end. This is the code's own
arithmetic: ack_wait is 10 minutes, "longest scrape can take 5-6 min", so one
scrape cannot exceed it and two can.

### ScanRun.tla

One job, its runs, pairs, workers. `RunOf` fixes which pair belongs to which run.

| Action | Code |
|---|---|
| `CountActiveRuns`, `CreateRun` | the two statements of the transaction in `TriggerScrapeForJob`, separate because READ COMMITTED does not serialise them |
| `CreatePair`, `CreatePairUnpublished`, `SkipPair` | one loop iteration: it works, its publish fails, its insert fails |
| `FinishTrigger`, `ApiCrash` | the correction of `total_pairs` after the loop; the process dies in the loop |
| `AcceptTask` | message taken and the idempotency check |
| `MarkRunning`, `RecordSuccess`, `RecordFailure` | the handler's transactions; the search lies between them |
| `RunStillOpen`, `FinalizeRun` | `_check_run_completion`, one step because it holds the run's row lock |
| `AnnounceFailure`, `PublishDetect`, `DetectUnconfirmed` | `run_failed`; `run_complete` and the detect publish; the publish whose confirmation was lost |
| `AckTask`, `HandlerRaises`, `WorkerCrash` | end of the loop body, its `except`, death of the process |

`pc` is the handler's place between transactions. Left out: event payloads and
logs (they change nothing that is read back), search results (RankDiff),
timestamps.

Faults are switched by the constant `Faults`, so that each run says which it
admits: `trigger_race`, `api_crash`, `pair_insert`, `publish_lost`, `raise`,
`worker_crash`.

### RunLifecycle.tla

What `GetRun` promises a client, without queue and workers. `Exact = FALSE`:
status moves none → running → final once, detection is requested at most once,
and only after a run that did not fail. `Exact = TRUE` adds that each pair is
counted once and the counters are frozen at the end. `ScanRun` instantiates both
(`Loose`, `Strict`); the refinement mapping is the identity on the five
variables the client sees.

### ReportPipeline.tla

From a finished run to its report: the two handlers behind `srg.jobs.detect` and
`srg.jobs.report`, on the same `JobStream`. `Kind` and `RunOf` fix what each task
is about. How a run comes to its end is `ScanRun`'s matter: `StartRun`, `EndRun`
and `RequestDetect` are the steps `RunLifecycle` allows, with one detect task per
run (`DetectOncePerSuccess`, proved in `ScanRunProofs`). `diffs[r]` is the
sequence of committed batches, each named by the run it compares with; which
rows a batch has is `RankDiff`'s matter, here the constant `Differs` says which
pairs of runs have any. A report row records how many batches its prompt held.

| Action | Code |
|---|---|
| `AcceptDetect` | message taken and the count of existing diffs |
| `NothingToCompare`, `CompareRuns` | the query for the previous run, with and without an answer; the reads of both runs' results |
| `CommitDiffs` | the commit and `detect_complete`; no rows, no batch |
| `TriggerReport`, `ReportUnconfirmed` | `_trigger_report`; the publish whose confirmation was lost |
| `AcceptReport`, `SkipReport`, `ReadInputs` | message taken; no AI client or a row exists; results and diffs read and no row found |
| `InsertReport` | the row is committed as "generating" |
| `AIAnswers`, `AIFails` | one turn of the retry loop |
| `SettleReport` | the update of the row by id and the announcement |
| `AckTask`, `HandlerRaises`, `WorkerCrash` | as in `ScanRun` |

### RankHistory.tla

The rows that scans leave (`TriggerScrapeForJob`, `Scrape`, `Detect`,
`StartReport`, `EndReport`, `UpdateJob`, each one step here, as their races are
the business of the modules above), and every reading handler as an operator on
them, named as in the code: `buildRankings`, `PairSummary`, `PairScanHistory`,
`PairCompetitors`, `TrackingPairs`, `PositionTrends`, `ListRuns`, `GetRun`,
`ListJobs`, `JobStats`, `DashboardStats`, ... Each keeps its query's own choices:
raw or through gorm (which hides soft-deleted rows), first or last of several
rows, target by mark or by domain name, sign and default of a change. `Place` is a
pair's place in the order of keywords and states, `Limit` bounds the results of a
search, `Sizes` are the page sizes that the properties about all pages try.

A job names domains, a result has a host: `DomainOf` takes "www." off it, as
`scrape.py:129` does to mark the rows of the target and of competitors. The rows
keep the host, and differences (`detect.py:77`) and rankings go by it, other views
by the mark. A pair has a keyword and a region, a job the pairs of its keywords in
its regions (`Selections`). An edit takes away the rows of the keywords it drops
(`Gone`); those of a region it drops stay.

### JobSchedule.tla

| Action | Code |
|---|---|
| `CreateJob`, `UpdateJob`, `UpdateKeywords`, `SaveJob`, `PatchJobStatus`, `DeleteJob`, `Reschedule` | a handler up to its first statement, the keyword transaction, the save of the whole row, the call of the scheduler |
| `Fire`, `Reload`, `Trigger` | a cron entry fires: the row is reloaded; the entry is dropped or a run triggered |
| `TriggerScrape`, `RunEnds` | by hand; the workers end a run that has pairs |
| `Restart` | `LoadAll` gives each due job an entry |

A slot is a goroutine of a request or a firing. `raced` remembers jobs that two
of them changed at once: there the last save and the last scheduler call may be
of different requests.

### Cache.tla, RuleCache.tla, RequestGuard.tla

`Cache` is the Redis wrapper: operators from a store to the store after a call;
`Tried` adds the store of a call that failed and was only logged. `RuleCache` is
the administrator's edits of the three kinds of rules: commit the row, then
delete the copy. `RequestGuard` is the middleware chain of one address, one
action for each Redis command or statement between which others may come.

| Action | Code |
|---|---|
| `AutoIPBlockMiddleware` | arrival and the check of the block key |
| `BotDetectionMiddleware`, `loadBotDetectionRules` | static checks; cached rules, or rows and their copy |
| `LookUpLimits`, `loadRateLimitRules`, `RateLimitMiddleware` | limits that concern the request, counted one by one |
| `LookUpPolicy` ... `upsertAutoIPBlock` | `triggerAutoBlock`, which goes on after the answer |
| `AdminUnblockIP`, `AdminPermanentBlockIP`, `AdminResetIPCounts` | the administrator, two or three steps each |
| `NextWindow`, `KeyExpires` | time |

### Session.tla, Accounts.tla

`Session` is `pkg/oauth2` and the session rows; access and refresh token of a
pair have the same claims and are one value. `Accounts` has a slot for each
request goroutine, a step for each database statement or Redis transaction, and
every handler of `auth.go`, `user.go` and `admin.go` that changes state. A
handler that changes a user has a `copy` of the row and saves it whole. `ideal`
is the row had each change touched its own field only; two changes at once end
the comparison. `strays` are sessions revoked while Redis failed or while a pair
was being issued. The save of a row may fail (`SaveFails`), and `Restart` may come
before it. Both may leave the row at an avatar file the handler has removed: these
users are `broken` until their avatar is saved again. Only these saves fail: reads
and other updates succeed, and so do the writing and the removal of a file, whose
error the code ignores.

### WsHub.tla, LogRotation.tla, ApiProcess.tla

`WsHub`: for each connection the handler (`ServeWS`, `Subscribe`, `Unsubscribe`,
`CloseEgress`, `Delete`), the reader, the writer and the NATS callback, over a
channel of `Capacity` events. `LogRotation`: one file per day, a line being what
it tells of (a connection and the event dropped for it); upload, then
rotation. Both names come from the clock at the time of the step. Each may fail:
`UploadFails` skips the rotation, `OpenFails` leaves the writer where it was, and
`SwapFails` leaves it at a file that is closed for good, as `Swap` returns before the
assignment (`logger.go:42`). A start that cannot open its file falls back on stderr.
`Nowhere` is a writer of these two kinds, `missed` what was written to it.
`disturbed` remembers any failure since the start. A write to an open file, and a
file on disk, are assumed not to fail.

## 4. Model checking

Deadlock checking is off everywhere: each system stops when requests and tasks
have run out. Every passing run ends within five minutes on two cores.

| Run | Instance | States | Shows |
|---|---|---|---|
| `scan_exclusive` | 1 run, 2 pairs, 2 workers, 3 deliveries, every fault, no early ack_wait, fair | 168,000 | exact counters, truthful final status, exact life cycle, no task forgotten |
| `scan_live` | 3 pairs, 2 deliveries, no fault, early ack_wait, fair | 546,000 | what survives two workers on one pair: no lost count, detection once, loose life cycle; and a run ends |
| `scan_race` | 2 runs of one pair, 1 worker | | finding 1 |
| `report_serial` | run 3 of 3 is followed, its detect and two report tasks, every fault, early ack_wait, one unacknowledged task | 38,000 | diffs and report once, against the right run, the report describes the diffs, every detect task leads to a report task |
| `report_race` | 1 run, its detect and two report tasks, 2 workers, lost confirmations, early ack_wait, two unacknowledged tasks, fair | 115,000 | two report handlers of a run at once: two reports at most, each settled by its own handler and once; a successful run gets one |
| `guard_blocks` | 5 requests, 2 at once, a limit of 1, a policy of 2/1/1, 1 administrator's call | 2,100,000 | blocks are earned and on record |
| `guard_rules` | 3 requests, 2 at once, 2 limits, 2 bot rules, 2 policies, 1 edit, Redis failing, fair | 181,000 | limits hold, stale copies and old blocks go away |
| `accounts` | administrator, user, 2 Google accounts, 2 sessions, 4 requests, 2 at once, a restart, 2 seconds, Redis and saves failing | 1,415,000 | revocation, refresh, password change, saves, avatars |
| `schedule` | 1 job, 2 goroutines, 3 requests, a restart, a blank keyword and an invalid schedule, fair | 244,000 | entries follow rows, jobs keep being scanned |
| `process` | 1 connection, channel of 1, 3 events, 2 days, 2 restarts, files that do not open or close, fair | 1,185,000 | events accounted for, days uploaded, drops on record, connections end |
| `history` | 1 pair, 2 domains of which one has 2 hosts, 3 runs, pages of 2, a report, an edit of the job | 62,700 | views agree, differences replay, history is kept |
| `dashboard` | the same with 2 runs | | finding 2 |

**Bounds.** Two workers, goroutines or slots suffice for every race between two
handlers, and the code has no lock whose contention needs a third. Two pairs
give a last and a not-last pair, a mixed outcome, and a queue of one behind
another; a third lets one wait behind, one be counted twice and one stay open.
Three deliveries are the code's value; one retry of each task (two deliveries)
is enough where overlap is the question. Three runs give a nearest and a farther
predecessor. Five requests are what level 3 takes with thresholds 2, 1 and 1.
In `accounts` an access token lasts one second and a refresh token two, so that
both expire within the clock's range, one before the other. Keywords include ""
and schedules include "" and one that cron cannot parse: the three ways the
code treats them. Of the result pages of `history`, one domain rises and falls ten
places, the other comes under its second host, and each is gone from some page. Three
runs in pages of two move a run from the first page to the second and make it the last
of its page. The edit may drop the pair or change the domain or the competitors;
several pairs, and a region that goes while its keyword stays, are left to the proofs.

**Fairness.** Weak fairness of steps a goroutine or a worker's loop is bound to
take: the trigger's loop, a worker's loop, a request once begun (`Serve`,
`Work`), a connection's goroutines. The queue delivers each deliverable task and
runs its timers; Redis drops a key with an expiry; workers end a run that has
pairs (`RunFinishes`). Cron fires an entry again and again, whatever else goes on
in between: strong fairness of `Fire`, as slots may be busy at times. No
fault, request, event, edit, restart or passing of a day is fair. `process` asks
nothing of the peer: `ClosedConnectionsEnd` is about a connection one side of
which has ended.

Each property has a mutant in `PROJECT.json`: a definition ending in a suffix
(`AddJob_KeepsOld`, `ValidateRefreshToken_KeepsKey`, ...) that stands next to the
one it replaces and breaks the property.

## 5. Findings

1. **Two active runs** (`scan_race`). The "atomic" check of `job.go:543` counts
   and inserts at READ COMMITTED; two triggers both pass.
2. **Risen keywords at risk** (`dashboard`). `dashboard.go:58` says "Also count
   keywords that dropped >= 3 positions"; the query takes `delta <= -3`, and
   detect.py's negative delta is an improvement.

### Known gaps

What the code allows, no comment denies, and a property had to leave out:

*Scanning.*
- When ack_wait runs out for a queued task (`worker.py:67`), two workers may
  count one pair and the run is finalized with another pair never searched.
- A handler that raises after its commit (`scrape.py:30`) is retried, but the
  retry returns at the idempotency check: a run whose last pair this was stays
  "running", and the job cannot be triggered again. The same follows when the
  API dies in the pair loop or a publish fails (`job.go:588`, `:629`), when
  `total_pairs` is lowered after the last comparison (`job.go:638`), when a
  task's deliveries are used up, and for a run with no pairs (`job.go:531`).
- A failed subscribe deletes and recreates the shared consumer (`worker.py:80`).
- A detect task redelivered while it waits inserts the diffs twice
  (`detect.py:17`). Two report tasks handled at once both insert a report:
  `src/README.md:134` starts one worker, `worker.py:66` allows ten unacknowledged
  tasks, and with more workers a run has up to one report for each. A worker that
  dies while the AI writes leaves the report "generating" (`report.py:66`).

*Sessions and accounts.*
- A pair issued while its session is revoked or logged out brings the refresh
  key back (`auth.go:182`). When Redis refuses, the row says revoked, the key
  lives, and a second revocation is refused (`admin.go:742`).
- A failed issue during a refresh logs the user out; a session's `expires_at` is
  never extended. Deactivated and deleted users keep refreshing; roles in tokens
  survive a change of role (`auth.go:203`).
- `Save` writes back fields another request changed and inserts deleted users
  again (`user.go:82`, `admin.go:300`). The old avatar is removed before the row is
  saved (`user.go:145`, `:181`): a save that fails, or a crash, leaves the row at a
  file that is gone until the next upload. Two uploads within a second delete the new
  file. A login that checked the old password survives the change.
- A removed default policy is back after a restart (`seed.go:66`). The OAuth
  state is read and deleted in two calls (`auth.go:263`), so two callbacks may
  use it. Administrators may demote each other until none is left.

*Jobs.*
- A firing that read an inactive job removes the entry its reactivation has just
  added (`scheduler.go:66`). Two updates may save in one order and register in
  the other; a save brings a deleted job back; two updates may add a keyword
  twice. `UpdateJob` deletes pairs of a run in progress (`job.go:385`).
- `is_active: false` on creation makes an active job (gorm's default). An
  invalid cron expression leaves a job without an entry, silently.

*History.*
- Where the target is gone, `PairSummary` reports the old position as the change.
  Rankings say "stable" before detection and in a first run, `TrackingPairs` says
  "new". The last entry of a page of scans always has change 0, so the change of a
  scan goes when a later run moves it to the end of its page (`history.go:600`). A
  target that moves from www.x.com to x.com is marked in both runs, but is "new" in
  the rankings and 0 in `PairCompetitors`, which go by the host, and "improved" or
  "dropped" in `TrackingPairs`, which goes by the mark (`scrape.py:149`). `JobStats` counts
  rows where its comment says distinct keywords (`job.go:751`). Raw queries show
  rows of deleted keywords. For a domain listed twice, views pick the first or
  the last row. Trends follow the current domain's name.

*Events, logs, guard.*
- A callback that is late sends on a closed channel, which panics and ends the
  process (`ws.go:48` against `:71`). A connection outlives its session.
- After a failed upload, later uploads name files that do not exist and rotation
  stops until a restart (`logrotate.go:84`). An upload that crosses midnight skips
  a day. When the old file cannot be closed, `Swap` returns before it assigns the
  new one (`logger.go:42`): the writer is a closed file, each later rotation fails
  too, and all lines of the file log are lost until a restart. When tomorrow's file
  cannot be opened, the writer stays at the old day's; a start without a file logs
  to stderr. Lines written between upload and rotation are missing in MinIO.
- An unblock or a permanent block is overwritten by a goroutine in flight
  (`admin_auto_ip_block.go:71`).

## 6. Proofs

For every value of the constants: any number of runs, tasks, workers, users,
requests, days and restarts, with every fault unless the table names a
hypothesis. The assumptions are the `ASSUME`s of the modules: finitely many
workers, tasks, jobs, keywords, pairs and request slots, positive limits, each pair in a run,
Redis keys of rate limits that differ from the others, no two pairs at one place of
the order, bounded results of a search, page sizes from 1 to 100 (others are taken
as 20), and `Nil` and `None` that are not values (of users, reports and numbers
among them).

| Module | Theorem | States |
|---|---|---|
| `ScanRunProofs` | `TypeCorrect`, `BookkeepingInvariant` | types and the inductive invariant |
| | `CountersKeepUp` | `Spec => []NeverUndercounts` |
| | `FinalStatusKept`, `FinalRunsAreCounted` | `Spec => FinalStatusIsKept`, `Spec => []FinalOnlyWhenCounted` |
| | `DetectIsRequestedOnce` | `Spec => []DetectOncePerSuccess` |
| | `RunsFollowLifecycle` | `Spec => LooseLifecycle`: `ScanRun` implements `RunLifecycle` |
| | `ExactCounters` | `NoEarlyExpiry => (Spec => []CountersAreExact)` |
| | `FinalStatusTruthful` | `NoEarlyExpiry => (Spec => []FinalStatusIsTruthful)` |
| | `RunsFollowStrictLifecycle` | `NoEarlyExpiry => (Spec => StrictLifecycle)` |
| `ReportPipelineProofs` | `TypeCorrect`, `PipelineInvariant` | types and the inductive invariant |
| | `DetectionIsReported` | `Spec => []AckedDetectTriggersReport` |
| | `SettledReportsStay` | `Spec => SettledReportIsKept` |
| | `NearestRunCompared` | `~Overlap => (Spec => []NearestPrevious)` |
| | `DiffsStoredOnce` | `SerialDetect => (Spec => []DiffsOnce)` |
| | `ReportsDescribeDiffs` | `SerialDetect /\ ~Overlap => (Spec => []ReportDescribesDiffs)` |
| | `ReportsBounded` | `Spec => []ReportsPerWorker` |
| | `OneReportPerRun` | `Cardinality(Workers) = 1 \/ SerialReport => (Spec => []OneReport)` |
| `JobScheduleProofs` | `ScheduleInvariant`, `EntriesTracked` | `Spec => []EntriesAreTracked` |
| | `JobsFollowRows` | `Spec => []ScheduleFollowsRow` |
| `AccountsProofs` | `IssuesExchangedOnce` | `Spec => []EachIssueIsExchangedOnce` |
| | `SavesKeepFields` | `Spec => []SavesKeepOtherFields` |
| | `AvatarsOnDisk` | `Spec => []AvatarIsOnDisk` |
| | `RevocationInvariant`, `RevokedStayOut` | `Spec => []RevokedStaysOut` |
| | `PasswordChangesEndOthers` | `Spec => PasswordChangeEndsOthers` |
| `RequestGuardProofs` | `LimitsHold` | `Spec => []LimitHolds` |
| | `BlocksOnRecord` | `Spec => []BlockIsOnRecord` |
| | `BlocksEarned` | `Spec => []BlocksAreEarned` |
| `ApiProcessProofs` | `LogInvariant`, `DaysUploaded` | `Spec => []EveryDayIsUploaded` |
| | `EventsAccounted` | `Spec => []EveryEventIsAccounted` |
| | `DropsOnRecord` | `Spec => []DropsAreOnRecord` |
| `RankHistoryProofs` | `HistoryInvariant` | types and the inductive invariant of the rows |
| | `DiffsReplayed` | `Spec => []DiffsReplay` |
| | `PositionsAgree`, `ChangesAgree` | `Spec => []ViewsAgreeOnPosition`, `Spec => []ViewsAgreeOnChange` |
| | `ReportsAgree` | `Spec => []ViewsAgreeOnReports` |
| | `PagesAgree`, `HistoryKept` | `Spec => []PagesTellTheSame`, `Spec => HistoryIsKept` |

`JobStreamProofs` proves once that every step of the queue keeps `StreamTypeOK`,
and that under `NoEarlyExpiry` a task is in one worker's hands (`Exclusive`).

**Hypotheses.** They are what a deployment has to see to; `report_serial` satisfies
them all:

- `NoEarlyExpiry`: ack_wait does not run out for a task queued behind another, or
  max_ack_pending is 1. `worker.py:66` guarantees neither (see the known gaps);
  `scan_exclusive` and `report_serial` satisfy it, `scan_live` and `report_race` do not.
- `SerialDetect`: max_ack_pending is 1, or no early ack_wait and one detect task
  for a run, which `DetectIsRequestedOnce` shows of the runs `ScanRun` ends.
- `SerialReport`: max_ack_pending is 1, or moreover no fault: a raise after
  `_trigger_report` published sends a second report task. `report_serial`
  satisfies the first half of both. `OneReportPerRun` needs it of several workers
  only; the deployment of `src/README.md` has one, for which the theorem holds under
  every fault. Without either, `ReportsBounded` is what remains, and `report_race`
  reaches the bound.
- `~Overlap`: the job has one run in progress, which `TriggerScrapeForJob` means
  to ensure and finding 1 shows to fail for simultaneous triggers only.

*Scan.* `Bookkeeping` adds that a handler runs exactly while its worker has a
task, that held tasks were stored and stored tasks belong to started runs, and
that a trigger's loop has total_pairs equal to the number of its run's pairs.
`DetectInv` adds that a handler about to publish the detect task is the only one
for its run and that none was published before; with it each step is one of
`RunLifecycle` or leaves its variables alone. The counting argument bounds the
set of settled pairs: a step adds at most one pair to it and one to a counter.
`ExactInv`, for exclusive tasks: the pair of a running handler is open, so that
each comparison of `_check_run_completion` counts a pair not counted before, and
`TotalIsTrue` relates total_pairs to the pairs that were created.

*Report.* `RowIsOwn`: a handler between its insert and its update owns a row that
is still "generating" and that no other handler owns. `ReturnedHasTriggered`: a
detect handler that has returned has a report task in the stream. `ChoiceInv`:
without overlap runs become successful in order, so that what was the previous
run when the handler read it still is. `OnceInv`: a detect handler on its way to
its commit is the only one of its run and has no diffs stored before it.
`DescribeInv`: a report task exists only after its run's diffs, hence the number
of diffs a prompt was written from is final. `OneReportInv`: a handler before its
insert has seen no report of its run, and no other handler is before its own.
`RacersInv`, without any hypothesis: the reports of a run and the handlers between
its check and their insert are never more than the workers, since a handler passes
the check only while there is no report, and each handler there is a worker of its
own.

*Schedule.* `EntriesAreTracked` needs only types besides itself: what a goroutine
passes to the scheduler is a job and a row it holds. `AddJob` removes the entry
the map names, which is the only one of the job, before it adds another.
`ScheduleFollowsRow` needs `FollowInv`: of a job not `raced` at most one goroutine
is on its way, and what it holds fits the rows at its step (`JobFits`): before the
keyword transaction the keywords are those it read, after it those asked for;
before the scheduler's call the row is the one it holds. Entry ids are given once
(`IdsApart`), so that a step for one job leaves the entries of others alone, and
`NamedOnce` turns the comparison of cardinalities in the property into "no keyword
in two rows".

*Tokens.* `AccountSteps` reduces every handler to what it does to the refresh
keys (`TokenStep`); `EachIssueIsExchangedOnce` counts the stored token among the
exchanges and is inductive then, as get and delete are one transaction.

*Rows and files.* `UserInv`: a handler's copy is the row but for the field it
changes, as long as its copy is the only one (`CopiesAlone`, the case `ideal`
tracks). `DiskInv`, on top of it: the files uploaded for a user and not yet in
its row exist, differ from each other and from the row's, so that removing the
row's file removes none of them. A handler that is cut off between the removal and
the save makes its user `broken`, and only a save of an avatar ends that.

*Closed sessions.* `RevokedInv`: from the deletion of the refresh key on, a session
not among the `strays` has no key and no pair being issued; its mark in Redis
outlives every access token it has. It needs that sessions are drawn once
(`SessionsDrawn`), as ids are random. `DueInv`: what is left of the sessions a
password change has to end is in its handler's list or already ended.

*Limits.* `WindowInv`: Redis has counted at least what was let pass in the
window. `GuardSteps` shows every other action, rule caches and escalation
included, leaves these counters alone.

*Blocks.* `RecordInv` adds to `BlockIsOnRecord` the types it needs: whoever is
about to write a record holds a level and the row it read, and once the
administrator has read a record there is one, for no step deletes it. Then only
`triggerAutoBlock` and the permanent block set the key: the first leaves its
goroutine at "record", and the goroutine leaves "save" only with a record written.

*Block budget.* `Budget`: violations pay for Redis' counters and for the slots on
their way to them: each slot past a limit stands for one violation not yet spent,
a level-1 step for a policy's l1 more, and so on (`Reached1` to `Reached3`). The
three INCRs and their comparisons are separate calls; `Pending` counts the slots
between them, which is where an uncharged block could slip in.

*Events.* The line of a connection, from what was sent to what NATS still holds,
is increasing and with the lost events makes up all since the subscription
(`Accounted`): each step of `WsHub` moves one event along the line or off it.

*Log.* `OnTime` says where the two steps of the rotation are, while nothing has
failed since the start (`~disturbed`): while it runs the writer is at today's file, the upload has today's name, and it rotates only when
that file is stored. What the files tell of only grows: no upload, rotation or
restart removes a line, whether it fails or not (`LinesStay`), and no step of the hub loses an event without
writing one (`HubLosesNone`), to a file or, where the writer is `Nowhere`, among the
`missed`.

*History.* `RunFits`: the rows of a run are of completed pairs and marked by the
domain of their host, against the one the run was started with, and only the last run may be in progress; hence a
run that becomes successful is the newest (`FinishedStay`), and the run before
another never changes (`BeforeStays`). `DiffsFit`: the stored differences of a pair
and a host are how it moved since that run. It survives edits of the job because
a removed pair loses rows and differences in one transaction, and detection that
comes later reads the same rows. On top of it the views are compared: for a pair
found once each query selects the same single row (`PlainRows`), whether it goes by
the mark or by the host's domain, through gorm or raw, takes the first or the last;
`ChangeIs` relates the difference that was stored to the two rows it was made of,
which `SameHost` lets have the host in common that the difference is told of.
A page is a range of ranks, a scan's rank the number of newer ones: no rank is
missing (`RankFound`), each is on one page (`OnePage`), so that the number reckoned
back from the total and the page's offset is the scan's place among all
(`NumberOnPage`). What a scan tells depends on it and on older ones only, hence
stays; its change is reckoned from the scan before it or is 0 (`Move`, `PageTellsOf`),
and that scan is the same for ever (`Prior`), which makes `HistoryKept`.

Every safety property of the passing runs is proved. Only model-checked is
liveness (`RunFinishes`, `NoTaskForgotten`, `EveryRunReported`, `RulesConverge`,
`BlocksAreForgotten`, `JobsKeepBeingScanned`, `ClosedConnectionsEnd`): it rests on
fairness and ENABLED, which the prover does not handle; nor does it do induction over
data, what a recursive definition computes for every input.

## 7. Not modelled

- The scraper: one browser per worker, sequential retries around third-party
  pages; the handler sees results or an exception, which `ScanRun` has.
- Recreation of the consumer after a failed subscribe (see the known gaps).
- Event payloads, prompts, search terms, averages and texts: no property is
  about them.
- Administrator's analytics, live log, request and audit logs: append-only rows,
  aggregated for display; nothing decides by them.
- Clients of NATS, database, MinIO, SMTP; configuration, routing, response
  formatting, the generated API docs: wiring without state.
