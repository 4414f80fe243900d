---------------------------- MODULE RankHistory ----------------------------
(***************************************************************************)
(* What users are shown of the scans of a job: history.go, run.go,         *)
(* dashboard.go and the reading half of job.go, over the rows that the     *)
(* scrape, detect and report handlers of the worker leave.  A handler      *)
(* reads and answers; it is an operator on the rows.  The same fact is     *)
(* computed in many of them, each with queries of its own: through gorm,   *)
(* which hides soft-deleted rows, or raw, which does not; for the current  *)
(* target domain or by the mark a row got when it was scanned.             *)
(*                                                                         *)
(* A pair stands for a keyword and its region.  Jobs name domains, cleaned *)
(* of "www."; rows keep the host a result was found under.  One job, of a  *)
(* user who is entitled to it; search terms and averages are left out.     *)
(***************************************************************************)
EXTENDS Integers, FiniteSets, Sequences, FiniteSetsExt, SequencesExt

CONSTANTS
    None,        \* no domain, no answer
    Pairs,
    Keyword,     \* pair -> its keyword
    Place,       \* pair -> its place in "ORDER BY keyword, state"
    Selections,  \* the pairs a job may be given: keywords times regions
    Domains,     \* as jobs name them
    Hosts,       \* as results have them
    DomainOf,    \* host -> what is left of it without "www."
    Limit,       \* bound on the results of a search
    Pages,       \* result pages a search may bring: [position -> host or None]
    Sizes,       \* of the pages that are asked for
    MaxRuns,     \* bound on runs
    MaxReports,  \* bound on reports
    MaxUpdates   \* bound on updates of the job

ASSUME RankHistoryAssumption ==
    /\ IsFiniteSet(Pairs) /\ Selections \subseteq SUBSET Pairs /\ Place \in [Pairs -> Nat]
    /\ \A p, q \in Pairs : Place[p] = Place[q] => p = q
    /\ DomainOf \in [Hosts -> Domains]
    /\ Limit \in Nat /\ \A pg \in Pages : pg \in [DOMAIN pg -> Hosts \cup {None}] /\ DOMAIN pg \subseteq 1 .. Limit
    /\ Sizes \subseteq 1 .. 100
    /\ MaxRuns \in Nat /\ MaxReports \in Nat /\ MaxUpdates \in Nat
    /\ None \notin Nat /\ None \notin [run : Nat, status : {"generating", "generated", "failed"}]

VARIABLES
    job,      \* [domain, competitors, tracked]: tracked has the job's pairs
    runs,     \* id -> [status, domain, competitors, pair, rows, diffs, detected,
              \*   removed]: removed has the pairs whose rows are soft-deleted
    reports,  \* sequence of [run, status], by creation
    updates   \* number of updates so far

vars == <<job, runs, reports, updates>>

Init ==
    /\ \E d \in Domains, ps \in Selections :
          job = [domain |-> d, competitors |-> {}, tracked |-> ps]
    /\ runs = <<>> /\ reports = <<>> /\ updates = 0

----------------------------------------------------------------------------
(***************************************************************************)
(* What changes the rows.                                                  *)
(***************************************************************************)
Running == {r \in DOMAIN runs : runs[r].status = "running"}

\* The domains a run looks for are those of the job when it starts.
TriggerScrapeForJob ==
    /\ Running = {} /\ Len(runs) < MaxRuns /\ job.tracked # {}
    /\ runs' = Append(runs,
          [status |-> "running", domain |-> job.domain, competitors |-> job.competitors,
           pair |-> [p \in job.tracked |-> "pending"], rows |-> {}, diffs |-> {},
           detected |-> FALSE, removed |-> {}])
    /\ UNCHANGED <<job, reports, updates>>

\* Of a page every result is kept under its host, and marked as the target's or a
\* competitor's by its domain.
Marked(r, p, pg) ==
    {[pair |-> p, pos |-> i, domain |-> pg[i], target |-> DomainOf[pg[i]] = runs[r].domain,
      competitor |-> DomainOf[pg[i]] \in runs[r].competitors] :
         i \in {j \in DOMAIN pg : pg[j] # None}}

\* What the pairs of a run make of it, once all are through.
StatusOf(pair) ==
    LET outcomes == {pair[p] : p \in DOMAIN pair} IN
    IF "pending" \in outcomes THEN "running"
    ELSE IF outcomes = {"failed"} THEN "failed"
    ELSE IF "failed" \in outcomes THEN "partial" ELSE "completed"

Settle(r, p, outcome, rows) ==
    LET pair == [runs[r].pair EXCEPT ![p] = outcome] IN
    runs' = [runs EXCEPT ![r].pair = pair, ![r].status = StatusOf(pair),
                         ![r].rows = @ \cup rows]

Scrape == \E r \in Running :
    /\ \E p \in DOMAIN runs[r].pair :
          /\ runs[r].pair[p] = "pending"
          /\ \/ Settle(r, p, "failed", {})
             \/ \E pg \in Pages : Settle(r, p, "completed", Marked(r, p, pg))
    /\ UNCHANGED <<job, reports, updates>>

Finished == {r \in DOMAIN runs : runs[r].status \in {"completed", "partial"}}

Newest(S) == IF S = {} THEN 0 ELSE Max(S)   \* 0: there is none

Before(r) == Newest({q \in Finished : q < r})

Live(r) == {x \in runs[r].rows : x.pair \notin runs[r].removed}

Marks(r) == {x \in Live(r) : x.target \/ x.competitor}

\* The last of several rows with a key stays in a map that is built of them.
At(rows, p, d) == Newest({x.pos : x \in {y \in rows : y.pair = p /\ y.domain = d}})

Diff(p, d, prev, curr) ==
    [pair |-> p, domain |-> d, prev |-> prev, curr |-> curr,
     delta |-> IF prev = 0 THEN 0 ELSE IF curr = 0 THEN prev ELSE curr - prev,
     change |-> IF prev = 0 THEN "new" ELSE IF curr = 0 THEN "lost"
                ELSE IF curr < prev THEN "improved" ELSE "dropped"]

\* Mutant: what is gone is not told.
Diffs_NoLost(r, q) ==
    {Diff(x.pair, x.domain, At(Marks(q), x.pair, x.domain), x.pos) :
        x \in {y \in Marks(r) : At(Marks(q), y.pair, y.domain) # y.pos}}

\* Rows of the run against the map of the one before, and what is gone since.
Diffs(r, q) ==
    {Diff(x.pair, x.domain, At(Marks(q), x.pair, x.domain), x.pos) :
        x \in {y \in Marks(r) : At(Marks(q), y.pair, y.domain) # y.pos}}
    \cup {Diff(x.pair, x.domain, x.pos, 0) :
             x \in {y \in Marks(q) : At(Marks(r), y.pair, y.domain) = 0}}

\* handlers/detect.py: host by host, against the nearest successful run before, if any.
Detect == \E r \in Finished :
    /\ ~runs[r].detected
    /\ runs' = [runs EXCEPT ![r].detected = TRUE,
                   ![r].diffs = IF Before(r) = 0 THEN {} ELSE Diffs(r, Before(r))]
    /\ UNCHANGED <<job, reports, updates>>

Reported(r) == {i \in DOMAIN reports : reports[i].run = r}

\* Mutant: every delivery writes a report.
StartReport_Again == \E r \in Finished :
    /\ runs[r].detected /\ Len(reports) < MaxRuns
    /\ reports' = Append(reports, [run |-> r, status |-> "generating"])
    /\ UNCHANGED <<job, runs, updates>>

\* handlers/report.py: a row first, its outcome when the AI has answered.
StartReport == \E r \in Finished :
    /\ runs[r].detected /\ Reported(r) = {} /\ Len(reports) < MaxReports
    /\ reports' = Append(reports, [run |-> r, status |-> "generating"])
    /\ UNCHANGED <<job, runs, updates>>

EndReport == \E i \in DOMAIN reports, status \in {"generated", "failed"} :
    /\ reports[i].status = "generating"
    /\ reports' = [reports EXCEPT ![i].status = status]
    /\ UNCHANGED <<job, runs, updates>>

\* Of a keyword that is not kept all rows go, whatever their region.
Gone(ps) == {p \in Pairs :
    /\ \E q \in job.tracked : Keyword[q] = Keyword[p]
    /\ \A q \in ps : Keyword[q] # Keyword[p]}

\* Another domain to look for, other competitors, other keywords or regions.  Rows
\* are soft-deleted; not while a run is in progress here.
UpdateJob == \E d \in Domains, cs \in SUBSET Domains, ps \in Selections :
    /\ updates < MaxUpdates /\ d \notin cs
    /\ Running = {} \/ Gone(ps) = {}
    /\ job' = [domain |-> d, competitors |-> cs, tracked |-> ps]
    /\ job' # job
    /\ runs' = [r \in DOMAIN runs |->
          [runs[r] EXCEPT !.removed = @ \cup (Gone(ps) \cap DOMAIN runs[r].pair),
                          !.diffs = {x \in @ : x.pair \notin Gone(ps)}]]
    /\ updates' = updates + 1
    /\ UNCHANGED reports

Next == TriggerScrapeForJob \/ Scrape \/ Detect \/ StartReport \/ EndReport \/ UpdateJob

Spec == Init /\ [][Next]_vars

----------------------------------------------------------------------------
(***************************************************************************)
(* Lists.                                                                  *)
(***************************************************************************)

\* A page or size that makes no sense is the default.
parsePagination(page, limit) ==
    <<IF page < 1 THEN 1 ELSE page, IF limit < 1 \/ limit > 100 THEN 20 ELSE limit>>

Page(list, page, limit) ==
    LET at == parsePagination(page, limit)
        offset == (at[1] - 1) * at[2]
    IN SubSeq(list, offset + 1, Min({offset + at[2], Len(list)}))

\* Mutant: pages counted from zero.
Recent_FromZero(S, page, limit) ==
    LET at == parsePagination(page, limit)
        offset == at[1] * at[2]
    IN {r \in S : Cardinality({q \in S : q > r}) \in offset .. offset + at[2] - 1}

\* The page of a set of ids, "ORDER BY started_at DESC": newest first.
Recent(S, page, limit) ==
    LET at == parsePagination(page, limit)
        offset == (at[1] - 1) * at[2]
    IN {r \in S : Cardinality({q \in S : q > r}) \in offset .. offset + at[2] - 1}

\* A set of ids as a list, newest first.
Newer(S) == [i \in 1 .. Cardinality(S) |->
    CHOOSE r \in S : Cardinality({q \in S : q > r}) = i - 1]

\* A set of pairs as a list, in order.
InOrder(S) == [i \in 1 .. Cardinality(S) |->
    CHOOSE p \in S : Cardinality({q \in S : Place[q] < Place[p]}) = i - 1]

Latest == Newest(Finished)

Rows(rows, p) == {x \in rows : x.pair = p}

Targets(rows, p) == {x \in rows : x.pair = p /\ x.target}

FirstOf(rows) == IF rows = {} THEN 0 ELSE Min({x.pos : x \in rows})

LastOf(rows) == Newest({x.pos : x \in rows})

----------------------------------------------------------------------------
(***************************************************************************)
(* run.go                                                                  *)
(***************************************************************************)
ListRuns(page, limit) == Newer(Recent(DOMAIN runs, page, limit))

PairsThat(r, status) == {p \in DOMAIN runs[r].pair : runs[r].pair[p] = status}

\* Of pairs the rows that are not deleted.
GetRun(r) ==
    [status |-> runs[r].status, results |-> Live(r), diffs |-> runs[r].diffs,
     pairs |-> DOMAIN runs[r].pair \ runs[r].removed,
     completed |-> Cardinality(PairsThat(r, "completed")),
     failed |-> Cardinality(PairsThat(r, "failed")),
     total |-> Cardinality(DOMAIN runs[r].pair)]

(***************************************************************************)
(* history.go                                                              *)
(***************************************************************************)

\* A target row without a difference is "stable", before detection and in a
\* first run, too.
Change(r, x) ==
    LET found == {d \in runs[r].diffs : d.pair = x.pair /\ d.domain = x.domain} IN
    IF found = {} THEN [prev |-> 0, change |-> "stable"]
    ELSE LET d == CHOOSE d \in found : \A e \in found : e.curr <= d.curr
         IN [prev |-> d.prev, change |-> d.change]

\* Of several target rows the last.
RankingEntry(r, p) ==
    LET mine == Rows(Live(r), p)
        shown == {x \in mine : x.target /\ x.pos = LastOf(Targets(mine, p))}
        told == IF shown = {} THEN [prev |-> 0, change |-> ""]
                ELSE Change(r, CHOOSE x \in shown : TRUE)
    IN [pair |-> p, position |-> LastOf(shown), prev |-> told.prev, change |-> told.change,
        competitors |-> {<<x.domain, x.pos>> : x \in {y \in mine : y.competitor}},
        top |-> {<<x.domain, x.pos>> : x \in {y \in mine : y.pos <= 3}}]

\* For each pair with results.
buildRankings(r) ==
    LET list == InOrder({p \in Pairs : Rows(Live(r), p) # {}})
    IN [i \in DOMAIN list |-> RankingEntry(r, list[i])]

RunRankings(r) == IF r \in DOMAIN runs THEN buildRankings(r) ELSE None

LatestRankings(page, limit) ==
    IF Latest = 0 THEN None
    ELSE [run |-> Latest, rankings |-> Page(buildRankings(Latest), page, limit),
          total |-> Len(buildRankings(Latest))]

GetRunReport(r) ==
    IF Reported(r) = {} THEN None ELSE reports[Min(Reported(r))]

\* Mutant: newest first.
PositionTrends_Newest(p, d, limit) ==
    LET ids == Newer(Recent(Finished, 1, limit))
    IN [i \in DOMAIN ids |->
          [run |-> ids[i],
           position |-> FirstOf({x \in Rows(Live(ids[i]), p) : DomainOf[x.domain] = d})]]

\* The last runs, oldest first, and where a domain was, by the names of the hosts.
PositionTrends(p, d, limit) ==
    LET ids == Newer(Recent(Finished, 1, limit))
    IN Reverse([i \in DOMAIN ids |->
          [run |-> ids[i],
           position |-> FirstOf({x \in Rows(Live(ids[i]), p) : DomainOf[x.domain] = d})]])

ListReports(page, limit) ==
    Page([i \in DOMAIN reports |-> reports[Len(reports) + 1 - i]], page, limit)

\* Mutant: compared with the run before by number, whatever became of it.
PairSummary_AnyRun(p) ==
    IF Latest = 0 THEN None
    ELSE LET prev == Latest - 1
             current == FirstOf(Targets(Live(Latest), p))
             all == UNION {Targets(runs[r].rows, p) : r \in Finished}
         IN [run |-> Latest, current |-> current,
             change |-> IF prev = 0 \/ Targets(Live(prev), p) = {} THEN 0
                        ELSE FirstOf(Targets(Live(prev), p)) - current,
             best |-> FirstOf(all), worst |-> LastOf(all),
             scans |-> Cardinality({r \in Finished : Targets(runs[r].rows, p) # {}})]

\* The change is counted from the run before even when the target is gone now.
PairSummary(p) ==
    IF Latest = 0 THEN None
    ELSE LET prev == Before(Latest)
             current == FirstOf(Targets(Live(Latest), p))
             all == UNION {Targets(runs[r].rows, p) : r \in Finished}
         IN [run |-> Latest, current |-> current,
             change |-> IF prev = 0 \/ Targets(Live(prev), p) = {} THEN 0
                        ELSE FirstOf(Targets(Live(prev), p)) - current,
             best |-> FirstOf(all), worst |-> LastOf(all),
             scans |-> Cardinality({r \in Finished : Targets(runs[r].rows, p) # {}})]

\* Mutant: deleted rows are left out, as a query through gorm would.
Scans_Live(p) == {r \in Finished : p \in DOMAIN runs[r].pair \ runs[r].removed}

\* Runs with a row of the pair, deleted or not.
Scans(p) == {r \in Finished : p \in DOMAIN runs[r].pair}

posMap(p, r) == IF r = 0 THEN 0 ELSE LastOf(Targets(runs[r].rows, p))

\* The scans of a page, numbered from the first.  The change of one needs both
\* positions, and the scan before on the same page.
PairScanHistory(p, page, limit) ==
    LET at == parsePagination(page, limit)
        shown == Recent(Scans(p), page, limit)
        was(r) == posMap(p, Newest({q \in shown : q < r}))
    IN [r \in shown |->
          [number |-> Cardinality(Scans(p)) - (at[1] - 1) * at[2]
                                            - Cardinality({q \in shown : q > r}),
           position |-> posMap(p, r),
           change |-> IF posMap(p, r) > 0 /\ was(r) > 0 THEN was(r) - posMap(p, r) ELSE 0,
           status |-> runs[r].pair[p],
           count |-> Cardinality(Rows(runs[r].rows, p)),
           hasReport |-> \E k \in Reported(r) : reports[k].status = "generated"]]

PairCompetitors(p) ==
    IF Latest = 0 THEN None
    ELSE {LET was == IF Before(Latest) = 0 THEN 0 ELSE At(Marks(Before(Latest)), p, x.domain)
          IN [domain |-> x.domain, target |-> x.target, position |-> x.pos,
              change |-> IF was = 0 THEN 0 ELSE was - x.pos] :
             x \in Rows(Marks(Latest), p)}

\* Raw queries: the latest run's rows count though their keyword was removed and
\* came back.
TrackingPairEntry(p) ==
    LET hasData == Latest # 0 /\ p \in PairsThat(Latest, "completed")
        now == posMap(p, Latest)
        was == posMap(p, IF Latest = 0 THEN 0 ELSE Before(Latest))
    IN [pair |-> p, hasData |-> hasData, latest |-> now, prev |-> was,
        change |-> IF ~hasData THEN ""
                   ELSE IF was = 0 \/ now = 0 THEN "new"
                   ELSE IF now < was THEN "improved"
                   ELSE IF now > was THEN "dropped" ELSE "stable"]

\* The job's pairs, scanned or not.
TrackingPairs(page, limit) ==
    LET list == Page(InOrder(job.tracked), page, limit)
    IN [i \in DOMAIN list |-> TrackingPairEntry(list[i])]

(***************************************************************************)
(* job.go and dashboard.go                                                 *)
(***************************************************************************)

\* By creation, the newest report with an outcome; its health stands for itself.
ListJobs ==
    LET done == {i \in DOMAIN reports : reports[i].status = "generated"}
    IN [lastRun |-> Len(runs),
        health |-> IF done = {} THEN None ELSE reports[Max(done)].run]

GetJob == [totalRuns |-> Len(runs), lastRun |-> Len(runs)]

TopTargets(r, n) == Cardinality({x \in Live(r) : x.target /\ x.pos <= n})

\* Rows are counted.  visible is out of total.
JobStats ==
    IF Latest = 0 THEN None
    ELSE [run |-> Latest,
          health |-> IF \E i \in Reported(Latest) : reports[i].status = "generated"
                     THEN Latest ELSE None,
          top3 |-> TopTargets(Latest, 3),
          top3Change |-> IF Before(Latest) = 0 THEN 0
                         ELSE TopTargets(Latest, 3) - TopTargets(Before(Latest), 3),
          visible |-> TopTargets(Latest, 10), total |-> Cardinality(job.tracked)]

\* The larger of two counts: targets beyond the tenth place, and differences.
DashboardStats ==
    IF Latest = 0 THEN None
    ELSE LET low == {x \in Live(Latest) : x.target /\ x.pos > 10}
             dropped == {d \in runs[Latest].diffs : d.delta <= -3}
         IN [total |-> Cardinality(Live(Latest)),
             dropped |-> Cardinality(dropped),
             atRisk |-> Max({Cardinality(low), Cardinality(dropped)})]

----------------------------------------------------------------------------
(***************************************************************************)
(* Properties.                                                             *)
(***************************************************************************)
\* The pair's rows are there, and its target was found once at most.
Plain(r, p) ==
    /\ r # 0 /\ p \in DOMAIN runs[r].pair \ runs[r].removed
    /\ Cardinality(Targets(runs[r].rows, p)) <= 1

EntryOf(list, p) == {list[i] : i \in {j \in DOMAIN list : list[j].pair = p}}

\* All views of a pair tell the same position of the target in the latest run;
\* the trend too, unless the job has another domain by now.
ViewsAgreeOnPosition == \A p \in job.tracked : Plain(Latest, p) =>
    LET now == PairSummary(p).current
        trend == PositionTrends(p, job.domain, 10)
    IN /\ \A e \in EntryOf(TrackingPairs(1, 20), p) : e.latest = now
       /\ \A e \in EntryOf(LatestRankings(1, 20).rankings, p) : e.position = now
       /\ PairScanHistory(p, 1, 20)[Latest].position = now
       /\ {x.position : x \in {y \in PairCompetitors(p) : y.target}} = {now} \ {0}
       /\ runs[Latest].domain = job.domain => trend[Len(trend)].position = now
       /\ now > 0 => PairSummary(p).best <= now /\ now <= PairSummary(p).worst

\* The target was not found under one host in a run and under another in the next.
SameHost(q, r, p) ==
    \A x \in Targets(runs[q].rows, p), y \in Targets(runs[r].rows, p) : x.domain = y.domain

\* When the differences of the latest run are known, and the job was after the same
\* domain in it and in the one before, all views tell the same change, unless the
\* target has moved to another of its hosts.  Then those that go by the host tell of
\* a new one, and those that go by the mark how far the target moved.
ViewsAgreeOnChange == \A p \in job.tracked :
    LET prev == IF Latest = 0 THEN 0 ELSE Before(Latest) IN
    /\ Plain(Latest, p) /\ Plain(prev, p) /\ runs[Latest].detected
    /\ runs[prev].domain = runs[Latest].domain /\ SameHost(prev, Latest, p)
    => LET summary == PairSummary(p)
           now == summary.current
           was == FirstOf(Targets(Live(prev), p))
       IN now > 0 =>
          /\ \A e \in EntryOf(RunRankings(Latest), p), f \in EntryOf(TrackingPairs(1, 20), p) :
                /\ e.change = f.change
                /\ e.change # "stable" => e.prev = f.prev
                /\ (summary.change > 0) <=> (e.change = "improved")
                /\ (summary.change < 0) <=> (e.change = "dropped")
          /\ PairScanHistory(p, 1, 20)[Latest].change = summary.change
          /\ \A c \in PairCompetitors(p) : c.target => c.change = summary.change
          /\ summary.change = IF was = 0 THEN 0 ELSE was - now

\* The marked rows of a pair and a host, and the differences told of them.
MarksOf(r, p, d) == {x \in Marks(r) : x.pair = p /\ x.domain = d}

DiffsOf(r, p, d) == {x \in runs[r].diffs : x.pair = p /\ x.domain = d}

\* The differences of a run lead from the rows of the run before to its own, for
\* every host of a domain that is followed, once at most on each page.
DiffsReplay == \A r \in Finished : runs[r].detected /\ Before(r) # 0 =>
    \A p \in Pairs, d \in Hosts :
        Cardinality(MarksOf(r, p, d)) <= 1 /\ Cardinality(MarksOf(Before(r), p, d)) <= 1
        => {x.curr : x \in DiffsOf(r, p, d)} =
              IF FirstOf(MarksOf(r, p, d)) = FirstOf(MarksOf(Before(r), p, d))
              THEN {} ELSE {FirstOf(MarksOf(r, p, d))}

\* What the scan history tells of a run of a pair, whichever page has it.
Told(p, limit, r) ==
    {PairScanHistory(p, n, limit)[r] :
        n \in {m \in 1 .. MaxRuns : r \in DOMAIN PairScanHistory(p, m, limit)}}

\* The same, but for a report that has come since, and a change that is 0 when the
\* run ends a page.
Agree(x, y) ==
    /\ y.number = x.number /\ y.position = x.position
    /\ y.status = x.status /\ y.count = x.count
    /\ x.hasReport => y.hasReport
    /\ x.change = 0 \/ y.change \in {x.change, 0}

\* What the scan history tells of a finished run of a pair, its number, position,
\* status and count of results, it tells for ever, whatever runs follow, whichever
\* page they move it to, and however the job is edited in between; and of its change
\* it never tells two that differ, other than 0.
HistoryIsKept ==
    [][\A p \in Pairs, limit \in Sizes, r \in DOMAIN runs :
          \A x \in Told(p, limit, r) : \E y \in Told(p, limit, r)' : Agree(x, y)]_vars

\* Whatever the size of the pages, each scan of a pair is on one page, and has the number
\* it has by its place among all of them.
PagesTellTheSame == \A p \in Pairs, limit \in Sizes : \A r \in Scans(p) :
    LET pages == {n \in 1 .. MaxRuns : r \in DOMAIN PairScanHistory(p, n, limit)}
    IN /\ Cardinality(pages) = 1
       /\ \A n \in pages : PairScanHistory(p, n, limit)[r].number
                             = Cardinality({q \in Scans(p) : q <= r})

\* A health score is that of a report its run's page shows as generated, the scan
\* history has and some page of the reports lists; and the runs begin with the run a
\* job's page calls its last.
ViewsAgreeOnReports ==
    /\ \A p \in Pairs : \A r \in DOMAIN PairScanHistory(p, 1, 20) :
          PairScanHistory(p, 1, 20)[r].hasReport <=>
              GetRunReport(r) # None /\ GetRunReport(r).status = "generated"
    /\ Latest # 0 /\ JobStats.health # None =>
          /\ ListJobs.health # None
          /\ \E page \in 1 .. Len(reports) : \E i \in DOMAIN ListReports(page, 20) :
                ListReports(page, 20)[i] = GetRunReport(Latest)
          /\ GetRun(Latest).completed > 0
    /\ GetJob.totalRuns > 0 =>
          /\ ListRuns(1, 20)[1] = GetJob.lastRun /\ ListJobs.lastRun = GetJob.lastRun
          /\ GetRun(GetJob.lastRun).status \in {"running", "failed"} \/ GetJob.lastRun = Latest

\* The dashboard counts as dropped no more differences than lost three places or
\* more: "Also count keywords that dropped >= 3 positions" (dashboard.go:58).
RiskCountsDrops == Latest # 0 =>
    DashboardStats.dropped <=
        Cardinality({d \in runs[Latest].diffs : d.change = "dropped" /\ d.curr - d.prev >= 3})
============================================================================
