------------------------- MODULE RankHistoryProofs -------------------------
(***************************************************************************)
(* What the views of the history tell, for any number of pairs, hosts,     *)
(* runs and edits of the job.                                              *)
(***************************************************************************)
EXTENDS RankHistory, FiniteSetTheorems, SequenceTheorems, WellFoundedInduction, TLAPS

Outcomes == {"pending", "completed", "failed"}

ResultRow == [pair : Pairs, pos : 1 .. Limit, domain : Hosts, target : BOOLEAN, competitor : BOOLEAN]

DiffRow == [pair : Pairs, domain : Hosts, prev : 0 .. Limit, curr : 0 .. Limit,
            delta : Int, change : {"new", "lost", "improved", "dropped"}]

RunRow == [status : {"running", "completed", "partial", "failed"},
           domain : Domains, competitors : SUBSET Domains,
           pair : UNION {[ps -> Outcomes] : ps \in SUBSET Pairs},
           rows : SUBSET ResultRow, diffs : SUBSET DiffRow,
           detected : BOOLEAN, removed : SUBSET Pairs]

ReportRow == [run : Nat, status : {"generating", "generated", "failed"}]

TypeOK ==
    /\ job \in [domain : Domains, competitors : SUBSET Domains, tracked : SUBSET Pairs]
    /\ runs \in Seq(RunRow) /\ Len(runs) <= MaxRuns
    /\ reports \in Seq(ReportRow)
    /\ updates \in 0 .. MaxUpdates

\* A row is of a pair that is through, and marked by the domain of its run; a run
\* has the status its pairs imply, and only the last may be in progress.
RunFits(r) ==
    /\ IsFiniteSet(runs[r].rows)
    /\ \A x \in runs[r].rows :
          /\ x.pair \in DOMAIN runs[r].pair /\ runs[r].pair[x.pair] = "completed"
          /\ x.target <=> DomainOf[x.domain] = runs[r].domain
    /\ DOMAIN runs[r].pair # {} /\ runs[r].removed \subseteq DOMAIN runs[r].pair
    /\ runs[r].status = StatusOf(runs[r].pair)
    /\ runs[r].status = "running" => r = Len(runs)
    /\ runs[r].detected => r \in Finished

Moved(p, d, was, now) == IF now = was THEN {} ELSE {Diff(p, d, was, now)}

\* The differences of a run are those between its rows and those of the run before.
DiffsFit == \A r \in Finished : runs[r].detected /\ Before(r) # 0 =>
    \A p \in Pairs, d \in Hosts :
        Cardinality(MarksOf(r, p, d)) <= 1 /\ Cardinality(MarksOf(Before(r), p, d)) <= 1
        => DiffsOf(r, p, d) =
              Moved(p, d, FirstOf(MarksOf(Before(r), p, d)), FirstOf(MarksOf(r, p, d)))

ReportsFit ==
    /\ \A i \in DOMAIN reports : reports[i].run \in Finished
    /\ \A i, j \in DOMAIN reports : reports[i].run = reports[j].run => i = j

HistoryInv == TypeOK /\ (\A r \in DOMAIN runs : RunFits(r)) /\ DiffsFit /\ ReportsFit
----------------------------------------------------------------------------
(***************************************************************************)
(* The greatest and the least of a set of numbers.                         *)
(***************************************************************************)

\* A finite set of numbers has a greatest.
LEMMA Greatest ==
  ASSUME NEW S \in SUBSET Int, IsFiniteSet(S), S # {}
  PROVE  Max(S) \in S /\ \A y \in S : y <= Max(S)
<1> DEFINE above(x) == {y \in S : y > x}
           T == {above(x) : x \in S}
<1>1. T \subseteq FiniteSubsetsOf(S)
  <2>1. \A x \in S : above(x) \subseteq S /\ IsFiniteSet(above(x))
    <3> SUFFICES ASSUME NEW x \in S PROVE IsFiniteSet(above(x))
      OBVIOUS
    <3>1. above(x) \in SUBSET S
      OBVIOUS
    <3>2. QED
      BY <3>1, FS_Subset
  <2>2. QED
    BY <2>1 DEF FiniteSubsetsOf
<1>2. PICK U \in T : \A V \in T : <<V, U>> \notin StrictSubsetOrdering(S)
  <2>1. IsWellFoundedOn(StrictSubsetOrdering(S), FiniteSubsetsOf(S))
    BY FS_StrictSubsetOrderingWellFounded
  <2>2. T # {}
    OBVIOUS
  <2> HIDE DEF T
  <2>3. QED
    BY <1>1, <2>1, <2>2, WFMin
<1>3. PICK x \in S : U = above(x)
  OBVIOUS
<1>4. above(x) = {}
  <2> SUFFICES ASSUME NEW y \in above(x) PROVE FALSE
    OBVIOUS
  <2>1. x \in Int /\ y \in Int /\ y \in S /\ y > x /\ \A z \in S : z \in Int
    OBVIOUS
  <2>2. above(y) \subseteq above(x) /\ y \notin above(y)
    <3>1. ASSUME NEW z \in S, z > y PROVE z > x
      <4>1. z \in Int
        OBVIOUS
      <4>2. QED
        BY <2>1, <3>1, <4>1
    <3>2. ~(y > y)
      BY <2>1
    <3>3. QED
      BY <3>1, <3>2
  <2>3. above(y) \in SUBSET S /\ above(x) \in SUBSET S /\ above(y) # above(x)
    BY <2>2
  <2>4. above(y) \in T
    BY <2>1
  <2> HIDE DEF above
  <2>5. <<above(y), above(x)>> \in StrictSubsetOrdering(S)
    BY <2>2, <2>3 DEF StrictSubsetOrdering
  <2>6. QED
    BY <1>2, <1>3, <2>4, <2>5
<1>5. \A y \in S : x >= y
  BY <1>4
<1>6. QED
  BY <1>5 DEF Max

\* One that is greatest, or least, is the one chosen.
LEMMA TheGreatest ==
  ASSUME NEW S \in SUBSET Int, NEW m \in S, \A y \in S : y <= m
  PROVE  Max(S) = m
<1>1. m \in Int /\ \A y \in S : m >= y
  OBVIOUS
<1>2. \A x \in S : (\A y \in S : x >= y) => x = m
  <2> SUFFICES ASSUME NEW x \in S, \A y \in S : x >= y PROVE x = m
    OBVIOUS
  <2>1. x \in Int /\ x >= m /\ x <= m
    OBVIOUS
  <2>2. QED
    BY <1>1, <2>1
<1>3. QED
  BY <1>1, <1>2 DEF Max

LEMMA TheLeast ==
  ASSUME NEW S \in SUBSET Int, NEW m \in S, \A y \in S : m <= y
  PROVE  Min(S) = m
<1>1. \A x \in S : (\A y \in S : x <= y) => x = m
  <2> SUFFICES ASSUME NEW x \in S, \A y \in S : x <= y PROVE x = m
    OBVIOUS
  <2>1. x \in Int /\ m \in Int /\ x >= m /\ x <= m
    OBVIOUS
  <2>2. QED
    BY <2>1
<1>2. QED
  BY <1>1 DEF Min

\* Of the first n numbers: none, or one not below the others.
LEMMA NewestOf ==
  ASSUME NEW n \in Nat, NEW S \in SUBSET (1 .. n)
  PROVE  \/ S = {} /\ Newest(S) = 0
         \/ Newest(S) \in S /\ \A y \in S : y <= Newest(S)
<1>1. CASE S = {}
  BY <1>1 DEF Newest
<1>2. CASE S # {}
  <2>1. IsFiniteSet(S) /\ S \in SUBSET Int
    <3>1. IsFiniteSet(1 .. n)
      BY FS_Interval, n \in Int, 1 \in Int
    <3>2. IsFiniteSet(S)
      BY <3>1, FS_Subset
    <3>3. QED
      BY <3>2
  <2>2. Max(S) \in S /\ \A y \in S : y <= Max(S)
    BY <1>2, <2>1, Greatest
  <2>3. QED
    BY <1>2, <2>2 DEF Newest
<1>3. QED
  BY <1>1, <1>2

\* A set of at most one row.
LEMMA OneRow ==
  ASSUME NEW T, IsFiniteSet(T), Cardinality(T) <= 1, \A x \in T : x.pos \in 1 .. Limit
  PROVE  \/ T = {} /\ FirstOf(T) = 0 /\ LastOf(T) = 0
         \/ \E x \in T : T = {x} /\ FirstOf(T) = x.pos /\ LastOf(T) = x.pos
<1>1. CASE T = {}
  BY <1>1 DEF FirstOf, LastOf, Newest
<1>2. CASE T # {}
  <2>1. PICK x \in T : T = {x}
    <3>1. Cardinality(T) \in Nat /\ Cardinality(T) # 0
      BY <1>2, FS_CardinalityType, FS_EmptySet
    <3>2. Cardinality(T) = 1
      BY <3>1
    <3>3. QED
      BY <3>2, FS_Singleton
  <2>2. {y.pos : y \in T} = {x.pos} /\ x.pos \in Int
    BY <2>1, RankHistoryAssumption
  <2> DEFINE S == {x.pos}
  <2>3. S \in SUBSET Int /\ x.pos \in S /\ \A y \in S : y <= x.pos /\ x.pos <= y
    BY <2>2
  <2> HIDE DEF S
  <2>4. Max(S) = x.pos /\ Min(S) = x.pos
    BY <2>3, TheGreatest, TheLeast
  <2>5. Max({x.pos}) = x.pos /\ Min({x.pos}) = x.pos
    BY <2>4 DEF S
  <2>6. QED
    BY <2>1, <2>2, <2>5 DEF FirstOf, LastOf, Newest
<1>3. QED
  BY <1>1, <1>2
----------------------------------------------------------------------------
(***************************************************************************)
(* What each action does to the rows.                                      *)
(***************************************************************************)

\* One run is replaced by another value of its type.
LEMMA OneRun ==
  ASSUME runs \in Seq(RunRow), NEW r \in DOMAIN runs, NEW row \in RunRow,
         runs' = [runs EXCEPT ![r] = row]
  PROVE  /\ runs' \in Seq(RunRow) /\ Len(runs') = Len(runs) /\ DOMAIN runs' = DOMAIN runs
         /\ runs'[r] = row /\ \A q \in DOMAIN runs \ {r} : runs'[q] = runs[q]
OBVIOUS

LEMMA RunsAre ==
  ASSUME TypeOK
  PROVE  /\ DOMAIN runs = 1 .. Len(runs) /\ Len(runs) \in Nat
         /\ \A r \in DOMAIN runs : runs[r] \in RunRow /\ r \in Nat \ {0}
         /\ Finished \subseteq DOMAIN runs /\ Running \subseteq DOMAIN runs
         /\ \A r \in DOMAIN runs : r \in Finished <=> runs[r].status \in {"completed", "partial"}
BY DEF TypeOK, Finished, Running

\* The rows a page gives are of the searched pair, marked by the run's domains.
LEMMA PageRows ==
  ASSUME NEW r, NEW p \in Pairs, NEW pg \in Pages
  PROVE  /\ IsFiniteSet(Marked(r, p, pg)) /\ Marked(r, p, pg) \subseteq ResultRow
         /\ \A x \in Marked(r, p, pg) : x.pair = p /\ (x.target <=> DomainOf[x.domain] = runs[r].domain)
<1> DEFINE row(i) == [pair |-> p, pos |-> i, domain |-> pg[i], target |-> DomainOf[pg[i]] = runs[r].domain,
                      competitor |-> DomainOf[pg[i]] \in runs[r].competitors]
           places == {j \in DOMAIN pg : pg[j] # None}
<1>1. Marked(r, p, pg) = {row(i) : i \in places}
  BY DEF Marked
<1>2. IsFiniteSet(places)
  <2>1. IsFiniteSet(1 .. Limit) /\ DOMAIN pg \subseteq 1 .. Limit
    BY RankHistoryAssumption, FS_Interval, Limit \in Int, 1 \in Int
  <2>2. places \in SUBSET (1 .. Limit)
    BY <2>1
  <2>3. QED
    BY <2>1, <2>2, FS_Subset
<1>3. IsFiniteSet({row(i) : i \in places})
  <2> DEFINE f == [i \in places |-> row(i)]
  <2>1. f \in Surjection(places, {row(i) : i \in places})
    BY DEF Surjection
  <2>2. QED
    BY <1>2, <2>1, FS_Surjection
<1>4. \A i \in places : row(i) \in ResultRow
  BY RankHistoryAssumption DEF ResultRow
<1>5. \A i \in places : row(i).pair = p /\ (row(i).target <=> DomainOf[row(i).domain] = runs[r].domain)
  OBVIOUS
<1> HIDE DEF row, places
<1>6. QED
  BY <1>1, <1>3, <1>4, <1>5

LEMMA TriggerIs ==
  ASSUME TypeOK, TriggerScrapeForJob
  PROVE  /\ runs' \in Seq(RunRow) /\ Len(runs') = Len(runs) + 1 /\ Len(runs') <= MaxRuns
         /\ \A q \in DOMAIN runs : q \in DOMAIN runs' /\ runs'[q] = runs[q]
         /\ LET r == Len(runs') IN
            /\ DOMAIN runs' = DOMAIN runs \cup {r} /\ r \notin DOMAIN runs
            /\ runs'[r].status = "running" /\ runs'[r].rows = {} /\ ~runs'[r].detected
            /\ runs'[r].pair = [p \in job.tracked |-> "pending"] /\ runs'[r].removed = {}
<1> DEFINE row == [status |-> "running", domain |-> job.domain, competitors |-> job.competitors,
           pair |-> [p \in job.tracked |-> "pending"], rows |-> {}, diffs |-> {},
           detected |-> FALSE, removed |-> {}]
<1>1. row \in RunRow
  <2>1. [p \in job.tracked |-> "pending"] \in UNION {[ps -> Outcomes] : ps \in SUBSET Pairs}
    BY DEF TypeOK, Outcomes
  <2>2. QED
    BY <2>1 DEF TypeOK, RunRow
<1>2. runs' = Append(runs, row) /\ Len(runs) < MaxRuns
  BY DEF TriggerScrapeForJob
<1>3. runs' \in Seq(RunRow) /\ Len(runs') = Len(runs) + 1 /\ runs \in Seq(RunRow)
      /\ runs'[Len(runs) + 1] = row /\ \A q \in 1 .. Len(runs) : runs'[q] = runs[q]
  <2> HIDE DEF row
  <2>1. QED
    BY <1>1, <1>2 DEF TypeOK
<1>4. Len(runs') <= MaxRuns
  BY <1>2, <1>3, RankHistoryAssumption
<1>5. QED
  BY <1>3, <1>4

LEMMA SettleIs ==
  ASSUME TypeOK, NEW r \in Running, NEW p \in DOMAIN runs[r].pair, NEW outcome \in Outcomes,
         NEW rows \in SUBSET ResultRow, Settle(r, p, outcome, rows)
  PROVE  /\ runs' \in Seq(RunRow) /\ Len(runs') = Len(runs) /\ DOMAIN runs' = DOMAIN runs
         /\ \A q \in DOMAIN runs \ {r} : runs'[q] = runs[q]
         /\ runs'[r].pair = [runs[r].pair EXCEPT ![p] = outcome]
         /\ runs'[r].status = StatusOf([runs[r].pair EXCEPT ![p] = outcome])
         /\ runs'[r].rows = runs[r].rows \cup rows /\ runs'[r].removed = runs[r].removed
         /\ runs'[r].domain = runs[r].domain /\ runs'[r].detected = runs[r].detected
         /\ runs'[r].diffs = runs[r].diffs
<1> DEFINE pair == [runs[r].pair EXCEPT ![p] = outcome]
           row == [runs[r] EXCEPT !.pair = pair, !.status = StatusOf(pair), !.rows = @ \cup rows]
<1>1. r \in DOMAIN runs /\ runs[r] \in RunRow
  BY RunsAre
<1>2. PICK ps \in SUBSET Pairs : runs[r].pair \in [ps -> Outcomes]
  BY <1>1 DEF RunRow
<1>3. pair \in [ps -> Outcomes]
  BY <1>2
<1>4. StatusOf(pair) \in {"running", "completed", "partial", "failed"}
  BY DEF StatusOf
<1>5. row \in RunRow
  <2>1. pair \in UNION {[qs -> Outcomes] : qs \in SUBSET Pairs}
    BY <1>3
  <2> HIDE DEF pair
  <2>2. QED
    BY <1>1, <1>4, <2>1 DEF RunRow
<1>6. runs' = [runs EXCEPT ![r] = row]
  BY <1>1 DEF Settle
<1>7. QED
  <2> HIDE DEF row
  <2>1. /\ runs' \in Seq(RunRow) /\ Len(runs') = Len(runs) /\ DOMAIN runs' = DOMAIN runs
        /\ runs'[r] = row /\ \A q \in DOMAIN runs \ {r} : runs'[q] = runs[q]
    BY <1>1, <1>5, <1>6, OneRun DEF TypeOK
  <2> HIDE DEF pair
  <2>3. /\ row.pair = pair /\ row.status = StatusOf(pair)
        /\ row.rows = runs[r].rows \cup rows /\ row.removed = runs[r].removed
        /\ row.domain = runs[r].domain /\ row.detected = runs[r].detected
        /\ row.diffs = runs[r].diffs
    BY <1>1 DEF row, RunRow
  <2>4. QED
    BY <2>1, <2>3 DEF pair

\* Differences are of rows found, and positions are within a page.
LEMMA DiffsAre ==
  ASSUME TypeOK, NEW r \in DOMAIN runs, NEW q \in DOMAIN runs
  PROVE  Diffs(r, q) \subseteq DiffRow
<1>1. Marks(r) \subseteq ResultRow /\ Marks(q) \subseteq ResultRow
  BY RunsAre DEF Marks, Live, RunRow
<1>2. ASSUME NEW n \in DOMAIN runs, NEW p, NEW d PROVE At(Marks(n), p, d) \in 0 .. Limit
  <2> DEFINE S == {x.pos : x \in {y \in Marks(n) : y.pair = p /\ y.domain = d}}
  <2>1. Marks(n) \subseteq ResultRow
    BY RunsAre DEF Marks, Live, RunRow
  <2>2. S \in SUBSET (1 .. Limit)
    BY <2>1 DEF ResultRow
  <2>3. At(Marks(n), p, d) = Newest(S)
    BY DEF At
  <2> HIDE DEF S
  <2>4. Newest(S) = 0 \/ Newest(S) \in 1 .. Limit
    BY <2>2, NewestOf, RankHistoryAssumption
  <2>5. QED
    BY <2>3, <2>4, RankHistoryAssumption
<1>3. ASSUME NEW p \in Pairs, NEW d \in Hosts, NEW was \in 0 .. Limit, NEW now \in 0 .. Limit
      PROVE  Diff(p, d, was, now) \in DiffRow
  BY RankHistoryAssumption DEF Diff, DiffRow
<1>4. ASSUME NEW x \in Marks(r), NEW was \in 0 .. Limit PROVE Diff(x.pair, x.domain, was, x.pos) \in DiffRow
  <2>1. x.pair \in Pairs /\ x.domain \in Hosts /\ x.pos \in 0 .. Limit
    BY <1>1, RankHistoryAssumption DEF ResultRow
  <2>2. QED
    BY <1>3, <2>1
<1>5. ASSUME NEW x \in Marks(q) PROVE Diff(x.pair, x.domain, x.pos, 0) \in DiffRow
  <2>1. x.pair \in Pairs /\ x.domain \in Hosts /\ x.pos \in 0 .. Limit /\ 0 \in 0 .. Limit
    BY <1>1, RankHistoryAssumption DEF ResultRow
  <2>2. QED
    BY <1>3, <2>1
<1>6. \A x \in Marks(r) : Diff(x.pair, x.domain, At(Marks(q), x.pair, x.domain), x.pos) \in DiffRow
  BY <1>2, <1>4
<1>7. \A x \in Marks(q) : Diff(x.pair, x.domain, x.pos, 0) \in DiffRow
  BY <1>5
<1>8. QED
  BY <1>6, <1>7 DEF Diffs

\* The run before is one of those that ended well, and the last of them.
LEMMA BeforeIs ==
  ASSUME TypeOK, NEW r \in DOMAIN runs
  PROVE  \/ Before(r) = 0 /\ {q \in Finished : q < r} = {}
         \/ /\ Before(r) \in Finished /\ Before(r) \in DOMAIN runs /\ Before(r) < r /\ Before(r) # 0
            /\ \A q \in Finished : q < r => q <= Before(r)
<1> DEFINE S == {q \in Finished : q < r}
<1>1. S \in SUBSET (1 .. Len(runs)) /\ Len(runs) \in Nat /\ Finished \subseteq DOMAIN runs
  BY RunsAre
<1>2. \/ S = {} /\ Newest(S) = 0
      \/ Newest(S) \in S /\ \A y \in S : y <= Newest(S)
  BY <1>1, NewestOf
<1>3. Before(r) = Newest(S)
  BY DEF Before
<1>4. \A n \in S : n \in Finished /\ n \in DOMAIN runs /\ n < r /\ n # 0
  BY <1>1, RunsAre
<1>5. QED
  BY <1>2, <1>3, <1>4

LEMMA DetectIs ==
  ASSUME TypeOK, NEW r \in Finished,
         runs' = [runs EXCEPT ![r].detected = TRUE,
                     ![r].diffs = IF Before(r) = 0 THEN {} ELSE Diffs(r, Before(r))]
  PROVE  /\ runs' \in Seq(RunRow) /\ Len(runs') = Len(runs) /\ DOMAIN runs' = DOMAIN runs
         /\ \A q \in DOMAIN runs \ {r} : runs'[q] = runs[q]
         /\ runs'[r] = [runs[r] EXCEPT !.detected = TRUE,
                           !.diffs = IF Before(r) = 0 THEN {} ELSE Diffs(r, Before(r))]
<1> DEFINE diffs == IF Before(r) = 0 THEN {} ELSE Diffs(r, Before(r))
           row == [runs[r] EXCEPT !.detected = TRUE, !.diffs = diffs]
<1>1. r \in DOMAIN runs /\ runs[r] \in RunRow
  BY RunsAre
<1>2. diffs \subseteq DiffRow
  BY <1>1, BeforeIs, DiffsAre
<1> HIDE DEF diffs
<1>3. row \in RunRow
  BY <1>1, <1>2 DEF RunRow
<1>4. runs' = [runs EXCEPT ![r] = row]
  BY <1>1 DEF diffs
<1>5. QED
  <2> HIDE DEF row
  <2>1. /\ runs' \in Seq(RunRow) /\ Len(runs') = Len(runs) /\ DOMAIN runs' = DOMAIN runs
        /\ runs'[r] = row /\ \A q \in DOMAIN runs \ {r} : runs'[q] = runs[q]
    BY <1>1, <1>3, <1>4, OneRun DEF TypeOK
  <2>2. QED
    BY <2>1 DEF row, diffs

\* An update removes the rows and the differences of the pairs that go.
LEMMA UpdateIs ==
  ASSUME TypeOK, UpdateJob
  PROVE  \E gone \in SUBSET Pairs :
         /\ Running = {} \/ gone = {}
         /\ runs' \in Seq(RunRow) /\ Len(runs') = Len(runs) /\ DOMAIN runs' = DOMAIN runs
         /\ \A r \in DOMAIN runs :
               runs'[r] = [runs[r] EXCEPT !.removed = @ \cup (gone \cap DOMAIN runs[r].pair),
                                          !.diffs = {x \in @ : x.pair \notin gone}]
         /\ job' \in [domain : Domains, competitors : SUBSET Domains, tracked : SUBSET Pairs]
<1>1. PICK d \in Domains, cs \in SUBSET Domains, ps \in Selections :
         /\ Running = {} \/ Gone(ps) = {}
         /\ job' = [domain |-> d, competitors |-> cs, tracked |-> ps]
         /\ runs' = [r \in DOMAIN runs |->
               [runs[r] EXCEPT !.removed = @ \cup (Gone(ps) \cap DOMAIN runs[r].pair),
                               !.diffs = {x \in @ : x.pair \notin Gone(ps)}]]
  BY DEF UpdateJob
<1> DEFINE gone == Gone(ps)
           row(r) == [runs[r] EXCEPT !.removed = @ \cup (gone \cap DOMAIN runs[r].pair),
                                     !.diffs = {x \in @ : x.pair \notin gone}]
<1>2. gone \in SUBSET Pairs
  BY DEF Gone
<1>3. \A r \in DOMAIN runs : row(r) \in RunRow
  <2> SUFFICES ASSUME NEW r \in DOMAIN runs PROVE row(r) \in RunRow
    OBVIOUS
  <2>1. runs[r] \in RunRow
    BY RunsAre
  <2>2. gone \cap DOMAIN runs[r].pair \subseteq Pairs
    BY <1>2
  <2>3. {x \in runs[r].diffs : x.pair \notin gone} \subseteq DiffRow
    BY <2>1 DEF RunRow
  <2> HIDE DEF gone
  <2>4. QED
    BY <2>1, <2>2, <2>3 DEF RunRow
<1>4. runs' = [r \in DOMAIN runs |-> row(r)]
  BY <1>1
<1>5. DOMAIN runs = 1 .. Len(runs) /\ Len(runs) \in Nat
  BY RunsAre
<1>6. runs' \in Seq(RunRow) /\ Len(runs') = Len(runs) /\ DOMAIN runs' = DOMAIN runs
  <2> HIDE DEF row
  <2>1. QED
    BY <1>3, <1>4, <1>5
<1>7. \A r \in DOMAIN runs : runs'[r] = row(r)
  BY <1>4
<1>8. /\ Running = {} \/ gone = {}
      /\ job' \in [domain : Domains, competitors : SUBSET Domains, tracked : SUBSET Pairs]
  BY <1>1, RankHistoryAssumption
<1>9. QED
  BY <1>2, <1>6, <1>7, <1>8

----------------------------------------------------------------------------
(***************************************************************************)
(* The invariant.                                                          *)
(***************************************************************************)

\* A report is started of a run that has none, and gets its outcome once.
LEMMA ReportsAre ==
  ASSUME TypeOK, UNCHANGED runs, StartReport \/ EndReport
  PROVE  /\ reports' \in Seq(ReportRow)
         /\ ReportsFit => ReportsFit'
<1>1. CASE StartReport
  <2>1. PICK r \in Finished : Reported(r) = {} /\ reports' = Append(reports, [run |-> r, status |-> "generating"])
    BY <1>1 DEF StartReport
  <2>2. r \in Nat
    BY RunsAre
  <2>3. reports' \in Seq(ReportRow)
    BY <2>1, <2>2 DEF TypeOK, ReportRow
  <2>4. /\ DOMAIN reports' = DOMAIN reports \cup {Len(reports) + 1} /\ Len(reports) + 1 \notin DOMAIN reports
        /\ reports'[Len(reports) + 1].run = r /\ \A i \in DOMAIN reports : reports'[i] = reports[i]
    BY <2>1, <2>2 DEF TypeOK
  <2>5. \A i \in DOMAIN reports : reports[i].run # r
    BY <2>1 DEF Reported
  <2>6. Finished' = Finished
    BY DEF Finished
  <2>7. QED
    BY <2>3, <2>4, <2>5, <2>6 DEF ReportsFit
<1>2. CASE EndReport
  <2>1. PICK i \in DOMAIN reports, status \in {"generated", "failed"} :
           reports' = [reports EXCEPT ![i].status = status]
    BY <1>2 DEF EndReport
  <2>2. DOMAIN reports' = DOMAIN reports /\ \A k \in DOMAIN reports : reports'[k].run = reports[k].run
    BY <2>1 DEF TypeOK, ReportRow
  <2>3. reports' \in Seq(ReportRow)
    <3> DEFINE row == [reports[i] EXCEPT !.status = status]
    <3>0. reports[i] \in ReportRow
      BY DEF TypeOK
    <3>1. row \in ReportRow
      BY <3>0 DEF ReportRow
    <3>2. reports' = [reports EXCEPT ![i] = row] /\ reports \in Seq(ReportRow)
      BY <2>1 DEF TypeOK
    <3> HIDE DEF row
    <3>3. QED
      BY <3>1, <3>2
  <2>4. Finished' = Finished
    BY DEF Finished
  <2>5. QED
    BY <2>2, <2>3, <2>4 DEF ReportsFit
<1>3. QED
  BY <1>1, <1>2

LEMMA TypesKeep ==
  ASSUME TypeOK, [Next]_vars
  PROVE  TypeOK'
<1>1. CASE TriggerScrapeForJob
  BY <1>1, TriggerIs DEF TriggerScrapeForJob, TypeOK
<1>2. CASE Scrape
  <2>1. UNCHANGED <<job, reports, updates>>
    BY <1>2 DEF Scrape
  <2>0. PICK r \in Running : \E p \in DOMAIN runs[r].pair :
           \/ Settle(r, p, "failed", {})
           \/ \E pg \in Pages : Settle(r, p, "completed", Marked(r, p, pg))
    BY <1>2 DEF Scrape
  <2>2. PICK p \in DOMAIN runs[r].pair :
           \/ Settle(r, p, "failed", {})
           \/ \E pg \in Pages : Settle(r, p, "completed", Marked(r, p, pg))
    BY <2>0
  <2>3. p \in Pairs
    <3>1. runs[r] \in RunRow
      BY RunsAre
    <3>2. QED
      BY <3>1 DEF RunRow
  <2>4. runs' \in Seq(RunRow) /\ Len(runs') = Len(runs)
    <3>1. CASE Settle(r, p, "failed", {})
      BY <3>1, SettleIs, "failed" \in Outcomes, {} \in SUBSET ResultRow DEF Outcomes
    <3>2. ASSUME NEW pg \in Pages, Settle(r, p, "completed", Marked(r, p, pg))
          PROVE  runs' \in Seq(RunRow) /\ Len(runs') = Len(runs)
      <4>1. Marked(r, p, pg) \in SUBSET ResultRow /\ "completed" \in Outcomes
        BY <2>3, PageRows DEF Outcomes
      <4>2. QED
        BY <3>2, <4>1, SettleIs
    <3>3. QED
      BY <2>2, <3>1, <3>2
  <2>5. QED
    BY <2>1, <2>4 DEF TypeOK
<1>3. CASE Detect
  <2>1. UNCHANGED <<job, reports, updates>>
    BY <1>3 DEF Detect
  <2>2. PICK r \in Finished :
           runs' = [runs EXCEPT ![r].detected = TRUE,
                      ![r].diffs = IF Before(r) = 0 THEN {} ELSE Diffs(r, Before(r))]
    BY <1>3 DEF Detect
  <2>3. runs' \in Seq(RunRow) /\ Len(runs') = Len(runs)
    BY <2>2, DetectIs
  <2>4. QED
    BY <2>1, <2>3 DEF TypeOK
<1>4. CASE StartReport \/ EndReport
  BY <1>4, ReportsAre DEF StartReport, EndReport, TypeOK
<1>5. CASE UpdateJob
  <2>1. runs' \in Seq(RunRow) /\ Len(runs') = Len(runs)
        /\ job' \in [domain : Domains, competitors : SUBSET Domains, tracked : SUBSET Pairs]
    BY <1>5, UpdateIs
  <2>2. reports' = reports /\ updates' = updates + 1 /\ updates < MaxUpdates
    BY <1>5 DEF UpdateJob
  <2>3. QED
    BY <2>1, <2>2, RankHistoryAssumption DEF TypeOK
<1>6. CASE UNCHANGED vars
  BY <1>6 DEF vars, TypeOK
<1>7. QED
  BY <1>1, <1>2, <1>3, <1>4, <1>5, <1>6 DEF Next

\* What fits a run is about nothing but its pairs, rows and marks.
LEMMA SameFits ==
  ASSUME TypeOK, TypeOK', NEW r \in DOMAIN runs, r \in DOMAIN runs', RunFits(r),
         runs'[r].rows = runs[r].rows, runs'[r].pair = runs[r].pair,
         runs'[r].domain = runs[r].domain, runs'[r].status = runs[r].status,
         runs'[r].removed \subseteq DOMAIN runs[r].pair,
         runs'[r].detected => runs[r].status \in {"completed", "partial"},
         runs[r].status = "running" => Len(runs') = Len(runs)
  PROVE  RunFits(r)'
<1>1. RunFits(r)' <=>
        /\ IsFiniteSet(runs'[r].rows)
        /\ \A x \in runs'[r].rows :
              /\ x.pair \in DOMAIN runs'[r].pair /\ runs'[r].pair[x.pair] = "completed"
              /\ x.target <=> DomainOf[x.domain] = runs'[r].domain
        /\ DOMAIN runs'[r].pair # {} /\ runs'[r].removed \subseteq DOMAIN runs'[r].pair
        /\ runs'[r].status = StatusOf(runs'[r].pair)
        /\ runs'[r].status = "running" => r = Len(runs')
        /\ runs'[r].detected => r \in Finished'
  BY DEF RunFits, StatusOf
<1>2. r \in Finished' <=> runs'[r].status \in {"completed", "partial"}
  BY DEF Finished
<1>3. QED
  BY <1>1, <1>2 DEF RunFits

LEMMA RunsFit ==
  ASSUME TypeOK, \A r \in DOMAIN runs : RunFits(r), [Next]_vars
  PROVE  \A r \in DOMAIN runs' : RunFits(r)'
<1>0. TypeOK'
  BY TypesKeep
<1>1. CASE TriggerScrapeForJob
  <2>0. PICK r : r = Len(runs')
    OBVIOUS
  <2>1. /\ \A q \in DOMAIN runs : q \in DOMAIN runs' /\ runs'[q] = runs[q]
        /\ DOMAIN runs' = DOMAIN runs \cup {r} /\ r \notin DOMAIN runs
        /\ runs'[r].status = "running" /\ runs'[r].rows = {} /\ ~runs'[r].detected
        /\ runs'[r].pair = [p \in job.tracked |-> "pending"] /\ runs'[r].removed = {}
    BY <1>1, <2>0, TriggerIs
  <2>2. Running = {} /\ job.tracked # {}
    BY <1>1 DEF TriggerScrapeForJob
  <2>3. \A q \in DOMAIN runs : RunFits(q)'
    <3> SUFFICES ASSUME NEW q \in DOMAIN runs PROVE RunFits(q)'
      OBVIOUS
    <3>1. runs[q].status # "running"
      BY <2>2 DEF Running
    <3>2. RunFits(q) /\ runs[q].removed \subseteq DOMAIN runs[q].pair
          /\ (runs[q].detected => runs[q].status \in {"completed", "partial"})
      BY RunsAre DEF RunFits
    <3>3. QED
      BY <1>0, <2>1, <3>1, <3>2, SameFits
  <2>4. RunFits(r)'
    <3>1. IsFiniteSet({})
      BY FS_EmptySet
    <3>2. \E p \in job.tracked : runs'[r].pair[p] = "pending"
      BY <2>1, <2>2
    <3>3. runs'[r].status = StatusOf(runs'[r].pair) /\ DOMAIN runs'[r].pair # {}
      BY <2>1, <2>2, <3>2 DEF StatusOf
    <3>4. QED
      BY <2>0, <2>1, <3>1, <3>3 DEF RunFits, StatusOf
  <2>5. QED
    BY <2>1, <2>3, <2>4
<1>2. CASE Scrape
  <2>1. PICK r \in Running : \E p \in DOMAIN runs[r].pair :
           /\ runs[r].pair[p] = "pending"
           /\ \/ Settle(r, p, "failed", {})
              \/ \E pg \in Pages : Settle(r, p, "completed", Marked(r, p, pg))
    BY <1>2 DEF Scrape
  <2>2. PICK p \in DOMAIN runs[r].pair :
           /\ runs[r].pair[p] = "pending"
           /\ \/ Settle(r, p, "failed", {})
              \/ \E pg \in Pages : Settle(r, p, "completed", Marked(r, p, pg))
    BY <2>1
  <2>3. r \in DOMAIN runs /\ runs[r] \in RunRow /\ runs[r].status = "running" /\ RunFits(r)
    BY RunsAre DEF Running
  <2>4. p \in Pairs /\ ~runs[r].detected
    <3>1. runs[r].status \notin {"completed", "partial"}
      BY <2>3
    <3>2. QED
      BY <2>3, <3>1, RunsAre DEF RunRow, RunFits
  <2>5. ASSUME NEW outcome \in Outcomes, NEW rows \in SUBSET ResultRow,
               Settle(r, p, outcome, rows), IsFiniteSet(rows),
               rows # {} => outcome = "completed",
               \A x \in rows : x.pair = p /\ (x.target <=> DomainOf[x.domain] = runs[r].domain)
        PROVE  \A q \in DOMAIN runs' : RunFits(q)'
    <3> DEFINE pair == [runs[r].pair EXCEPT ![p] = outcome]
    <3>1. /\ Len(runs') = Len(runs) /\ DOMAIN runs' = DOMAIN runs
          /\ \A q \in DOMAIN runs \ {r} : runs'[q] = runs[q]
          /\ runs'[r].pair = pair /\ runs'[r].status = StatusOf(pair)
          /\ runs'[r].rows = runs[r].rows \cup rows /\ runs'[r].removed = runs[r].removed
          /\ runs'[r].domain = runs[r].domain /\ runs'[r].detected = runs[r].detected
      BY <2>2, <2>3, <2>5, SettleIs
    <3>2. DOMAIN pair = DOMAIN runs[r].pair /\ pair[p] = outcome
          /\ \A n \in DOMAIN pair \ {p} : pair[n] = runs[r].pair[n]
      BY <2>3 DEF RunRow
    <3> HIDE DEF pair
    <3>4. RunFits(r)'
      <4>1. IsFiniteSet(runs[r].rows \cup rows)
        BY <2>3, <2>5, FS_Union DEF RunFits
      <4>2. r = Len(runs')
        BY <2>3, <3>1 DEF RunFits
      <4>3. ASSUME NEW x \in runs[r].rows \cup rows
            PROVE  x.pair \in DOMAIN pair /\ pair[x.pair] = "completed" /\ (x.target <=> DomainOf[x.domain] = runs[r].domain)
        <5>1. CASE x \in rows
          BY <2>5, <3>2, <5>1
        <5>2. CASE x \in runs[r].rows
          <6>1. x.pair \in DOMAIN runs[r].pair /\ runs[r].pair[x.pair] = "completed" /\ (x.target <=> DomainOf[x.domain] = runs[r].domain)
            BY <2>3, <5>2 DEF RunFits
          <6>2. x.pair # p
            BY <2>2, <6>1
          <6>3. QED
            BY <3>2, <6>1, <6>2
        <5>3. QED
          BY <5>1, <5>2
      <4>4. DOMAIN pair # {} /\ runs[r].removed \subseteq DOMAIN pair
        BY <2>3, <3>2 DEF RunFits
      <4>5. QED
        BY <2>4, <3>1, <4>1, <4>2, <4>3, <4>4 DEF RunFits, StatusOf
    <3>5. ASSUME NEW q \in DOMAIN runs \ {r} PROVE RunFits(q)'
      <4>1. RunFits(q) /\ runs'[q] = runs[q] /\ q \in DOMAIN runs'
        BY <3>1
      <4>2. runs[q].removed \subseteq DOMAIN runs[q].pair
            /\ (runs[q].detected => runs[q].status \in {"completed", "partial"})
        BY <4>1, RunsAre DEF RunFits
      <4>3. QED
        BY <1>0, <3>1, <4>1, <4>2, SameFits
    <3>6. QED
      BY <3>1, <3>4, <3>5
  <2>6. CASE Settle(r, p, "failed", {})
    BY <2>5, <2>6, "failed" \in Outcomes, {} \in SUBSET ResultRow, FS_EmptySet DEF Outcomes
  <2>7. ASSUME NEW pg \in Pages, Settle(r, p, "completed", Marked(r, p, pg))
        PROVE  \A q \in DOMAIN runs' : RunFits(q)'
    <3>1. "completed" \in Outcomes
      BY DEF Outcomes
    <3>2. PICK rows : rows = Marked(r, p, pg)
      OBVIOUS
    <3>3. /\ rows \in SUBSET ResultRow /\ IsFiniteSet(rows)
          /\ \A x \in rows : x.pair = p /\ (x.target <=> DomainOf[x.domain] = runs[r].domain)
      BY <2>4, <3>2, PageRows
    <3>4. QED
      BY <2>5, <2>7, <3>1, <3>2, <3>3
  <2>8. QED
    BY <2>2, <2>6, <2>7
<1>3. CASE Detect
  <2>1. PICK r \in Finished :
           runs' = [runs EXCEPT ![r].detected = TRUE,
                      ![r].diffs = IF Before(r) = 0 THEN {} ELSE Diffs(r, Before(r))]
    BY <1>3 DEF Detect
  <2>2. /\ Len(runs') = Len(runs) /\ DOMAIN runs' = DOMAIN runs
        /\ \A q \in DOMAIN runs \ {r} : runs'[q] = runs[q]
        /\ runs'[r] = [runs[r] EXCEPT !.detected = TRUE,
                           !.diffs = IF Before(r) = 0 THEN {} ELSE Diffs(r, Before(r))]
    BY <2>1, DetectIs
  <2>3. SUFFICES ASSUME NEW q \in DOMAIN runs PROVE RunFits(q)'
    BY <2>2
  <2>4. runs[q] \in RunRow /\ RunFits(q)
    BY RunsAre
  <2>5. /\ runs'[q].rows = runs[q].rows /\ runs'[q].pair = runs[q].pair
        /\ runs'[q].domain = runs[q].domain /\ runs'[q].status = runs[q].status
        /\ runs'[q].removed = runs[q].removed /\ (q # r => runs'[q].detected = runs[q].detected)
    <3>1. CASE q = r
      <4> DEFINE diffs == IF Before(r) = 0 THEN {} ELSE Diffs(r, Before(r))
      <4>1. runs'[q] = [runs[q] EXCEPT !.detected = TRUE, !.diffs = diffs]
        BY <2>2, <3>1
      <4> HIDE DEF diffs
      <4>2. QED
        BY <2>4, <3>1, <4>1 DEF RunRow
    <3>2. CASE q # r
      BY <2>2, <3>2
    <3>3. QED
      BY <3>1, <3>2
  <2>6. runs[q].removed \subseteq DOMAIN runs[q].pair
        /\ (runs'[q].detected => runs[q].status \in {"completed", "partial"})
    BY <2>4, <2>5, RunsAre DEF RunFits
  <2>7. QED
    BY <1>0, <2>2, <2>4, <2>5, <2>6, SameFits
<1>4. CASE UpdateJob
  <2>1. PICK gone \in SUBSET Pairs :
         /\ Len(runs') = Len(runs) /\ DOMAIN runs' = DOMAIN runs
         /\ \A r \in DOMAIN runs :
               runs'[r] = [runs[r] EXCEPT !.removed = @ \cup (gone \cap DOMAIN runs[r].pair),
                                          !.diffs = {x \in @ : x.pair \notin gone}]
    BY <1>4, UpdateIs
  <2>2. SUFFICES ASSUME NEW q \in DOMAIN runs PROVE RunFits(q)'
    BY <2>1
  <2>3. runs[q] \in RunRow /\ RunFits(q)
    BY RunsAre
  <2>4. /\ runs'[q].rows = runs[q].rows /\ runs'[q].pair = runs[q].pair
        /\ runs'[q].domain = runs[q].domain /\ runs'[q].status = runs[q].status
        /\ runs'[q].removed = runs[q].removed \cup (gone \cap DOMAIN runs[q].pair)
        /\ runs'[q].detected = runs[q].detected
    BY <2>1, <2>3 DEF RunRow
  <2>5. runs'[q].removed \subseteq DOMAIN runs[q].pair
        /\ (runs'[q].detected => runs[q].status \in {"completed", "partial"})
    BY <2>3, <2>4, RunsAre DEF RunFits
  <2>6. QED
    BY <1>0, <2>1, <2>3, <2>4, <2>5, SameFits
<1>5. CASE UNCHANGED runs
  <2> SUFFICES ASSUME NEW q \in DOMAIN runs PROVE RunFits(q)'
    BY <1>5
  <2>1. RunFits(q) /\ runs[q].removed \subseteq DOMAIN runs[q].pair
        /\ (runs[q].detected => runs[q].status \in {"completed", "partial"})
    BY RunsAre DEF RunFits
  <2>2. QED
    BY <1>0, <1>5, <2>1, SameFits
<1>6. QED
  BY <1>1, <1>2, <1>3, <1>4, <1>5 DEF Next, vars, StartReport, EndReport

\* Of a run that has ended well only marks, differences and detection change, and
\* the one that newly ends is the last.
LEMMA FinishedStay ==
  ASSUME TypeOK, \A r \in DOMAIN runs : RunFits(r), [Next]_vars
  PROVE  /\ \A r \in Finished :
               /\ r \in Finished' /\ r \in DOMAIN runs'
               /\ runs'[r].rows = runs[r].rows /\ runs'[r].pair = runs[r].pair
               /\ runs'[r].domain = runs[r].domain /\ runs'[r].status = runs[r].status
         /\ \A n \in Finished' \ Finished : n = Len(runs) /\ ~runs'[n].detected
<1>0. TypeOK'
  BY TypesKeep
<1>1. \A r \in DOMAIN runs : runs[r] \in RunRow /\ (r \in Finished <=> runs[r].status \in {"completed", "partial"})
  BY RunsAre
<1>2. \A r : r \in Finished' <=> r \in DOMAIN runs' /\ runs'[r].status \in {"completed", "partial"}
  BY DEF Finished
<1>3. Finished \subseteq DOMAIN runs
  BY RunsAre
<1>4. CASE TriggerScrapeForJob
  <2>0. PICK r : r = Len(runs')
    OBVIOUS
  <2>1. /\ \A q \in DOMAIN runs : q \in DOMAIN runs' /\ runs'[q] = runs[q]
        /\ DOMAIN runs' = DOMAIN runs \cup {r} /\ runs'[r].status = "running"
    BY <1>4, <2>0, TriggerIs
  <2>2. QED
    BY <1>1, <1>2, <1>3, <2>1
<1>5. CASE Scrape
  <2>1. PICK r \in Running : \E p \in DOMAIN runs[r].pair :
           /\ runs[r].pair[p] = "pending"
           /\ \/ Settle(r, p, "failed", {})
              \/ \E pg \in Pages : Settle(r, p, "completed", Marked(r, p, pg))
    BY <1>5 DEF Scrape
  <2>2. PICK p \in DOMAIN runs[r].pair :
           /\ \/ Settle(r, p, "failed", {})
              \/ \E pg \in Pages : Settle(r, p, "completed", Marked(r, p, pg))
    BY <2>1
  <2>3. r \in DOMAIN runs /\ runs[r].status = "running" /\ r \notin Finished
    BY <1>1, RunsAre DEF Running
  <2>4. r = Len(runs) /\ ~runs[r].detected /\ p \in Pairs
    <3>1. RunFits(r)
      BY <2>3
    <3>2. QED
      BY <1>1, <2>3, <3>1 DEF RunFits, RunRow
  <2>5. DOMAIN runs' = DOMAIN runs /\ runs'[r].detected = runs[r].detected
        /\ \A q \in DOMAIN runs \ {r} : runs'[q] = runs[q]
    <3>1. CASE Settle(r, p, "failed", {})
      BY <3>1, SettleIs, "failed" \in Outcomes, {} \in SUBSET ResultRow DEF Outcomes
    <3>2. ASSUME NEW pg \in Pages, Settle(r, p, "completed", Marked(r, p, pg))
          PROVE  DOMAIN runs' = DOMAIN runs /\ runs'[r].detected = runs[r].detected
                 /\ \A q \in DOMAIN runs \ {r} : runs'[q] = runs[q]
      <4>1. Marked(r, p, pg) \in SUBSET ResultRow /\ "completed" \in Outcomes
        BY <2>4, PageRows DEF Outcomes
      <4>2. QED
        BY <3>2, <4>1, SettleIs
    <3>3. QED
      BY <2>2, <3>1, <3>2
  <2>6. QED
    BY <1>1, <1>2, <1>3, <2>3, <2>4, <2>5
<1>6. CASE Detect
  <2>1. PICK r \in Finished :
           runs' = [runs EXCEPT ![r].detected = TRUE,
                      ![r].diffs = IF Before(r) = 0 THEN {} ELSE Diffs(r, Before(r))]
    BY <1>6 DEF Detect
  <2>2. /\ DOMAIN runs' = DOMAIN runs
        /\ \A q \in DOMAIN runs \ {r} : runs'[q] = runs[q]
        /\ runs'[r] = [runs[r] EXCEPT !.detected = TRUE,
                           !.diffs = IF Before(r) = 0 THEN {} ELSE Diffs(r, Before(r))]
    BY <2>1, DetectIs
  <2>3. /\ runs'[r].rows = runs[r].rows /\ runs'[r].pair = runs[r].pair
        /\ runs'[r].domain = runs[r].domain /\ runs'[r].status = runs[r].status
    <3> DEFINE diffs == IF Before(r) = 0 THEN {} ELSE Diffs(r, Before(r))
    <3>1. runs'[r] = [runs[r] EXCEPT !.detected = TRUE, !.diffs = diffs]
      BY <2>2
    <3> HIDE DEF diffs
    <3>2. QED
      BY <1>1, <1>3, <3>1 DEF RunRow
  <2>4. QED
    BY <1>1, <1>2, <1>3, <2>2, <2>3
<1>7. CASE UpdateJob
  <2>1. PICK gone \in SUBSET Pairs :
         /\ DOMAIN runs' = DOMAIN runs
         /\ \A r \in DOMAIN runs :
               runs'[r] = [runs[r] EXCEPT !.removed = @ \cup (gone \cap DOMAIN runs[r].pair),
                                          !.diffs = {x \in @ : x.pair \notin gone}]
    BY <1>7, UpdateIs
  <2>2. \A q \in DOMAIN runs :
          /\ runs'[q].rows = runs[q].rows /\ runs'[q].pair = runs[q].pair
          /\ runs'[q].domain = runs[q].domain /\ runs'[q].status = runs[q].status
    <3> SUFFICES ASSUME NEW q \in DOMAIN runs
                 PROVE  /\ runs'[q].rows = runs[q].rows /\ runs'[q].pair = runs[q].pair
                        /\ runs'[q].domain = runs[q].domain /\ runs'[q].status = runs[q].status
      OBVIOUS
    <3>1. runs[q] \in RunRow
      BY <1>1
    <3>2. QED
      BY <2>1, <3>1 DEF RunRow
  <2>3. QED
    BY <1>1, <1>2, <1>3, <2>1, <2>2
<1>8. CASE UNCHANGED runs
  BY <1>1, <1>2, <1>3, <1>8
<1>9. QED
  BY <1>4, <1>5, <1>6, <1>7, <1>8 DEF Next, vars, StartReport, EndReport

\* What was the run before stays it.
LEMMA BeforeStays ==
  ASSUME TypeOK, \A r \in DOMAIN runs : RunFits(r), [Next]_vars, NEW r \in Finished
  PROVE  Before(r)' = Before(r)
<1>1. Finished \subseteq Finished' /\ \A n \in Finished' \ Finished : n = Len(runs)
  BY FinishedStay
<1>2. r \in 1 .. Len(runs) /\ Len(runs) \in Nat
  BY RunsAre
<1>3. {q \in Finished' : q < r} = {q \in Finished : q < r}
  <2>1. \A q \in Finished' : q < r => q \in Finished
    BY <1>1, <1>2
  <2>2. QED
    BY <1>1, <2>1
<1>4. Before(r)' = Newest({q \in Finished' : q < r}) /\ Before(r) = Newest({q \in Finished : q < r})
  BY DEF Before, Newest
<1>5. QED
  BY <1>3, <1>4

LEMMA MarksAre ==
  ASSUME TypeOK, NEW r \in DOMAIN runs, RunFits(r), NEW p, NEW d
  PROVE  /\ IsFiniteSet(MarksOf(r, p, d)) /\ MarksOf(r, p, d) \subseteq ResultRow
         /\ \A x \in MarksOf(r, p, d) : x.pos \in 1 .. Limit /\ x.pair = p /\ x.domain = d
                                        /\ p \in DOMAIN runs[r].pair \ runs[r].removed
<1>1. runs[r].rows \subseteq ResultRow /\ IsFiniteSet(runs[r].rows)
  BY RunsAre DEF RunRow, RunFits
<1>2. MarksOf(r, p, d) \in SUBSET runs[r].rows
  BY DEF MarksOf, Marks, Live
<1>3. IsFiniteSet(MarksOf(r, p, d))
  BY <1>1, <1>2, FS_Subset
<1>4. \A x \in MarksOf(r, p, d) : x.pair = p /\ x.domain = d /\ x.pair \in DOMAIN runs[r].pair
                                  /\ x.pair \notin runs[r].removed
  BY DEF MarksOf, Marks, Live, RunFits
<1>5. QED
  BY <1>1, <1>2, <1>3, <1>4 DEF ResultRow

\* The differences of two runs are, for a host found once in each at most, how it moved.
LEMMA DiffsTell ==
  ASSUME TypeOK, NEW r \in DOMAIN runs, NEW q \in DOMAIN runs, RunFits(r), RunFits(q),
         NEW p \in Pairs, NEW d,
         Cardinality(MarksOf(r, p, d)) <= 1, Cardinality(MarksOf(q, p, d)) <= 1
  PROVE  {x \in Diffs(r, q) : x.pair = p /\ x.domain = d}
           = Moved(p, d, FirstOf(MarksOf(q, p, d)), FirstOf(MarksOf(r, p, d)))
<1> DEFINE R == MarksOf(r, p, d)
           Q == MarksOf(q, p, d)
           was == FirstOf(Q)
           now == FirstOf(R)
<1>1. /\ \/ R = {} /\ now = 0 /\ LastOf(R) = 0
         \/ \E x \in R : R = {x} /\ now = x.pos /\ LastOf(R) = x.pos
      /\ \/ Q = {} /\ was = 0 /\ LastOf(Q) = 0
         \/ \E x \in Q : Q = {x} /\ was = x.pos /\ LastOf(Q) = x.pos
  <2>1. /\ IsFiniteSet(R) /\ \A x \in R : x.pos \in 1 .. Limit
        /\ IsFiniteSet(Q) /\ \A x \in Q : x.pos \in 1 .. Limit
    BY MarksAre
  <2>2. /\ \/ R = {} /\ FirstOf(R) = 0 /\ LastOf(R) = 0
           \/ \E x \in R : R = {x} /\ FirstOf(R) = x.pos /\ LastOf(R) = x.pos
        /\ \/ Q = {} /\ FirstOf(Q) = 0 /\ LastOf(Q) = 0
           \/ \E x \in Q : Q = {x} /\ FirstOf(Q) = x.pos /\ LastOf(Q) = x.pos
    <3> HIDE DEF R, Q
    <3>1. Cardinality(R) <= 1 /\ Cardinality(Q) <= 1
      BY DEF R, Q
    <3>2. QED
      BY <2>1, <3>1, OneRow
  <2>3. QED
    BY <2>2
<1>2. At(Marks(r), p, d) = LastOf(R) /\ At(Marks(q), p, d) = LastOf(Q)
  BY DEF At, LastOf, MarksOf
<1>3. /\ \A x \in R : x \in Marks(r) /\ x.pair = p /\ x.domain = d /\ x.pos \in 1 .. Limit
      /\ \A x \in Q : x \in Marks(q) /\ x.pair = p /\ x.domain = d /\ x.pos \in 1 .. Limit
      /\ \A x \in Marks(r) : x.pair = p /\ x.domain = d => x \in R
      /\ \A x \in Marks(q) : x.pair = p /\ x.domain = d => x \in Q
  BY MarksAre DEF MarksOf
<1>4. 0 \notin 1 .. Limit /\ was \in Int /\ now \in Int
  BY <1>1, <1>3, RankHistoryAssumption
<1> HIDE DEF R, Q, was, now
<1>5. \A a, b, m, n : Diff(a, b, m, n).pair = a /\ Diff(a, b, m, n).domain = b
  BY DEF Diff
<1>6. ASSUME NEW x \in Diffs(r, q), x.pair = p, x.domain = d
      PROVE  was # now /\ x = Diff(p, d, was, now)
  <2>1. \/ \E y \in Marks(r) : At(Marks(q), y.pair, y.domain) # y.pos
                               /\ x = Diff(y.pair, y.domain, At(Marks(q), y.pair, y.domain), y.pos)
        \/ \E y \in Marks(q) : At(Marks(r), y.pair, y.domain) = 0 /\ x = Diff(y.pair, y.domain, y.pos, 0)
    BY DEF Diffs
  <2>2. ASSUME NEW y \in Marks(r), At(Marks(q), y.pair, y.domain) # y.pos,
               x = Diff(y.pair, y.domain, At(Marks(q), y.pair, y.domain), y.pos)
        PROVE  was # now /\ x = Diff(p, d, was, now)
    <3>1. y.pair = p /\ y.domain = d
      BY <1>5, <1>6, <2>2
    <3>2. y \in R
      BY <1>3, <3>1
    <3>3. now = y.pos
      BY <1>1, <3>2
    <3>4. was = At(Marks(q), p, d)
      BY <1>1, <1>2
    <3>5. QED
      BY <2>2, <3>1, <3>3, <3>4
  <2>3. ASSUME NEW y \in Marks(q), At(Marks(r), y.pair, y.domain) = 0, x = Diff(y.pair, y.domain, y.pos, 0)
        PROVE  was # now /\ x = Diff(p, d, was, now)
    <3>1. y.pair = p /\ y.domain = d
      BY <1>5, <1>6, <2>3
    <3>2. y \in Q
      BY <1>3, <3>1
    <3>3. was = y.pos /\ was # 0
      BY <1>1, <1>3, <1>4, <3>2
    <3>4. now = 0
      BY <1>1, <1>2, <2>3, <3>1
    <3>5. QED
      BY <2>3, <3>1, <3>3, <3>4
  <2>4. QED
    BY <2>1, <2>2, <2>3
<1>7. ASSUME was # now PROVE Diff(p, d, was, now) \in Diffs(r, q)
  <2>1. CASE R # {}
    <3>1. PICK y \in R : now = y.pos
      BY <1>1, <2>1
    <3>2. y \in Marks(r) /\ y.pair = p /\ y.domain = d
      BY <1>3
    <3>3. was = At(Marks(q), y.pair, y.domain)
      BY <1>1, <1>2, <3>2
    <3>4. QED
      BY <1>7, <3>1, <3>2, <3>3 DEF Diffs
  <2>2. CASE R = {}
    <3>1. now = 0 /\ At(Marks(r), p, d) = 0
      BY <1>1, <1>2, <2>2
    <3>2. PICK y \in Q : was = y.pos
      BY <1>1, <1>7, <3>1
    <3>3. y \in Marks(q) /\ y.pair = p /\ y.domain = d
      BY <1>3
    <3>4. QED
      BY <3>1, <3>2, <3>3 DEF Diffs
  <2>3. QED
    BY <2>1, <2>2
<1>8. Moved(p, d, was, now) = IF now = was THEN {} ELSE {Diff(p, d, was, now)}
  BY DEF Moved
<1>9. {x \in Diffs(r, q) : x.pair = p /\ x.domain = d} = Moved(p, d, was, now)
  BY <1>5, <1>6, <1>7, <1>8
<1>10. QED
  BY <1>9 DEF was, now, R, Q

\* A run whose rows, marks, differences and detection stay is told of as before.
LEMMA SameDiffs ==
  ASSUME TypeOK, \A r \in DOMAIN runs : RunFits(r), [Next]_vars, DiffsFit,
         NEW r \in Finished, runs[r].detected,
         runs'[r].diffs = runs[r].diffs,
         \A q \in Finished : runs'[q].removed = runs[q].removed,
         Before(r)' # 0, NEW p \in Pairs, NEW d \in Hosts,
         Cardinality(MarksOf(r, p, d)') <= 1, Cardinality(MarksOf(Before(r), p, d)') <= 1
  PROVE  DiffsOf(r, p, d)' = Moved(p, d, FirstOf(MarksOf(Before(r), p, d)'), FirstOf(MarksOf(r, p, d)'))
<1>1. Before(r)' = Before(r)
  BY BeforeStays
<1>2. Before(r) \in Finished
  BY <1>1, BeforeIs, RunsAre
<1>3. \A q \in Finished : runs'[q].rows = runs[q].rows
  BY FinishedStay
<1>4. ASSUME NEW q \in Finished PROVE MarksOf(q, p, d)' = MarksOf(q, p, d)
  BY <1>3 DEF MarksOf, Marks, Live
<1>5. MarksOf(Before(r), p, d)' = MarksOf(Before(r), p, d)
  <2>1. PICK q \in Finished : q = Before(r)
    BY <1>2
  <2>2. MarksOf(Before(r), p, d)' = MarksOf(q, p, d)'
    BY <1>1, <2>1 DEF MarksOf, Marks, Live
  <2>3. QED
    BY <1>4, <2>1, <2>2
<1>6. DiffsOf(r, p, d)' = DiffsOf(r, p, d)
  BY DEF DiffsOf
<1>7. MarksOf(r, p, d)' = MarksOf(r, p, d)
  BY <1>4
<1>8. QED
  BY <1>1, <1>5, <1>6, <1>7 DEF DiffsFit

LEMMA DiffsKeep ==
  ASSUME HistoryInv, [Next]_vars
  PROVE  DiffsFit'
<1> USE DEF HistoryInv
<1>1. SUFFICES ASSUME NEW r \in Finished', runs'[r].detected, Before(r)' # 0,
                      NEW p \in Pairs, NEW d \in Hosts,
                      Cardinality(MarksOf(r, p, d)') <= 1, Cardinality(MarksOf(Before(r), p, d)') <= 1
               PROVE  DiffsOf(r, p, d)' = Moved(p, d, FirstOf(MarksOf(Before(r), p, d)'), FirstOf(MarksOf(r, p, d)'))
  <2>1. SUFFICES ASSUME NEW r \in Finished', runs'[r].detected, Before(r)' # 0,
                        NEW p \in Pairs, NEW d \in Hosts,
                        Cardinality(MarksOf(r, p, d)') <= 1, Cardinality(MarksOf(Before(r), p, d)') <= 1
                 PROVE  (DiffsOf(r, p, d) =
                           Moved(p, d, FirstOf(MarksOf(Before(r), p, d)), FirstOf(MarksOf(r, p, d))))'
    BY DEF DiffsFit
  <2>2. DiffsOf(r, p, d)' = Moved(p, d, FirstOf(MarksOf(Before(r), p, d)'), FirstOf(MarksOf(r, p, d)'))
    BY <1>1, <2>1
  <2>3. QED
    BY <2>2
<1>2. r \in Finished /\ r \in DOMAIN runs /\ runs[r] \in RunRow
  BY <1>1, FinishedStay, RunsAre
<1>3. Before(r)' = Before(r)
  BY <1>2, BeforeStays
<1>4. PICK q \in Finished : q = Before(r) /\ q # 0 /\ q < r
  BY <1>1, <1>2, <1>3, BeforeIs
<1>5. q \in DOMAIN runs /\ RunFits(q) /\ RunFits(r) /\ runs[q] \in RunRow
  BY <1>2, RunsAre
<1>6. MarksOf(Before(r), p, d)' = MarksOf(q, p, d)'
  BY <1>3, <1>4 DEF MarksOf, Marks, Live
<1>7. runs'[r].rows = runs[r].rows /\ runs'[q].rows = runs[q].rows
  BY <1>2, FinishedStay
<1>8. ASSUME runs[r].detected, runs'[r].diffs = runs[r].diffs,
             \A n \in Finished : runs'[n].removed = runs[n].removed
      PROVE  DiffsOf(r, p, d)' = Moved(p, d, FirstOf(MarksOf(Before(r), p, d)'), FirstOf(MarksOf(r, p, d)'))
  BY <1>1, <1>2, <1>8, SameDiffs
<1>9. CASE TriggerScrapeForJob
  BY <1>2, <1>9, <1>8, <1>1, TriggerIs, RunsAre
<1>10. CASE Scrape
  <2>1. PICK n \in Running : \E m \in DOMAIN runs[n].pair :
           \/ Settle(n, m, "failed", {})
           \/ \E pg \in Pages : Settle(n, m, "completed", Marked(n, m, pg))
    BY <1>10 DEF Scrape
  <2>2. PICK m \in DOMAIN runs[n].pair :
           \/ Settle(n, m, "failed", {})
           \/ \E pg \in Pages : Settle(n, m, "completed", Marked(n, m, pg))
    BY <2>1
  <2>3. n \in DOMAIN runs /\ runs[n].status = "running" /\ n \notin Finished /\ m \in Pairs
    BY RunsAre DEF Running, RunRow
  <2>4. \A k \in DOMAIN runs \ {n} : runs'[k] = runs[k]
    <3>1. CASE Settle(n, m, "failed", {})
      BY <3>1, SettleIs, "failed" \in Outcomes, {} \in SUBSET ResultRow DEF Outcomes
    <3>2. ASSUME NEW pg \in Pages, Settle(n, m, "completed", Marked(n, m, pg))
          PROVE  \A k \in DOMAIN runs \ {n} : runs'[k] = runs[k]
      <4>1. Marked(n, m, pg) \in SUBSET ResultRow /\ "completed" \in Outcomes
        BY <2>3, PageRows DEF Outcomes
      <4>2. QED
        BY <3>2, <4>1, SettleIs
    <3>3. QED
      BY <2>2, <3>1, <3>2
  <2>5. \A k \in Finished : runs'[k] = runs[k]
    BY <2>3, <2>4, RunsAre
  <2>6. QED
    BY <1>1, <1>2, <1>8, <2>5
<1>11. CASE Detect
  <2>1. PICK n \in Finished : /\ ~runs[n].detected
           /\ runs' = [runs EXCEPT ![n].detected = TRUE,
                      ![n].diffs = IF Before(n) = 0 THEN {} ELSE Diffs(n, Before(n))]
    BY <1>11 DEF Detect
  <2>2. /\ \A k \in DOMAIN runs \ {n} : runs'[k] = runs[k]
        /\ runs'[n] = [runs[n] EXCEPT !.detected = TRUE,
                           !.diffs = IF Before(n) = 0 THEN {} ELSE Diffs(n, Before(n))]
    BY <2>1, DetectIs
  <2>3. runs'[n].removed = runs[n].removed
        /\ runs'[n].diffs = IF Before(n) = 0 THEN {} ELSE Diffs(n, Before(n))
    <3> DEFINE diffs == IF Before(n) = 0 THEN {} ELSE Diffs(n, Before(n))
    <3>1. runs'[n] = [runs[n] EXCEPT !.detected = TRUE, !.diffs = diffs] /\ runs[n] \in RunRow
      BY <2>2, RunsAre
    <3> HIDE DEF diffs
    <3>2. runs'[n].removed = runs[n].removed /\ runs'[n].diffs = diffs
      BY <3>1 DEF RunRow
    <3>3. QED
      BY <3>2 DEF diffs
  <2>4. \A k \in Finished : runs'[k].removed = runs[k].removed
    BY <2>2, <2>3, RunsAre
  <2>5. CASE r # n
    BY <1>1, <1>2, <1>8, <2>2, <2>4, <2>5
  <2>6. CASE r = n
    <3>1. runs'[r].diffs = Diffs(r, q)
      BY <1>4, <2>3, <2>6
    <3>2. MarksOf(r, p, d)' = MarksOf(r, p, d) /\ MarksOf(q, p, d)' = MarksOf(q, p, d)
      BY <1>2, <1>7, <2>4 DEF MarksOf, Marks, Live
    <3>3. {x \in Diffs(r, q) : x.pair = p /\ x.domain = d}
             = Moved(p, d, FirstOf(MarksOf(q, p, d)), FirstOf(MarksOf(r, p, d)))
      BY <1>1, <1>2, <1>5, <1>6, <3>2, DiffsTell
    <3>4. DiffsOf(r, p, d)' = {x \in Diffs(r, q) : x.pair = p /\ x.domain = d}
      BY <3>1 DEF DiffsOf
    <3>5. QED
      BY <1>6, <3>2, <3>3, <3>4
  <2>7. QED
    BY <2>5, <2>6
<1>12. CASE UpdateJob
  <2>1. PICK gone \in SUBSET Pairs :
         \A k \in DOMAIN runs :
               runs'[k] = [runs[k] EXCEPT !.removed = @ \cup (gone \cap DOMAIN runs[k].pair),
                                          !.diffs = {x \in @ : x.pair \notin gone}]
    BY <1>12, UpdateIs
  <2>2. ASSUME NEW k \in Finished
        PROVE  /\ runs'[k].removed = runs[k].removed \cup (gone \cap DOMAIN runs[k].pair)
               /\ runs'[k].diffs = {x \in runs[k].diffs : x.pair \notin gone}
               /\ runs'[k].detected = runs[k].detected /\ runs'[k].rows = runs[k].rows
    <3>1. runs[k] \in RunRow /\ k \in DOMAIN runs
      BY RunsAre
    <3>2. QED
      BY <2>1, <3>1 DEF RunRow
  <2>3. runs[r].detected
    BY <1>1, <1>2, <2>2
  <2>4. CASE p \in gone
    <3>1. DiffsOf(r, p, d)' = {}
      BY <1>2, <2>2, <2>4 DEF DiffsOf
    <3>2. ASSUME NEW k \in {r, q} PROVE MarksOf(k, p, d)' = {}
      <4>1. k \in Finished /\ RunFits(k)
        BY <1>2, <1>5
      <4>2. \A x \in runs[k].rows : x.pair = p => p \in runs'[k].removed
        BY <2>2, <2>4, <4>1 DEF RunFits
      <4>3. QED
        BY <2>2, <4>1, <4>2 DEF MarksOf, Marks, Live
    <3>3. MarksOf(r, p, d)' = {} /\ MarksOf(q, p, d)' = {}
      BY <3>2
    <3>4. QED
      BY <1>6, <3>1, <3>3 DEF Moved
  <2>5. CASE p \notin gone
    <3>1. DiffsOf(r, p, d)' = DiffsOf(r, p, d)
      BY <1>2, <2>2, <2>5 DEF DiffsOf
    <3>2. ASSUME NEW k \in {r, q} PROVE MarksOf(k, p, d)' = MarksOf(k, p, d)
      <4>1. k \in Finished
        BY <1>2
      <4>2. \A x \in runs[k].rows : x.pair = p => (x.pair \in runs'[k].removed <=> x.pair \in runs[k].removed)
        BY <2>2, <2>5, <4>1
      <4>3. QED
        BY <2>2, <4>1, <4>2 DEF MarksOf, Marks, Live
    <3>3. MarksOf(r, p, d)' = MarksOf(r, p, d) /\ MarksOf(q, p, d)' = MarksOf(q, p, d)
      BY <3>2
    <3>4. QED
      BY <1>1, <1>2, <1>4, <1>6, <2>3, <3>1, <3>3 DEF DiffsFit
  <2>6. QED
    BY <2>4, <2>5
<1>13. CASE UNCHANGED runs
  BY <1>1, <1>2, <1>8, <1>13
<1>14. QED
  BY <1>9, <1>10, <1>11, <1>12, <1>13 DEF Next, vars, StartReport, EndReport

LEMMA HistoryStep == HistoryInv /\ [Next]_vars => HistoryInv'
<1> SUFFICES ASSUME HistoryInv, [Next]_vars PROVE HistoryInv'
  OBVIOUS
<1>1. TypeOK' /\ (\A r \in DOMAIN runs' : RunFits(r)') /\ DiffsFit'
  BY TypesKeep, RunsFit, DiffsKeep DEF HistoryInv
<1>2. ReportsFit'
  <2>1. CASE UNCHANGED reports
    <3>1. Finished \subseteq Finished'
      BY FinishedStay DEF HistoryInv
    <3>2. QED
      BY <2>1, <3>1 DEF HistoryInv, ReportsFit
  <2>2. CASE StartReport \/ EndReport
    BY <2>2, ReportsAre DEF HistoryInv, StartReport, EndReport
  <2>3. QED
    BY <2>1, <2>2 DEF Next, vars, TriggerScrapeForJob, Scrape, Detect, UpdateJob
<1>3. QED
  BY <1>1, <1>2 DEF HistoryInv

LEMMA HistoryInit == Init => HistoryInv
<1> SUFFICES ASSUME Init PROVE HistoryInv
  OBVIOUS
<1>1. runs = <<>> /\ reports = <<>> /\ updates = 0
  BY DEF Init
<1>2. DOMAIN runs = {} /\ DOMAIN reports = {} /\ Finished = {}
  BY <1>1 DEF Finished
<1>3. TypeOK
  BY <1>1, RankHistoryAssumption DEF Init, TypeOK
<1>4. QED
  BY <1>2, <1>3 DEF HistoryInv, DiffsFit, ReportsFit
----------------------------------------------------------------------------
(***************************************************************************)
(* Pages.                                                                  *)
(***************************************************************************)
LEMMA Least ==
  ASSUME NEW S \in SUBSET Int, IsFiniteSet(S), S # {}
  PROVE  \E m \in S : \A y \in S : m <= y
<1> DEFINE N == {0 - x : x \in S}
           f == [x \in S |-> 0 - x]
<1>1. f \in Surjection(S, N)
  BY DEF Surjection
<1>2. IsFiniteSet(N)
  BY <1>1, FS_Surjection
<1>3. N \in SUBSET Int /\ N # {}
  OBVIOUS
<1> HIDE DEF N
<1>4. Max(N) \in N /\ \A y \in N : y <= Max(N)
  BY <1>2, <1>3, Greatest
<1>5. PICK m \in S : Max(N) = 0 - m
  BY <1>4 DEF N
<1>6. \A y \in S : 0 - y <= 0 - m
  BY <1>4, <1>5 DEF N
<1>7. \A y \in S : m <= y
  <2> SUFFICES ASSUME NEW y \in S PROVE m <= y
    OBVIOUS
  <2>1. y \in Int /\ m \in Int /\ 0 - y <= 0 - m
    BY <1>6
  <2>2. QED
    BY <2>1
<1>8. QED
  BY <1>7

\* What is newer than r in a set of ids.
Above(S, r) == {q \in S : q > r}

LEMMA AboveIs ==
  ASSUME NEW S \in SUBSET Int, IsFiniteSet(S), NEW r \in Int
  PROVE  /\ Above(S, r) \subseteq S /\ IsFiniteSet(Above(S, r))
         /\ Cardinality(Above(S, r)) \in Nat /\ Cardinality(S) \in Nat
         /\ Cardinality(S) - Cardinality(Above(S, r)) = Cardinality({q \in S : q <= r})
         /\ r \in S => Cardinality(Above(S, r)) < Cardinality(S)
<1> DEFINE A == Above(S, r)
<1>1. A \in SUBSET S
  BY DEF Above
<1>2. IsFiniteSet(A)
  BY <1>1, FS_Subset
<1>3. S \ A = {q \in S : q <= r} /\ S \cap A = A /\ r \notin A
  <2>1. \A q \in S : q \in Int /\ (q <= r <=> ~(q > r))
    OBVIOUS
  <2>2. ~(r > r)
    OBVIOUS
  <2>3. QED
    BY <1>1, <2>1, <2>2 DEF Above
<1> HIDE DEF A
<1>4. Cardinality(S \ A) = Cardinality(S) - Cardinality(S \cap A)
  BY FS_Difference
<1>5. Cardinality(A) \in Nat /\ Cardinality(S) \in Nat
  BY <1>2, FS_CardinalityType
<1>6. r \in S => Cardinality(A) < Cardinality(S)
  BY <1>1, <1>3, <1>5, FS_Subset
<1>7. QED
  BY <1>1, <1>2, <1>3, <1>4, <1>5, <1>6 DEF A

\* The newer, the fewer above.
LEMMA RankFalls ==
  ASSUME NEW S \in SUBSET Int, IsFiniteSet(S), NEW r \in Int, NEW t \in S, r < t
  PROVE  Cardinality(Above(S, t)) < Cardinality(Above(S, r))
<1>1. t \in Int /\ Above(S, t) \in SUBSET Above(S, r) /\ t \in Above(S, r) /\ t \notin Above(S, t)
  <2>1. t \in Int
    OBVIOUS
  <2>2. \A q \in S : q \in Int /\ (q > t => q > r)
    BY <2>1
  <2>3. Above(S, t) \in SUBSET Above(S, r)
    BY <2>2 DEF Above
  <2>4. t > r /\ ~(t > t)
    BY <2>1
  <2>5. QED
    BY <2>1, <2>3, <2>4 DEF Above
<1>2. IsFiniteSet(Above(S, r)) /\ Cardinality(Above(S, r)) \in Nat /\ Cardinality(Above(S, t)) \in Nat
  BY <1>1, AboveIs
<1>3. Cardinality(Above(S, t)) <= Cardinality(Above(S, r))
      /\ (Cardinality(Above(S, r)) = Cardinality(Above(S, t)) => Above(S, r) = Above(S, t))
  BY <1>1, <1>2, FS_Subset
<1>4. QED
  BY <1>1, <1>2, <1>3

\* Every rank up to that of r is one's from r on.
LEMMA RankFound ==
  ASSUME NEW S \in SUBSET Int, IsFiniteSet(S), NEW r \in S,
         NEW off \in Nat, off <= Cardinality(Above(S, r))
  PROVE  \E t \in S : t >= r /\ Cardinality(Above(S, t)) = off
<1> DEFINE T == {q \in S : q >= r /\ off <= Cardinality(Above(S, q))}
<1>1. T \in SUBSET S /\ r \in T
  OBVIOUS
<1>2. IsFiniteSet(T) /\ T \in SUBSET Int
  <2>1. IsFiniteSet(T)
    BY <1>1, FS_Subset
  <2>2. QED
    BY <1>1, <2>1
<1>3. \A q \in T : q \in S /\ q >= r /\ off <= Cardinality(Above(S, q))
  OBVIOUS
<1>4. \A q \in S : q >= r /\ off <= Cardinality(Above(S, q)) => q \in T
  OBVIOUS
<1> HIDE DEF T
<1>5. PICK t \in T : \A y \in T : y <= t
  BY <1>1, <1>2, Greatest
<1>6. t \in S /\ t \in Int /\ Cardinality(Above(S, t)) \in Nat /\ IsFiniteSet(Above(S, t))
  BY <1>3, AboveIs
<1>7. ASSUME Cardinality(Above(S, t)) # off PROVE FALSE
  <2>1. Above(S, t) # {}
    BY <1>3, <1>6, <1>7, FS_EmptySet
  <2>2. PICK u \in Above(S, t) : \A y \in Above(S, t) : u <= y
    BY <1>6, <2>1, AboveIs, Least
  <2>3. u \in S /\ u \in Int /\ u > t
    BY DEF Above
  <2>4. Above(S, u) = Above(S, t) \ {u}
    <3>1. \A q \in S : q \in Int
      OBVIOUS
    <3>2. \A q \in Above(S, u) : q \in Above(S, t) \ {u}
      BY <1>6, <2>3, <3>1 DEF Above
    <3>3. \A q \in Above(S, t) \ {u} : q \in Above(S, u)
      BY <1>6, <2>2, <2>3, <3>1 DEF Above
    <3>4. QED
      BY <3>2, <3>3
  <2>5. Cardinality(Above(S, u)) = Cardinality(Above(S, t)) - 1
    <3> DEFINE A == Above(S, t)
    <3>1. IsFiniteSet(A) /\ u \in A
      BY <1>6
    <3> HIDE DEF A
    <3>2. Cardinality(A \ {u}) = Cardinality(A) - 1
      BY <3>1, FS_RemoveElement
    <3>3. QED
      BY <2>4, <3>2 DEF A
  <2>6. u \in T
    BY <1>3, <1>4, <1>6, <1>7, <2>3, <2>5
  <2>7. QED
    BY <1>5, <1>6, <2>3, <2>6
<1>8. QED
  BY <1>3, <1>7

\* Of those whose ranks are on a page, as many are newer than r as have ranks from
\* the page's first to that of r.
LEMMA RankOnPage ==
  ASSUME NEW S \in SUBSET Int, IsFiniteSet(S), NEW off \in Nat, NEW size \in Nat,
         NEW shown \in SUBSET S,
         \A q \in S : q \in shown <=> Cardinality(Above(S, q)) \in off .. off + size - 1,
         NEW r \in shown
  PROVE  Cardinality({q \in shown : q > r}) = Cardinality(Above(S, r)) - off
<1>1. r \in S /\ r \in Int /\ Cardinality(Above(S, r)) \in off .. off + size - 1
  OBVIOUS
<1>2. PICK t \in S : t >= r /\ Cardinality(Above(S, t)) = off
  BY <1>1, RankFound
<1>3. t \in Int /\ IsFiniteSet(Above(S, r)) /\ IsFiniteSet(Above(S, t))
  BY <1>1, <1>2, AboveIs
<1>4. {q \in shown : q > r} = Above(S, r) \ Above(S, t)
  <2>1. ASSUME NEW q \in shown, q > r PROVE q \in Above(S, r) \ Above(S, t)
    <3>1. q \in S /\ q \in Int /\ Cardinality(Above(S, q)) >= off /\ Cardinality(Above(S, q)) \in Int
      OBVIOUS
    <3>2. ~(q > t)
      BY <1>2, <1>3, <3>1, RankFalls
    <3>3. QED
      BY <2>1, <3>1, <3>2 DEF Above
  <2>2. ASSUME NEW q \in Above(S, r) \ Above(S, t) PROVE q \in shown /\ q > r
    <3>1. q \in S /\ q \in Int /\ q > r /\ q <= t
      BY <1>3 DEF Above
    <3>2. Cardinality(Above(S, q)) < Cardinality(Above(S, r))
      BY <1>1, <3>1, RankFalls
    <3>3. Cardinality(Above(S, q)) >= off
      <4>1. CASE q = t
        BY <1>2, <4>1
      <4>2. CASE q < t
        <5>1. Cardinality(Above(S, t)) < Cardinality(Above(S, q))
          BY <3>1, <4>2, RankFalls
        <5>2. Cardinality(Above(S, q)) \in Nat
          BY <3>1, AboveIs
        <5>3. QED
          BY <1>2, <5>1, <5>2
      <4>3. QED
        BY <1>3, <3>1, <4>1, <4>2
    <3>4. Cardinality(Above(S, q)) \in Nat
      BY <3>1, AboveIs
    <3>5. Cardinality(Above(S, q)) \in off .. off + size - 1
      BY <1>1, <3>2, <3>3, <3>4
    <3>6. QED
      BY <3>1, <3>5
  <2>3. \A q \in shown : q > r <=> q \in Above(S, r) \ Above(S, t)
    BY <2>1, <2>2
  <2>4. QED
    BY <2>2, <2>3
<1>5. Above(S, r) \cap Above(S, t) = Above(S, t)
  <2>1. \A q \in S : q \in Int
    OBVIOUS
  <2>2. \A q \in Above(S, t) : q \in Above(S, r)
    BY <1>1, <1>2, <1>3, <2>1 DEF Above
  <2>3. QED
    BY <2>2
<1>6. QED
  BY <1>2, <1>3, <1>4, <1>5, FS_Difference

\* A rank is on one page, and on none after the rank's own number.
LEMMA OnePage ==
  ASSUME NEW k \in Nat, NEW l \in Nat \ {0}
  PROVE  /\ \E n \in 1 .. k + 1 : k \in (n - 1) * l .. (n - 1) * l + l - 1
         /\ \A n, m \in Nat \ {0} : /\ k \in (n - 1) * l .. (n - 1) * l + l - 1
                                    /\ k \in (m - 1) * l .. (m - 1) * l + l - 1
                                    => n = m
<1>1. \A a, b \in Nat : a <= b => a * l <= b * l
  OBVIOUS
<1>2. \A a \in Nat : (a + 1) * l = a * l + l /\ a * l \in Nat /\ a <= a * l
  OBVIOUS
<1>3. \E n \in 1 .. k + 1 : k \in (n - 1) * l .. (n - 1) * l + l - 1
  <2> DEFINE N == {a \in 0 .. k : a * l <= k}
  <2>1. 0 \in N /\ N \in SUBSET Int /\ N \in SUBSET (0 .. k)
    OBVIOUS
  <2>2. IsFiniteSet(N)
    <3>1. IsFiniteSet(0 .. k)
      BY FS_Interval, k \in Int, 0 \in Int
    <3>2. QED
      BY <2>1, <3>1, FS_Subset
  <2>3. PICK a \in N : \A b \in N : b <= a
    <3> HIDE DEF N
    <3>1. QED
      BY <2>1, <2>2, Greatest
  <2>4. a \in 0 .. k /\ a * l <= k /\ (a + 1) * l = a * l + l /\ a * l \in Nat
    BY <1>2
  <2>5. (a + 1) * l > k
    <3>1. CASE a = k
      <4>1. a + 1 \in Nat /\ a + 1 <= (a + 1) * l /\ (a + 1) * l \in Nat
        BY <1>2, <2>4
      <4>2. QED
        BY <3>1, <4>1
    <3>2. CASE a < k
      <4>1. a + 1 \in 0 .. k /\ ~(a + 1 <= a)
        BY <2>4, <3>2
      <4>2. a + 1 \notin N
        BY <2>3, <4>1
      <4>3. ~((a + 1) * l <= k)
        BY <4>1, <4>2
      <4>4. (a + 1) * l \in Nat
        BY <1>2, <4>1
      <4>5. QED
        BY <4>3, <4>4
    <3>3. QED
      BY <2>4, <3>1, <3>2
  <2>6. k \in a * l .. a * l + l - 1
    BY <2>4, <2>5
  <2>7. a + 1 \in 1 .. k + 1 /\ (a + 1) - 1 = a
    BY <2>4
  <2>8. QED
    BY <2>6, <2>7
<1>4. ASSUME NEW n \in Nat \ {0}, NEW m \in Nat \ {0}, n < m,
             k \in (n - 1) * l .. (n - 1) * l + l - 1, k \in (m - 1) * l .. (m - 1) * l + l - 1
      PROVE  FALSE
  <2>1. n - 1 \in Nat /\ m - 1 \in Nat /\ n \in Nat /\ n <= m - 1 /\ (n - 1) + 1 = n
    BY <1>4
  <2>2. n * l = (n - 1) * l + l /\ n * l <= (m - 1) * l
    BY <1>1, <1>2, <2>1
  <2>3. (n - 1) * l \in Nat /\ (m - 1) * l \in Nat
    BY <1>2, <2>1
  <2>4. QED
    BY <1>4, <2>2, <2>3
<1>5. QED
  <2>1. \A n, m \in Nat \ {0} : n # m => n < m \/ m < n
    OBVIOUS
  <2>2. QED
    BY <1>3, <1>4, <2>1

LEMMA ScansAre ==
  ASSUME TypeOK, NEW p
  PROVE  /\ Scans(p) \in SUBSET Int /\ IsFiniteSet(Scans(p)) /\ Scans(p) \subseteq Finished
         /\ Scans(p) \subseteq DOMAIN runs /\ Cardinality(Scans(p)) <= MaxRuns
<1>1. Scans(p) \in SUBSET (1 .. Len(runs)) /\ Scans(p) \subseteq Finished /\ Len(runs) \in Nat
      /\ DOMAIN runs = 1 .. Len(runs)
  BY RunsAre DEF Scans
<1>2. IsFiniteSet(1 .. Len(runs)) /\ Cardinality(1 .. Len(runs)) = Len(runs)
  BY <1>1, FS_Interval, 1 \in Int, Len(runs) \in Int
<1>3. IsFiniteSet(Scans(p)) /\ Cardinality(Scans(p)) <= Len(runs) /\ Cardinality(Scans(p)) \in Nat
  BY <1>1, <1>2, FS_Subset, FS_CardinalityType
<1>4. QED
  BY <1>1, <1>3, RankHistoryAssumption DEF TypeOK

\* Numbers of pages, and the sizes a request may ask them to have.
PageNumbers == Nat \ {0}

SizesAllowed == 1 .. 100

\* The ranks on a page, counted from the newest.
PageRanks(page, limit) == (page - 1) * limit .. (page - 1) * limit + limit - 1

LEMMA OnePageOf ==
  ASSUME NEW k \in Nat, NEW limit \in SizesAllowed
  PROVE  /\ \E n \in 1 .. k + 1 : k \in PageRanks(n, limit)
         /\ \A n, m \in PageNumbers : k \in PageRanks(n, limit) /\ k \in PageRanks(m, limit) => n = m
<1>1. limit \in Nat \ {0}
  BY DEF SizesAllowed
<1>2. QED
  BY <1>1, OnePage DEF PageRanks, PageNumbers

LEMMA RecentIs ==
  ASSUME NEW S, NEW page \in PageNumbers, NEW limit \in SizesAllowed
  PROVE  /\ Recent(S, page, limit) = {r \in S : Cardinality(Above(S, r)) \in PageRanks(page, limit)}
         /\ parsePagination(page, limit)[1] = page /\ parsePagination(page, limit)[2] = limit
<1>1. parsePagination(page, limit) = <<page, limit>>
  BY DEF parsePagination, SizesAllowed, PageNumbers
<1>2. parsePagination(page, limit)[1] = page /\ parsePagination(page, limit)[2] = limit
  BY <1>1
<1>3. QED
  BY <1>2 DEF Recent, Above, PageRanks

\* On a page, the number of a scan counted back from the end of all.
LEMMA NumberOnPage ==
  ASSUME NEW S \in SUBSET Int, IsFiniteSet(S), NEW page \in PageNumbers, NEW limit \in SizesAllowed,
         NEW r \in Recent(S, page, limit)
  PROVE  Cardinality(S) - (page - 1) * limit - Cardinality({q \in Recent(S, page, limit) : q > r})
           = Cardinality({q \in S : q <= r})
<1>1. PICK off : off = (page - 1) * limit
  OBVIOUS
<1>2. off \in Nat
  <2>1. page - 1 \in Nat /\ limit \in Nat
    BY DEF SizesAllowed, PageNumbers
  <2>2. QED
    BY <1>1, <2>1
<1>3. PICK shown : shown = Recent(S, page, limit)
  OBVIOUS
<1>4. /\ shown \in SUBSET S /\ r \in shown
      /\ \A q \in S : q \in shown <=> Cardinality(Above(S, q)) \in off .. off + limit - 1
  BY <1>1, <1>3, RecentIs DEF PageRanks
<1>5. limit \in Nat
  BY DEF SizesAllowed
<1>6. Cardinality({q \in shown : q > r}) = Cardinality(Above(S, r)) - off
  BY <1>2, <1>4, <1>5, RankOnPage
<1>7. r \in S /\ r \in Int
  BY <1>4
<1>8. Cardinality(S) - Cardinality(Above(S, r)) = Cardinality({q \in S : q <= r})
      /\ Cardinality(S) \in Nat /\ Cardinality(Above(S, r)) \in Nat
  BY <1>7, AboveIs
<1>9. Cardinality(S) - off - Cardinality({q \in shown : q > r}) = Cardinality({q \in S : q <= r})
  BY <1>2, <1>6, <1>8
<1>10. QED
  BY <1>1, <1>3, <1>9

\* The one before r in a set of ids.
Prior(S, r) == Newest({q \in S : q < r})

\* The one before r on a page is the one before r among all, if it is shown.
LEMMA NewestShown ==
  ASSUME NEW n \in Nat, NEW S \in SUBSET (1 .. n), NEW page \in PageNumbers,
         NEW limit \in SizesAllowed, NEW r \in Recent(S, page, limit)
  PROVE  Prior(Recent(S, page, limit), r) \in {0, Prior(S, r)}
<1>1. PICK off : off = (page - 1) * limit
  OBVIOUS
<1>2. off \in Nat /\ limit \in Nat
  <2>1. page - 1 \in Nat /\ limit \in Nat
    BY DEF SizesAllowed, PageNumbers
  <2>2. QED
    BY <1>1, <2>1
<1>3. PICK shown : shown = Recent(S, page, limit)
  OBVIOUS
<1>4. /\ shown \in SUBSET S /\ r \in shown
      /\ \A q \in S : q \in shown <=> Cardinality(Above(S, q)) \in off .. off + limit - 1
  BY <1>1, <1>3, RecentIs DEF PageRanks
<1>5. S \in SUBSET Int /\ IsFiniteSet(S) /\ r \in S /\ r \in Int /\ \A q \in S : q \in Int
  <2>1. IsFiniteSet(1 .. n)
    BY FS_Interval, 1 \in Int, n \in Int
  <2>2. IsFiniteSet(S)
    BY <2>1, FS_Subset
  <2>3. QED
    BY <1>4, <2>2
<1>6. PICK A, B : A = {q \in shown : q < r} /\ B = {q \in S : q < r}
  OBVIOUS
<1>7. A \in SUBSET (1 .. n) /\ B \in SUBSET (1 .. n) /\ A \subseteq B
  BY <1>4, <1>6
<1>8. /\ \/ A = {} /\ Newest(A) = 0
         \/ Newest(A) \in A /\ \A y \in A : y <= Newest(A)
      /\ \/ B = {} /\ Newest(B) = 0
         \/ Newest(B) \in B /\ \A y \in B : y <= Newest(B)
  BY <1>7, NewestOf
<1>9. ASSUME A # {} PROVE Newest(A) = Newest(B)
  <2>1. PICK a, b : a = Newest(A) /\ b = Newest(B)
    OBVIOUS
  <2>2. /\ a \in shown /\ a \in S /\ a \in Int /\ a < r /\ b \in S /\ b \in Int /\ b < r
        /\ a <= b
    BY <1>4, <1>5, <1>6, <1>7, <1>8, <1>9, <2>1
  <2>3. ASSUME a < b PROVE FALSE
    <3>1. /\ Cardinality(Above(S, b)) < Cardinality(Above(S, a))
          /\ Cardinality(Above(S, r)) < Cardinality(Above(S, b))
      BY <1>5, <2>2, <2>3, RankFalls
    <3>2. /\ Cardinality(Above(S, a)) \in off .. off + limit - 1
          /\ Cardinality(Above(S, r)) \in off .. off + limit - 1
      BY <1>4, <1>5, <2>2
    <3>3. Cardinality(Above(S, b)) \in Nat
      BY <1>5, <2>2, AboveIs
    <3>4. Cardinality(Above(S, b)) \in off .. off + limit - 1
      BY <1>2, <3>1, <3>2, <3>3
    <3>5. b \in A
      BY <1>4, <1>6, <2>2, <3>4
    <3>6. b <= a
      BY <1>8, <1>9, <2>1, <3>5
    <3>7. QED
      BY <2>2, <2>3, <3>6
  <2>4. QED
    BY <2>1, <2>2, <2>3
<1>10. QED
  BY <1>3, <1>6, <1>8, <1>9 DEF Prior

\* A page's items are those of the ranks on it, each with its place among all.
PageScans(p, page, limit) == DOMAIN PairScanHistory(p, page, limit)

PageItem(p, page, limit, r) ==
    <<r, PairScanHistory(p, page, limit)[r].number, PairScanHistory(p, page, limit)[r].position,
      PairScanHistory(p, page, limit)[r].status, PairScanHistory(p, page, limit)[r].count>>

ScanItem(p, r) ==
    <<r, Cardinality({q \in Scans(p) : q <= r}), posMap(p, r), runs[r].pair[p],
      Cardinality(Rows(runs[r].rows, p))>>

\* The change from one place to another, and that of a scan since the one before.
Step(was, now) == IF now > 0 /\ was > 0 THEN was - now ELSE 0

Move(p, r) == Step(posMap(p, Prior(Scans(p), r)), posMap(p, r))

HasReport(r) == \E k \in Reported(r) : reports[k].status = "generated"

LEMMA PageDomain ==
  ASSUME NEW p, NEW page \in PageNumbers, NEW limit \in SizesAllowed
  PROVE  /\ PageScans(p, page, limit) = Recent(Scans(p), page, limit)
         /\ PageScans(p, page, limit)
              = {r \in Scans(p) : Cardinality(Above(Scans(p), r)) \in PageRanks(page, limit)}
<1>1. DOMAIN PairScanHistory(p, page, limit) = Recent(Scans(p), page, limit)
  BY DEF PairScanHistory
<1>2. PageScans(p, page, limit) = Recent(Scans(p), page, limit)
  BY <1>1 DEF PageScans
<1>3. QED
  BY <1>2, RecentIs

LEMMA PageItemIs ==
  ASSUME TypeOK, NEW p, NEW page \in PageNumbers, NEW limit \in SizesAllowed,
         NEW r \in PageScans(p, page, limit)
  PROVE  /\ PageItem(p, page, limit, r) = ScanItem(p, r) /\ r \in Scans(p)
         /\ PairScanHistory(p, page, limit)[r].hasReport = HasReport(r)
         /\ PairScanHistory(p, page, limit)[r].change
              = Step(posMap(p, Prior(Recent(Scans(p), page, limit), r)), posMap(p, r))
<1>1. r \in Recent(Scans(p), page, limit) /\ r \in Scans(p)
  BY PageDomain
<1>2. PairScanHistory(p, page, limit)[r] =
         [number |-> Cardinality(Scans(p)) - (page - 1) * limit
                       - Cardinality({q \in Recent(Scans(p), page, limit) : q > r}),
          position |-> posMap(p, r),
          change |-> Step(posMap(p, Prior(Recent(Scans(p), page, limit), r)),
                          posMap(p, r)),
          status |-> runs[r].pair[p],
          count |-> Cardinality(Rows(runs[r].rows, p)),
          hasReport |-> HasReport(r)]
  BY <1>1, RecentIs DEF PairScanHistory, Step, HasReport, Prior
<1>3. Cardinality(Scans(p)) - (page - 1) * limit
        - Cardinality({q \in Recent(Scans(p), page, limit) : q > r})
      = Cardinality({q \in Scans(p) : q <= r})
  <2>1. Scans(p) \in SUBSET Int /\ IsFiniteSet(Scans(p))
    BY ScansAre
  <2>2. PICK S : S = Scans(p)
    OBVIOUS
  <2>3. QED
    BY <1>1, <2>1, <2>2, NumberOnPage
<1>4. PairScanHistory(p, page, limit)[r].number = Cardinality({q \in Scans(p) : q <= r})
  BY <1>2, <1>3
<1>5. /\ PairScanHistory(p, page, limit)[r].hasReport = HasReport(r)
      /\ PairScanHistory(p, page, limit)[r].change
           = Step(posMap(p, Prior(Recent(Scans(p), page, limit), r)), posMap(p, r))
  BY <1>2
<1>6. PageItem(p, page, limit, r) = ScanItem(p, r)
  BY <1>2, <1>4 DEF PageItem, ScanItem
<1>7. QED
  BY <1>1, <1>5, <1>6

\* Each scan is on exactly one page.
LEMMA ScanOnPage ==
  ASSUME TypeOK, NEW p, NEW limit \in SizesAllowed, NEW r \in Scans(p)
  PROVE  \E n \in 1 .. MaxRuns :
            {m \in 1 .. MaxRuns : r \in PageScans(p, m, limit)} = {n}
<1>1. PICK k : k = Cardinality(Above(Scans(p), r))
  OBVIOUS
<1>2. k \in Nat /\ k + 1 <= MaxRuns /\ MaxRuns \in Nat
  <2>1. Scans(p) \in SUBSET Int /\ IsFiniteSet(Scans(p)) /\ r \in Int /\ Cardinality(Scans(p)) <= MaxRuns
    BY ScansAre
  <2>2. k \in Nat /\ k < Cardinality(Scans(p)) /\ Cardinality(Scans(p)) \in Nat
    BY <1>1, <2>1, AboveIs
  <2>3. QED
    BY <2>1, <2>2, RankHistoryAssumption
<1>3. \A m \in PageNumbers : r \in PageScans(p, m, limit) <=> k \in PageRanks(m, limit)
  <2> SUFFICES ASSUME NEW m \in PageNumbers
               PROVE  r \in PageScans(p, m, limit) <=> k \in PageRanks(m, limit)
    OBVIOUS
  <2>1. PageScans(p, m, limit)
          = {q \in Scans(p) : Cardinality(Above(Scans(p), q)) \in PageRanks(m, limit)}
    BY PageDomain
  <2>2. QED
    BY <1>1, <2>1
<1>4. /\ \E n \in 1 .. k + 1 : k \in PageRanks(n, limit)
      /\ \A n, m \in PageNumbers : k \in PageRanks(n, limit) /\ k \in PageRanks(m, limit) => n = m
  BY <1>2, OnePageOf
<1>5. PICK n \in 1 .. k + 1 : k \in PageRanks(n, limit)
  BY <1>4
<1>6. n \in 1 .. MaxRuns /\ n \in PageNumbers
  BY <1>2 DEF PageNumbers
<1>7. \A m \in 1 .. MaxRuns : r \in PageScans(p, m, limit) => m = n
  <2> SUFFICES ASSUME NEW m \in 1 .. MaxRuns, r \in PageScans(p, m, limit) PROVE m = n
    OBVIOUS
  <2>1. m \in PageNumbers
    BY <1>2 DEF PageNumbers
  <2>2. k \in PageRanks(m, limit)
    BY <1>3, <2>1
  <2>3. QED
    BY <1>4, <1>5, <1>6, <2>1, <2>2
<1>8. r \in PageScans(p, n, limit)
  BY <1>3, <1>5, <1>6
<1>9. QED
  BY <1>6, <1>7, <1>8

\* What a page may tell of a scan: all as it is, but no change when the scan before
\* is not on it.
Tells(p, r, scan) ==
    /\ scan.number = Cardinality({q \in Scans(p) : q <= r}) /\ scan.position = posMap(p, r)
    /\ scan.status = runs[r].pair[p] /\ scan.count = Cardinality(Rows(runs[r].rows, p))
    /\ scan.hasReport = HasReport(r) /\ scan.change \in {0, Move(p, r)}

LEMMA PageTellsOf ==
  ASSUME TypeOK, NEW p, NEW page \in PageNumbers, NEW limit \in SizesAllowed,
         NEW r \in PageScans(p, page, limit)
  PROVE  Tells(p, r, PairScanHistory(p, page, limit)[r])
<1>1. PICK scan : scan = PairScanHistory(p, page, limit)[r]
  OBVIOUS
<1>2. PageItem(p, page, limit, r) = ScanItem(p, r)
  BY PageItemIs
<1>3. /\ scan.number = Cardinality({q \in Scans(p) : q <= r}) /\ scan.position = posMap(p, r)
      /\ scan.status = runs[r].pair[p] /\ scan.count = Cardinality(Rows(runs[r].rows, p))
  BY <1>1, <1>2 DEF PageItem, ScanItem
<1>4. /\ scan.hasReport = HasReport(r)
      /\ scan.change = Step(posMap(p, Prior(Recent(Scans(p), page, limit), r)), posMap(p, r))
  BY <1>1, PageItemIs
<1>5. Prior(Recent(Scans(p), page, limit), r) \in {0, Prior(Scans(p), r)}
  <2>1. r \in Recent(Scans(p), page, limit)
    BY PageDomain
  <2>2. Scans(p) \in SUBSET (1 .. Len(runs)) /\ Len(runs) \in Nat
    BY ScansAre, RunsAre
  <2>3. PICK S, n : S = Scans(p) /\ n = Len(runs)
    OBVIOUS
  <2>4. r \in Recent(S, page, limit) /\ S \in SUBSET (1 .. n) /\ n \in Nat
    BY <2>1, <2>2, <2>3
  <2>5. Prior(Recent(S, page, limit), r) \in {0, Prior(S, r)}
    BY <2>4, NewestShown
  <2>6. QED
    BY <2>3, <2>5
<1>6. posMap(p, 0) = 0 /\ Step(0, posMap(p, r)) = 0
  BY DEF posMap, Step
<1>7. scan.change \in {0, Move(p, r)}
  BY <1>4, <1>5, <1>6 DEF Move
<1>8. QED
  BY <1>1, <1>3, <1>4, <1>7 DEF Tells

\* All pages together tell of every scan, and of nothing else.
LEMMA ToldIs ==
  ASSUME TypeOK, NEW p, NEW limit \in SizesAllowed, NEW r
  PROVE  /\ \A x \in Told(p, limit, r) : r \in Scans(p) /\ Tells(p, r, x)
         /\ r \in Scans(p) => Told(p, limit, r) # {}
<1>1. Told(p, limit, r) =
        {PairScanHistory(p, n, limit)[r] : n \in {m \in 1 .. MaxRuns : r \in PageScans(p, m, limit)}}
  BY DEF Told, PageScans
<1>2. ASSUME NEW x \in Told(p, limit, r) PROVE r \in Scans(p) /\ Tells(p, r, x)
  <2>1. PICK n \in 1 .. MaxRuns : r \in PageScans(p, n, limit) /\ x = PairScanHistory(p, n, limit)[r]
    BY <1>1
  <2>2. PICK page \in PageNumbers : page = n
    BY RankHistoryAssumption DEF PageNumbers
  <2>3. r \in Scans(p) /\ Tells(p, r, PairScanHistory(p, page, limit)[r])
    BY <2>1, <2>2, PageItemIs, PageTellsOf
  <2>4. QED
    BY <2>1, <2>2, <2>3
<1>3. ASSUME r \in Scans(p) PROVE Told(p, limit, r) # {}
  <2>1. PICK n \in 1 .. MaxRuns : {m \in 1 .. MaxRuns : r \in PageScans(p, m, limit)} = {n}
    BY <1>3, ScanOnPage
  <2>2. QED
    BY <1>1, <2>1
<1>4. QED
  BY <1>2, <1>3

----------------------------------------------------------------------------
(***************************************************************************)
(* Views of a pair.                                                        *)
(***************************************************************************)

\* Where a run found the target of a pair, by its rows.
Placed(r, p) == FirstOf(Targets(runs[r].rows, p))

LEMMA LatestIs ==
  ASSUME TypeOK, Latest # 0
  PROVE  /\ Latest \in Finished /\ Latest \in DOMAIN runs /\ Latest \in Nat \ {0}
         /\ \A q \in Finished : q <= Latest
<1>1. Finished \in SUBSET (1 .. Len(runs)) /\ Len(runs) \in Nat /\ DOMAIN runs = 1 .. Len(runs)
  BY RunsAre
<1>2. \/ Finished = {} /\ Newest(Finished) = 0
      \/ Newest(Finished) \in Finished /\ \A y \in Finished : y <= Newest(Finished)
  BY <1>1, NewestOf
<1>3. Latest \in Finished /\ \A q \in Finished : q <= Latest
  BY <1>2, Zenon DEF Latest
<1> HIDE DEF Latest
<1>4. Latest \in 1 .. Len(runs) /\ Latest \in DOMAIN runs
  BY <1>1, <1>3
<1>5. Latest \in Nat \ {0}
  BY <1>4, RunsAre
<1>6. QED
  BY <1>3, <1>4, <1>5

\* A pair that is there and found once at most: one row, by whatever query.
LEMMA PlainRows ==
  ASSUME TypeOK, NEW r \in DOMAIN runs, RunFits(r), NEW p, Plain(r, p)
  PROVE  /\ Targets(Live(r), p) = Targets(runs[r].rows, p)
         /\ Rows(Live(r), p) = Rows(runs[r].rows, p)
         /\ Targets(Rows(Live(r), p), p) = Targets(runs[r].rows, p)
         /\ {x \in Rows(Marks(r), p) : x.target} = Targets(runs[r].rows, p)
         /\ {x \in Rows(Live(r), p) : DomainOf[x.domain] = runs[r].domain} = Targets(runs[r].rows, p)
         /\ \A h : DomainOf[h] = runs[r].domain =>
               MarksOf(r, p, h) = {x \in Targets(runs[r].rows, p) : x.domain = h}
BY DEF Plain, Targets, Live, Rows, Marks, MarksOf, RunFits

LEMMA PlainRow ==
  ASSUME TypeOK, NEW r \in DOMAIN runs, RunFits(r), NEW p, Plain(r, p)
  PROVE  \/ Targets(runs[r].rows, p) = {} /\ Placed(r, p) = 0 /\ LastOf(Targets(runs[r].rows, p)) = 0
         \/ \E x \in Targets(runs[r].rows, p) :
               /\ Targets(runs[r].rows, p) = {x} /\ Placed(r, p) = x.pos
               /\ LastOf(Targets(runs[r].rows, p)) = x.pos
               /\ x.pos \in 1 .. Limit /\ x.pair = p /\ x.domain \in Hosts /\ DomainOf[x.domain] = runs[r].domain /\ x.target
               /\ p \in PairsThat(r, "completed")
<1>1. runs[r].rows \subseteq ResultRow /\ IsFiniteSet(runs[r].rows)
  BY RunsAre DEF RunRow, RunFits
<1>2. Targets(runs[r].rows, p) \in SUBSET runs[r].rows
  BY DEF Targets
<1>3. IsFiniteSet(Targets(runs[r].rows, p))
  BY <1>1, <1>2, FS_Subset
<1>4. \A x \in Targets(runs[r].rows, p) :
         /\ x.pos \in 1 .. Limit /\ x.pair = p /\ x.domain \in Hosts /\ DomainOf[x.domain] = runs[r].domain /\ x.target
         /\ p \in PairsThat(r, "completed")
  BY <1>1 DEF Targets, ResultRow, RunFits, PairsThat
<1>5. Cardinality(Targets(runs[r].rows, p)) <= 1
  BY DEF Plain
<1>6. QED
  BY <1>3, <1>4, <1>5, OneRow DEF Placed

LEMMA PlainPlaced ==
  ASSUME TypeOK, NEW r \in DOMAIN runs, RunFits(r), NEW p, Plain(r, p)
  PROVE  /\ Placed(r, p) \in 0 .. Limit /\ Placed(r, p) \in Nat
         /\ Placed(r, p) = 0 <=> Targets(runs[r].rows, p) = {}
         /\ posMap(p, r) = Placed(r, p)
         /\ \A h : DomainOf[h] = runs[r].domain /\ (\A x \in Targets(runs[r].rows, p) : x.domain = h)
                  => /\ MarksOf(r, p, h) = Targets(runs[r].rows, p)
                     /\ At(Marks(r), p, h) = Placed(r, p)
<1>1. r # 0
  BY DEF Plain
<1>2. posMap(p, r) = LastOf(Targets(runs[r].rows, p))
  BY <1>1 DEF posMap
<1>3. \A h : At(Marks(r), p, h) = LastOf(MarksOf(r, p, h))
  BY DEF At, LastOf, MarksOf
<1>4. \A h : DomainOf[h] = runs[r].domain /\ (\A x \in Targets(runs[r].rows, p) : x.domain = h)
               => MarksOf(r, p, h) = Targets(runs[r].rows, p)
  BY PlainRows
<1>5. LastOf(Targets(runs[r].rows, p)) = Placed(r, p)
  BY PlainRow
<1>6. Placed(r, p) \in 0 .. Limit /\ Placed(r, p) \in Nat
      /\ (Placed(r, p) = 0 <=> Targets(runs[r].rows, p) = {})
  BY PlainRow, RankHistoryAssumption
<1>7. QED
  BY <1>2, <1>3, <1>4, <1>5, <1>6

\* What the rankings show of such a pair.
LEMMA RankingIs ==
  ASSUME TypeOK, NEW r \in DOMAIN runs, RunFits(r), NEW p, Plain(r, p)
  PROVE  /\ RankingEntry(r, p).pair = p /\ RankingEntry(r, p).position = Placed(r, p)
         /\ \A x \in Targets(runs[r].rows, p) :
               /\ RankingEntry(r, p).prev = Change(r, x).prev
               /\ RankingEntry(r, p).change = Change(r, x).change
<1> DEFINE T == Targets(runs[r].rows, p)
           mine == Rows(Live(r), p)
           shown == {x \in mine : x.target /\ x.pos = LastOf(Targets(mine, p))}
           told == IF shown = {} THEN [prev |-> 0, change |-> ""]
                   ELSE Change(r, CHOOSE x \in shown : TRUE)
<1>1. Targets(mine, p) = T /\ {x \in mine : x.target} = T
  <2>1. {x \in mine : x.target} = Targets(mine, p)
    BY DEF Rows, Targets
  <2>2. QED
    BY <2>1, PlainRows
<1>2. /\ RankingEntry(r, p).pair = p /\ RankingEntry(r, p).position = LastOf(shown)
      /\ RankingEntry(r, p).prev = told.prev /\ RankingEntry(r, p).change = told.change
  BY DEF RankingEntry
<1>3. shown = T
  <2>1. \A x \in T : x.pos = LastOf(T)
    BY PlainRow
  <2>2. QED
    BY <1>1, <2>1
<1>4. LastOf(T) = Placed(r, p) /\ \A x, y \in T : x = y
  BY PlainRow
<1> HIDE DEF shown, T
<1>5. ASSUME NEW x \in T PROVE told = Change(r, x)
  BY <1>3, <1>4
<1>6. QED
  BY <1>2, <1>3, <1>4, <1>5 DEF T

\* What is on a page is in the list, and what is in the list is on some page.
LEMMA PageIs ==
  ASSUME NEW S, NEW list \in Seq(S), NEW page \in PageNumbers, NEW limit \in SizesAllowed
  PROVE  \E off \in Nat :
            /\ off = (page - 1) * limit
            /\ DOMAIN Page(list, page, limit) = {i \in 1 .. limit : off + i <= Len(list)}
            /\ \A i \in DOMAIN Page(list, page, limit) :
                  off + i \in DOMAIN list /\ Page(list, page, limit)[i] = list[off + i]
<1>1. PICK off : off = (page - 1) * limit
  OBVIOUS
<1>2. off \in Nat /\ limit \in Nat /\ Len(list) \in Nat
  <2>1. page - 1 \in Nat /\ limit \in Nat
    BY DEF SizesAllowed, PageNumbers
  <2>2. QED
    BY <1>1, <2>1
<1>3. Min({off + limit, Len(list)}) = IF off + limit <= Len(list) THEN off + limit ELSE Len(list)
  <2> DEFINE T == {off + limit, Len(list)}
             m == IF off + limit <= Len(list) THEN off + limit ELSE Len(list)
  <2>1. T \in SUBSET Int /\ m \in T /\ \A y \in T : m <= y
    BY <1>2
  <2> HIDE DEF T, m
  <2>2. Min(T) = m
    BY <2>1, TheLeast
  <2>3. QED
    BY <2>2 DEF T, m
<1>4. parsePagination(page, limit)[1] = page /\ parsePagination(page, limit)[2] = limit
  <2>1. parsePagination(page, limit) = <<page, limit>>
    BY DEF parsePagination, SizesAllowed, PageNumbers
  <2>2. QED
    BY <2>1
<1>5. PICK last : last = IF off + limit <= Len(list) THEN off + limit ELSE Len(list)
  OBVIOUS
<1>6. Page(list, page, limit) = SubSeq(list, off + 1, last)
  BY <1>1, <1>3, <1>4, <1>5 DEF Page
<1>7. PICK page1 : page1 = Page(list, page, limit)
  OBVIOUS
<1>8. /\ page1 \in Seq(S) /\ Len(page1) = IF off + 1 <= last THEN last - (off + 1) + 1 ELSE 0
      /\ \A i \in 1 .. last - (off + 1) + 1 : page1[i] = list[(off + 1) + i - 1]
  <2> DEFINE T == SubSeq(list, off + 1, last)
  <2>1. off + 1 \in Int /\ last \in Int
    BY <1>2, <1>5
  <2>2. \A i \in off + 1 .. last : list[i] \in S
    <3>1. \A i \in off + 1 .. last : i \in 1 .. Len(list)
      BY <1>2, <1>5
    <3>2. QED
      BY <3>1
  <2>3. /\ T \in Seq(S) /\ Len(T) = IF off + 1 <= last THEN last - (off + 1) + 1 ELSE 0
        /\ \A i \in 1 .. last - (off + 1) + 1 : T[i] = list[(off + 1) + i - 1]
    BY <2>1, <2>2, SubSeqProperties
  <2> HIDE DEF T
  <2>4. page1 = T
    BY <1>6, <1>7 DEF T
  <2>5. QED
    BY <2>3, <2>4
<1>9. DOMAIN page1 = {i \in 1 .. limit : off + i <= Len(list)}
  <2>1. DOMAIN page1 = 1 .. Len(page1)
    BY <1>8
  <2>2. \A i \in Nat : i \in 1 .. Len(page1) <=> i \in 1 .. limit /\ off + i <= Len(list)
    BY <1>2, <1>5, <1>8
  <2>3. QED
    BY <1>2, <2>1, <2>2
<1>10. \A i \in DOMAIN page1 : off + i \in DOMAIN list /\ page1[i] = list[off + i]
  <2> SUFFICES ASSUME NEW i \in DOMAIN page1 PROVE off + i \in DOMAIN list /\ page1[i] = list[off + i]
    OBVIOUS
  <2>1. i \in 1 .. limit /\ off + i <= Len(list)
    BY <1>9
  <2>2. i \in 1 .. last - (off + 1) + 1 /\ (off + 1) + i - 1 = off + i /\ off + i \in 1 .. Len(list)
    BY <1>2, <1>5, <2>1
  <2>3. QED
    BY <1>8, <2>2
<1>11. QED
  BY <1>1, <1>2, <1>7, <1>9, <1>10

LEMMA OnAPage ==
  ASSUME NEW S, NEW list \in Seq(S), NEW page \in PageNumbers, NEW limit \in SizesAllowed
  PROVE  \A i \in DOMAIN Page(list, page, limit) :
            \E j \in DOMAIN list : Page(list, page, limit)[i] = list[j]
BY PageIs

\* An entry of a list of the pairs is what is told of its pair.
LEMMA EntriesAre ==
  ASSUME TypeOK, NEW p
  PROVE  /\ \A r \in DOMAIN runs : \A e \in EntryOf(buildRankings(r), p) : e = RankingEntry(r, p)
         /\ Latest # 0 => \A e \in EntryOf(LatestRankings(1, 20).rankings, p) : e = RankingEntry(Latest, p)
         /\ \A e \in EntryOf(TrackingPairs(1, 20), p) : e = TrackingPairEntry(p)
<1>1. \A r, q : RankingEntry(r, q).pair = q /\ TrackingPairEntry(q).pair = q
  BY DEF RankingEntry, TrackingPairEntry
<1>2. ASSUME NEW S \in SUBSET Pairs PROVE \E n \in Nat : DOMAIN InOrder(S) = 1 .. n
  <2>1. Cardinality(S) \in Nat
    BY RankHistoryAssumption, FS_Subset, FS_CardinalityType
  <2>2. QED
    BY <2>1 DEF InOrder
<1>3. ASSUME NEW r
      PROVE  /\ \E S : buildRankings(r) \in Seq(S)
             /\ \A i \in DOMAIN buildRankings(r) : \E q : buildRankings(r)[i] = RankingEntry(r, q)
  <2> DEFINE list == InOrder({q \in Pairs : Rows(Live(r), q) # {}})
             S == {RankingEntry(r, list[i]) : i \in DOMAIN list}
  <2>1. PICK n \in Nat : DOMAIN list = 1 .. n
    BY <1>2
  <2>2. buildRankings(r) = [i \in DOMAIN list |-> RankingEntry(r, list[i])]
    BY DEF buildRankings
  <2>3. \A i \in DOMAIN list : RankingEntry(r, list[i]) \in S
    OBVIOUS
  <2> HIDE DEF list, S
  <2>4. buildRankings(r) \in [1 .. n -> S]
    BY <2>1, <2>2, <2>3
  <2>5. buildRankings(r) \in Seq(S)
    BY <2>4
  <2>6. QED
    BY <2>2, <2>5
<1>4. ASSUME NEW r, NEW e \in EntryOf(buildRankings(r), p) PROVE e = RankingEntry(r, p)
  <2>1. PICK i \in DOMAIN buildRankings(r) : e = buildRankings(r)[i] /\ e.pair = p
    BY DEF EntryOf
  <2>2. PICK q : e = RankingEntry(r, q)
    BY <1>3, <2>1
  <2>3. QED
    BY <1>1, <2>1, <2>2
<1>5. ASSUME Latest # 0 PROVE \A e \in EntryOf(LatestRankings(1, 20).rankings, p) : e = RankingEntry(Latest, p)
  <2>1. PICK list : list = buildRankings(Latest)
    OBVIOUS
  <2>2. PICK page : page = Page(list, 1, 20)
    OBVIOUS
  <2>3. LatestRankings(1, 20).rankings = page
    BY <1>5, <2>1, <2>2 DEF LatestRankings
  <2>4. \A j \in DOMAIN list : \E q : list[j] = RankingEntry(Latest, q)
    BY <1>3, <2>1
  <2>5. PICK S : list \in Seq(S)
    BY <1>3, <2>1
  <2>6. \A i \in DOMAIN page : \E j \in DOMAIN list : page[i] = list[j]
    <3>1. PICK first, size : first = 1 /\ size = 20 /\ first \in PageNumbers /\ size \in SizesAllowed
      BY DEF PageNumbers, SizesAllowed
    <3>2. \A i \in DOMAIN Page(list, first, size) :
             \E j \in DOMAIN list : Page(list, first, size)[i] = list[j]
      BY <2>5, <3>1, OnAPage
    <3>3. QED
      BY <2>2, <3>1, <3>2
  <2>7. ASSUME NEW e \in EntryOf(page, p) PROVE e = RankingEntry(Latest, p)
    <3>1. PICK i \in DOMAIN page : e = page[i] /\ e.pair = p
      BY DEF EntryOf
    <3>2. PICK q : e = RankingEntry(Latest, q)
      BY <2>4, <2>6, <3>1
    <3>3. QED
      BY <1>1, <3>1, <3>2
  <2>8. QED
    BY <2>3, <2>7
<1>6. \A e \in EntryOf(TrackingPairs(1, 20), p) : e = TrackingPairEntry(p)
  <2> DEFINE list == Page(InOrder(job.tracked), 1, 20)
  <2>1. TrackingPairs(1, 20) = [i \in DOMAIN list |-> TrackingPairEntry(list[i])]
    BY DEF TrackingPairs
  <2> HIDE DEF list
  <2>2. QED
    BY <1>1, <2>1 DEF EntryOf
<1>7. QED
  BY <1>4, <1>5, <1>6

\* The newest of a set of ids is the first of the list.
LEMMA NewestFirst ==
  ASSUME NEW S \in SUBSET Int, IsFiniteSet(S), NEW r \in S, \A q \in S : q <= r
  PROVE  /\ Cardinality(Above(S, r)) = 0 /\ Cardinality(S) \in Nat \ {0}
         /\ DOMAIN Newer(S) = 1 .. Cardinality(S) /\ Newer(S)[1] = r
<1>1. r \in Int /\ \A q \in S : q \in Int
  OBVIOUS
<1>2. Above(S, r) = {}
  <2>1. \A q \in S : ~(q > r)
    <3> SUFFICES ASSUME NEW q \in S PROVE ~(q > r)
      OBVIOUS
    <3>1. q \in Int /\ r \in Int /\ q <= r
      BY <1>1
    <3>2. QED
      BY <3>1
  <2>2. QED
    BY <2>1 DEF Above
<1>3. Cardinality(Above(S, r)) = 0
  BY <1>2, FS_EmptySet
<1>4. Cardinality(S) \in Nat \ {0}
  BY FS_CardinalityType, FS_EmptySet
<1>5. \A t \in S : Cardinality({q \in S : q > t}) = 1 - 1 <=> t = r
  <2> SUFFICES ASSUME NEW t \in S PROVE Cardinality(Above(S, t)) = 0 <=> t = r
    BY DEF Above
  <2>1. CASE t = r
    BY <1>3, <2>1
  <2>2. CASE t # r
    <3>1. t \in Int /\ t < r
      BY <1>1, <2>2
    <3>2. Cardinality(Above(S, r)) < Cardinality(Above(S, t))
      BY <3>1, RankFalls
    <3>3. QED
      BY <1>3, <2>2, <3>2
  <2>3. QED
    BY <2>1, <2>2
<1>6. (CHOOSE t \in S : Cardinality({q \in S : q > t}) = 1 - 1) = r
  BY <1>5
<1>7. DOMAIN Newer(S) = 1 .. Cardinality(S) /\ 1 \in DOMAIN Newer(S)
  BY <1>4 DEF Newer
<1>8. Newer(S)[1] = r
  BY <1>6, <1>7 DEF Newer
<1>9. QED
  BY <1>3, <1>4, <1>7, <1>8

\* The latest run is the first on the first page of the pair's scans, and the scan
\* before it on that page is that of the run before.
LEMMA RanksOfTheLast ==
  ASSUME NEW S \in SUBSET Int, IsFiniteSet(S), NEW r \in S, \A q \in S : q <= r,
         NEW limit \in SizesAllowed
  PROVE  /\ r \in Recent(S, 1, limit)
         /\ limit > 1 => \A t \in S : t < r /\ (\A q \in S : q < r => q <= t) =>
               /\ t \in Recent(S, 1, limit)
               /\ Prior(Recent(S, 1, limit), r) = t
<1>1. PICK first : first = 1 /\ first \in PageNumbers
  BY DEF PageNumbers
<1>2. Recent(S, first, limit) = {q \in S : Cardinality(Above(S, q)) \in PageRanks(first, limit)}
  BY <1>1, RecentIs
<1>3. limit \in Nat /\ limit # 0 /\ PageRanks(first, limit) = 0 .. limit - 1
  BY <1>1 DEF PageRanks, SizesAllowed
<1>4. Cardinality(Above(S, r)) = 0
  BY NewestFirst
<1>5. r \in Recent(S, first, limit)
  BY <1>2, <1>3, <1>4
<1>6. ASSUME limit > 1, NEW t \in S, t < r, \A q \in S : q < r => q <= t
      PROVE  t \in Recent(S, first, limit) /\ Prior(Recent(S, first, limit), r) = t
  <2>1. t \in Int /\ r \in Int /\ \A q \in S : q \in Int
    OBVIOUS
  <2>2. Above(S, t) = {r}
    <3>1. \A q \in S : q > t => q = r
      <4> SUFFICES ASSUME NEW q \in S, q > t PROVE q = r
        OBVIOUS
      <4>1. q \in Int /\ q <= r /\ (q < r => q <= t)
        BY <1>6
      <4>2. QED
        BY <2>1, <4>1
    <3>2. r > t
      BY <1>6, <2>1
    <3>3. QED
      BY <3>1, <3>2 DEF Above
  <2>3. Cardinality(Above(S, t)) = 1
    BY <2>2, FS_Singleton
  <2>4. t \in Recent(S, first, limit)
    BY <1>2, <1>3, <1>6, <2>3
  <2> DEFINE T == {q \in Recent(S, first, limit) : q < r}
  <2>5. t \in T /\ T \in SUBSET Int /\ \A q \in T : q <= t
    <3>1. \A q \in T : q \in S /\ q < r
      BY <1>2
    <3>2. QED
      BY <1>6, <2>1, <2>4, <3>1
  <2> HIDE DEF T
  <2>6. Newest(T) = t
    BY <2>5, TheGreatest DEF Newest
  <2>7. QED
    BY <2>4, <2>6 DEF T, Prior
<1>7. QED
  BY <1>1, <1>5, <1>6

LEMMA LatestScan ==
  ASSUME TypeOK, NEW p, Latest # 0, p \in DOMAIN runs[Latest].pair
  PROVE  /\ Latest \in Scans(p) /\ Latest \in Recent(Scans(p), 1, 20)
         /\ PairScanHistory(p, 1, 20)[Latest].position = posMap(p, Latest)
         /\ Before(Latest) # 0 /\ p \in DOMAIN runs[Before(Latest)].pair =>
               PairScanHistory(p, 1, 20)[Latest].change
                 = Step(posMap(p, Before(Latest)), posMap(p, Latest))
<1>1. PICK r : r = Latest
  OBVIOUS
<1>2. r \in Scans(p) /\ \A q \in Scans(p) : q <= r
  BY <1>1, LatestIs DEF Scans
<1>3. Scans(p) \in SUBSET Int /\ IsFiniteSet(Scans(p))
  BY ScansAre
<1>4. PICK first, size : first = 1 /\ size = 20 /\ first \in PageNumbers /\ size \in SizesAllowed /\ size > 1
  BY DEF PageNumbers, SizesAllowed
<1>5. PICK S : S = Scans(p)
  OBVIOUS
<1>6. /\ r \in Recent(S, 1, size)
      /\ \A t \in S : t < r /\ (\A q \in S : q < r => q <= t) =>
               Prior(Recent(S, 1, size), r) = t
  BY <1>2, <1>3, <1>4, <1>5, RanksOfTheLast
<1>7. /\ PairScanHistory(p, first, size)[r].position = posMap(p, r)
      /\ PairScanHistory(p, first, size)[r].change
           = Step(posMap(p, Prior(Recent(S, first, size), r)), posMap(p, r))
  <2>1. PageScans(p, first, size) = Recent(Scans(p), first, size)
    BY <1>4, PageDomain
  <2>2. /\ PageItem(p, first, size, r) = ScanItem(p, r)
        /\ PairScanHistory(p, first, size)[r].change
             = Step(posMap(p, Prior(Recent(S, first, size), r)), posMap(p, r))
    BY <1>4, <1>5, <1>6, <2>1, PageItemIs
  <2>3. QED
    BY <2>2 DEF PageItem, ScanItem
<1>8. ASSUME Before(r) # 0, p \in DOMAIN runs[Before(r)].pair
      PROVE  Prior(Recent(S, 1, size), r) = Before(r)
  <2>1. /\ Before(r) \in Finished /\ Before(r) < r /\ \A q \in Finished : q < r => q <= Before(r)
    BY <1>1, <1>8, LatestIs, BeforeIs
  <2>2. Before(r) \in S /\ Before(r) < r /\ \A q \in S : q < r => q <= Before(r)
    BY <1>5, <1>8, <2>1 DEF Scans
  <2>3. PICK t \in S : t = Before(r)
    BY <2>2
  <2>4. QED
    BY <1>6, <2>2, <2>3
<1>9. QED
  BY <1>1, <1>2, <1>4, <1>5, <1>6, <1>7, <1>8

\* A trend ends with the latest run.
LEMMA TrendEnds ==
  ASSUME TypeOK, Latest # 0, NEW p, NEW d
  PROVE  PositionTrends(p, d, 10)[Len(PositionTrends(p, d, 10))].position
           = FirstOf({x \in Rows(Live(Latest), p) : DomainOf[x.domain] = d})
<1> DEFINE S == Recent(Finished, 1, 10)
           ids == Newer(S)
           point(r) == [run |-> r, position |-> FirstOf({x \in Rows(Live(r), p) : DomainOf[x.domain] = d})]
           f == [i \in DOMAIN ids |-> point(ids[i])]
<1>1. PICK r : r = Latest
  OBVIOUS
<1>2. /\ Finished \in SUBSET Int /\ IsFiniteSet(Finished) /\ r \in Finished /\ \A q \in Finished : q <= r
  <2>1. Finished \in SUBSET (1 .. Len(runs)) /\ Len(runs) \in Nat
    BY RunsAre
  <2>2. IsFiniteSet(1 .. Len(runs))
    BY <2>1, FS_Interval, 1 \in Int, Len(runs) \in Int
  <2>3. IsFiniteSet(Finished)
    BY <2>1, <2>2, FS_Subset
  <2>4. r \in Finished /\ \A q \in Finished : q <= r
    BY <1>1, LatestIs
  <2>5. QED
    BY <2>1, <2>3, <2>4
<1>3. r \in S /\ S \in SUBSET Finished
  <2>1. PICK first, size : first = 1 /\ size = 10 /\ first \in PageNumbers /\ size \in SizesAllowed
    BY DEF PageNumbers, SizesAllowed
  <2>2. r \in Recent(Finished, 1, size)
    BY <1>2, <2>1, RanksOfTheLast
  <2>3. Recent(Finished, first, size)
          = {q \in Finished : Cardinality(Above(Finished, q)) \in PageRanks(first, size)}
    BY <2>1, RecentIs
  <2>4. QED
    BY <2>1, <2>2, <2>3
<1>4. S \in SUBSET Int /\ IsFiniteSet(S) /\ \A q \in S : q <= r
  BY <1>2, <1>3, FS_Subset
<1>5. PositionTrends(p, d, 10) = Reverse(f)
  BY DEF PositionTrends
<1> HIDE DEF S
<1>6. PICK n \in Nat \ {0} : DOMAIN ids = 1 .. n /\ ids[1] = r
  BY <1>3, <1>4, NewestFirst
<1> HIDE DEF ids
<1>7. Len(f) = n /\ f[1] = point(r)
  BY <1>6
<1> HIDE DEF f
<1>8. Reverse(f) = [i \in 1 .. n |-> f[(n - i) + 1]]
  BY <1>7 DEF Reverse
<1>9. Len(Reverse(f)) = n /\ Reverse(f)[n] = f[1]
  BY <1>6, <1>8
<1>10. PositionTrends(p, d, 10)[Len(PositionTrends(p, d, 10))] = point(r)
  BY <1>5, <1>7, <1>9
<1>11. point(r).position = FirstOf({x \in Rows(Live(r), p) : DomainOf[x.domain] = d})
  OBVIOUS
<1> HIDE DEF point
<1>12. QED
  BY <1>1, <1>10, <1>11

\* What a pair's page says of where its target is, and where it ever was.
LEMMA SummaryIs ==
  ASSUME TypeOK, \A r \in DOMAIN runs : RunFits(r), NEW p, Plain(Latest, p)
  PROVE  /\ PairSummary(p).current = Placed(Latest, p)
         /\ PairSummary(p).change
              = (IF Before(Latest) = 0 \/ Targets(Live(Before(Latest)), p) = {} THEN 0
                 ELSE FirstOf(Targets(Live(Before(Latest)), p)) - Placed(Latest, p))
         /\ Placed(Latest, p) > 0 =>
               PairSummary(p).best <= Placed(Latest, p) /\ Placed(Latest, p) <= PairSummary(p).worst
<1> DEFINE all == UNION {Targets(runs[r].rows, p) : r \in Finished}
           places == {x.pos : x \in all}
<1>1. Latest # 0 /\ Latest \in DOMAIN runs /\ Latest \in Finished
  BY LatestIs DEF Plain
<1>2. FirstOf(Targets(Live(Latest), p)) = Placed(Latest, p)
  BY <1>1, PlainRows DEF Placed
<1>3. /\ PairSummary(p).current = FirstOf(Targets(Live(Latest), p))
      /\ PairSummary(p).change
           = (IF Before(Latest) = 0 \/ Targets(Live(Before(Latest)), p) = {} THEN 0
              ELSE FirstOf(Targets(Live(Before(Latest)), p)) - FirstOf(Targets(Live(Latest), p)))
      /\ PairSummary(p).best = FirstOf(all) /\ PairSummary(p).worst = LastOf(all)
  BY <1>1 DEF PairSummary
<1>4. ASSUME Placed(Latest, p) > 0 PROVE FirstOf(all) <= Placed(Latest, p) /\ Placed(Latest, p) <= LastOf(all)
  <2>1. PICK x \in Targets(runs[Latest].rows, p) : Placed(Latest, p) = x.pos
    BY <1>1, <1>4, PlainRow
  <2>2. x \in all
    BY <1>1, <2>1
  <2>3. \A y \in all : y \in ResultRow
    BY RunsAre DEF Targets, RunRow
  <2> HIDE DEF all
  <2>4. places \in SUBSET (1 .. Limit) /\ x.pos \in places
    BY <2>2, <2>3 DEF ResultRow
  <2>5. FirstOf(all) = Min(places) /\ LastOf(all) = Max(places)
    BY <2>2 DEF FirstOf, LastOf, Newest
  <2> HIDE DEF places
  <2>6. places \in SUBSET Int /\ IsFiniteSet(places) /\ places # {}
    <3>1. IsFiniteSet(1 .. Limit)
      BY RankHistoryAssumption, FS_Interval, Limit \in Int, 1 \in Int
    <3>2. IsFiniteSet(places)
      BY <2>4, <3>1, FS_Subset
    <3>3. QED
      BY <2>4, <3>2
  <2>7. \A y \in places : y <= Max(places)
    BY <2>6, Greatest
  <2>8. PICK m \in places : \A y \in places : m <= y
    BY <2>6, Least
  <2>9. Min(places) = m
    BY <2>6, <2>8, TheLeast
  <2>10. QED
    BY <2>1, <2>4, <2>5, <2>7, <2>8, <2>9
<1> HIDE DEF all
<1>5. QED
  BY <1>2, <1>3, <1>4

LEMMA CompetitorsAre ==
  ASSUME TypeOK, \A r \in DOMAIN runs : RunFits(r), NEW p, Plain(Latest, p)
  PROVE  /\ {x.position : x \in {y \in PairCompetitors(p) : y.target}} = {Placed(Latest, p)} \ {0}
         /\ \A c \in PairCompetitors(p) : c.target =>
               \E x \in Targets(runs[Latest].rows, p) :
                  c.change = IF Before(Latest) = 0 \/ At(Marks(Before(Latest)), p, x.domain) = 0
                             THEN 0 ELSE At(Marks(Before(Latest)), p, x.domain) - Placed(Latest, p)
<1> DEFINE T == Targets(runs[Latest].rows, p)
           before(d) == IF Before(Latest) = 0 THEN 0 ELSE At(Marks(Before(Latest)), p, d)
           line(x) == [domain |-> x.domain, target |-> x.target, position |-> x.pos,
                       change |-> IF before(x.domain) = 0 THEN 0 ELSE before(x.domain) - x.pos]
<1>1. Latest # 0 /\ Latest \in DOMAIN runs
  BY LatestIs DEF Plain
<1>2. PairCompetitors(p) = {line(x) : x \in Rows(Marks(Latest), p)}
  BY <1>1 DEF PairCompetitors
<1>3. T = {x \in Rows(Marks(Latest), p) : x.target}
  BY <1>1, PlainRows
<1>4. \A x : /\ line(x).target = x.target /\ line(x).position = x.pos
             /\ line(x).change = IF before(x.domain) = 0 THEN 0 ELSE before(x.domain) - x.pos
  OBVIOUS
<1>5. \/ T = {} /\ Placed(Latest, p) = 0
      \/ \E x \in T : T = {x} /\ Placed(Latest, p) = x.pos /\ x.pos # 0
  BY <1>1, PlainRow, RankHistoryAssumption
<1> HIDE DEF T, line
<1>6. {x.position : x \in {y \in PairCompetitors(p) : y.target}} = {x.pos : x \in T}
  BY <1>2, <1>3, <1>4
<1>7. {x.pos : x \in T} = {Placed(Latest, p)} \ {0}
  BY <1>5
<1>8. \A c \in PairCompetitors(p) : c.target => \E x \in T :
         c.change = IF before(x.domain) = 0 THEN 0 ELSE before(x.domain) - x.pos
  BY <1>2, <1>3, <1>4
<1>9. \A x \in T : x.pos = Placed(Latest, p)
  BY <1>5
<1>10. QED
  BY <1>6, <1>7, <1>8, <1>9 DEF T

\* The change of a row in the latest run, when the pair was there in the run before
\* and both runs were after the same domain and found it under the same host.
LEMMA ChangeIs ==
  ASSUME HistoryInv, NEW p \in Pairs, Plain(Latest, p), Plain(Before(Latest), p),
         runs[Latest].detected, runs[Before(Latest)].domain = runs[Latest].domain,
         SameHost(Before(Latest), Latest, p), NEW x \in Targets(runs[Latest].rows, p),
         NEW was, was = Placed(Before(Latest), p), NEW now, now = Placed(Latest, p)
  PROVE  /\ Change(Latest, x).change =
              (IF now = was THEN "stable" ELSE IF was = 0 THEN "new"
               ELSE IF now < was THEN "improved" ELSE "dropped")
         /\ now # was => Change(Latest, x).prev = was
<1> DEFINE found == {d \in runs[Latest].diffs : d.pair = x.pair /\ d.domain = x.domain}
           D == x.domain
           moved == Diff(p, D, was, now)
<1>1. /\ Latest # 0 /\ Latest \in DOMAIN runs /\ Latest \in Finished /\ RunFits(Latest) /\ TypeOK
      /\ Before(Latest) # 0 /\ Before(Latest) \in DOMAIN runs /\ RunFits(Before(Latest))
  <2>1. Latest # 0 /\ Before(Latest) # 0 /\ TypeOK
    BY DEF Plain, HistoryInv
  <2>2. Latest \in DOMAIN runs /\ Latest \in Finished
    BY <2>1, LatestIs
  <2>3. Before(Latest) \in DOMAIN runs
    BY <2>1, <2>2, BeforeIs
  <2>4. QED
    BY <2>1, <2>2, <2>3 DEF HistoryInv
<1>2. x.pair = p /\ D \in Hosts /\ DomainOf[D] = runs[Latest].domain
      /\ (\A y \in Targets(runs[Latest].rows, p) : y.domain = D) /\ now # 0 /\ now \in Nat /\ was \in Nat
  <2>1. /\ x.pair = p /\ D \in Hosts /\ DomainOf[D] = runs[Latest].domain
        /\ \A y \in Targets(runs[Latest].rows, p) : y.domain = D
        /\ Placed(Latest, p) = x.pos /\ x.pos \in 1 .. Limit
    BY <1>1, PlainRow
  <2>2. Placed(Latest, p) \in Nat /\ Placed(Before(Latest), p) \in Nat
    BY <1>1, PlainPlaced
  <2>3. QED
    BY <2>1, <2>2, RankHistoryAssumption
<1>3. found = Moved(p, D, was, now)
  <2>1. MarksOf(Latest, p, D) = Targets(runs[Latest].rows, p)
        /\ MarksOf(Before(Latest), p, D) = Targets(runs[Before(Latest)].rows, p)
    BY <1>1, <1>2, PlainPlaced DEF SameHost
  <2>2. Cardinality(MarksOf(Latest, p, D)) <= 1 /\ Cardinality(MarksOf(Before(Latest), p, D)) <= 1
    BY <2>1 DEF Plain
  <2>4. DiffsOf(Latest, p, D)
          = Moved(p, D, FirstOf(MarksOf(Before(Latest), p, D)), FirstOf(MarksOf(Latest, p, D)))
    BY <1>1, <1>2, <2>2 DEF HistoryInv, DiffsFit
  <2>5. found = DiffsOf(Latest, p, D)
    BY <1>2 DEF DiffsOf
  <2>6. QED
    BY <2>1, <2>4, <2>5 DEF Placed
<1>4. /\ found = {} => Change(Latest, x).change = "stable"
      /\ \A d : found = {d} /\ d.curr \in Nat => Change(Latest, x).change = d.change /\ Change(Latest, x).prev = d.prev
  <2>1. Change(Latest, x) =
          (IF found = {} THEN [prev |-> 0, change |-> "stable"]
           ELSE [prev |-> (CHOOSE d \in found : \A e \in found : e.curr <= d.curr).prev,
                 change |-> (CHOOSE d \in found : \A e \in found : e.curr <= d.curr).change])
    BY DEF Change
  <2>2. ASSUME NEW d, found = {d}, d.curr \in Nat
        PROVE (CHOOSE c \in found : \A e \in found : e.curr <= c.curr) = d
    <3>1. d.curr <= d.curr
      BY <2>2
    <3>2. QED
      BY <2>2, <3>1
  <2> HIDE DEF found
  <2>3. QED
    BY <2>1, <2>2
<1>5. /\ moved.prev = was /\ moved.curr = now
      /\ moved.change = IF was = 0 THEN "new" ELSE IF now = 0 THEN "lost"
                        ELSE IF now < was THEN "improved" ELSE "dropped"
  BY DEF Diff
<1>6. CASE now = was
  <2>1. found = {}
    BY <1>3, <1>6 DEF Moved
  <2>2. QED
    BY <1>4, <1>6, <2>1
<1>7. CASE now # was
  <2>1. found = {moved}
    BY <1>3, <1>7 DEF Moved
  <2>2. moved.curr \in Nat
    BY <1>2, <1>5
  <2> HIDE DEF found, moved
  <2>3. Change(Latest, x).change = moved.change /\ Change(Latest, x).prev = moved.prev
    BY <1>4, <2>1, <2>2
  <2>4. QED
    BY <1>2, <1>5, <1>7, <2>3
<1>8. QED
  BY <1>6, <1>7

\* Every item of a list is on some page.
LEMMA ListedSomewhere ==
  ASSUME NEW S, NEW list \in Seq(S), NEW limit \in SizesAllowed, NEW j \in DOMAIN list
  PROVE  \E n \in 1 .. Len(list) : \E i \in DOMAIN Page(list, n, limit) : Page(list, n, limit)[i] = list[j]
<1>1. j - 1 \in Nat /\ limit \in Nat \ {0} /\ (j - 1) + 1 = j /\ j <= Len(list) /\ Len(list) \in Nat
  BY DEF SizesAllowed
<1>2. PICK k \in Nat : k = j - 1
  BY <1>1
<1>3. PICK n \in 1 .. k + 1 : k \in PageRanks(n, limit)
  BY <1>2, OnePageOf
<1>4. n \in PageNumbers /\ n \in 1 .. Len(list)
  BY <1>1, <1>2 DEF PageNumbers
<1>5. PICK m \in PageNumbers : m = n
  BY <1>4
<1>6. PICK page : page = Page(list, m, limit)
  OBVIOUS
<1>7. PICK off \in Nat :
            /\ off = (m - 1) * limit
            /\ DOMAIN page = {i \in 1 .. limit : off + i <= Len(list)}
            /\ \A i \in DOMAIN page : page[i] = list[off + i]
  <2>1. \E off \in Nat :
            /\ off = (m - 1) * limit
            /\ DOMAIN Page(list, m, limit) = {i \in 1 .. limit : off + i <= Len(list)}
            /\ \A i \in DOMAIN Page(list, m, limit) :
                  off + i \in DOMAIN list /\ Page(list, m, limit)[i] = list[off + i]
    BY PageIs
  <2>2. QED
    BY <1>6, <2>1
<1>8. k \in off .. off + limit - 1
  BY <1>3, <1>5, <1>7 DEF PageRanks
<1>9. PICK i \in 1 .. limit : i = j - off /\ off + i = j
  BY <1>1, <1>2, <1>8
<1>10. i \in DOMAIN page /\ page[i] = list[j]
  BY <1>1, <1>7, <1>9
<1>11. QED
  BY <1>4, <1>5, <1>6, <1>10

\* Of a run with a report, the one it has.
LEMMA ReportIs ==
  ASSUME TypeOK, ReportsFit, NEW r
  PROVE  \/ Reported(r) = {} /\ GetRunReport(r) = None
         \/ \E k \in DOMAIN reports : Reported(r) = {k} /\ GetRunReport(r) = reports[k] /\ reports[k] # None
<1>1. CASE Reported(r) = {}
  BY <1>1 DEF GetRunReport
<1>2. CASE Reported(r) # {}
  <2>1. PICK k \in Reported(r) : k \in DOMAIN reports /\ k \in Int
    BY <1>2 DEF Reported, TypeOK
  <2>2. Reported(r) = {k}
    BY <2>1 DEF Reported, ReportsFit
  <2>3. Min({k}) = k
    <3> DEFINE T == {k}
    <3>1. T \in SUBSET Int /\ k \in T /\ \A y \in T : k <= y
      BY <2>1
    <3> HIDE DEF T
    <3>2. Min(T) = k
      BY <3>1, TheLeast
    <3>3. QED
      BY <3>2 DEF T
  <2>4. GetRunReport(r) = reports[k]
    BY <1>2, <2>2, <2>3 DEF GetRunReport
  <2>5. reports[k] # None
    <3>1. reports[k] \in ReportRow
      BY <2>1 DEF TypeOK
    <3>2. None \notin ReportRow
      BY RankHistoryAssumption DEF ReportRow
    <3>3. QED
      BY <3>1, <3>2, Zenon
  <2>6. QED
    BY <2>1, <2>2, <2>4, <2>5
<1>3. QED
  BY <1>1, <1>2

\* A run that ended well has a pair that was found.
LEMMA SomeCompleted ==
  ASSUME TypeOK, NEW r \in Finished, RunFits(r)
  PROVE  GetRun(r).completed > 0
<1>1. runs[r] \in RunRow /\ runs[r].status \in {"completed", "partial"}
  BY RunsAre DEF Finished
<1>2. PICK ps \in SUBSET Pairs : runs[r].pair \in [ps -> Outcomes]
  BY <1>1 DEF RunRow
<1>3. PairsThat(r, "completed") \in SUBSET Pairs
  BY <1>2 DEF PairsThat
<1>4. PairsThat(r, "completed") # {}
  <2> SUFFICES ASSUME PairsThat(r, "completed") = {} PROVE FALSE
    OBVIOUS
  <2>1. \A p \in ps : runs[r].pair[p] \in {"pending", "failed"}
    BY <1>2 DEF PairsThat, Outcomes
  <2>2. ps # {} /\ DOMAIN runs[r].pair = ps
    BY <1>2 DEF RunFits
  <2> DEFINE outcomes == {runs[r].pair[p] : p \in DOMAIN runs[r].pair}
  <2>3. "pending" \in outcomes \/ outcomes = {"failed"}
    BY <2>1, <2>2
  <2>4. StatusOf(runs[r].pair) \in {"running", "failed"}
    BY <2>3 DEF StatusOf
  <2>5. QED
    BY <1>1, <2>4 DEF RunFits
<1>5. Cardinality(PairsThat(r, "completed")) \in Nat /\ Cardinality(PairsThat(r, "completed")) # 0
  BY <1>3, <1>4, RankHistoryAssumption, FS_Subset, FS_CardinalityType, FS_EmptySet
<1>6. GetRun(r).completed = Cardinality(PairsThat(r, "completed"))
  BY DEF GetRun
<1>7. QED
  BY <1>5, <1>6

\* What is told of a scan is as it was in the next state, but that it may have a
\* report by then.
ScanStays(p, r) ==
    /\ Cardinality({q \in Scans(p) : q <= r})' = Cardinality({q \in Scans(p) : q <= r})
    /\ posMap(p, r)' = posMap(p, r) /\ (runs[r].pair[p])' = runs[r].pair[p]
    /\ Cardinality(Rows(runs[r].rows, p))' = Cardinality(Rows(runs[r].rows, p))
    /\ HasReport(r) => HasReport(r)'
    /\ Move(p, r)' = Move(p, r)

\* A report that is there stays, with the outcome it has.
LEMMA ReportStays ==
  ASSUME TypeOK, [Next]_vars, NEW r, HasReport(r)
  PROVE  HasReport(r)'
<1>1. PICK k \in DOMAIN reports : reports[k].run = r /\ reports[k].status = "generated"
  BY DEF HasReport, Reported
<1>2. k \in DOMAIN reports' /\ reports'[k] = reports[k]
  <2>1. CASE StartReport
    <3>1. PICK q : reports' = Append(reports, [run |-> q, status |-> "generating"])
      BY <2>1 DEF StartReport
    <3>2. QED
      BY <3>1 DEF TypeOK
  <2>2. CASE EndReport
    <3>1. PICK i \in DOMAIN reports, status \in {"generated", "failed"} :
             /\ reports[i].status = "generating"
             /\ reports' = [reports EXCEPT ![i].status = status]
      BY <2>2 DEF EndReport
    <3>2. i # k
      BY <1>1, <3>1
    <3>3. QED
      BY <3>1, <3>2 DEF TypeOK
  <2>3. CASE UNCHANGED reports
    BY <2>3
  <2>4. QED
    BY <2>1, <2>2, <2>3 DEF Next, vars, TriggerScrapeForJob, Scrape, Detect, UpdateJob
<1>3. QED
  BY <1>1, <1>2 DEF HasReport, Reported

LEMMA ScanKept ==
  ASSUME TypeOK, TypeOK', \A r \in DOMAIN runs : RunFits(r), [Next]_vars, NEW p, NEW r \in Scans(p)
  PROVE  r \in Scans(p)' /\ ScanStays(p, r)
<1>1. \A q \in Finished :
         /\ q \in Finished' /\ runs'[q].rows = runs[q].rows /\ runs'[q].pair = runs[q].pair
  BY FinishedStay
<1>2. \A n \in Finished' \ Finished : n = Len(runs)
  BY FinishedStay
<1>3. r \in Finished /\ r \in 1 .. Len(runs) /\ Len(runs) \in Nat
  BY ScansAre, RunsAre
<1>4. \A q \in Scans(p) : q \in Scans(p)' /\ posMap(p, q)' = posMap(p, q)
  <2> SUFFICES ASSUME NEW q \in Scans(p) PROVE q \in Scans(p)' /\ posMap(p, q)' = posMap(p, q)
    OBVIOUS
  <2>1. q \in Finished
    BY ScansAre
  <2>2. q \in Scans(p)'
    BY <1>1, <2>1 DEF Scans
  <2>3. QED
    BY <1>1, <2>1, <2>2 DEF posMap, Targets, LastOf, Newest
<1>5. \A q \in Scans(p)' : q <= r => q \in Scans(p)
  <2> SUFFICES ASSUME NEW q \in Scans(p)', q <= r PROVE q \in Scans(p)
    OBVIOUS
  <2>1. q \in Finished'
    BY DEF Scans
  <2>2. q \in Finished
    BY <1>2, <1>3, <2>1
  <2>3. QED
    BY <1>1, <2>2 DEF Scans
<1>6. {q \in Scans(p)' : q <= r} = {q \in Scans(p) : q <= r}
  BY <1>4, <1>5
<1>7. {q \in Scans(p)' : q < r} = {q \in Scans(p) : q < r}
  <2>1. \A q \in Scans(p)' : q < r => q <= r
    <3>1. Scans(p)' \subseteq DOMAIN runs' /\ DOMAIN runs' = 1 .. Len(runs')
      BY DEF Scans, Finished, TypeOK
    <3>2. QED
      BY <1>3, <3>1
  <2>2. QED
    BY <1>4, <1>5, <2>1
<1>8. Move(p, r)' = Move(p, r)
  <2>1. PICK B, b : B = {q \in Scans(p) : q < r} /\ b = Newest(B)
    OBVIOUS
  <2>2. B \in SUBSET (1 .. Len(runs)) /\ B \subseteq Scans(p)
    BY <2>1, ScansAre, RunsAre
  <2>3. b = 0 \/ b \in Scans(p)
    BY <1>3, <2>1, <2>2, NewestOf
  <2>4. posMap(p, b)' = posMap(p, b)
    BY <1>4, <2>3 DEF posMap
  <2>5. Prior(Scans(p), r)' = b
    BY <1>7, <2>1 DEF Newest, Prior
  <2>6. Move(p, r) = Step(posMap(p, b), posMap(p, r))
    BY <2>1 DEF Move, Prior
  <2>7. Move(p, r)' = Step(posMap(p, b)', posMap(p, r)')
    BY <2>5 DEF Move, Step, posMap
  <2>8. QED
    BY <1>4, <2>4, <2>6, <2>7
<1>9. HasReport(r) => HasReport(r)'
  BY ReportStays
<1>10. QED
  BY <1>1, <1>3, <1>4, <1>6, <1>8, <1>9 DEF ScanStays, Rows
----------------------------------------------------------------------------
(***************************************************************************)
(* Theorems.                                                               *)
(***************************************************************************)

\* The inductive invariant of the rows: every run has the status its pairs imply,
\* its rows are of its pairs, what is told of it is how the hosts moved since
\* the run before, and no run has two reports.
THEOREM HistoryInvariant == Spec => []HistoryInv
<1>1. HistoryInv /\ [Next]_vars => HistoryInv'
  BY HistoryStep
<1>2. QED
  BY <1>1, HistoryInit, PTL DEF Spec

\* However the job is edited between scans, detection and the reading of it, the
\* differences of a run lead from the positions before to its own.
THEOREM DiffsReplayed == Spec => []DiffsReplay
<1>1. HistoryInv => DiffsReplay
  <2> SUFFICES ASSUME HistoryInv, NEW r \in Finished, runs[r].detected, Before(r) # 0,
                      NEW p \in Pairs, NEW d \in Hosts,
                      Cardinality(MarksOf(r, p, d)) <= 1, Cardinality(MarksOf(Before(r), p, d)) <= 1
               PROVE  {x.curr : x \in DiffsOf(r, p, d)} =
                        IF FirstOf(MarksOf(r, p, d)) = FirstOf(MarksOf(Before(r), p, d))
                        THEN {} ELSE {FirstOf(MarksOf(r, p, d))}
    BY DEF DiffsReplay
  <2> DEFINE now == FirstOf(MarksOf(r, p, d))
             was == FirstOf(MarksOf(Before(r), p, d))
  <2>1. DiffsOf(r, p, d) = Moved(p, d, was, now)
    BY DEF HistoryInv, DiffsFit
  <2> HIDE DEF now, was
  <2>2. Diff(p, d, was, now).curr = now
    BY DEF Diff
  <2>3. {x.curr : x \in Moved(p, d, was, now)} = IF now = was THEN {} ELSE {now}
    BY <2>2 DEF Moved
  <2>4. QED
    BY <2>1, <2>3 DEF now, was
<1>2. QED
  BY <1>1, HistoryInvariant, PTL

\* For any size of pages and any number of scans, each scan is on one page and has
\* there the number it has by its place among all scans of the pair.
THEOREM PagesAgree == Spec => []PagesTellTheSame
<1>1. TypeOK => PagesTellTheSame
  <2>1. ASSUME TypeOK, NEW p \in Pairs, NEW limit \in Sizes, NEW r \in Scans(p)
        PROVE  Cardinality({n \in 1 .. MaxRuns : r \in DOMAIN PairScanHistory(p, n, limit)}) = 1
    <3>1. limit \in SizesAllowed
      BY RankHistoryAssumption DEF SizesAllowed
    <3>2. PICK n \in 1 .. MaxRuns :
             {m \in 1 .. MaxRuns : r \in DOMAIN PairScanHistory(p, m, limit)} = {n}
      BY <2>1, <3>1, ScanOnPage DEF PageScans
    <3>3. QED
      BY <3>2, FS_Singleton
  <2>2. ASSUME TypeOK, NEW p \in Pairs, NEW limit \in Sizes
        PROVE  \A n \in 1 .. MaxRuns : \A r \in DOMAIN PairScanHistory(p, n, limit) :
                  PairScanHistory(p, n, limit)[r].number = Cardinality({q \in Scans(p) : q <= r})
    <3> DEFINE Ns == 1 .. MaxRuns
    <3>1. limit \in SizesAllowed
      BY RankHistoryAssumption DEF SizesAllowed
    <3>2. Ns \subseteq PageNumbers
      BY RankHistoryAssumption DEF PageNumbers
    <3> HIDE DEF Ns
    <3>3. \A n \in PageNumbers : \A r \in PageScans(p, n, limit) :
             PageItem(p, n, limit, r) = ScanItem(p, r)
      BY <2>2, <3>1, PageItemIs
    <3>4. \A n \in Ns : \A r \in PageScans(p, n, limit) :
             PageItem(p, n, limit, r)[2] = ScanItem(p, r)[2]
      BY <3>2, <3>3
    <3>5. QED
      BY <3>4 DEF Ns, PageScans, PageItem, ScanItem
  <2>3. QED
    BY <2>1, <2>2 DEF PagesTellTheSame
<1>2. QED
  BY <1>1, HistoryInvariant, PTL DEF HistoryInv

\* Whatever runs follow, whichever page they move a scan to, and however the job is
\* edited: its number, position, status and count of results are told for ever, a
\* report once told stays, and of its change no two are told that differ, but for 0.
THEOREM HistoryKept == Spec => HistoryIsKept
<1>1. TypeOK => \A p \in Pairs, limit \in Sizes : \A r :
         /\ \A x \in Told(p, limit, r) : r \in Scans(p) /\ Tells(p, r, x)
         /\ r \in Scans(p) => Told(p, limit, r) # {}
  BY ToldIs, RankHistoryAssumption DEF SizesAllowed
<1>2. (TypeOK => \A p \in Pairs, limit \in Sizes : \A r :
         /\ \A x \in Told(p, limit, r) : r \in Scans(p) /\ Tells(p, r, x)
         /\ r \in Scans(p) => Told(p, limit, r) # {})'
  BY <1>1, PTL
<1>3. HistoryInv /\ [Next]_vars =>
         \A p \in Pairs, limit \in Sizes, r \in DOMAIN runs :
            \A x \in Told(p, limit, r) : \E y \in Told(p, limit, r)' : Agree(x, y)
  <2> SUFFICES ASSUME HistoryInv, [Next]_vars, NEW p \in Pairs, NEW limit \in Sizes,
                      NEW r \in DOMAIN runs, NEW x \in Told(p, limit, r)
               PROVE  \E y \in Told(p, limit, r)' : Agree(x, y)
    OBVIOUS
  <2>1. TypeOK /\ (\A q \in DOMAIN runs : RunFits(q)) /\ TypeOK'
    BY HistoryStep DEF HistoryInv
  <2>2. r \in Scans(p) /\ Tells(p, r, x)
    BY <1>1, <2>1
  <2>3. r \in Scans(p)' /\ ScanStays(p, r)
    BY <2>1, <2>2, ScanKept
  <2>4. PICK y \in Told(p, limit, r)' : Tells(p, r, y)'
    BY <1>2, <2>1, <2>3
  <2>5. /\ y.number = Cardinality({q \in Scans(p) : q <= r}) /\ y.position = posMap(p, r)
        /\ y.status = runs[r].pair[p] /\ y.count = Cardinality(Rows(runs[r].rows, p))
        /\ (HasReport(r) => y.hasReport) /\ y.change \in {0, Move(p, r)}
    BY <2>3, <2>4 DEF Tells, ScanStays
  <2>6. Agree(x, y)
    BY <2>2, <2>5 DEF Agree, Tells
  <2>7. QED
    BY <2>6
<1>4. QED
  BY <1>3, HistoryInvariant, PTL DEF HistoryIsKept, Spec

\* All views of a pair found once tell the same position of its target in the latest
\* run: the tracked pairs, the rankings, the scan history, the competitors, the trend
\* and the summary, each with its own query.
THEOREM PositionsAgree == Spec => []ViewsAgreeOnPosition
<1>1. HistoryInv => ViewsAgreeOnPosition
  <2>1. ASSUME HistoryInv, NEW p \in job.tracked, Plain(Latest, p)
        PROVE  /\ PairSummary(p).current = Placed(Latest, p)
               /\ \A e \in EntryOf(TrackingPairs(1, 20), p) : e.latest = Placed(Latest, p)
               /\ \A e \in EntryOf(LatestRankings(1, 20).rankings, p) : e.position = Placed(Latest, p)
               /\ PairScanHistory(p, 1, 20)[Latest].position = Placed(Latest, p)
               /\ {x.position : x \in {y \in PairCompetitors(p) : y.target}} = {Placed(Latest, p)} \ {0}
               /\ runs[Latest].domain = job.domain =>
                     PositionTrends(p, job.domain, 10)[Len(PositionTrends(p, job.domain, 10))].position
                       = Placed(Latest, p)
               /\ Placed(Latest, p) > 0 =>
                     PairSummary(p).best <= Placed(Latest, p) /\ Placed(Latest, p) <= PairSummary(p).worst
    <3>1. TypeOK /\ (\A r \in DOMAIN runs : RunFits(r)) /\ Latest # 0
      BY <2>1 DEF HistoryInv, Plain
    <3>2. Latest \in DOMAIN runs /\ RunFits(Latest) /\ p \in DOMAIN runs[Latest].pair
      BY <2>1, <3>1, LatestIs DEF Plain
    <3>3. posMap(p, Latest) = Placed(Latest, p)
      BY <2>1, <3>1, <3>2, PlainPlaced
    <3>4. \A e \in EntryOf(TrackingPairs(1, 20), p) : e.latest = Placed(Latest, p)
      <4>1. TrackingPairEntry(p).latest = posMap(p, Latest)
        BY DEF TrackingPairEntry
      <4>2. \A e \in EntryOf(TrackingPairs(1, 20), p) : e = TrackingPairEntry(p)
        BY <3>1, EntriesAre
      <4>3. QED
        BY <3>3, <4>1, <4>2
    <3>5. \A e \in EntryOf(LatestRankings(1, 20).rankings, p) : e.position = Placed(Latest, p)
      <4>1. RankingEntry(Latest, p).position = Placed(Latest, p)
        BY <2>1, <3>1, <3>2, RankingIs
      <4>2. \A e \in EntryOf(LatestRankings(1, 20).rankings, p) : e = RankingEntry(Latest, p)
        BY <3>1, EntriesAre
      <4>3. QED
        BY <4>1, <4>2
    <3>6. PairScanHistory(p, 1, 20)[Latest].position = Placed(Latest, p)
      BY <3>1, <3>2, <3>3, LatestScan
    <3>7. {x.position : x \in {y \in PairCompetitors(p) : y.target}} = {Placed(Latest, p)} \ {0}
      BY <2>1, <3>1, CompetitorsAre
    <3>8. ASSUME runs[Latest].domain = job.domain
          PROVE  PositionTrends(p, job.domain, 10)[Len(PositionTrends(p, job.domain, 10))].position
                   = Placed(Latest, p)
      <4>1. {x \in Rows(Live(Latest), p) : DomainOf[x.domain] = job.domain} = Targets(runs[Latest].rows, p)
        BY <2>1, <3>1, <3>2, <3>8, PlainRows
      <4>2. QED
        BY <3>1, <4>1, TrendEnds DEF Placed
    <3>9. /\ PairSummary(p).current = Placed(Latest, p)
          /\ Placed(Latest, p) > 0 =>
                PairSummary(p).best <= Placed(Latest, p) /\ Placed(Latest, p) <= PairSummary(p).worst
      BY <2>1, <3>1, SummaryIs
    <3>10. QED
      BY <3>4, <3>5, <3>6, <3>7, <3>8, <3>9
  <2>2. QED
    BY <2>1, Zenon DEF ViewsAgreeOnPosition
<1>2. QED
  BY <1>1, HistoryInvariant, PTL

\* When detection has run, and the two last runs were after the same domain and found
\* it once each, under the same host, if both found it, the change is one and the same whether it is read off the
\* stored differences (rankings) or reckoned anew from the rows of the two runs
\* (tracked pairs, summary, scan history, competitors).
THEOREM ChangesAgree == Spec => []ViewsAgreeOnChange
<1>1. HistoryInv => ViewsAgreeOnChange
  <2>1. ASSUME HistoryInv, NEW p \in job.tracked, Plain(Latest, p), Plain(Before(Latest), p),
               runs[Latest].detected, runs[Before(Latest)].domain = runs[Latest].domain,
               SameHost(Before(Latest), Latest, p), PairSummary(p).current > 0
        PROVE  /\ \A e \in EntryOf(RunRankings(Latest), p), f \in EntryOf(TrackingPairs(1, 20), p) :
                     /\ e.change = f.change
                     /\ e.change # "stable" => e.prev = f.prev
                     /\ (PairSummary(p).change > 0) <=> (e.change = "improved")
                     /\ (PairSummary(p).change < 0) <=> (e.change = "dropped")
               /\ PairScanHistory(p, 1, 20)[Latest].change = PairSummary(p).change
               /\ \A c \in PairCompetitors(p) : c.target => c.change = PairSummary(p).change
               /\ PairSummary(p).change =
                     IF FirstOf(Targets(Live(Before(Latest)), p)) = 0 THEN 0
                     ELSE FirstOf(Targets(Live(Before(Latest)), p)) - PairSummary(p).current
    <3>1. TypeOK /\ (\A r \in DOMAIN runs : RunFits(r)) /\ Latest # 0 /\ Before(Latest) # 0
      BY <2>1 DEF HistoryInv, Plain
    <3>2. /\ Latest \in DOMAIN runs /\ RunFits(Latest) /\ p \in DOMAIN runs[Latest].pair /\ p \in Pairs
          /\ Before(Latest) \in DOMAIN runs /\ RunFits(Before(Latest))
          /\ p \in DOMAIN runs[Before(Latest)].pair
      <4>1. Latest \in DOMAIN runs
        BY <3>1, LatestIs
      <4>2. Before(Latest) \in DOMAIN runs
        BY <3>1, <4>1, BeforeIs
      <4>3. p \in Pairs
        BY <3>1 DEF TypeOK
      <4>4. QED
        BY <2>1, <3>1, <4>1, <4>2, <4>3 DEF Plain
    <3>3. PICK now, was : now = Placed(Latest, p) /\ was = Placed(Before(Latest), p)
      OBVIOUS
    <3>4. /\ now \in Nat /\ was \in Nat
          /\ posMap(p, Latest) = now /\ posMap(p, Before(Latest)) = was
          /\ was = 0 <=> Targets(runs[Before(Latest)].rows, p) = {}
          /\ now = 0 <=> Targets(runs[Latest].rows, p) = {}
      BY <2>1, <3>1, <3>2, <3>3, PlainPlaced
    <3>5. Targets(Live(Before(Latest)), p) = Targets(runs[Before(Latest)].rows, p)
          /\ FirstOf(Targets(Live(Before(Latest)), p)) = was
      BY <2>1, <3>1, <3>2, <3>3, PlainRows DEF Placed
    <3>6. PairSummary(p).current = now /\ PairSummary(p).change = IF was = 0 THEN 0 ELSE was - now
      BY <2>1, <3>1, <3>3, <3>4, <3>5, SummaryIs
    <3>7. now # 0 /\ now > 0
      BY <2>1, <3>4, <3>6
    <3>8. PICK x \in Targets(runs[Latest].rows, p) : p \in PairsThat(Latest, "completed")
      BY <2>1, <3>1, <3>2, <3>4, <3>7, PlainRow
    <3>9. /\ Change(Latest, x).change =
              (IF now = was THEN "stable" ELSE IF was = 0 THEN "new"
               ELSE IF now < was THEN "improved" ELSE "dropped")
          /\ now # was => Change(Latest, x).prev = was
      BY <2>1, <3>2, <3>3, ChangeIs
    <3>10. RankingEntry(Latest, p).change = Change(Latest, x).change
           /\ RankingEntry(Latest, p).prev = Change(Latest, x).prev
      BY <2>1, <3>1, <3>2, RankingIs
    <3>11. /\ TrackingPairEntry(p).prev = was
           /\ TrackingPairEntry(p).change =
                (IF was = 0 \/ now = 0 THEN "new" ELSE IF now < was THEN "improved"
                 ELSE IF now > was THEN "dropped" ELSE "stable")
      BY <3>1, <3>4, <3>8 DEF TrackingPairEntry
    <3>12. \A e \in EntryOf(RunRankings(Latest), p), f \in EntryOf(TrackingPairs(1, 20), p) :
              e = RankingEntry(Latest, p) /\ f = TrackingPairEntry(p)
      BY <3>1, <3>2, EntriesAre DEF RunRankings
    <3>13. /\ RankingEntry(Latest, p).change = TrackingPairEntry(p).change
           /\ RankingEntry(Latest, p).change # "stable" =>
                 RankingEntry(Latest, p).prev = TrackingPairEntry(p).prev
           /\ (PairSummary(p).change > 0) <=> (RankingEntry(Latest, p).change = "improved")
           /\ (PairSummary(p).change < 0) <=> (RankingEntry(Latest, p).change = "dropped")
      <4>1. CASE was = 0
        BY <3>4, <3>6, <3>7, <3>9, <3>10, <3>11, <4>1
      <4>2. CASE was # 0 /\ now < was
        BY <3>4, <3>6, <3>7, <3>9, <3>10, <3>11, <4>2
      <4>3. CASE was # 0 /\ now > was
        BY <3>4, <3>6, <3>7, <3>9, <3>10, <3>11, <4>3
      <4>4. CASE was # 0 /\ now = was
        BY <3>4, <3>6, <3>7, <3>9, <3>10, <3>11, <4>4
      <4>5. QED
        BY <3>4, <4>1, <4>2, <4>3, <4>4
    <3>14. PairScanHistory(p, 1, 20)[Latest].change = PairSummary(p).change
      <4>1. PairScanHistory(p, 1, 20)[Latest].change = Step(was, now)
        BY <3>1, <3>2, <3>4, LatestScan
      <4>2. QED
        BY <3>4, <3>6, <3>7, <4>1 DEF Step
    <3>15. \A c \in PairCompetitors(p) : c.target => c.change = PairSummary(p).change
      <4>1. ASSUME NEW y \in Targets(runs[Latest].rows, p)
            PROVE  At(Marks(Before(Latest)), p, y.domain) = was
        <5>1. DomainOf[y.domain] = runs[Before(Latest)].domain
          BY <2>1, <3>1, <3>2, PlainRow
        <5>2. \A z \in Targets(runs[Before(Latest)].rows, p) : z.domain = y.domain
          BY <2>1 DEF SameHost
        <5>3. QED
          BY <2>1, <3>1, <3>2, <3>3, <5>1, <5>2, PlainPlaced
      <4>2. QED
        BY <2>1, <3>1, <3>3, <3>6, <4>1, CompetitorsAre
    <3>16. QED
      BY <3>5, <3>6, <3>12, <3>13, <3>14, <3>15
  <2>2. ASSUME NEW p, Plain(IF Latest = 0 THEN 0 ELSE Before(Latest), p)
        PROVE  (IF Latest = 0 THEN 0 ELSE Before(Latest)) = Before(Latest)
    BY <2>2 DEF Plain
  <2>3. QED
    BY <2>1, <2>2, Zenon DEF ViewsAgreeOnChange
<1>2. QED
  BY <1>1, HistoryInvariant, PTL

\* For any number of runs, reports and pages: a health score is shown only with the
\* generated report it is of, and the list of runs begins with the job's last.
THEOREM ReportsAgree == Spec => []ViewsAgreeOnReports
<1>1. HistoryInv => ViewsAgreeOnReports
  <2> SUFFICES ASSUME HistoryInv PROVE ViewsAgreeOnReports
    OBVIOUS
  <2>1. TypeOK /\ ReportsFit /\ \A r \in DOMAIN runs : RunFits(r)
    BY DEF HistoryInv
  <2>2. PICK first, size : first = 1 /\ size = 20 /\ first \in PageNumbers /\ size \in SizesAllowed
    BY DEF PageNumbers, SizesAllowed
  <2>3. \A p \in Pairs : \A r \in DOMAIN PairScanHistory(p, 1, 20) :
          PairScanHistory(p, 1, 20)[r].hasReport <=>
              GetRunReport(r) # None /\ GetRunReport(r).status = "generated"
    <3>1. ASSUME NEW p, NEW r \in PageScans(p, first, size)
          PROVE  PairScanHistory(p, first, size)[r].hasReport <=>
                    GetRunReport(r) # None /\ GetRunReport(r).status = "generated"
      <4>1. PairScanHistory(p, first, size)[r].hasReport
              = (\E k \in Reported(r) : reports[k].status = "generated")
        <5>1. PairScanHistory(p, first, size)[r].hasReport = HasReport(r)
          BY <2>1, <2>2, <3>1, PageItemIs
        <5>2. QED
          BY <5>1 DEF HasReport
      <4>2. (\E k \in Reported(r) : reports[k].status = "generated") <=>
               GetRunReport(r) # None /\ GetRunReport(r).status = "generated"
        BY <2>1, ReportIs
      <4>3. QED
        BY <4>1, <4>2
    <3>2. QED
      BY <2>2, <3>1 DEF PageScans
  <2>4. ASSUME Latest # 0, JobStats.health # None
        PROVE  /\ ListJobs.health # None
               /\ \E page \in 1 .. Len(reports) : \E i \in DOMAIN ListReports(page, 20) :
                     ListReports(page, 20)[i] = GetRunReport(Latest)
               /\ GetRun(Latest).completed > 0
    <3>1. PICK k \in Reported(Latest) : reports[k].status = "generated"
      BY <2>4 DEF JobStats
    <3>2. k \in DOMAIN reports /\ DOMAIN reports = 1 .. Len(reports) /\ Len(reports) \in Nat
          /\ \A i \in DOMAIN reports : reports[i] \in ReportRow
      BY <2>1, <3>1 DEF Reported, TypeOK
    <3>3. ListJobs.health # None
      <4> DEFINE done == {i \in DOMAIN reports : reports[i].status = "generated"}
      <4>1. done \in SUBSET (1 .. Len(reports)) /\ done \in SUBSET Int /\ k \in done
        BY <3>1, <3>2
      <4>2. ListJobs.health = reports[Max(done)].run
        BY <4>1 DEF ListJobs
      <4> HIDE DEF done
      <4>3. IsFiniteSet(done)
        BY <3>2, <4>1, FS_Interval, FS_Subset, 1 \in Int, Len(reports) \in Int
      <4>4. Max(done) \in done
        BY <4>1, <4>3, Greatest
      <4>5. Max(done) \in DOMAIN reports
        BY <3>2, <4>1, <4>4
      <4>6. reports[Max(done)].run \in Nat
        BY <3>2, <4>5 DEF ReportRow
      <4>7. QED
        BY <4>2, <4>6, RankHistoryAssumption
    <3>4. \E page \in 1 .. Len(reports) : \E i \in DOMAIN ListReports(page, 20) :
             ListReports(page, 20)[i] = GetRunReport(Latest)
      <4> DEFINE list == [i \in DOMAIN reports |-> reports[Len(reports) + 1 - i]]
      <4>1. \A i \in DOMAIN reports : Len(reports) + 1 - i \in DOMAIN reports
        BY <3>2
      <4>2. list \in Seq(ReportRow) /\ Len(list) = Len(reports) /\ DOMAIN list = DOMAIN reports
        BY <3>2, <4>1
      <4>3. PICK j \in DOMAIN reports : j = Len(reports) + 1 - k
        BY <3>2, <4>1
      <4>4. list[j] = reports[k]
        BY <3>2, <4>3
      <4>5. reports[k] = GetRunReport(Latest)
        BY <2>1, <3>1, ReportIs
      <4>6. \A page : ListReports(page, 20) = Page(list, page, 20)
        BY DEF ListReports
      <4> HIDE DEF list
      <4>7. \E n \in 1 .. Len(list) : \E i \in DOMAIN Page(list, n, size) : Page(list, n, size)[i] = list[j]
        BY <2>2, <4>2, <4>3, ListedSomewhere
      <4>8. QED
        BY <2>2, <4>2, <4>4, <4>5, <4>6, <4>7
    <3>5. GetRun(Latest).completed > 0
      BY <2>1, <2>4, LatestIs, SomeCompleted
    <3>6. QED
      BY <3>3, <3>4, <3>5
  <2>5. ASSUME GetJob.totalRuns > 0
        PROVE  /\ ListRuns(1, 20)[1] = GetJob.lastRun /\ ListJobs.lastRun = GetJob.lastRun
               /\ GetRun(GetJob.lastRun).status \in {"running", "failed"} \/ GetJob.lastRun = Latest
    <3>1. PICK n : n \in Nat \ {0} /\ n = Len(runs) /\ DOMAIN runs = 1 .. n /\ n \in DOMAIN runs
      <4>1. Len(runs) \in Nat /\ DOMAIN runs = 1 .. Len(runs) /\ Len(runs) > 0
        BY <2>1, <2>5, RunsAre DEF GetJob
      <4>2. Len(runs) \in Nat \ {0} /\ Len(runs) \in 1 .. Len(runs)
        BY <4>1
      <4>3. QED
        BY <4>1, <4>2, Zenon
    <3>2. GetJob.lastRun = n /\ ListJobs.lastRun = n
      BY <3>1 DEF GetJob, ListJobs
    <3>3. DOMAIN runs \in SUBSET Int /\ IsFiniteSet(DOMAIN runs) /\ \A q \in DOMAIN runs : q <= n
      BY <3>1, FS_Interval, 1 \in Int, n \in Int
    <3>4. ListRuns(1, 20)[1] = n
      <4> DEFINE S == Recent(DOMAIN runs, 1, size)
      <4>1. n \in S
        BY <2>2, <3>1, <3>3, RanksOfTheLast
      <4>2. S \in SUBSET DOMAIN runs
        BY <2>2, RecentIs
      <4>3. S \in SUBSET Int /\ IsFiniteSet(S) /\ \A q \in S : q <= n
        BY <3>3, <4>2, FS_Subset
      <4>4. ListRuns(1, 20) = Newer(S)
        BY <2>2 DEF ListRuns
      <4> HIDE DEF S
      <4>5. QED
        BY <4>1, <4>3, <4>4, NewestFirst
    <3>5. ASSUME GetRun(n).status \notin {"running", "failed"} PROVE n = Latest
      <4>1. GetRun(n).status = runs[n].status /\ runs[n] \in RunRow
        BY <2>1, <3>1, RunsAre DEF GetRun
      <4>2. n \in Finished
        BY <3>1, <3>5, <4>1 DEF Finished, RunRow
      <4>3. Latest # 0
        <5>1. Finished \in SUBSET (1 .. n)
          BY <2>1, <3>1, RunsAre
        <5>2. Newest(Finished) \in Finished
          <6>1. n \in Nat
            BY <3>1
          <6>2. QED
            BY <4>2, <5>1, <6>1, NewestOf
        <5>3. QED
          BY <5>1, <5>2 DEF Latest
      <4>4. Latest \in 1 .. n /\ n <= Latest
        BY <2>1, <3>1, <4>2, <4>3, LatestIs
      <4>5. n \in Nat
        BY <3>1
      <4>6. QED
        BY <4>4, <4>5
    <3>6. QED
      BY <3>2, <3>4, <3>5
  <2>6. QED
    BY <2>3, <2>4, <2>5 DEF ViewsAgreeOnReports
<1>2. QED
  BY <1>1, HistoryInvariant, PTL

============================================================================
