\* One pair, two domains of which one has two hosts, three runs in pages of two, a
\* report, an update of the job.
CONSTANTS
    p1 = p1  t = t  u = u  wt = wt
    None = None
    Pairs = {p1}
    Keyword <- One
    Place <- One
    Selections = {{}, {p1}}
    Limit = 12
    Domains = {t, u}
    Hosts = {t, u, wt}
    DomainOf <- WithoutWww
    Pages <- SomePlaces
    Sizes = {2}
    MaxRuns = 3
    MaxReports = 1
    MaxUpdates = 1
SPECIFICATION Spec
INVARIANTS ViewsAgreeOnPosition ViewsAgreeOnChange DiffsReplay PagesTellTheSame ViewsAgreeOnReports
PROPERTY HistoryIsKept
CHECK_DEADLOCK FALSE
