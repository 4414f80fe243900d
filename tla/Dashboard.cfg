\* As RankHistory.cfg with two runs: keywords that rose count as dropped.
CONSTANTS
    p1 = p1  t = t  u = u  wt = wt
    None = None
    Pairs = {p1}
    Keyword <- One
    Place <- One
    Selections = {{}, {p1}}
    Limit = 12
    Domains = {t, u}
    Hosts = {t, u, wt}
    DomainOf <- WithoutWww
    Pages <- SomePlaces
    Sizes = {2}
    MaxRuns = 2
    MaxReports = 0
    MaxUpdates = 0
SPECIFICATION Spec
INVARIANT RiskCountsDrops
CHECK_DEADLOCK FALSE
