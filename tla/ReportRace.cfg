\* Early ack_wait and lost confirmations: both workers with a report task of one run.
\* Safety and liveness.
CONSTANTS
    d = d  a = a  b = b  w1 = w1  w2 = w2
    None = None
    Workers = {w1, w2}
    Tasks = {d, a, b}
    Runs = {1}
    Kind <- KindOf
    RunOf <- AboutLast
    Differs <- AllDiffer
    AIConfigured = TRUE
    Overlap = FALSE
    Faults <- LostConfirmation
    MaxDeliver = 2
    MaxAckPending = 2
    QueueWait = TRUE
SPECIFICATION FairSpec
INVARIANTS ReportsPerWorker
PROPERTIES SettledReportIsKept EveryRunReported
CHECK_DEADLOCK FALSE
