\* Every fault and early ack_wait, one unacknowledged task at a time.
CONSTANTS
    d = d  a = a  b = b  w1 = w1  w2 = w2
    None = None
    Workers = {w1, w2}
    Tasks = {d, a, b}
    Runs = {1, 2, 3}
    Kind <- KindOf
    RunOf <- AboutLast
    Differs <- AllDiffer
    AIConfigured = TRUE
    Overlap = FALSE
    Faults <- AnyFault
    MaxDeliver = 2
    MaxAckPending = 1
    QueueWait = TRUE
SPECIFICATION Spec
INVARIANTS DiffsOnce NearestPrevious OneReport ReportDescribesDiffs AckedDetectTriggersReport
SYMMETRY Symmetric
CHECK_DEADLOCK FALSE
