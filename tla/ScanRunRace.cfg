\* Two triggers of one job count the active runs before either inserts its own.
CONSTANTS
    r1 = r1  r2 = r2  p1 = p1  p2 = p2  p3 = p3  w1 = w1  w2 = w2
    None = None
    Workers = {w1}
    Tasks = {p1, p2}
    Runs = {r1, r2}
    RunOf <- TwoRuns
    Faults <- RaceFault
    MaxDeliver = 3
    MaxAckPending = 2
    QueueWait = FALSE
SPECIFICATION Spec
INVARIANTS OneActiveRun
CHECK_DEADLOCK FALSE
