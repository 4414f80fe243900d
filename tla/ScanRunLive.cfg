\* No faults, but ack_wait may run out for a task that queued behind another one.
\* What survives two workers on one pair, and liveness of the run.
CONSTANTS
    r1 = r1  r2 = r2  p1 = p1  p2 = p2  p3 = p3  w1 = w1  w2 = w2
    None = None
    Workers = {w1, w2}
    Tasks = {p1, p2, p3}
    Runs = {r1}
    RunOf <- OneRun
    Faults <- NoFaults
    MaxDeliver = 2
    MaxAckPending = 2
    QueueWait = TRUE
SPECIFICATION FairSpec
INVARIANTS NeverUndercounts DetectOncePerSuccess
PROPERTIES RunFinishes LooseLifecycle
CHECK_DEADLOCK FALSE
