\* One run of two pairs with every kind of fault; a task is never redelivered while
\* a worker still handles it.  Safety, and liveness of the queue.
CONSTANTS
    r1 = r1  r2 = r2  p1 = p1  p2 = p2  p3 = p3  w1 = w1  w2 = w2
    None = None
    Workers = {w1, w2}
    Tasks = {p1, p2}
    Runs = {r1}
    RunOf <- OneRun
    Faults <- AnyFault
    MaxDeliver = 3
    MaxAckPending = 2
    QueueWait = FALSE
SPECIFICATION FairSpec
INVARIANTS TypeOK CountersAreExact FinalStatusIsTruthful
PROPERTIES StrictLifecycle NoTaskForgotten
CHECK_DEADLOCK FALSE
