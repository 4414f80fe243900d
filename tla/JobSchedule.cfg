\* One job, two goroutines, three changes of mind, a restart.
CONSTANTS
    j1 = j1  q1 = q1  q2 = q2
    Nil = Nil
    Slots = {q1, q2}
    Jobs = {j1}
    Keywords = {"shoes", ""}
    Schedules = {"", "daily", "bad"}
    Parsed = {"daily"}
    MaxChanges = 3
    MaxRestarts = 1
SPECIFICATION FairSpec
INVARIANTS EntriesAreTracked ScheduleFollowsRow
PROPERTY JobsKeepBeingScanned
CHECK_DEADLOCK FALSE
