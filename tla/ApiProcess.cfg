\* One connection, one place in the channel, two days, two restarts.
CONSTANTS
    u1 = u1  c1 = c1 
    None = None
    Users = {u1}
    Conns = {c1}
    UserOf <- OneUser
    Capacity = 1
    MaxEvents = 3
    LastDay = 1
    MaxRestarts = 2
SPECIFICATION FairSpec
INVARIANTS EveryEventIsAccounted EveryDayIsUploaded DropsAreOnRecord
PROPERTY ClosedConnectionsEnd
CHECK_DEADLOCK FALSE
