\* Five requests, so that races reach level 3.  Safety.
CONSTANTS
    userLimit = userLimit  adminLimit = adminLimit
    blockScript = blockScript  allowScript = allowScript  q1 = q1  q2 = q2
    Nil = Nil
    RedisFails = FALSE
    LimitRules = {userLimit}
    BotRules = {}
    Policies = {1}
    Settings <- OneSetting
    MaxEdits = 1
    Slots = {q1, q2}
    Requests <- Users
    Exempt = {"admin"}
    Headless = {}
    Matches <- MatchesFn
    Allowing = {}
    RoleOf <- RoleFn
    EndpointOf <- EndpointFn
    MaxOf <- MaxFn
    Created = {userLimit, 1}
    MaxRequests = 5
SPECIFICATION Spec
INVARIANTS BlocksAreEarned BlockIsOnRecord
SYMMETRY Symmetric
CHECK_DEADLOCK FALSE
