\* Redis may fail; rules of every kind are edited while requests use them.  Liveness.
CONSTANTS
    userLimit = userLimit  adminLimit = adminLimit
    blockScript = blockScript  allowScript = allowScript  q1 = q1  q2 = q2
    Nil = Nil
    RedisFails = TRUE
    LimitRules = {userLimit, adminLimit}
    BotRules = {blockScript, allowScript}
    Policies = {1, 2}
    Settings <- OneSetting
    MaxEdits = 1
    Slots = {q1, q2}
    Requests <- Mixed
    Exempt = {"admin"}
    Headless = {"headless"}
    Matches <- MatchesFn
    Allowing = {allowScript}
    RoleOf <- RoleFn
    EndpointOf <- EndpointFn
    MaxOf <- MaxFn
    Created = {userLimit, blockScript, 1}
    MaxRequests = 3
SPECIFICATION FairSpec
INVARIANTS LimitHolds
PROPERTIES RulesConverge BlocksAreForgotten
CHECK_DEADLOCK FALSE
