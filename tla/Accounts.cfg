\* One request after another and two at once, a restart; Redis may fail.
CONSTANTS
    root = root  alice = alice  g1 = g1  g2 = g2  s1 = s1  s2 = s2  q1 = q1  q2 = q2
    Nil = Nil
    Slots = {q1, q2}
    Sessions = {s1, s2}
    AccessExpiry = 1
    RefreshExpiry = 2
    MaxClock = 1
    RedisFails = TRUE
    Users = {root, alice}
    Root = root
    GoogleAccounts = {g1, g2}
    EmailOf <- ToAlice
    States = {"state"}
    Roles = {"user", "admin"}
    Resources = {"profile", "users", "policies", "sessions"}
    Defaults <- DefaultPolicies
    SaveMayFail = TRUE
    MaxRequests = 4
    MaxRestarts = 1
SPECIFICATION Spec
INVARIANTS EachIssueIsExchangedOnce RevokedStaysOut SavesKeepOtherFields AvatarIsOnDisk
PROPERTY PasswordChangeEndsOthers
SYMMETRY Symmetric
CHECK_DEADLOCK FALSE
