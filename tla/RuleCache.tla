----------------------------- MODULE RuleCache -----------------------------
(***************************************************************************)
(* The rules an administrator edits - rate limits, bot rules and block     *)
(* policies - and their copies in Redis.  A handler commits the row and    *)
(* then deletes the copy; between the two steps requests go on reading.    *)
(* Which request patterns a rule matches is RequestGuard's matter.         *)
(***************************************************************************)
EXTENDS Cache, FiniteSets

CONSTANTS
    LimitRules, BotRules,   \* ids of rows, created or not yet
    Policies,               \* ids of block policies; numbers, they are ordered
    Settings,               \* thresholds a policy may have: [l1, l2, l3]
    MaxEdits                \* bound on the administrator's calls

ASSUME RuleAssumption ==
    /\ Policies \subseteq Nat
    /\ Settings \subseteq [l1 : Nat \ {0}, l2 : Nat \ {0}, l3 : Nat \ {0}]
    /\ MaxEdits \in Nat

VARIABLES
    redis,     \* Redis, see Cache
    rows,      \* id -> its row's state
    settings,  \* policy id -> its thresholds
    admin,     \* where the administrator's request is
    edits      \* number of administrator's calls so far

ruleVars == <<redis, rows, settings, admin, edits>>

RuleIds == LimitRules \cup BotRules \cup Policies

Enabled(ids) == {i \in ids : rows[i] = "on"}

\* The first enabled policy's thresholds.
EnabledPolicy ==
    LET on == Enabled(Policies)
    IN  IF on = {} THEN Nil
        ELSE settings[CHOOSE p \in on : \A q \in on : p <= q]

\* An administrator's request begins; one is served at a time.
Begin(next) ==
    /\ admin = "idle" /\ edits < MaxEdits
    /\ edits' = edits + 1
    /\ admin' = next

CreateRow(i, next) ==
    /\ rows[i] = "absent"
    /\ Begin(next)
    /\ rows' = [rows EXCEPT ![i] = "on"]

ToggleRow(i, next) ==
    /\ rows[i] \in {"on", "off"}
    /\ Begin(next)
    /\ rows' = [rows EXCEPT ![i] = IF @ = "on" THEN "off" ELSE "on"]
    /\ UNCHANGED <<redis, settings>>

\* A soft delete; ids are not used again.
DeleteRow(i, next) ==
    /\ rows[i] \in {"on", "off"}
    /\ Begin(next)
    /\ rows' = [rows EXCEPT ![i] = "deleted"]
    /\ UNCHANGED <<redis, settings>>

Bust(from, key) ==
    /\ admin = from
    /\ redis' \in Tried(redis, Delete(redis, {key}))
    /\ admin' = "idle"
    /\ UNCHANGED <<rows, settings, edits>>

----------------------------------------------------------------------------
(***************************************************************************)
(* Rate limits and bot rules: create, toggle, delete.                      *)
(***************************************************************************)
AdminCreateRateLimit == \E r \in LimitRules :
    CreateRow(r, "bust_limits") /\ UNCHANGED <<redis, settings>>

AdminToggleRateLimit == \E r \in LimitRules : ToggleRow(r, "bust_limits")

AdminDeleteRateLimit == \E r \in LimitRules : DeleteRow(r, "bust_limits")

bustRateLimitCache == Bust("bust_limits", "limits")

AdminCreateBotDetectionRule == \E b \in BotRules :
    CreateRow(b, "bust_bots") /\ UNCHANGED <<redis, settings>>

AdminToggleBotDetectionRule == \E b \in BotRules : ToggleRow(b, "bust_bots")

AdminDeleteBotDetectionRule == \E b \in BotRules : DeleteRow(b, "bust_bots")

bustBotDetectionCache == Bust("bust_bots", "bots")

(***************************************************************************)
(* Block policies: thresholds are given at creation, all positive, and may *)
(* be changed.                                                             *)
(***************************************************************************)
AdminCreateIPBlockPolicy == \E p \in Policies, s \in Settings :
    /\ CreateRow(p, "bust_policy")
    /\ settings' = [settings EXCEPT ![p] = s]
    /\ UNCHANGED redis

AdminUpdateIPBlockPolicy == \E p \in Policies, s \in Settings :
    /\ rows[p] \in {"on", "off"}
    /\ Begin("bust_policy")
    /\ settings' = [settings EXCEPT ![p] = s]
    /\ UNCHANGED <<redis, rows>>

AdminToggleIPBlockPolicy == \E p \in Policies : ToggleRow(p, "bust_policy")

AdminDeleteIPBlockPolicy == \E p \in Policies : DeleteRow(p, "bust_policy")

bustIPBlockPolicyCache == Bust("bust_policy", "policy")

EditRules ==
    \/ AdminCreateRateLimit \/ AdminToggleRateLimit \/ AdminDeleteRateLimit
    \/ AdminCreateBotDetectionRule \/ AdminToggleBotDetectionRule
    \/ AdminDeleteBotDetectionRule
    \/ AdminCreateIPBlockPolicy \/ AdminUpdateIPBlockPolicy
    \/ AdminToggleIPBlockPolicy \/ AdminDeleteIPBlockPolicy

BustCaches == bustRateLimitCache \/ bustBotDetectionCache \/ bustIPBlockPolicyCache
============================================================================
