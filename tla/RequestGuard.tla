---------------------------- MODULE RequestGuard ----------------------------
(***************************************************************************)
(* What a request of one client address passes before its handler runs:    *)
(* the automatic block, the bot rules, and the rate limits, whose          *)
(* violations feed the escalation of blocks; with the administrator's      *)
(* calls on rules and on the block record.  All state that decides is in   *)
(* Redis; the block record in the database is what the administrator sees. *)
(*                                                                         *)
(* A slot is a request goroutine.  After a 429 it goes on as the goroutine *)
(* of triggerAutoBlock.  Authentication lies between bot rules and rate    *)
(* limits and is Session's matter: here a request just has a role.         *)
(***************************************************************************)
EXTENDS RuleCache

CONSTANTS
    Slots,        \* requests in progress at once
    Requests,     \* requests that may come: [path, role, agent]
    Exempt,       \* routes below /api/v1/admin and /api/v1/auth
    Headless,     \* agents (User-Agent and headers) the static checks refuse
    Matches,      \* bot rule -> agents it matches
    Allowing,     \* bot rules of type "allow"; the others block
    RoleOf,       \* rate limit -> its role
    EndpointOf,   \* rate limit -> its route, or "*"
    MaxOf,        \* rate limit -> max_requests
    Created,      \* rules that exist at first
    MaxRequests   \* bound on requests

FixedKeys == {"limits", "bots", "policy", "active", "violations", "l1", "l2"}

\* What a block's row holds of the level and of how it ends.
Blocks == [level : 1 .. 4, active : BOOLEAN, permanent : BOOLEAN]

ASSUME GuardAssumption ==
    /\ IsFiniteSet(Slots)
    /\ Allowing \subseteq BotRules /\ DOMAIN Matches = BotRules
    /\ MaxOf \in [LimitRules -> Nat \ {0}]
    /\ Created \subseteq RuleIds
    /\ LimitRules \cap FixedKeys = {}
    /\ Nil \notin Blocks
    /\ MaxRequests \in Nat

VARIABLES
    pc,        \* slot -> step of its request
    asked,     \* slot -> the request: [path, role, agent]
    loaded,    \* slot -> rules or policy it read and goes by
    plan,      \* slot -> the block it is about to apply and record
    block,     \* the address's row in srg_auto_ip_blocks, or Nil
    read,      \* the row the administrator's request read
    served,    \* number of requests so far
    violated,  \* history: 429s given to anyone but an administrator
    admitted   \* history: rate limit -> requests it counted and let pass in this window

slotVars == <<pc, asked, loaded, plan>>
vars == <<ruleVars, slotVars, block, read, served, violated, admitted>>

Keys == FixedKeys \cup LimitRules

Init ==
    /\ redis = [k \in Keys |-> Nil]
    /\ rows = [i \in RuleIds |-> IF i \in Created THEN "on" ELSE "absent"]
    /\ settings \in [Policies -> Settings]
    /\ admin = "idle" /\ edits = 0
    /\ pc = [q \in Slots |-> "idle"]
    /\ asked = [q \in Slots |-> Nil]
    /\ loaded = [q \in Slots |-> Nil]
    /\ plan = [q \in Slots |-> Nil]
    /\ block = Nil /\ read = Nil
    /\ served = 0 /\ violated = 0
    /\ admitted = [r \in LimitRules |-> 0]

Goto(q, step) == pc' = [pc EXCEPT ![q] = step]

\* The slot is free again.
Finish(q) ==
    /\ Goto(q, "idle")
    /\ asked' = [asked EXCEPT ![q] = Nil]
    /\ loaded' = [loaded EXCEPT ![q] = Nil]
    /\ plan' = [plan EXCEPT ![q] = Nil]

Continue(q, step, value) ==
    /\ Goto(q, step)
    /\ loaded' = [loaded EXCEPT ![q] = value]
    /\ UNCHANGED <<asked, plan>>

----------------------------------------------------------------------------
(***************************************************************************)
(* The middleware chain.                                                   *)
(***************************************************************************)

\* A request arrives.  It is refused while the address has a block key; an
\* unreadable key counts as none.
AutoIPBlockMiddleware(q) ==
    /\ pc[q] = "idle" /\ served < MaxRequests
    /\ served' = served + 1
    /\ \E rq \in Requests :
        \/ /\ rq.path \notin Exempt /\ redis["active"] # Nil
           /\ UNCHANGED slotVars
        \/ /\ rq.path \in Exempt \/ redis["active"] = Nil \/ RedisFails
           /\ Goto(q, "bots")
           /\ asked' = [asked EXCEPT ![q] = rq]
           /\ UNCHANGED <<loaded, plan>>
    /\ UNCHANGED <<ruleVars, block, read, violated, admitted>>

matchesBotRule(b, q) == asked[q].agent \in Matches[b]

\* Goes by these bot rules; a matching allow rule beats every block rule.
UseBotRules(q, rules) ==
    LET hits == {b \in rules : matchesBotRule(b, q)}
    IN  IF hits \cap Allowing = {} /\ hits # {} THEN Finish(q) ELSE Continue(q, "limits", Nil)

\* The static checks, then the cached rules; without a copy the enabled rows are read.
BotDetectionMiddleware(q) ==
    /\ pc[q] = "bots"
    /\ \/ asked[q].agent \in Headless /\ Finish(q)
       \/ /\ asked[q].agent \notin Headless
          /\ \/ redis["bots"] # Nil /\ UseBotRules(q, Get(redis, "bots"))
             \/ /\ redis["bots"] = Nil \/ RedisFails
                /\ Continue(q, "store_bots", Enabled(BotRules))
    /\ UNCHANGED <<ruleVars, block, read, served, violated, admitted>>

\* The rows read on a miss are stored for five minutes.
loadBotDetectionRules(q) ==
    /\ pc[q] = "store_bots"
    /\ redis' \in Tried(redis, Set(redis, "bots", loaded[q], TRUE))
    /\ UseBotRules(q, loaded[q])
    /\ UNCHANGED <<rows, settings, admin, edits, block, read, served, violated, admitted>>

Concerned(q, rules) ==
    {r \in rules : RoleOf[r] = asked[q].role /\ EndpointOf[r] \in {"*", asked[q].path}}

\* The limits that concern the request are counted one by one; without any
\* its handler runs.
UseLimits(q, rules) ==
    IF Concerned(q, rules) = {} THEN Finish(q) ELSE Continue(q, "count", Concerned(q, rules))

LookUpLimits(q) ==
    /\ pc[q] = "limits"
    /\ \/ redis["limits"] # Nil /\ UseLimits(q, Get(redis, "limits"))
       \/ /\ redis["limits"] = Nil \/ RedisFails
          /\ Continue(q, "store_limits", Enabled(LimitRules))
    /\ UNCHANGED <<ruleVars, block, read, served, violated, admitted>>

\* Mutant: the copy is stored without an expiry.
loadRateLimitRules_Forever(q) ==
    /\ pc[q] = "store_limits"
    /\ redis' \in Tried(redis, Set(redis, "limits", loaded[q], FALSE))
    /\ UseLimits(q, loaded[q])
    /\ UNCHANGED <<rows, settings, admin, edits, block, read, served, violated, admitted>>

loadRateLimitRules(q) ==
    /\ pc[q] = "store_limits"
    /\ redis' \in Tried(redis, Set(redis, "limits", loaded[q], TRUE))
    /\ UseLimits(q, loaded[q])
    /\ UNCHANGED <<rows, settings, admin, edits, block, read, served, violated, admitted>>

\* What a passed limit leaves to count, and the handler at the end.
NextLimit(q, r) ==
    IF loaded[q] = {r} THEN Finish(q) ELSE Continue(q, "count", loaded[q] \ {r})

\* Mutant: the request that reaches the maximum is let in as well.
RateLimitMiddleware_OneMore(q) ==
    /\ pc[q] = "count"
    /\ \E r \in loaded[q] :
        /\ redis' = IncrWithExpiry(redis, r)
        /\ IF GetInt(redis', r) <= MaxOf[r] + 1
           THEN /\ admitted' = [admitted EXCEPT ![r] = @ + 1]
                /\ NextLimit(q, r)
                /\ UNCHANGED violated
           ELSE /\ IF asked[q].role # "admin"
                   THEN violated' = violated + 1 /\ Continue(q, "policy", Nil)
                   ELSE UNCHANGED violated /\ Finish(q)
                /\ UNCHANGED admitted
    /\ UNCHANGED <<rows, settings, admin, edits, block, read, served>>

\* Counts one limit.  A request over it gets 429 and, unless an administrator
\* sent it, starts the goroutine of triggerAutoBlock.  If Redis fails the
\* limit is passed.
RateLimitMiddleware(q) ==
    /\ pc[q] = "count"
    /\ \E r \in loaded[q] :
        \/ /\ redis' = IncrWithExpiry(redis, r)
           /\ IF GetInt(redis', r) <= MaxOf[r]
              THEN /\ admitted' = [admitted EXCEPT ![r] = @ + 1]
                   /\ NextLimit(q, r)
                   /\ UNCHANGED violated
              ELSE /\ IF asked[q].role # "admin"
                      THEN violated' = violated + 1 /\ Continue(q, "policy", Nil)
                      ELSE UNCHANGED violated /\ Finish(q)
                   /\ UNCHANGED admitted
        \/ RedisFails /\ NextLimit(q, r) /\ UNCHANGED <<redis, violated, admitted>>
    /\ UNCHANGED <<rows, settings, admin, edits, block, read, served>>

----------------------------------------------------------------------------
(***************************************************************************)
(* triggerAutoBlock                                                        *)
(***************************************************************************)

\* Only an enabled policy is ever cached; without one nothing happens.
LookUpPolicy(q) ==
    /\ pc[q] = "policy"
    /\ \/ redis["policy"] # Nil /\ Continue(q, "violation", Get(redis, "policy"))
       \/ /\ redis["policy"] = Nil \/ RedisFails
          /\ IF EnabledPolicy = Nil THEN Finish(q) ELSE Continue(q, "store_policy", EnabledPolicy)
    /\ UNCHANGED <<ruleVars, block, read, served, violated, admitted>>

loadIPBlockPolicy(q) ==
    /\ pc[q] = "store_policy"
    /\ redis' \in Tried(redis, Set(redis, "policy", loaded[q], TRUE))
    /\ Continue(q, "violation", loaded[q])
    /\ UNCHANGED <<rows, settings, admin, edits, block, read, served, violated, admitted>>

\* Mutant: a block one violation too early.
CountViolation_Early(q) ==
    /\ pc[q] = "violation"
    /\ redis' = IncrWithExpiry(redis, "violations")
    /\ IF GetInt(redis', "violations") + 1 < loaded[q].l1
       THEN Finish(q) ELSE Continue(q, "escalate", loaded[q])
    /\ UNCHANGED <<rows, settings, admin, edits, block, read, served, violated, admitted>>

\* Below the threshold, or when Redis fails, that is all.
CountViolation(q) ==
    /\ pc[q] = "violation"
    /\ \/ /\ redis' = IncrWithExpiry(redis, "violations")
          /\ IF GetInt(redis', "violations") < loaded[q].l1
             THEN Finish(q) ELSE Continue(q, "escalate", loaded[q])
       \/ RedisFails /\ Finish(q) /\ UNCHANGED redis
    /\ UNCHANGED <<rows, settings, admin, edits, block, read, served, violated, admitted>>

\* The level these counters lead to; an unreadable counter is 0.
LevelFor(policy, l1, l2) ==
    IF l2 >= policy.l3 THEN 3 ELSE IF l1 >= policy.l2 THEN 2 ELSE 1

\* The goroutine reads both counters and settles on a level.
ChooseLevel(q) ==
    /\ pc[q] = "escalate"
    /\ \E l1 \in {GetInt(redis, "l1")} \cup (IF RedisFails THEN {0} ELSE {}),
          l2 \in {GetInt(redis, "l2")} \cup (IF RedisFails THEN {0} ELSE {}) :
        plan' = [plan EXCEPT ![q] = [level |-> LevelFor(loaded[q], l1, l2), row |-> Nil]]
    /\ Goto(q, "apply")
    /\ UNCHANGED <<asked, loaded, ruleVars, block, read, served, violated, admitted>>

\* The counters after a block of this level; each call may fail by itself.
Escalated(level) ==
    CASE level = 3 -> {redis}
      [] level = 2 -> UNION {Tried(r, SetInt(r, "l1", 0)) : r \in Tried(redis, IncrWithExpiry(redis, "l2"))}
      [] OTHER -> Tried(redis, IncrWithExpiry(redis, "l1"))

\* Counters, the block key (over whatever key there is), and the violations
\* counter starts again.  If the key cannot be set nothing else happens.
\* The calls follow each other without a read in between.
triggerAutoBlock(q) ==
    /\ pc[q] = "apply"
    /\ \E counted \in Escalated(plan[q].level) :
        \/ /\ redis' \in LET set == Set(counted, "active",
                                        [level |-> plan[q].level, permanent |-> FALSE], TRUE)
                         IN  Tried(set, Delete(set, {"violations"}))
           /\ Goto(q, "record") /\ UNCHANGED <<asked, loaded, plan>>
        \/ RedisFails /\ redis' = counted /\ Finish(q)
    /\ UNCHANGED <<rows, settings, admin, edits, block, read, served, violated, admitted>>

\* The goroutine reads the counters again and the record of the address.
ReadRecord(q) ==
    /\ pc[q] = "record"
    /\ plan' = [plan EXCEPT ![q].row = block]
    /\ Goto(q, "save")
    /\ UNCHANGED <<asked, loaded, ruleVars, block, read, served, violated, admitted>>

\* Mutant: a first block is not recorded.
upsertAutoIPBlock_UpdateOnly(q) ==
    /\ pc[q] = "save"
    /\ block' = IF plan[q].row = Nil THEN block
                ELSE [plan[q].row EXCEPT !.level = plan[q].level, !.active = TRUE]
    /\ Finish(q)
    /\ UNCHANGED <<ruleVars, read, served, violated, admitted>>

\* A record found is written back whole.  If none was found one is created,
\* unless another goroutine was faster: the address is a unique key.
upsertAutoIPBlock(q) ==
    /\ pc[q] = "save"
    /\ block' = IF plan[q].row = Nil
                THEN IF block # Nil THEN block
                     ELSE [level |-> plan[q].level, active |-> TRUE, permanent |-> FALSE]
                ELSE [plan[q].row EXCEPT !.level = plan[q].level, !.active = TRUE]
    /\ Finish(q)
    /\ UNCHANGED <<ruleVars, read, served, violated, admitted>>

----------------------------------------------------------------------------
(***************************************************************************)
(* The administrator and the block record.  The record read at first is    *)
(* written back whole.                                                     *)
(***************************************************************************)
guardRest == <<slotVars, served, violated, admitted>>

FindBlock(next) ==
    /\ block # Nil
    /\ Begin(next)
    /\ read' = block
    /\ UNCHANGED <<redis, rows, settings, block>>

SaveBlock(from, row, next) ==
    /\ admin = from
    /\ block' = row
    /\ admin' = next
    /\ read' = IF next = "idle" THEN Nil ELSE read
    /\ UNCHANGED <<redis, rows, settings, edits>>

OnKeys(from, after, next) ==
    /\ admin = from
    /\ redis' \in Tried(redis, after)
    /\ admin' = next
    /\ read' = IF next = "idle" THEN Nil ELSE read
    /\ UNCHANGED <<rows, settings, edits, block>>

\* Record, then key.
AdminUnblockIP ==
    /\ \/ FindBlock("unblock")
       \/ SaveBlock("unblock", [read EXCEPT !.active = FALSE], "unblock_key")
       \/ OnKeys("unblock_key", Delete(redis, {"active"}), "idle")
    /\ UNCHANGED guardRest

AdminPermanentBlockIP ==
    /\ \/ FindBlock("permanent")
       \/ SaveBlock("permanent", [level |-> 4, active |-> TRUE, permanent |-> TRUE], "permanent_key")
       \/ OnKeys("permanent_key",
                 Set(redis, "active", [level |-> 4, permanent |-> TRUE], FALSE), "idle")
    /\ UNCHANGED guardRest

\* Keys, then record.  Its counts are a copy for display and left out.
AdminResetIPCounts ==
    /\ \/ FindBlock("reset")
       \/ OnKeys("reset", Delete(redis, {"l1", "l2", "violations"}), "reset_row")
       \/ SaveBlock("reset_row", read, "idle")
    /\ UNCHANGED guardRest

----------------------------------------------------------------------------
\* A window of a rate limit ends: the next one counts under another key.
NextWindow(r) ==
    /\ redis[r] # Nil
    /\ redis' = Expired(redis, r)
    /\ admitted' = [admitted EXCEPT ![r] = 0]
    /\ UNCHANGED <<rows, settings, admin, edits, slotVars, block, read, served, violated>>

KeyExpires(k) ==
    /\ Expirable(redis, k)
    /\ redis' = Expired(redis, k)
    /\ UNCHANGED <<rows, settings, admin, edits, slotVars, block, read, served, violated, admitted>>

Serve(q) ==
    \/ BotDetectionMiddleware(q) \/ loadBotDetectionRules(q)
    \/ LookUpLimits(q) \/ loadRateLimitRules(q) \/ RateLimitMiddleware(q)
    \/ LookUpPolicy(q) \/ loadIPBlockPolicy(q)
    \/ CountViolation(q) \/ ChooseLevel(q) \/ triggerAutoBlock(q)
    \/ ReadRecord(q) \/ upsertAutoIPBlock(q)

Administer ==
    \/ (EditRules \/ BustCaches) /\ UNCHANGED <<slotVars, block, read, served, violated, admitted>>
    \/ AdminUnblockIP \/ AdminPermanentBlockIP \/ AdminResetIPCounts

Next ==
    \/ \E q \in Slots : AutoIPBlockMiddleware(q) \/ Serve(q)
    \/ Administer
    \/ \E r \in LimitRules : NextWindow(r)
    \/ \E k \in Keys \ LimitRules : KeyExpires(k)

Spec == Init /\ [][Next]_vars

\* Goroutines run to their end, an administrator's request that began is
\* finished, and Redis drops what has an expiry.  Nobody has to send a request.
Fairness ==
    /\ \A q \in Slots : WF_vars(Serve(q))
    /\ WF_vars(Administer /\ admin # "idle")
    /\ \A k \in Keys \ LimitRules : WF_vars(KeyExpires(k))

FairSpec == Spec /\ Fairness

----------------------------------------------------------------------------
Blocked == redis["active"] # Nil

\* No address is blocked for less than the policy asks, however its requests
\* race: level 1 takes l1 violations of a non-administrator, level 2 as many
\* level-1 blocks as some policy asks on top, level 3 as many level-2 blocks
\* again (triggerAutoBlock counts, compares and writes in separate calls).
BlocksAreEarned ==
    Blocked /\ ~Get(redis, "active").permanent =>
        \E s, t, u \in Settings :
            violated >= s.l1 + (IF Get(redis, "active").level >= 2 THEN t.l2 ELSE 0)
                             + (IF Get(redis, "active").level >= 3 THEN u.l3 ELSE 0)

\* A rate limit never lets more requests through in one window than its
\* maximum, whatever the requests' interleaving: counting and comparing use
\* one atomic increment.  Requests let pass because Redis failed do not count.
LimitHolds == \A r \in LimitRules : admitted[r] <= MaxOf[r]

\* While an address is blocked there is a record of it, or a goroutine about
\* to write one: without a record no administrator can lift the block.
BlockIsOnRecord ==
    Blocked => block # Nil \/ \E q \in Slots : pc[q] \in {"record", "save"}

\* A copy in Redis is dropped or equal to the rows in the end, even when a
\* request stored rows it read before an edit, or the deletion of the copy failed.
RulesConverge ==
    <>[](/\ redis["limits"] # Nil => Get(redis, "limits") = Enabled(LimitRules)
         /\ redis["bots"] # Nil => Get(redis, "bots") = Enabled(BotRules)
         /\ redis["policy"] # Nil => Get(redis, "policy") = EnabledPolicy)

\* An automatic block and what led to it are forgotten when requests cease.
BlocksAreForgotten ==
    <>[](\A k \in {"violations", "l1", "l2", "active"} :
            redis[k] = Nil \/ (k = "active" /\ ~redis[k].expires))

============================================================================
