------------------------- MODULE RequestGuardProofs -------------------------
(***************************************************************************)
(* What is proved of RequestGuard for any number of requests, limits, bot  *)
(* rules and edits, with or without Redis failing: the windows of the rate *)
(* limits, the record of a block, and the violations a block takes.        *)
(***************************************************************************)
EXTENDS RequestGuard, FiniteSetTheorems, WellFoundedInduction, TLAPS

Counters == {Nil} \cup [val : Nat, expires : BOOLEAN]

\* Redis has counted whatever the middleware let pass.
WindowInv ==
    /\ admitted \in [LimitRules -> Nat]
    /\ DOMAIN redis = Keys
    /\ \A r \in LimitRules :
          redis[r] \in Counters /\ admitted[r] <= GetInt(redis, r) /\ admitted[r] <= MaxOf[r]

\* Two stores with the same counters of the rate limits.
Alike(a, b) ==
    DOMAIN a = Keys => DOMAIN b = Keys /\ \A r \in LimitRules : b[r] = a[r]

----------------------------------------------------------------------------
(***************************************************************************)
(* The cache's calls on other keys.                                        *)
(***************************************************************************)
LEMMA SetAlike ==
  ASSUME NEW store, NEW k, k \notin LimitRules, NEW v, NEW expires
  PROVE  Alike(store, Set(store, k, v, expires))
  BY DEF Alike, Set, Keys

LEMMA DeleteAlike ==
  ASSUME NEW store, NEW ks, ks \cap LimitRules = {}
  PROVE  Alike(store, Delete(store, ks))
  BY DEF Alike, Delete, Keys

LEMMA IncrAlike ==
  ASSUME NEW store, NEW k, k \notin LimitRules
  PROVE  Alike(store, IncrWithExpiry(store, k))
  BY SetAlike DEF IncrWithExpiry

LEMMA TriedAlike ==
  ASSUME NEW store, NEW after, Alike(store, after), NEW s \in Tried(store, after)
  PROVE  Alike(store, s)
  BY DEF Tried, Alike

LEMMA AlikeTrans ==
  ASSUME NEW a, NEW b, NEW c, Alike(a, b), Alike(b, c)
  PROVE  Alike(a, c)
  BY DEF Alike

LEMMA OtherKeys ==
  ASSUME NEW k \in FixedKeys
  PROVE  k \notin LimitRules
  BY GuardAssumption

\* An escalation counts on keys of its own.
LEMMA EscalatedAlike ==
  ASSUME NEW level, NEW s \in Escalated(level)
  PROVE  Alike(redis, s)
<1> USE OtherKeys DEF FixedKeys
<1>1. CASE level = 3
  BY <1>1 DEF Escalated, Alike
<1>2. CASE level = 2
  <2>1. PICK t \in Tried(redis, IncrWithExpiry(redis, "l2")) : s \in Tried(t, SetInt(t, "l1", 0))
    BY <1>2 DEF Escalated
  <2>2. Alike(redis, t)
    BY <2>1, IncrAlike, TriedAlike
  <2>3. Alike(t, s)
    BY <2>1, SetAlike, TriedAlike DEF SetInt
  <2>4. QED
    BY <2>2, <2>3, AlikeTrans
<1>3. CASE level # 3 /\ level # 2
  <2>1. s \in Tried(redis, IncrWithExpiry(redis, "l1"))
    BY <1>3 DEF Escalated
  <2>2. QED
    BY <2>1, IncrAlike, TriedAlike
<1>4. QED
  BY <1>1, <1>2, <1>3

----------------------------------------------------------------------------
(***************************************************************************)
(* Every step counts a request, ends a window, or does neither.            *)
(***************************************************************************)
Counts(r) ==
    /\ redis' = IncrWithExpiry(redis, r)
    /\ \/ GetInt(redis', r) <= MaxOf[r] /\ admitted' = [admitted EXCEPT ![r] = @ + 1]
       \/ UNCHANGED admitted

Aside == UNCHANGED admitted /\ Alike(redis, redis')

WindowStep ==
    \/ \E r : Counts(r)
    \/ \E r \in LimitRules : NextWindow(r)
    \/ Aside

LEMMA SameAside == UNCHANGED <<redis, admitted>> => Aside
  BY DEF Aside, Alike

LEMMA ServeSteps ==
  ASSUME NEW q \in Slots, Serve(q)
  PROVE  WindowStep
<1> USE OtherKeys DEF FixedKeys
<1>1. CASE BotDetectionMiddleware(q) \/ LookUpLimits(q) \/ LookUpPolicy(q)
  BY <1>1, SameAside DEF BotDetectionMiddleware, LookUpLimits, LookUpPolicy, ruleVars, WindowStep
<1>2. CASE loadBotDetectionRules(q)
  BY <1>2, SetAlike, TriedAlike DEF loadBotDetectionRules, WindowStep, Aside
<1>3. CASE loadRateLimitRules(q)
  BY <1>3, SetAlike, TriedAlike DEF loadRateLimitRules, WindowStep, Aside
<1>4. CASE loadIPBlockPolicy(q)
  BY <1>4, SetAlike, TriedAlike DEF loadIPBlockPolicy, WindowStep, Aside
<1>5. CASE RateLimitMiddleware(q)
  BY <1>5, SameAside DEF RateLimitMiddleware, WindowStep, Counts
<1>6. CASE CountViolation(q)
  BY <1>6, IncrAlike, SameAside DEF CountViolation, WindowStep, Aside
<1>7. CASE ChooseLevel(q) \/ ReadRecord(q) \/ upsertAutoIPBlock(q)
  BY <1>7, SameAside DEF ChooseLevel, ReadRecord, upsertAutoIPBlock, ruleVars, WindowStep
<1>8. CASE triggerAutoBlock(q)
  <2>1. PICK counted \in Escalated(plan[q].level) :
           \/ redis' = counted
           \/ LET set == Set(counted, "active", [level |-> plan[q].level, permanent |-> FALSE], TRUE)
              IN  redis' \in Tried(set, Delete(set, {"violations"}))
    BY <1>8 DEF triggerAutoBlock
  <2>2. Alike(redis, counted)
    BY EscalatedAlike
  <2>3. CASE redis' = counted
    BY <1>8, <2>2, <2>3 DEF triggerAutoBlock, WindowStep, Aside
  <2>4. CASE redis' # counted
    <3> DEFINE set == Set(counted, "active", [level |-> plan[q].level, permanent |-> FALSE], TRUE)
    <3>1. redis' \in Tried(set, Delete(set, {"violations"}))
      BY <2>1, <2>4
    <3>2. Alike(counted, set)
      BY SetAlike
    <3>3. Alike(set, redis')
      <4> HIDE DEF set
      <4>1. {"violations"} \cap LimitRules = {}
        OBVIOUS
      <4>2. QED
        BY <3>1, <4>1, DeleteAlike, TriedAlike
    <3>4. Alike(redis, redis')
      BY <2>2, <3>2, <3>3, AlikeTrans
    <3>5. QED
      BY <1>8, <3>4 DEF triggerAutoBlock, WindowStep, Aside
  <2>5. QED
    BY <2>3, <2>4
<1>9. QED
  BY <1>1, <1>2, <1>3, <1>4, <1>5, <1>6, <1>7, <1>8 DEF Serve

LEMMA RuleSteps ==
  ASSUME EditRules \/ BustCaches
  PROVE  Alike(redis, redis')
<1> USE OtherKeys DEF FixedKeys
<1>1. CASE redis' = redis
  BY <1>1 DEF Alike
<1>2. CASE EditRules
  <2>1. redis' = redis
    BY <1>2 DEF EditRules, AdminCreateRateLimit, AdminToggleRateLimit, AdminDeleteRateLimit,
       AdminCreateBotDetectionRule, AdminToggleBotDetectionRule, AdminDeleteBotDetectionRule,
       AdminCreateIPBlockPolicy, AdminUpdateIPBlockPolicy, AdminToggleIPBlockPolicy,
       AdminDeleteIPBlockPolicy, ToggleRow, DeleteRow
  <2>2. QED
    BY <1>1, <2>1
<1>3. CASE BustCaches
  <2>1. PICK k \in FixedKeys : redis' \in Tried(redis, Delete(redis, {k}))
    BY <1>3 DEF BustCaches, bustRateLimitCache, bustBotDetectionCache, bustIPBlockPolicyCache, Bust
  <2>2. {k} \cap LimitRules = {}
    BY <2>1
  <2>3. QED
    BY <2>1, <2>2, DeleteAlike, TriedAlike
<1>4. QED
  BY <1>2, <1>3

LEMMA RecordSteps ==
  ASSUME AdminUnblockIP \/ AdminPermanentBlockIP \/ AdminResetIPCounts
  PROVE  Alike(redis, redis') /\ UNCHANGED admitted
<1> USE OtherKeys DEF FixedKeys
<1>1. UNCHANGED admitted
  BY DEF AdminUnblockIP, AdminPermanentBlockIP, AdminResetIPCounts, guardRest
<1>2. CASE redis' = redis
  BY <1>1, <1>2 DEF Alike
<1>3. CASE redis' \in Tried(redis, Delete(redis, {"active"}))
  <2>1. {"active"} \cap LimitRules = {}
    OBVIOUS
  <2>2. QED
    BY <1>1, <1>3, <2>1, DeleteAlike, TriedAlike
<1>4. CASE redis' \in Tried(redis, Delete(redis, {"l1", "l2", "violations"}))
  <2>1. {"l1", "l2", "violations"} \cap LimitRules = {}
    OBVIOUS
  <2>2. QED
    BY <1>1, <1>4, <2>1, DeleteAlike, TriedAlike
<1>5. CASE redis' \in Tried(redis, Set(redis, "active", [level |-> 4, permanent |-> TRUE], FALSE))
  BY <1>1, <1>5, SetAlike, TriedAlike
<1>6. QED
  BY <1>2, <1>3, <1>4, <1>5
     DEF AdminUnblockIP, AdminPermanentBlockIP, AdminResetIPCounts, FindBlock, SaveBlock, OnKeys

LEMMA GuardSteps == [Next]_vars => WindowStep
<1> SUFFICES ASSUME [Next]_vars PROVE WindowStep
  OBVIOUS
<1>1. ASSUME NEW q \in Slots, AutoIPBlockMiddleware(q) PROVE WindowStep
  BY <1>1, SameAside DEF AutoIPBlockMiddleware, ruleVars, WindowStep
<1>2. CASE Administer
  BY <1>2, RuleSteps, RecordSteps DEF Administer, WindowStep, Aside
<1>3. ASSUME NEW k \in Keys \ LimitRules, KeyExpires(k) PROVE WindowStep
  BY <1>3, DeleteAlike DEF KeyExpires, Expired, WindowStep, Aside
<1>4. CASE UNCHANGED vars
  BY <1>4, SameAside DEF vars, ruleVars, WindowStep
<1>5. QED
  BY <1>1, <1>2, <1>3, <1>4, ServeSteps DEF Next, WindowStep

----------------------------------------------------------------------------
(***************************************************************************)
(* Steps keep the windows.                                                 *)
(***************************************************************************)
LEMMA CountsKeep ==
  ASSUME WindowInv, NEW r, Counts(r)
  PROVE  WindowInv'
<1>1. CASE r \notin LimitRules
  <2>1. Alike(redis, redis')
    BY <1>1, IncrAlike DEF Counts
  <2>2. admitted' = admitted
    BY <1>1 DEF Counts, WindowInv
  <2>3. QED
    BY <2>1, <2>2 DEF WindowInv, Alike, GetInt
<1>2. CASE r \in LimitRules
  <2> DEFINE n == GetInt(redis, r) + 1
  <2>1. GetInt(redis, r) \in Nat /\ n \in Nat /\ admitted[r] + 1 \in Nat
    BY <1>2 DEF WindowInv, Counters, GetInt
  <2>2. /\ DOMAIN redis' = Keys
        /\ redis'[r] = [val |-> n, expires |-> n = 1 \/ redis[r].expires]
        /\ \A s \in LimitRules \ {r} : redis'[s] = redis[s]
    BY <1>2 DEF Counts, IncrWithExpiry, Set, WindowInv, Keys
  <2>3. redis'[r] \in [val : Nat, expires : BOOLEAN] /\ redis'[r].val = n
    <3>1. (n = 1 \/ redis[r].expires) \in BOOLEAN
      OBVIOUS
    <3>2. QED
      BY <2>1, <2>2, <3>1
  <2>4. GetInt(redis', r) = n
    BY <2>3, CacheAssumption DEF GetInt
  <2>5. \A s \in LimitRules \ {r} : GetInt(redis', s) = GetInt(redis, s)
    BY <2>2 DEF GetInt
  <2>6. /\ admitted' \in [LimitRules -> Nat]
        /\ admitted'[r] <= n /\ admitted'[r] <= MaxOf[r]
        /\ \A s \in LimitRules \ {r} : admitted'[s] = admitted[s]
    <3> HIDE DEF n
    <3>1. CASE GetInt(redis', r) <= MaxOf[r] /\ admitted' = [admitted EXCEPT ![r] = @ + 1]
      <4>1. admitted[r] + 1 <= n
        BY <1>2, <2>1 DEF WindowInv, n
      <4>2. MaxOf[r] \in Nat /\ n <= MaxOf[r]
        BY <1>2, <2>4, <3>1, GuardAssumption
      <4>3. admitted \in [LimitRules -> Nat] /\ admitted[r] \in Nat
        BY <1>2 DEF WindowInv
      <4>4. admitted'[r] = admitted[r] + 1 /\ admitted' \in [LimitRules -> Nat]
            /\ \A s \in LimitRules \ {r} : admitted'[s] = admitted[s]
        BY <1>2, <2>1, <3>1, <4>3
      <4>5. QED
        BY <2>1, <4>1, <4>2, <4>3, <4>4
    <3>2. CASE admitted' = admitted
      <4>1. admitted[r] <= n
        BY <1>2, <2>1 DEF WindowInv, n
      <4>2. QED
        BY <1>2, <3>2, <4>1 DEF WindowInv
    <3>3. QED
      BY <1>2, <3>1, <3>2 DEF Counts
  <2> HIDE DEF n
  <2>7. QED
    BY <2>2, <2>3, <2>4, <2>5, <2>6 DEF WindowInv, Counters
<1>3. QED
  BY <1>1, <1>2

LEMMA WindowsKeep ==
  ASSUME WindowInv, WindowStep
  PROVE  WindowInv'
<1>1. ASSUME NEW r \in LimitRules, NextWindow(r) PROVE WindowInv'
  <2>1. /\ DOMAIN redis' = Keys /\ redis'[r] = Nil /\ admitted'[r] = 0
        /\ admitted' \in [LimitRules -> Nat]
        /\ \A s \in LimitRules \ {r} : redis'[s] = redis[s] /\ admitted'[s] = admitted[s]
    BY <1>1 DEF NextWindow, Expired, Delete, WindowInv, Keys
  <2>2. MaxOf[r] \in Nat
    BY GuardAssumption
  <2>3. QED
    BY <2>1, <2>2 DEF WindowInv, GetInt, Counters
<1>2. CASE Aside
  BY <1>2 DEF Aside, Alike, WindowInv, GetInt
<1>3. QED
  BY <1>1, <1>2, CountsKeep DEF WindowStep

----------------------------------------------------------------------------
(***************************************************************************)
(* The record of a block: there is one, or a goroutine has still to write  *)
(* it; and once there is one it stays.                                     *)
(***************************************************************************)
OnRecord == {"unblock", "unblock_key", "permanent", "permanent_key", "reset", "reset_row"}

\* The cached limits are ids of limits.
CopyOfLimits(store) == store["limits"] # Nil => Get(store, "limits") \subseteq LimitRules

Typed ==
    /\ DOMAIN redis = Keys /\ CopyOfLimits(redis)
    /\ DOMAIN pc = Slots /\ DOMAIN plan = Slots /\ DOMAIN loaded = Slots
    /\ block \in {Nil} \cup Blocks
    /\ admin \in OnRecord => read \in Blocks /\ block \in Blocks
    /\ \A q \in Slots :
          /\ pc[q] \in {"apply", "record", "save"} => plan[q].level \in 1 .. 3
          /\ pc[q] = "save" => plan[q].row \in {Nil} \cup Blocks
          /\ pc[q] \in {"store_limits", "count"} => loaded[q] \subseteq LimitRules

Writing(q) == pc[q] \in {"record", "save"}

RecordInv == Typed /\ BlockIsOnRecord

\* A goroutine that is not about to write the record goes to another step.
Elsewhere(q) ==
    /\ ~Writing(q)
    /\ pc'[q] \notin {"apply", "record", "save"}
    /\ pc'[q] \in {"store_limits", "count"} => loaded'[q] \subseteq LimitRules
    /\ \A p \in Slots \ {q} : pc'[p] = pc[p] /\ plan'[p] = plan[p] /\ loaded'[p] = loaded[p]
    /\ DOMAIN pc' = Slots /\ DOMAIN plan' = Slots /\ DOMAIN loaded' = Slots

LEMMA GoesElsewhere ==
  ASSUME Typed, NEW q \in Slots, ~Writing(q),
         \/ Finish(q)
         \/ \E step, v : /\ step \notin {"apply", "record", "save"} /\ Continue(q, step, v)
                         /\ step \in {"store_limits", "count"} => v \subseteq LimitRules
         \/ UNCHANGED slotVars /\ pc[q] = "idle"
         \/ Goto(q, "bots") /\ UNCHANGED <<plan, loaded>>
  PROVE  Elsewhere(q)
<1> USE DEF Typed, Writing, Elsewhere, Goto
<1>1. CASE Finish(q)
  BY <1>1 DEF Finish
<1>2. ASSUME NEW step, NEW v, step \notin {"apply", "record", "save"}, Continue(q, step, v),
             step \in {"store_limits", "count"} => v \subseteq LimitRules
      PROVE  Elsewhere(q)
  <2>1. pc'[q] = step /\ loaded'[q] = v
    BY <1>2 DEF Continue
  <2>2. QED
    BY <1>2, <2>1 DEF Continue
<1>3. CASE UNCHANGED slotVars /\ pc[q] = "idle"
  <2>1. pc' = pc /\ plan' = plan /\ loaded' = loaded /\ pc'[q] = "idle"
    BY <1>3 DEF slotVars
  <2>2. QED
    BY <2>1
<1>4. CASE Goto(q, "bots") /\ UNCHANGED <<plan, loaded>>
  <2>1. pc' = [pc EXCEPT ![q] = "bots"] /\ plan' = plan /\ loaded' = loaded
    BY <1>4
  <2>2. pc'[q] = "bots"
    BY <2>1
  <2>3. QED
    BY <2>1, <2>2
<1>5. QED
  BY <1>1, <1>2, <1>3, <1>4

\* A call that blocks nobody.
Gentle(s) ==
    DOMAIN s = Keys /\ CopyOfLimits(s) /\ s["active"] \in {Nil, redis["active"]}

\* Nothing but the goroutine's place has changed.
LEMMA ElsewhereKeeps ==
  ASSUME RecordInv, NEW q \in Slots, Elsewhere(q), UNCHANGED <<admin, read, block>>,
         Gentle(redis')
  PROVE  RecordInv'
<1>1. Typed'
  BY DEF RecordInv, Typed, Elsewhere, Gentle
<1>2. BlockIsOnRecord'
  BY DEF RecordInv, BlockIsOnRecord, Blocked, Elsewhere, Writing, Gentle
<1>3. QED
  BY <1>1, <1>2 DEF RecordInv

\* Calls on keys other than the block's.
LEMMA OtherCalls ==
  ASSUME DOMAIN redis = Keys, CopyOfLimits(redis)
  PROVE  /\ Gentle(redis)
         /\ \A k, v, e : k # "active" /\ (k = "limits" => v \subseteq LimitRules) =>
               \A s \in Tried(redis, Set(redis, k, v, e)) : Gentle(s)
         /\ \A k : k \notin {"active", "limits"} => Gentle(IncrWithExpiry(redis, k))
         /\ \A ks : \A s \in Tried(redis, Delete(redis, ks)) : Gentle(s)
<1> USE DEF Gentle, CopyOfLimits
<1>1. "active" \in Keys /\ "limits" \in Keys
  BY DEF Keys, FixedKeys
<1>2. ASSUME NEW k, NEW v, NEW e, k # "active", k = "limits" => v \subseteq LimitRules
      PROVE  Gentle(Set(redis, k, v, e))
  BY <1>1, <1>2 DEF Set, Get
<1>3. ASSUME NEW ks PROVE Gentle(Delete(redis, ks))
  BY <1>1 DEF Delete, Get
<1>4. ASSUME NEW k, k \notin {"active", "limits"} PROVE Gentle(IncrWithExpiry(redis, k))
  BY <1>2, <1>4 DEF IncrWithExpiry
<1>5. QED
  BY <1>2, <1>3, <1>4 DEF Tried

LEMMA EscalationCalls ==
  ASSUME DOMAIN redis = Keys, NEW level, NEW s \in Escalated(level)
  PROVE  DOMAIN s = Keys /\ s["active"] = redis["active"] /\ s["limits"] = redis["limits"]
<1>1. "active" \in Keys /\ "limits" \in Keys
  BY DEF Keys, FixedKeys
<1>2. CASE level = 3
  BY <1>2 DEF Escalated
<1>3. CASE level = 2
  <2>1. PICK t \in Tried(redis, IncrWithExpiry(redis, "l2")) : s \in Tried(t, SetInt(t, "l1", 0))
    BY <1>3 DEF Escalated
  <2>2. DOMAIN t = Keys /\ t["active"] = redis["active"] /\ t["limits"] = redis["limits"]
    BY <1>1, <2>1 DEF Tried, IncrWithExpiry, Set
  <2>3. QED
    BY <1>1, <2>1, <2>2 DEF Tried, SetInt, Set
<1>4. CASE level # 3 /\ level # 2
  BY <1>1, <1>4 DEF Escalated, Tried, IncrWithExpiry, Set
<1>5. QED
  BY <1>2, <1>3, <1>4

LEMMA ServeKeepsRecord ==
  ASSUME RecordInv, NEW q \in Slots, AutoIPBlockMiddleware(q) \/ Serve(q)
  PROVE  RecordInv'
<1> USE DEF ruleVars
<1>0. Typed /\ DOMAIN redis = Keys /\ CopyOfLimits(redis) /\ Gentle(redis)
  BY OtherCalls DEF RecordInv, Typed
<1>1. CASE AutoIPBlockMiddleware(q)
  <2>1. Elsewhere(q)
    BY <1>0, <1>1, GoesElsewhere DEF AutoIPBlockMiddleware, Writing
  <2>2. QED
    BY <1>0, <1>1, <2>1, ElsewhereKeeps DEF AutoIPBlockMiddleware
<1>2. CASE BotDetectionMiddleware(q) \/ LookUpLimits(q) \/ LookUpPolicy(q)
  <2>1. Elsewhere(q)
    <3>1. redis["limits"] # Nil => Concerned(q, Get(redis, "limits")) \subseteq LimitRules
      BY <1>0 DEF CopyOfLimits, Concerned
    <3>2. Enabled(LimitRules) \subseteq LimitRules
      BY DEF Enabled
    <3>3. QED
      BY <1>0, <1>2, <3>1, <3>2, GoesElsewhere
         DEF BotDetectionMiddleware, UseBotRules, LookUpLimits, UseLimits, LookUpPolicy, Writing
  <2>2. QED
    BY <1>0, <1>2, <2>1, ElsewhereKeeps DEF BotDetectionMiddleware, LookUpLimits, LookUpPolicy
<1>3. CASE loadBotDetectionRules(q) \/ loadRateLimitRules(q) \/ loadIPBlockPolicy(q)
  <2>1. Elsewhere(q)
    <3>1. pc[q] = "store_limits" => Concerned(q, loaded[q]) \subseteq LimitRules
      BY <1>0 DEF Typed, Concerned
    <3>2. CASE loadBotDetectionRules(q)
      <4>1. ~Writing(q) /\ (Finish(q) \/ Continue(q, "limits", Nil))
        BY <3>2 DEF loadBotDetectionRules, UseBotRules, Writing
      <4>2. QED
        BY <1>0, <4>1, GoesElsewhere
    <3>3. CASE loadRateLimitRules(q)
      <4>1. ~Writing(q) /\ (Finish(q) \/ Continue(q, "count", Concerned(q, loaded[q])))
        BY <3>3 DEF loadRateLimitRules, UseLimits, Writing
      <4>2. pc[q] = "store_limits"
        BY <3>3 DEF loadRateLimitRules
      <4>3. QED
        BY <1>0, <3>1, <4>1, <4>2, GoesElsewhere
    <3>4. CASE loadIPBlockPolicy(q)
      <4>1. ~Writing(q) /\ Continue(q, "violation", loaded[q])
        BY <3>4 DEF loadIPBlockPolicy, Writing
      <4>2. QED
        BY <1>0, <4>1, GoesElsewhere
    <3>5. QED
      BY <1>3, <3>2, <3>3, <3>4
  <2>2. Gentle(redis')
    <3>1. pc[q] = "store_limits" => loaded[q] \subseteq LimitRules
      BY <1>0 DEF Typed
    <3>2. QED
      BY <1>0, <1>3, <3>1, OtherCalls
         DEF loadBotDetectionRules, loadRateLimitRules, loadIPBlockPolicy
  <2>3. QED
    BY <1>3, <2>1, <2>2, ElsewhereKeeps
       DEF loadBotDetectionRules, loadRateLimitRules, loadIPBlockPolicy
<1>4. CASE RateLimitMiddleware(q)
  <2>1. Elsewhere(q)
    <3>1. \A r : loaded[q] \ {r} \subseteq LimitRules
      BY <1>0, <1>4 DEF RateLimitMiddleware, Typed
    <3>2. QED
      BY <1>0, <1>4, <3>1, GoesElsewhere DEF RateLimitMiddleware, NextLimit, Writing
  <2>2. PICK r \in LimitRules : redis' = IncrWithExpiry(redis, r) \/ redis' = redis
    BY <1>0, <1>4 DEF RateLimitMiddleware, Typed
  <2>3. Gentle(redis')
    <3>1. r \notin {"active", "limits"}
      BY OtherKeys DEF FixedKeys
    <3>2. QED
      BY <1>0, <2>2, <3>1, OtherCalls
  <2>4. QED
    BY <1>4, <2>1, <2>3, ElsewhereKeeps DEF RateLimitMiddleware
<1>5. CASE CountViolation(q)
  <2>1. Elsewhere(q)
    BY <1>0, <1>5, GoesElsewhere DEF CountViolation, Writing
  <2>2. Gentle(redis')
    BY <1>0, <1>5, OtherCalls DEF CountViolation
  <2>3. QED
    BY <1>5, <2>1, <2>2, ElsewhereKeeps DEF CountViolation
<1>6. CASE ChooseLevel(q)
  <2>1. /\ pc[q] = "escalate" /\ pc' = [pc EXCEPT ![q] = "apply"]
        /\ UNCHANGED <<redis, admin, read, block, loaded>>
    BY <1>6 DEF ChooseLevel, Goto
  <2>2. PICK level \in 1 .. 3 : plan' = [plan EXCEPT ![q] = [level |-> level, row |-> Nil]]
    <3>1. PICK l1, l2 :
             plan' = [plan EXCEPT ![q] = [level |-> LevelFor(loaded[q], l1, l2), row |-> Nil]]
      BY <1>6 DEF ChooseLevel
    <3>2. LevelFor(loaded[q], l1, l2) \in 1 .. 3
      BY DEF LevelFor
    <3>3. QED
      BY <3>1, <3>2
  <2>3. Typed'
    BY <2>1, <2>2 DEF RecordInv, Typed
  <2>4. BlockIsOnRecord'
    BY <2>1 DEF RecordInv, Typed, BlockIsOnRecord, Blocked
  <2>5. QED
    BY <2>3, <2>4 DEF RecordInv
<1>7. CASE triggerAutoBlock(q)
  <2>1. PICK counted \in Escalated(plan[q].level) :
           \/ /\ redis' \in LET set == Set(counted, "active",
                                     [level |-> plan[q].level, permanent |-> FALSE], TRUE)
                            IN  Tried(set, Delete(set, {"violations"}))
              /\ Goto(q, "record") /\ UNCHANGED <<plan, loaded>>
           \/ redis' = counted /\ Finish(q)
    BY <1>7 DEF triggerAutoBlock
  <2>2. /\ DOMAIN counted = Keys /\ counted["active"] = redis["active"]
        /\ counted["limits"] = redis["limits"] /\ Gentle(counted)
    BY <1>0, EscalationCalls DEF Gentle, CopyOfLimits, Get
  <2>3. pc[q] = "apply" /\ UNCHANGED <<admin, read, block>>
    BY <1>7 DEF triggerAutoBlock
  <2>4. CASE Finish(q) /\ redis' = counted
    <3>1. Elsewhere(q)
      BY <1>0, <2>3, <2>4, GoesElsewhere DEF Writing
    <3>2. QED
      BY <2>2, <2>3, <2>4, <3>1, ElsewhereKeeps
  <2>5. CASE ~(Finish(q) /\ redis' = counted)
    <3>1. DOMAIN redis' = Keys /\ redis'["limits"] = redis["limits"]
      <4>1. "limits" \in Keys
        BY DEF Keys, FixedKeys
      <4>2. QED
        BY <2>1, <2>2, <2>5, <4>1 DEF Tried, Delete, Set
    <3>2. pc' = [pc EXCEPT ![q] = "record"] /\ plan' = plan /\ loaded' = loaded
      BY <2>1, <2>5 DEF Goto
    <3>3. Typed'
      BY <2>3, <3>1, <3>2 DEF RecordInv, Typed, CopyOfLimits, Get
    <3>4. pc'[q] = "record"
      BY <1>0, <3>2 DEF Typed
    <3>5. QED
      BY <3>3, <3>4 DEF RecordInv, BlockIsOnRecord
  <2>6. QED
    BY <2>4, <2>5
<1>8. CASE ReadRecord(q)
  <2>1. /\ pc[q] = "record" /\ pc' = [pc EXCEPT ![q] = "save"]
        /\ plan' = [plan EXCEPT ![q].row = block]
        /\ UNCHANGED <<redis, admin, read, block, loaded>>
    BY <1>8 DEF ReadRecord, Goto
  <2>2. plan'[q].level = plan[q].level /\ plan'[q].row = block
    BY <1>0, <2>1 DEF Typed
  <2>3. Typed'
    BY <2>1, <2>2 DEF RecordInv, Typed
  <2>4. pc'[q] = "save"
    BY <1>0, <2>1 DEF Typed
  <2>5. QED
    BY <2>3, <2>4 DEF RecordInv, BlockIsOnRecord
<1>9. CASE upsertAutoIPBlock(q)
  <2>1. /\ pc[q] = "save" /\ Finish(q)
        /\ plan[q].level \in 1 .. 3 /\ plan[q].row \in {Nil} \cup Blocks
        /\ UNCHANGED <<redis, admin, read>>
    BY <1>0, <1>9 DEF upsertAutoIPBlock, Typed
  <2>2. block' \in Blocks
    <3>1. ASSUME NEW row \in Blocks, NEW level \in 1 .. 4
          PROVE  [row EXCEPT !.level = level, !.active = TRUE] \in Blocks
      BY DEF Blocks
    <3>2. [level |-> plan[q].level, active |-> TRUE, permanent |-> FALSE] \in Blocks
      BY <2>1 DEF Blocks
    <3>3. CASE plan[q].row = Nil /\ block = Nil
      BY <1>9, <3>2, <3>3 DEF upsertAutoIPBlock
    <3>4. CASE plan[q].row = Nil /\ block # Nil
      <4>1. block' = block
        BY <1>9, <3>4 DEF upsertAutoIPBlock
      <4>2. QED
        BY <1>0, <3>4, <4>1 DEF Typed
    <3>5. CASE plan[q].row # Nil
      <4>1. block' = [plan[q].row EXCEPT !.level = plan[q].level, !.active = TRUE]
        BY <1>9, <3>5 DEF upsertAutoIPBlock
      <4>2. plan[q].row \in Blocks /\ plan[q].level \in 1 .. 4
        BY <2>1, <3>5
      <4>3. QED
        BY <3>1, <4>1, <4>2
    <3>6. QED
      BY <3>3, <3>4, <3>5
  <2>3. Typed'
    BY <1>0, <2>1, <2>2 DEF Typed, Finish, Goto
  <2>4. QED
    BY <2>2, <2>3, GuardAssumption DEF RecordInv, BlockIsOnRecord
<1>10. QED
  BY <1>1, <1>2, <1>3, <1>4, <1>5, <1>6, <1>7, <1>8, <1>9 DEF Serve

\* Steps that leave the goroutines where they are.
LEMMA AdminKeepsRecord ==
  ASSUME RecordInv, UNCHANGED <<pc, plan, loaded>>, DOMAIN redis' = Keys, CopyOfLimits(redis'),
         block' \in {Nil} \cup Blocks, block \in Blocks => block' \in Blocks,
         admin' \in OnRecord => read' \in Blocks /\ block' \in Blocks,
         redis'["active"] \in {Nil, redis["active"]} \/ block' \in Blocks
  PROVE  RecordInv'
<1>1. Typed'
  BY DEF RecordInv, Typed
<1>2. BlockIsOnRecord'
  BY GuardAssumption DEF RecordInv, Typed, BlockIsOnRecord, Blocked
<1>3. QED
  BY <1>1, <1>2 DEF RecordInv

LEMMA RecordInit == Init => RecordInv
<1>1. Init => /\ "active" \in Keys /\ redis["active"] = Nil
              /\ "limits" \in Keys /\ redis["limits"] = Nil
  BY DEF Init, Keys, FixedKeys
<1>2. QED
  BY <1>1 DEF Init, RecordInv, Typed, BlockIsOnRecord, Blocked, OnRecord, CopyOfLimits

LEMMA RecordKeeps == RecordInv /\ [Next]_vars => RecordInv'
<1> SUFFICES ASSUME RecordInv, [Next]_vars PROVE RecordInv'
  OBVIOUS
<1>0. /\ DOMAIN redis = Keys /\ CopyOfLimits(redis) /\ block \in {Nil} \cup Blocks
      /\ admin \in OnRecord => read \in Blocks /\ block \in Blocks
  BY DEF RecordInv, Typed
<1>1. CASE (EditRules \/ BustCaches) /\ UNCHANGED <<slotVars, block, read>>
  <2>1. admin' \notin OnRecord
    BY <1>1 DEF EditRules, BustCaches, AdminCreateRateLimit, AdminToggleRateLimit,
       AdminDeleteRateLimit, AdminCreateBotDetectionRule, AdminToggleBotDetectionRule,
       AdminDeleteBotDetectionRule, AdminCreateIPBlockPolicy, AdminUpdateIPBlockPolicy,
       AdminToggleIPBlockPolicy, AdminDeleteIPBlockPolicy, CreateRow, ToggleRow, DeleteRow,
       bustRateLimitCache, bustBotDetectionCache, bustIPBlockPolicyCache, Bust, Begin, OnRecord
  <2>2. redis' = redis \/ \E k : redis' \in Tried(redis, Delete(redis, {k}))
    BY <1>1 DEF EditRules, BustCaches, AdminCreateRateLimit, AdminToggleRateLimit,
       AdminDeleteRateLimit, AdminCreateBotDetectionRule, AdminToggleBotDetectionRule,
       AdminDeleteBotDetectionRule, AdminCreateIPBlockPolicy, AdminUpdateIPBlockPolicy,
       AdminToggleIPBlockPolicy, AdminDeleteIPBlockPolicy, ToggleRow, DeleteRow,
       bustRateLimitCache, bustBotDetectionCache, bustIPBlockPolicyCache, Bust
  <2>3. DOMAIN redis' = Keys /\ CopyOfLimits(redis') /\ redis'["active"] \in {Nil, redis["active"]}
    BY <1>0, <2>2, OtherCalls DEF Gentle
  <2>4. QED
    BY <1>0, <1>1, <2>1, <2>3, AdminKeepsRecord DEF slotVars
<1>2. CASE AdminUnblockIP \/ AdminPermanentBlockIP \/ AdminResetIPCounts
  <2>1. UNCHANGED <<pc, plan, loaded>>
    BY <1>2 DEF AdminUnblockIP, AdminPermanentBlockIP, AdminResetIPCounts, guardRest, slotVars
  <2>2. ASSUME NEW next, FindBlock(next) PROVE RecordInv'
    BY <1>0, <2>1, <2>2, AdminKeepsRecord DEF FindBlock
  <2>3. ASSUME NEW from \in OnRecord, NEW row \in Blocks, NEW next, SaveBlock(from, row, next),
               next = "idle" \/ next \in OnRecord
        PROVE  RecordInv'
    BY <1>0, <2>1, <2>3, AdminKeepsRecord DEF SaveBlock, OnRecord
  <2>4. ASSUME NEW from \in OnRecord, NEW after, NEW next, OnKeys(from, after, next),
               next = "idle" \/ next \in OnRecord,
               DOMAIN after = Keys, after["limits"] = redis["limits"]
        PROVE  RecordInv'
    <3>1. DOMAIN redis' = Keys /\ CopyOfLimits(redis')
      BY <1>0, <2>4 DEF OnKeys, Tried, CopyOfLimits, Get
    <3>2. QED
      BY <1>0, <2>1, <2>4, <3>1, AdminKeepsRecord DEF OnKeys, OnRecord
  <2>5. CASE AdminUnblockIP
    <3>1. read \in Blocks => [read EXCEPT !.active = FALSE] \in Blocks
      BY DEF Blocks
    <3>2. LET t == Delete(redis, {"active"})
          IN  DOMAIN t = Keys /\ t["limits"] = redis["limits"]
      BY <1>0 DEF Delete, Keys, FixedKeys
    <3>3. QED
      BY <1>0, <2>2, <2>3, <2>4, <2>5, <3>1, <3>2
         DEF AdminUnblockIP, SaveBlock, OnRecord
  <2>6. CASE AdminPermanentBlockIP
    <3>1. [level |-> 4, active |-> TRUE, permanent |-> TRUE] \in Blocks
      BY DEF Blocks
    <3>2. LET t == Set(redis, "active", [level |-> 4, permanent |-> TRUE], FALSE)
          IN  DOMAIN t = Keys /\ t["limits"] = redis["limits"]
      BY <1>0 DEF Set, Keys, FixedKeys
    <3>3. QED
      BY <2>2, <2>3, <2>4, <2>6, <3>1, <3>2 DEF AdminPermanentBlockIP, OnRecord
  <2>7. CASE AdminResetIPCounts
    <3>1. LET t == Delete(redis, {"l1", "l2", "violations"})
          IN  DOMAIN t = Keys /\ t["limits"] = redis["limits"]
      BY <1>0 DEF Delete, Keys, FixedKeys
    <3>2. QED
      BY <1>0, <2>2, <2>3, <2>4, <2>7, <3>1 DEF AdminResetIPCounts, SaveBlock, OnRecord
  <2>8. QED
    BY <1>2, <2>5, <2>6, <2>7
<1>3. ASSUME NEW k, redis' = Expired(redis, k), UNCHANGED <<admin, slotVars, block, read>>
      PROVE  RecordInv'
  <2>1. DOMAIN redis' = Keys /\ CopyOfLimits(redis') /\ redis'["active"] \in {Nil, redis["active"]}
    BY <1>0, <1>3, OtherCalls DEF Expired, Tried, Gentle
  <2>2. QED
    BY <1>0, <1>3, <2>1, AdminKeepsRecord DEF slotVars
<1>4. CASE UNCHANGED vars
  BY <1>0, <1>4, AdminKeepsRecord DEF vars, ruleVars, slotVars
<1>5. QED
  BY <1>1, <1>2, <1>3, <1>4, ServeKeepsRecord DEF Next, Administer, NextWindow, KeyExpires

----------------------------------------------------------------------------
(***************************************************************************)
(* Theorems.                                                               *)
(***************************************************************************)

\* The rate limit of rate_limit_middleware.go holds for any number of requests
\* at once: within one window no limit lets more pass than its maximum.
THEOREM LimitsHold == Spec => []LimitHolds
<1>1. Init => WindowInv
  BY GuardAssumption DEF Init, WindowInv, Counters, GetInt, Keys
<1>2. WindowInv /\ [Next]_vars => WindowInv'
  BY GuardSteps, WindowsKeep
<1>3. WindowInv => LimitHolds
  BY DEF WindowInv, LimitHolds
<1>4. QED
  BY <1>1, <1>2, <1>3, PTL DEF Spec

\* However requests, the escalation's goroutines and the administrator race, an
\* address that is blocked has a record by which the block can be lifted, or a
\* goroutine of triggerAutoBlock has still to write it.
THEOREM BlocksOnRecord == Spec => []BlockIsOnRecord
<1>1. Init => RecordInv
  BY RecordInit
<1>2. RecordInv => BlockIsOnRecord
  BY DEF RecordInv
<1>3. QED
  BY <1>1, <1>2, RecordKeeps, PTL DEF Spec
----------------------------------------------------------------------------
(***************************************************************************)
(* What a block costs.                                                     *)
(*                                                                         *)
(* Every goroutine of triggerAutoBlock stands for one violation of its     *)
(* own.  It is Uncounted until it incremented the violations counter, and  *)
(* Pending until it applied its block.  The inductive invariant says which *)
(* number of violations each counter and each goroutine on its way stands  *)
(* for; no policy is needed for it to be the same one all the time.        *)
(***************************************************************************)

Uncounted == {q \in Slots : pc[q] \in {"policy", "store_policy", "violation"}}

Escalating(q) == pc[q] \in {"escalate", "apply"}

Pending == Uncounted \cup {q \in Slots : Escalating(q)}

Aims(q, level) == pc[q] = "apply" /\ plan[q].level >= level

\* There are n violations more than some policies ask for a first block, for
\* a block of level 2, and for one of level 3.
Reached1(v, n) == \E s \in Settings : v >= s.l1 + n
Reached2(v, n) == \E s, t \in Settings : v >= s.l1 + t.l2 + n
Reached3(v, n) == \E s, t, u \in Settings : v >= s.l1 + t.l2 + u.l3 + n

CounterKeys == {"violations", "l1", "l2"}

Policied ==
    /\ violated \in Nat
    /\ settings \in [Policies -> Settings]
    /\ \A k \in CounterKeys : redis[k] \in Counters
    /\ redis["policy"] # Nil => Get(redis, "policy") \in Settings
    /\ \A q \in Slots : pc[q] \in {"store_policy", "violation", "escalate"} => loaded[q] \in Settings

Budget ==
    /\ violated >= GetInt(redis, "violations") + Cardinality(Uncounted)
    /\ GetInt(redis, "l1") > 0 \/ GetInt(redis, "l2") > 0 \/ (\E q \in Slots : Escalating(q)) =>
          Reached1(violated, GetInt(redis, "l1") + GetInt(redis, "l2") + Cardinality(Pending) - 1)
    /\ GetInt(redis, "l2") > 0 \/ (\E q \in Slots : Aims(q, 2)) =>
          Reached2(violated, GetInt(redis, "l2") + Cardinality(Pending) - 1)
    /\ (\E q \in Slots : Aims(q, 3)) => Reached3(violated, 0)

EarnedInv == RecordInv /\ Policied /\ Budget /\ BlocksAreEarned

\* A set of numbers has a least one.
LEMMA LeastNumber ==
  ASSUME NEW S \in SUBSET Nat, S # {}
  PROVE  \E x \in S : \A y \in S : x <= y
<1> DEFINE R == {p \in Nat \X Nat : p[1] < p[2]}
<1>1. IsWellFoundedOn(R, Nat)
  BY NatLessThanWellFounded DEF OpToRel
<1> HIDE DEF R
<1>2. PICK x \in S : \A y \in S : ~(<<y, x>> \in R)
  BY <1>1, WFMin
<1>3. ASSUME NEW y \in S PROVE x <= y
  <2>1. x \in Nat /\ y \in Nat /\ ~(<<y, x>> \in R)
    BY <1>2
  <2>2. ~(y < x)
    BY <2>1 DEF R
  <2>3. QED
    BY <2>1, <2>2
<1>4. QED
  BY <1>3

\* The policy in force has thresholds a policy may have.
LEMMA PolicyInForce ==
  ASSUME settings \in [Policies -> Settings], EnabledPolicy # Nil
  PROVE  EnabledPolicy \in Settings
<1> DEFINE on == Enabled(Policies)
<1>1. on # {} /\ on \in SUBSET Policies
  BY DEF EnabledPolicy, Enabled
<1>2. on \in SUBSET Nat
  BY <1>1, RuleAssumption
<1>3. \E p \in on : \A q \in on : p <= q
  BY <1>1, <1>2, LeastNumber
<1>4. (CHOOSE p \in on : \A q \in on : p <= q) \in on
  BY <1>3
<1>5. QED
  BY <1>1, <1>4 DEF EnabledPolicy

LEMMA SettingsAreNumbers ==
  ASSUME NEW s \in Settings
  PROVE  s.l1 \in Nat \ {0} /\ s.l2 \in Nat \ {0} /\ s.l3 \in Nat \ {0}
  BY RuleAssumption

\* What was reached stays reached while violations grow as fast as the rest.
LEMMA ReachedStays ==
  ASSUME NEW v \in Int, NEW w \in Int, NEW n \in Int, NEW m \in Int, w - m >= v - n
  PROVE  /\ Reached1(v, n) => Reached1(w, m)
         /\ Reached2(v, n) => Reached2(w, m)
         /\ Reached3(v, n) => Reached3(w, m)
<1> USE SettingsAreNumbers
<1>1. Reached1(v, n) => Reached1(w, m)
  BY DEF Reached1
<1>2. Reached2(v, n) => Reached2(w, m)
  BY DEF Reached2
<1>3. Reached3(v, n) => Reached3(w, m)
  BY DEF Reached3
<1>4. QED
  BY <1>1, <1>2, <1>3

LEMMA ReachedHigher ==
  ASSUME NEW v \in Int, NEW n \in Int, NEW m \in Int, NEW s \in Settings
  PROVE  /\ Reached1(v, n) /\ n >= s.l2 + m => Reached2(v, m)
         /\ Reached2(v, n) /\ n >= s.l3 + m => Reached3(v, m)
<1> USE SettingsAreNumbers
<1>1. ASSUME Reached1(v, n), n >= s.l2 + m PROVE Reached2(v, m)
  <2>1. PICK r \in Settings : v >= r.l1 + n
    BY <1>1 DEF Reached1
  <2>2. v >= r.l1 + s.l2 + m
    BY <1>1, <2>1
  <2>3. QED
    BY <2>2 DEF Reached2
<1>2. ASSUME Reached2(v, n), n >= s.l3 + m PROVE Reached3(v, m)
  <2>1. PICK r, t \in Settings : v >= r.l1 + t.l2 + n
    BY <1>2 DEF Reached2
  <2>2. v >= r.l1 + t.l2 + s.l3 + m
    BY <1>2, <2>1
  <2>3. QED
    BY <2>2 DEF Reached3
<1>3. QED
  BY <1>1, <1>2

\* Goroutines can be counted.
LEMMA SlotSets ==
  ASSUME NEW S \in SUBSET Slots
  PROVE  /\ IsFiniteSet(S) /\ Cardinality(S) \in Nat
         /\ \A T \in SUBSET S : Cardinality(T) <= Cardinality(S)
         /\ \A q \in Slots : q \notin S => Cardinality(S \cup {q}) = Cardinality(S) + 1
         /\ \A q \in S : Cardinality(S \ {q}) = Cardinality(S) - 1
<1>1. IsFiniteSet(S) /\ Cardinality(S) \in Nat
  BY GuardAssumption, FS_Subset, FS_CardinalityType
<1>2. \A T \in SUBSET S : Cardinality(T) <= Cardinality(S)
  BY <1>1, FS_Subset
<1>3. \A q : q \notin S => Cardinality(S \cup {q}) = Cardinality(S) + 1
  BY <1>1, FS_AddElement
<1>4. \A q \in S : Cardinality(S \ {q}) = Cardinality(S) - 1
  BY <1>1, FS_RemoveElement
<1>5. QED
  BY <1>1, <1>2, <1>3, <1>4

LEMMA CountersAreNumbers ==
  ASSUME Policied
  PROVE  /\ GetInt(redis, "violations") \in Nat /\ GetInt(redis, "l1") \in Nat
         /\ GetInt(redis, "l2") \in Nat
         /\ Cardinality(Uncounted) \in Nat /\ Cardinality(Pending) \in Nat
<1>1. \A k \in CounterKeys : GetInt(redis, k) \in Nat
  BY DEF Policied, Counters, GetInt
<1>2. QED
  BY <1>1, SlotSets DEF CounterKeys, Uncounted, Pending

\* A step on which no violation is counted and no block is escalated.
LEMMA CalmKeeps ==
  ASSUME EarnedInv, Policied', violated' = violated,
         \A k \in CounterKeys : redis'[k] \in {redis[k], Nil},
         redis'["active"] \in {redis["active"], Nil} \/ redis'["active"].val.permanent,
         Uncounted' \subseteq Uncounted, Pending' \subseteq Pending,
         \A q \in Slots : /\ Escalating(q)' => Escalating(q)
                          /\ Aims(q, 2)' => Aims(q, 2)
                          /\ Aims(q, 3)' => Aims(q, 3)
  PROVE  Budget' /\ BlocksAreEarned'
<1>1. /\ GetInt(redis', "violations") \in 0 .. GetInt(redis, "violations")
      /\ GetInt(redis', "l1") \in 0 .. GetInt(redis, "l1")
      /\ GetInt(redis', "l2") \in 0 .. GetInt(redis, "l2")
  BY CountersAreNumbers DEF EarnedInv, GetInt, CounterKeys
<1>2. /\ Cardinality(Uncounted)' \in 0 .. Cardinality(Uncounted)
      /\ Cardinality(Pending)' \in 0 .. Cardinality(Pending)
  <2>1. Uncounted \in SUBSET Slots /\ Pending \in SUBSET Slots
    BY DEF Uncounted, Pending
  <2>2. QED
    BY <2>1, SlotSets
<1>3. /\ GetInt(redis, "violations") \in Nat /\ GetInt(redis, "l1") \in Nat
      /\ GetInt(redis, "l2") \in Nat /\ Cardinality(Uncounted) \in Nat
      /\ Cardinality(Pending) \in Nat /\ violated \in Nat
  BY CountersAreNumbers DEF EarnedInv, Policied
<1> DEFINE n == GetInt(redis, "l1") + GetInt(redis, "l2") + Cardinality(Pending) - 1
           m == GetInt(redis, "l2") + Cardinality(Pending) - 1
           o == GetInt(redis', "l1") + GetInt(redis', "l2") + Cardinality(Pending)' - 1
           p == GetInt(redis', "l2") + Cardinality(Pending)' - 1
<1>4. n \in Int /\ o \in Int /\ o <= n /\ m \in Int /\ p \in Int /\ p <= m
  BY <1>1, <1>2, <1>3
<1> HIDE DEF n, m, o, p
<1>5. violated \in Int /\ violated' \in Int /\ violated' - o >= violated - n
       /\ violated' - p >= violated - m
  BY <1>3, <1>4
<1>6. violated' >= GetInt(redis', "violations") + Cardinality(Uncounted)'
  BY <1>1, <1>2, <1>3 DEF EarnedInv, Budget
<1>7. GetInt(redis', "l1") > 0 \/ GetInt(redis', "l2") > 0 \/ (\E q \in Slots : Escalating(q)')
        => Reached1(violated', o)
  <2>1. Reached1(violated, n) => Reached1(violated', o)
    BY <1>4, <1>5, ReachedStays
  <2>2. QED
    BY <1>1, <1>3, <2>1 DEF EarnedInv, Budget, n, o
<1>8. GetInt(redis', "l2") > 0 \/ (\E q \in Slots : Aims(q, 2)') => Reached2(violated', p)
  <2>1. Reached2(violated, m) => Reached2(violated', p)
    BY <1>4, <1>5, ReachedStays
  <2>2. QED
    BY <1>1, <1>3, <2>1 DEF EarnedInv, Budget, m, p
<1>9. (\E q \in Slots : Aims(q, 3)') => Reached3(violated', 0)
  BY DEF EarnedInv, Budget
<1>10. Budget'
  BY <1>6, <1>7, <1>8, <1>9 DEF Budget, o, p
<1>11. BlocksAreEarned'
  BY DEF EarnedInv, BlocksAreEarned, Blocked, Get
<1>12. QED
  BY <1>10, <1>11

\* The other goroutines stay where they are.
Alone(q) ==
    \A p \in Slots \ {q} : pc'[p] = pc[p] /\ plan'[p] = plan[p] /\ loaded'[p] = loaded[p]

AutoBlocking == {"policy", "store_policy", "violation", "escalate", "apply"}

\* A goroutine that leaves the escalation, or has its violation still to count.
LEMMA GoroutineCalm ==
  ASSUME NEW q \in Slots, Alone(q),
         \/ pc'[q] \notin AutoBlocking
         \/ pc[q] \in {"policy", "store_policy"} /\ pc'[q] \in {"store_policy", "violation"}
  PROVE  /\ Uncounted' \subseteq Uncounted /\ Pending' \subseteq Pending
         /\ \A p \in Slots : /\ Escalating(p)' => Escalating(p)
                             /\ Aims(p, 2)' => Aims(p, 2)
                             /\ Aims(p, 3)' => Aims(p, 3)
  BY DEF Alone, AutoBlocking, Uncounted, Pending, Escalating, Aims

LEMMA PoliciedKeeps ==
  ASSUME Policied, NEW q \in Slots, Alone(q), settings' = settings, violated' \in Nat,
         \A k \in CounterKeys : redis'[k] \in Counters,
         redis'["policy"] # Nil => Get(redis', "policy") \in Settings,
         pc'[q] \in {"store_policy", "violation", "escalate"} => loaded'[q] \in Settings
  PROVE  Policied'
  BY DEF Policied, Alone

\* Where a goroutine goes by Finish and Continue.
LEMMA FinishMoves ==
  ASSUME Typed, NEW q \in Slots, Finish(q)
  PROVE  Alone(q) /\ pc'[q] = "idle"
  BY DEF Typed, Finish, Goto, Alone

LEMMA ContinueMoves ==
  ASSUME Typed, NEW q \in Slots, NEW step, NEW v, Continue(q, step, v)
  PROVE  Alone(q) /\ pc'[q] = step /\ loaded'[q] = v /\ plan'[q] = plan[q]
  BY DEF Typed, Continue, Goto, Alone

\* Cache calls and the keys the escalation goes by.
Decisive == CounterKeys \cup {"active", "policy"}

LEMMA DecisiveKeys ==
  ASSUME DOMAIN redis = Keys
  PROVE  /\ \A k : \A j \in Decisive \ {k} : IncrWithExpiry(redis, k)[j] = redis[j]
         /\ \A ks : \A s \in Tried(redis, Delete(redis, ks)) :
               \A j \in Decisive : s[j] \in {redis[j], Nil}
         /\ Decisive \subseteq Keys /\ \A k \in LimitRules : k \notin Decisive
<1>1. Decisive \subseteq Keys
  BY DEF Decisive, CounterKeys, Keys, FixedKeys
<1>2. \A k \in LimitRules : k \notin Decisive
  BY GuardAssumption DEF Decisive, CounterKeys, FixedKeys
<1>3. QED
  BY <1>1, <1>2 DEF Tried, Set, IncrWithExpiry, Delete

Earned == Policied /\ Budget /\ BlocksAreEarned

\* A goroutine's step that costs nothing.
LEMMA CalmStep ==
  ASSUME EarnedInv, NEW q \in Slots, Alone(q), UNCHANGED <<settings, violated>>,
         \A j \in CounterKeys \cup {"active"} : redis'[j] \in {redis[j], Nil},
         redis'["policy"] # Nil => Get(redis', "policy") \in Settings,
         \/ pc'[q] \notin AutoBlocking
         \/ /\ pc[q] \in {"policy", "store_policy"} /\ pc'[q] \in {"store_policy", "violation"}
            /\ loaded'[q] \in Settings
  PROVE  Earned'
<1>1. Policied /\ \A j \in CounterKeys : redis'[j] \in Counters
  BY DEF EarnedInv, Policied, Counters
<1>2. Policied'
  BY <1>1, PoliciedKeeps DEF AutoBlocking, Policied
<1>3. Budget' /\ BlocksAreEarned'
  BY <1>2, CalmKeeps, GoroutineCalm
<1>4. QED
  BY <1>2, <1>3 DEF Earned

LEMMA CalmServe ==
  ASSUME EarnedInv, NEW q \in Slots,
         \/ AutoIPBlockMiddleware(q) \/ BotDetectionMiddleware(q) \/ loadBotDetectionRules(q)
         \/ LookUpLimits(q) \/ loadRateLimitRules(q) \/ LookUpPolicy(q) \/ loadIPBlockPolicy(q)
         \/ ReadRecord(q) \/ upsertAutoIPBlock(q)
  PROVE  Earned'
<1> USE DEF ruleVars
<1>0. Typed /\ DOMAIN redis = Keys /\ Policied
  BY DEF EarnedInv, RecordInv, Typed
<1>1. /\ redis["policy"] # Nil => Get(redis, "policy") \in Settings
      /\ EnabledPolicy # Nil => EnabledPolicy \in Settings
  BY <1>0, PolicyInForce DEF Policied
<1>2. CASE AutoIPBlockMiddleware(q)
  <2>1. Alone(q) /\ pc'[q] \notin AutoBlocking
    BY <1>0, <1>2 DEF AutoIPBlockMiddleware, slotVars, Typed, Goto, Alone, AutoBlocking
  <2>2. QED
    BY <1>1, <1>2, <2>1, CalmStep DEF AutoIPBlockMiddleware
<1>3. CASE BotDetectionMiddleware(q) \/ LookUpLimits(q)
  <2>1. Finish(q) \/ \E step \in {"limits", "store_bots", "count", "store_limits"} :
                        \E v : Continue(q, step, v)
    BY <1>3 DEF BotDetectionMiddleware, UseBotRules, LookUpLimits, UseLimits
  <2>2. Alone(q) /\ pc'[q] \notin AutoBlocking
    BY <1>0, <2>1, FinishMoves, ContinueMoves DEF AutoBlocking
  <2>3. QED
    BY <1>1, <1>3, <2>2, CalmStep DEF BotDetectionMiddleware, LookUpLimits
<1>4. CASE loadBotDetectionRules(q) \/ loadRateLimitRules(q)
  <2>1. Finish(q) \/ \E step \in {"limits", "count"} : \E v : Continue(q, step, v)
    BY <1>4 DEF loadBotDetectionRules, UseBotRules, loadRateLimitRules, UseLimits
  <2>2. Alone(q) /\ pc'[q] \notin AutoBlocking
    BY <1>0, <2>1, FinishMoves, ContinueMoves DEF AutoBlocking
  <2>3. \A j \in Decisive : redis'[j] = redis[j]
    <3>1. "bots" \notin Decisive /\ "limits" \notin Decisive
      BY DEF Decisive, CounterKeys
    <3>2. \/ redis' \in Tried(redis, Set(redis, "bots", loaded[q], TRUE))
          \/ redis' \in Tried(redis, Set(redis, "limits", loaded[q], TRUE))
      BY <1>4 DEF loadBotDetectionRules, loadRateLimitRules
    <3>3. QED
      BY <1>0, <3>1, <3>2, DecisiveKeys DEF Tried, Set
  <2>4. QED
    BY <1>1, <1>4, <2>2, <2>3, CalmStep
       DEF loadBotDetectionRules, loadRateLimitRules, Decisive, Get
<1>5. CASE LookUpPolicy(q)
  <2>1. \/ Finish(q)
        \/ \E step \in {"violation", "store_policy"}, v \in Settings : Continue(q, step, v)
    BY <1>1, <1>5 DEF LookUpPolicy
  <2>2. Alone(q) /\ \/ pc'[q] = "idle"
                    \/ pc'[q] \in {"violation", "store_policy"} /\ loaded'[q] \in Settings
    BY <1>0, <2>1, FinishMoves, ContinueMoves
  <2>3. QED
    BY <1>1, <1>5, <2>2, CalmStep DEF LookUpPolicy, AutoBlocking
<1>6. CASE loadIPBlockPolicy(q)
  <2>1. pc[q] = "store_policy" /\ loaded[q] \in Settings /\ Continue(q, "violation", loaded[q])
    BY <1>0, <1>6 DEF loadIPBlockPolicy, Policied
  <2>2. Alone(q) /\ pc'[q] = "violation" /\ loaded'[q] \in Settings
    BY <1>0, <2>1, ContinueMoves
  <2>3. \A j \in CounterKeys \cup {"active"} : redis'[j] = redis[j]
    <3>1. CounterKeys \cup {"active"} \subseteq Decisive \ {"policy"}
      BY DEF Decisive, CounterKeys
    <3>2. redis' \in Tried(redis, Set(redis, "policy", loaded[q], TRUE))
      BY <1>6 DEF loadIPBlockPolicy
    <3>3. \A j \in Decisive \ {"policy"} : redis'[j] = redis[j]
      BY <1>0, <3>2, DecisiveKeys DEF Tried, Set
    <3>4. QED
      BY <3>1, <3>3
  <2>4. redis'["policy"] # Nil => Get(redis', "policy") \in Settings
    <3>1. "policy" \in DOMAIN redis
      BY <1>0 DEF Keys, FixedKeys
    <3>2. QED
      BY <1>1, <1>6, <2>1, <3>1 DEF loadIPBlockPolicy, Tried, Set, Get
  <2>5. QED
    BY <1>6, <2>1, <2>2, <2>3, <2>4, CalmStep DEF loadIPBlockPolicy
<1>7. CASE ReadRecord(q)
  <2>1. Alone(q) /\ pc'[q] = "save"
    BY <1>0, <1>7 DEF ReadRecord, Typed, Goto, Alone
  <2>2. QED
    BY <1>1, <1>7, <2>1, CalmStep DEF ReadRecord, AutoBlocking
<1>8. CASE upsertAutoIPBlock(q)
  <2>1. Alone(q) /\ pc'[q] = "idle"
    BY <1>0, <1>8, FinishMoves DEF upsertAutoIPBlock
  <2>2. QED
    BY <1>1, <1>8, <2>1, CalmStep DEF upsertAutoIPBlock, AutoBlocking
<1>9. QED
  BY <1>2, <1>3, <1>4, <1>5, <1>6, <1>7, <1>8

\* The block that is there stays earned.
LEMMA BlockStays ==
  ASSUME EarnedInv, violated' \in Nat, violated' >= violated,
         redis'["active"] \in {redis["active"], Nil}
  PROVE  BlocksAreEarned'
<1> SUFFICES ASSUME redis'["active"] # Nil, ~redis'["active"].val.permanent
             PROVE  BlocksAreEarned'
  BY DEF BlocksAreEarned, Blocked, Get
<1> DEFINE level == redis["active"].val.level
<1>1. redis'["active"] = redis["active"] /\ violated \in Nat
  BY DEF EarnedInv, Policied
<1>2. PICK s, t, u \in Settings :
         violated >= s.l1 + (IF level >= 2 THEN t.l2 ELSE 0) + (IF level >= 3 THEN u.l3 ELSE 0)
  BY <1>1 DEF EarnedInv, BlocksAreEarned, Blocked, Get
<1> HIDE DEF level
<1>3. violated' >= s.l1 + (IF level >= 2 THEN t.l2 ELSE 0) + (IF level >= 3 THEN u.l3 ELSE 0)
  <2>1. s.l1 \in Nat /\ t.l2 \in Nat /\ u.l3 \in Nat
    BY SettingsAreNumbers
  <2>2. QED
    BY <1>1, <1>2, <2>1
<1>4. QED
  BY <1>1, <1>3 DEF level, BlocksAreEarned, Blocked, Get

\* A request gets its 429: one violation more, and one goroutine that stands for it.
LEMMA ViolationKeeps ==
  ASSUME EarnedInv, NEW q \in Slots, Alone(q), pc[q] = "count", pc'[q] = "policy",
         settings' = settings, violated' = violated + 1, \A j \in Decisive : redis'[j] = redis[j]
  PROVE  Earned'
<1> DEFINE a == GetInt(redis, "l1")
           b == GetInt(redis, "l2")
           c == GetInt(redis, "violations")
           k == Cardinality(Uncounted)
           n == Cardinality(Pending)
<1>1. Policied /\ violated \in Nat /\ violated' \in Nat
  BY DEF EarnedInv, Policied
<1>2. a \in Nat /\ b \in Nat /\ c \in Nat /\ k \in Nat /\ n \in Nat
  BY <1>1, CountersAreNumbers
<1>3. a = GetInt(redis', "l1") /\ b = GetInt(redis', "l2") /\ c = GetInt(redis', "violations")
  BY DEF Decisive, CounterKeys, GetInt
<1>4. Uncounted' = Uncounted \cup {q} /\ Pending' = Pending \cup {q} /\ q \notin Pending
  BY DEF Uncounted, Pending, Escalating, Alone
<1>5. Cardinality(Uncounted)' = k + 1 /\ Cardinality(Pending)' = n + 1
  <2>1. Uncounted \in SUBSET Slots /\ Pending \in SUBSET Slots /\ q \notin Uncounted
    BY <1>4 DEF Uncounted, Pending
  <2>2. QED
    BY <1>4, <2>1, SlotSets
<1>6. \A p \in Slots : /\ Escalating(p)' => Escalating(p)
                       /\ Aims(p, 2)' => Aims(p, 2)
                       /\ Aims(p, 3)' => Aims(p, 3)
  BY DEF Alone, Escalating, Aims
<1>7. /\ violated >= c + k
      /\ a > 0 \/ b > 0 \/ (\E p \in Slots : Escalating(p)) => Reached1(violated, a + b + n - 1)
      /\ b > 0 \/ (\E p \in Slots : Aims(p, 2)) => Reached2(violated, b + n - 1)
      /\ (\E p \in Slots : Aims(p, 3)) => Reached3(violated, 0)
  BY DEF EarnedInv, Budget
<1>8. Policied'
  <2>1. /\ \A j \in CounterKeys : redis'[j] \in Counters
        /\ redis'["policy"] # Nil => Get(redis', "policy") \in Settings
    BY <1>1 DEF Policied, Decisive, Get
  <2>2. QED
    BY <1>1, <2>1, PoliciedKeeps
<1> HIDE DEF a, b, c, k, n
<1>9. /\ Reached1(violated, a + b + n - 1) => Reached1(violated', a + b + (n + 1) - 1)
      /\ Reached2(violated, b + n - 1) => Reached2(violated', b + (n + 1) - 1)
      /\ Reached3(violated, 0) => Reached3(violated', 0)
  <2>1. violated \in Int /\ violated' \in Int
    BY <1>1
  <2>2. /\ a + b + n - 1 \in Int /\ a + b + (n + 1) - 1 \in Int
        /\ violated' - (a + b + (n + 1) - 1) >= violated - (a + b + n - 1)
    BY <1>1, <1>2
  <2>3. /\ b + n - 1 \in Int /\ b + (n + 1) - 1 \in Int
        /\ violated' - (b + (n + 1) - 1) >= violated - (b + n - 1)
    BY <1>1, <1>2
  <2>4. 0 \in Int /\ violated' - 0 >= violated - 0
    BY <1>1
  <2>5. Reached1(violated, a + b + n - 1) => Reached1(violated', a + b + (n + 1) - 1)
    BY <2>1, <2>2, ReachedStays
  <2>6. Reached2(violated, b + n - 1) => Reached2(violated', b + (n + 1) - 1)
    <3> DEFINE x == b + n - 1
               y == b + (n + 1) - 1
    <3>1. x \in Int /\ y \in Int /\ violated' - y >= violated - x
      BY <2>3
    <3> HIDE DEF x, y
    <3>2. Reached2(violated, x) => Reached2(violated', y)
      BY <2>1, <3>1, ReachedStays
    <3>3. QED
      BY <3>2 DEF x, y
  <2>7. Reached3(violated, 0) => Reached3(violated', 0)
    BY <2>1, <2>4, ReachedStays
  <2>8. QED
    BY <2>5, <2>6, <2>7
<1>10. violated' >= c + (k + 1)
  BY <1>1, <1>2, <1>7
<1>11. Budget'
  BY <1>3, <1>5, <1>6, <1>7, <1>9, <1>10 DEF Budget
<1>12. BlocksAreEarned'
  <2>1. redis'["active"] = redis["active"] /\ violated' >= violated
    BY <1>1 DEF Decisive
  <2>2. QED
    BY <1>1, <2>1, BlockStays
<1>13. QED
  BY <1>8, <1>11, <1>12 DEF Earned

LEMMA LimitKeeps ==
  ASSUME EarnedInv, NEW q \in Slots, RateLimitMiddleware(q)
  PROVE  Earned'
<1>0. /\ Typed /\ Policied /\ DOMAIN redis = Keys /\ pc[q] = "count" /\ settings' = settings
      /\ loaded[q] \subseteq LimitRules
  BY DEF EarnedInv, RecordInv, Typed, RateLimitMiddleware
<1>1. PICK r \in LimitRules :
         /\ redis' = IncrWithExpiry(redis, r) \/ redis' = redis
         /\ \/ violated' = violated + 1 /\ Continue(q, "policy", Nil)
            \/ violated' = violated /\ (Finish(q) \/ NextLimit(q, r))
  BY <1>0 DEF RateLimitMiddleware
<1>2. \A j \in Decisive : redis'[j] = redis[j]
  <2>1. r \notin Decisive
    BY <1>0, DecisiveKeys
  <2>2. QED
    BY <1>0, <1>1, <2>1, DecisiveKeys
<1>3. CASE violated' = violated + 1 /\ Continue(q, "policy", Nil)
  BY <1>0, <1>2, <1>3, ContinueMoves, ViolationKeeps
<1>4. CASE violated' = violated /\ (Finish(q) \/ NextLimit(q, r))
  <2>1. Finish(q) \/ \E v : Continue(q, "count", v)
    BY <1>4 DEF NextLimit
  <2>2. Alone(q) /\ pc'[q] \notin AutoBlocking
    BY <1>0, <2>1, FinishMoves, ContinueMoves DEF AutoBlocking
  <2>3. /\ redis'["policy"] # Nil => Get(redis', "policy") \in Settings
        /\ \A j \in CounterKeys \cup {"active"} : redis'[j] = redis[j]
    BY <1>0, <1>2 DEF Policied, Decisive, Get
  <2>4. QED
    BY <1>0, <1>4, <2>2, <2>3, CalmStep
<1>5. QED
  BY <1>1, <1>3, <1>4

\* Less is asked of the same violations.
LEMMA ReachedLess ==
  ASSUME NEW v \in Int, NEW n \in Int, NEW m \in Int, m <= n
  PROVE  /\ Reached1(v, n) => Reached1(v, m)
         /\ Reached2(v, n) => Reached2(v, m)
<1>1. v - m >= v - n
  OBVIOUS
<1>2. QED
  BY <1>1, ReachedStays

\* The violations counter is incremented for a goroutine; with the first
\* threshold reached the goroutine goes on to a block.
LEMMA CountKeeps ==
  ASSUME EarnedInv, NEW q \in Slots, CountViolation(q)
  PROVE  Earned'
<1> DEFINE a == GetInt(redis, "l1")
           b == GetInt(redis, "l2")
           c == GetInt(redis, "violations")
           k == Cardinality(Uncounted)
           n == Cardinality(Pending)
<1>1. /\ Typed /\ Policied /\ DOMAIN redis = Keys /\ pc[q] = "violation" /\ loaded[q] \in Settings
      /\ settings' = settings /\ violated' = violated /\ violated \in Nat
  BY DEF EarnedInv, RecordInv, Typed, Policied, CountViolation
<1>2. a \in Nat /\ b \in Nat /\ c \in Nat /\ k \in Nat /\ n \in Nat
  BY <1>1, CountersAreNumbers
<1>3. CASE redis' = redis /\ Finish(q)
  <2>1. Alone(q) /\ pc'[q] \notin AutoBlocking
    BY <1>1, <1>3, FinishMoves DEF AutoBlocking
  <2>2. redis'["policy"] # Nil => Get(redis', "policy") \in Settings
    BY <1>1, <1>3 DEF Policied
  <2>3. QED
    BY <1>1, <1>3, <2>1, <2>2, CalmStep
<1>4. CASE /\ redis' = IncrWithExpiry(redis, "violations")
           /\ IF GetInt(redis', "violations") < loaded[q].l1
              THEN Finish(q) ELSE Continue(q, "escalate", loaded[q])
  <2>1. \A j \in Decisive \ {"violations"} : redis'[j] = redis[j]
    BY <1>1, <1>4, DecisiveKeys
  <2>2. /\ GetInt(redis', "violations") = c + 1 /\ redis'["violations"] \in Counters
    <3>1. "violations" \in Keys /\ redis["violations"] \in Counters
      BY <1>1, DecisiveKeys DEF Policied, Decisive, CounterKeys
    <3>2. redis'["violations"] = [val |-> c + 1, expires |-> c + 1 = 1 \/ redis["violations"].expires]
      BY <1>1, <1>4, <3>1 DEF IncrWithExpiry, Set
    <3>3. (c + 1 = 1 \/ redis["violations"].expires) \in BOOLEAN
      OBVIOUS
    <3>4. redis'["violations"] \in [val : Nat, expires : BOOLEAN] /\ redis'["violations"].val = c + 1
      BY <1>2, <3>2, <3>3
    <3>5. QED
      BY <3>4, CacheAssumption DEF GetInt, Counters
  <2>3. a = GetInt(redis', "l1") /\ b = GetInt(redis', "l2")
    BY <2>1 DEF Decisive, CounterKeys, GetInt
  <2>4. /\ Alone(q)
        /\ \/ pc'[q] = "idle"
           \/ pc'[q] = "escalate" /\ loaded'[q] = loaded[q] /\ c + 1 >= loaded[q].l1
    <3>1. CASE GetInt(redis', "violations") < loaded[q].l1
      BY <1>1, <1>4, <3>1, FinishMoves
    <3>2. CASE ~(GetInt(redis', "violations") < loaded[q].l1)
      <4>1. c + 1 >= loaded[q].l1
        BY <1>1, <1>2, <2>2, <3>2, SettingsAreNumbers
      <4>2. QED
        BY <1>1, <1>4, <3>2, <4>1, ContinueMoves
    <3>3. QED
      BY <3>1, <3>2
  <2>5. /\ Uncounted' = Uncounted \ {q} /\ q \in Uncounted /\ q \in Pending
        /\ Uncounted \in SUBSET Slots /\ Pending \in SUBSET Slots
        /\ Pending' = IF pc'[q] = "idle" THEN Pending \ {q} ELSE Pending
    BY <1>1, <2>4 DEF Uncounted, Pending, Escalating, Alone
  <2>6. /\ Cardinality(Uncounted)' = k - 1
        /\ Cardinality(Pending)' = IF pc'[q] = "idle" THEN n - 1 ELSE n
    BY <2>5, SlotSets
  <2>7. \A p \in Slots : /\ Aims(p, 2)' => Aims(p, 2)
                         /\ Aims(p, 3)' => Aims(p, 3)
                         /\ p # q \/ pc'[q] = "idle" => (Escalating(p)' => Escalating(p))
    BY <2>4 DEF Alone, Escalating, Aims
  <2>8. Policied'
    <3>1. /\ \A j \in CounterKeys : redis'[j] \in Counters
          /\ redis'["policy"] # Nil => Get(redis', "policy") \in Settings
      BY <1>1, <2>1, <2>2 DEF Policied, Decisive, Get
    <3>2. QED
      BY <1>1, <2>4, <3>1, PoliciedKeeps
  <2>9. /\ violated >= c + k
        /\ a > 0 \/ b > 0 \/ (\E p \in Slots : Escalating(p)) => Reached1(violated, a + b + n - 1)
        /\ b > 0 \/ (\E p \in Slots : Aims(p, 2)) => Reached2(violated, b + n - 1)
        /\ (\E p \in Slots : Aims(p, 3)) => Reached3(violated, 0)
    BY DEF EarnedInv, Budget
  <2>10. pc'[q] # "idle" => Reached1(violated, a + b + n - 1)
    <3>1. SUFFICES ASSUME pc'[q] # "idle", a = 0, b = 0, ~\E p \in Slots : Escalating(p)
                   PROVE  Reached1(violated, a + b + n - 1)
      BY <1>2, <2>9
    <3>2. Pending = Uncounted
      BY <3>1 DEF Pending
    <3>3. loaded[q].l1 \in Nat /\ c + 1 >= loaded[q].l1
      BY <1>1, <2>4, <3>1, SettingsAreNumbers
    <3>4. violated >= loaded[q].l1 + (a + b + n - 1)
      BY <1>1, <1>2, <2>9, <3>1, <3>2, <3>3
    <3>5. QED
      BY <1>1, <3>4 DEF Reached1
  <2> DEFINE o == Cardinality(Pending)'
  <2>11. o \in Int /\ o <= n
    BY <1>2, <2>6
  <2> HIDE DEF a, b, c, k, n, o
  <2>12. /\ Reached1(violated, a + b + n - 1) => Reached1(violated, a + b + o - 1)
         /\ Reached2(violated, b + n - 1) => Reached2(violated, b + o - 1)
    <3>1. /\ a + b + n - 1 \in Int /\ a + b + o - 1 \in Int /\ a + b + o - 1 <= a + b + n - 1
          /\ b + n - 1 \in Int /\ b + o - 1 \in Int /\ b + o - 1 <= b + n - 1
      BY <1>2, <2>11
    <3>2. violated \in Int
      BY <1>1
    <3>3. Reached1(violated, a + b + n - 1) => Reached1(violated, a + b + o - 1)
      BY <3>1, <3>2, ReachedLess
    <3>4. Reached2(violated, b + n - 1) => Reached2(violated, b + o - 1)
      BY <3>1, <3>2, ReachedLess
    <3>5. QED
      BY <3>3, <3>4
  <2>13. violated >= c + 1 + (k - 1)
    BY <1>1, <1>2, <2>9
  <2>14. a > 0 \/ b > 0 \/ (\E p \in Slots : Escalating(p)') => Reached1(violated, a + b + o - 1)
    BY <2>7, <2>9, <2>10, <2>12
  <2>15. b > 0 \/ (\E p \in Slots : Aims(p, 2)') => Reached2(violated, b + o - 1)
    BY <2>7, <2>9, <2>12
  <2>16. Budget'
    BY <1>1, <2>2, <2>3, <2>6, <2>7, <2>9, <2>13, <2>14, <2>15 DEF Budget, o
  <2>17. BlocksAreEarned'
    BY <1>1, <2>1, BlockStays DEF Decisive, CounterKeys
  <2>18. QED
    BY <2>8, <2>16, <2>17 DEF Earned
<1>5. QED
  BY <1>3, <1>4 DEF CountViolation

\* A goroutine settles on a level: what it read of a counter pays for the
\* thresholds it found passed.
LEMMA ChooseKeeps ==
  ASSUME EarnedInv, NEW q \in Slots, ChooseLevel(q)
  PROVE  Earned'
<1> DEFINE a == GetInt(redis, "l1")
           b == GetInt(redis, "l2")
           n == Cardinality(Pending)
           s == loaded[q]
<1>1. /\ Typed /\ Policied /\ pc[q] = "escalate" /\ s \in Settings
      /\ violated \in Nat /\ UNCHANGED <<redis, settings, loaded, violated>>
      /\ pc' = [pc EXCEPT ![q] = "apply"]
  BY DEF EarnedInv, RecordInv, Typed, Policied, ChooseLevel, ruleVars, Goto
<1>2. a \in Nat /\ b \in Nat /\ n \in Nat /\ n >= 1
  <2>1. q \in Pending /\ Pending \in SUBSET Slots
    BY <1>1 DEF Pending, Uncounted, Escalating
  <2>2. Cardinality(Pending \ {q}) = n - 1 /\ Cardinality(Pending \ {q}) \in Nat
    BY <2>1, SlotSets
  <2>3. QED
    BY <1>1, <2>2, CountersAreNumbers
<1>3. PICK x \in {a, 0}, y \in {b, 0} :
         plan' = [plan EXCEPT ![q] = [level |-> LevelFor(s, x, y), row |-> Nil]]
  BY DEF ChooseLevel
<1>4. /\ Alone(q) /\ pc'[q] = "apply" /\ plan'[q].level = LevelFor(s, x, y)
  BY <1>1, <1>3 DEF Typed, Alone
<1>5. Uncounted' = Uncounted /\ Pending' = Pending
  BY <1>1, <1>4 DEF Alone, Uncounted, Pending, Escalating
<1>6. \A p \in Slots : Escalating(p)' => Escalating(p)
  BY <1>1, <1>4 DEF Alone, Escalating
<1>7. Policied'
  <2>1. /\ \A j \in CounterKeys : redis'[j] \in Counters
        /\ redis'["policy"] # Nil => Get(redis', "policy") \in Settings
    BY <1>1 DEF Policied
  <2>2. QED
    BY <1>1, <1>4, <2>1, PoliciedKeeps
<1>8. /\ violated >= GetInt(redis, "violations") + Cardinality(Uncounted)
      /\ Reached1(violated, a + b + n - 1)
      /\ b > 0 \/ (\E p \in Slots : Aims(p, 2)) => Reached2(violated, b + n - 1)
      /\ (\E p \in Slots : Aims(p, 3)) => Reached3(violated, 0)
  BY <1>1 DEF EarnedInv, Budget, Escalating
<1> HIDE DEF a, b, n, s
<1>9. s.l2 \in Nat \ {0} /\ s.l3 \in Nat \ {0}
  BY <1>1, SettingsAreNumbers
<1>10. Aims(q, 2)' => Reached2(violated, b + n - 1)
  <2>1. SUFFICES ASSUME LevelFor(s, x, y) >= 2 PROVE Reached2(violated, b + n - 1)
    BY <1>4 DEF Aims
  <2>2. CASE y >= s.l3
    BY <1>2, <1>8, <1>9, <2>2
  <2>3. CASE ~(y >= s.l3)
    <3>1. a >= s.l2
      BY <1>2, <1>9, <2>1, <2>3 DEF LevelFor
    <3>2. /\ a + b + n - 1 \in Int /\ b + n - 1 \in Int /\ violated \in Int
          /\ a + b + n - 1 >= s.l2 + (b + n - 1)
      BY <1>1, <1>2, <1>9, <3>1
    <3>3. QED
      BY <1>1, <1>8, <3>2, ReachedHigher DEF s
  <2>4. QED
    BY <2>2, <2>3
<1>11. Aims(q, 3)' => Reached3(violated, 0)
  <2>1. SUFFICES ASSUME LevelFor(s, x, y) >= 3 PROVE Reached3(violated, 0)
    BY <1>4 DEF Aims
  <2>2. b >= s.l3
    BY <1>2, <1>9, <2>1 DEF LevelFor
  <2>3. Reached2(violated, b + n - 1)
    BY <1>2, <1>8, <1>9, <2>2
  <2>4. b + n - 1 \in Int /\ 0 \in Int /\ violated \in Int /\ b + n - 1 >= s.l3 + 0
    BY <1>1, <1>2, <1>9, <2>2
  <2>5. QED
    BY <1>1, <2>3, <2>4, ReachedHigher DEF s
<1>12. \A p \in Slots \ {q} : Aims(p, 2)' = Aims(p, 2) /\ Aims(p, 3)' = Aims(p, 3)
  BY <1>4 DEF Alone, Aims
<1>13. b > 0 \/ (\E p \in Slots : Aims(p, 2)') => Reached2(violated, b + n - 1)
  BY <1>8, <1>10, <1>12
<1>14. (\E p \in Slots : Aims(p, 3)') => Reached3(violated, 0)
  BY <1>8, <1>11, <1>12
<1>15. Budget'
  BY <1>1, <1>5, <1>8, <1>13, <1>14 DEF Budget, a, b, n
<1>16. BlocksAreEarned'
  BY <1>1, BlockStays
<1>17. QED
  BY <1>7, <1>15, <1>16 DEF Earned

\* What an escalation does to the counters.
LEMMA EscalationCounts ==
  ASSUME Policied, DOMAIN redis = Keys, NEW level, NEW t \in Escalated(level)
  PROVE  /\ DOMAIN t = Keys /\ \A j \in {"violations", "active", "policy"} : t[j] = redis[j]
         /\ t["l1"] \in Counters /\ t["l2"] \in Counters
         /\ GetInt(t, "l1") + GetInt(t, "l2") <= GetInt(redis, "l1") + GetInt(redis, "l2") + 1
         /\ GetInt(t, "l2") <= GetInt(redis, "l2") + 1
         /\ level = 1 \/ level = 3 => GetInt(t, "l2") = GetInt(redis, "l2")
<1> DEFINE a == GetInt(redis, "l1")
           b == GetInt(redis, "l2")
<1>1. /\ a \in Nat /\ b \in Nat /\ redis["l1"] \in Counters /\ redis["l2"] \in Counters
      /\ {"violations", "active", "policy", "l1", "l2"} \subseteq Keys
  BY CountersAreNumbers DEF Policied, CounterKeys, Keys, FixedKeys
<1>2. ASSUME NEW k \in {"l1", "l2"}, NEW u, u = IncrWithExpiry(redis, k)
      PROVE  /\ DOMAIN u = Keys /\ \A j \in Keys \ {k} : u[j] = redis[j]
             /\ u[k] \in Counters /\ GetInt(u, k) = GetInt(redis, k) + 1
  <2>1. u[k] = [val |-> GetInt(redis, k) + 1,
                expires |-> GetInt(redis, k) + 1 = 1 \/ redis[k].expires]
    BY <1>1, <1>2 DEF IncrWithExpiry, Set
  <2>2. (GetInt(redis, k) + 1 = 1 \/ redis[k].expires) \in BOOLEAN
    OBVIOUS
  <2>3. u[k] \in [val : Nat, expires : BOOLEAN] /\ u[k].val = GetInt(redis, k) + 1
    BY <1>1, <2>1, <2>2
  <2>4. u[k] \in Counters /\ GetInt(u, k) = GetInt(redis, k) + 1
    BY <2>3, CacheAssumption DEF GetInt, Counters
  <2>5. QED
    BY <1>2, <2>4 DEF IncrWithExpiry, Set
<1>3. CASE level = 3
  BY <1>1, <1>3 DEF Escalated
<1>4. CASE level = 2
  <2>1. PICK u \in Tried(redis, IncrWithExpiry(redis, "l2")) : t \in Tried(u, SetInt(u, "l1", 0))
    BY <1>4 DEF Escalated
  <2>2. /\ DOMAIN u = Keys /\ \A j \in Keys \ {"l2"} : u[j] = redis[j]
        /\ u["l2"] \in Counters /\ GetInt(u, "l2") \in {b, b + 1}
    BY <1>1, <1>2, <2>1 DEF Tried
  <2>3. t = u \/ t = [u EXCEPT !["l1"] = [val |-> 0, expires |-> TRUE]]
    BY <2>1 DEF Tried, SetInt, Set
  <2>4. /\ DOMAIN t = Keys /\ \A j \in Keys \ {"l1"} : t[j] = u[j]
        /\ t["l1"] = u["l1"] \/ t["l1"] = [val |-> 0, expires |-> TRUE]
    BY <1>1, <2>2, <2>3
  <2>5. t["l1"] \in Counters /\ GetInt(t, "l1") \in {a, 0}
    <3>1. CASE t["l1"] = u["l1"]
      BY <1>1, <2>2, <3>1 DEF GetInt
    <3>2. CASE t["l1"] = [val |-> 0, expires |-> TRUE]
      <4>1. t["l1"] \in [val : Nat, expires : BOOLEAN] /\ t["l1"].val = 0
        BY <3>2
      <4>2. QED
        BY <4>1, CacheAssumption DEF GetInt, Counters
    <3>3. QED
      BY <2>4, <3>1, <3>2
  <2>6. GetInt(t, "l2") = GetInt(u, "l2") /\ t["l2"] \in Counters
    BY <1>1, <2>2, <2>4 DEF GetInt
  <2>7. \A j \in {"violations", "active", "policy"} : t[j] = redis[j]
    BY <1>1, <2>2, <2>4
  <2> HIDE DEF a, b
  <2>8. GetInt(t, "l1") + GetInt(t, "l2") <= a + b + 1 /\ GetInt(t, "l2") <= b + 1
    BY <1>1, <2>2, <2>5, <2>6
  <2>9. QED
    BY <1>4, <2>4, <2>5, <2>6, <2>7, <2>8 DEF a, b
<1>5. CASE level # 3 /\ level # 2
  <2>1. t = redis \/ t = IncrWithExpiry(redis, "l1")
    BY <1>5 DEF Escalated, Tried
  <2>2. CASE t = redis
    BY <1>1, <2>2
  <2>3. CASE t = IncrWithExpiry(redis, "l1")
    <3>1. /\ DOMAIN t = Keys /\ \A j \in Keys \ {"l1"} : t[j] = redis[j]
          /\ t["l1"] \in Counters /\ GetInt(t, "l1") = a + 1
      BY <1>2, <2>3
    <3>2. GetInt(t, "l2") = b
      BY <1>1, <3>1 DEF GetInt
    <3>3. QED
      BY <1>1, <3>1, <3>2
  <2>4. QED
    BY <2>1, <2>2, <2>3
<1>6. QED
  BY <1>3, <1>4, <1>5

\* A block of the level a goroutine settled on is applied: the goroutine's own
\* violation pays for the counter's increment.
LEMMA TriggerKeeps ==
  ASSUME EarnedInv, NEW q \in Slots, triggerAutoBlock(q)
  PROVE  Earned'
<1> DEFINE a == GetInt(redis, "l1")
           b == GetInt(redis, "l2")
           c == GetInt(redis, "violations")
           d == GetInt(redis', "l1")
           e == GetInt(redis', "l2")
           k == Cardinality(Uncounted)
           n == Cardinality(Pending)
           level == plan[q].level
           new == [val |-> [level |-> level, permanent |-> FALSE], expires |-> TRUE]
<1>1. /\ Typed /\ Policied /\ DOMAIN redis = Keys /\ pc[q] = "apply" /\ level \in 1 .. 3
      /\ violated \in Nat /\ UNCHANGED <<settings, violated>>
  BY DEF EarnedInv, RecordInv, Typed, Policied, triggerAutoBlock
<1>2. a \in Nat /\ b \in Nat /\ c \in Nat /\ k \in Nat /\ n \in Nat
  BY <1>1, CountersAreNumbers
<1>3. PICK t \in Escalated(level) :
         \/ redis' = t /\ Finish(q)
         \/ LET set == Set(t, "active", [level |-> level, permanent |-> FALSE], TRUE)
            IN  /\ redis' \in Tried(set, Delete(set, {"violations"}))
                /\ Goto(q, "record") /\ UNCHANGED <<loaded, plan>>
  BY DEF triggerAutoBlock
<1>4. /\ DOMAIN t = Keys /\ \A j \in {"violations", "active", "policy"} : t[j] = redis[j]
      /\ t["l1"] \in Counters /\ t["l2"] \in Counters
      /\ GetInt(t, "l1") + GetInt(t, "l2") <= a + b + 1 /\ GetInt(t, "l2") <= b + 1
      /\ level = 1 \/ level = 3 => GetInt(t, "l2") = b
  BY <1>1, EscalationCounts
<1>5. {"violations", "active", "policy", "l1", "l2"} \subseteq Keys
  BY DEF Keys, FixedKeys
<1>6. /\ redis'["l1"] = t["l1"] /\ redis'["l2"] = t["l2"] /\ redis'["policy"] = redis["policy"]
      /\ redis'["violations"] \in {redis["violations"], Nil}
      /\ redis'["active"] \in {redis["active"], new}
  <2>1. CASE redis' = t
    BY <1>4, <2>1
  <2>2. CASE redis' # t
    <3> DEFINE set == Set(t, "active", [level |-> level, permanent |-> FALSE], TRUE)
    <3>1. redis' \in Tried(set, Delete(set, {"violations"}))
      BY <1>3, <2>2
    <3>2. DOMAIN set = Keys /\ set["active"] = new /\ \A j \in Keys \ {"active"} : set[j] = t[j]
      BY <1>4, <1>5 DEF Set
    <3> HIDE DEF set, new
    <3>3. /\ \A j \in Keys \ {"violations"} : redis'[j] = set[j]
          /\ redis'["violations"] \in {set["violations"], Nil}
      BY <1>5, <3>1, <3>2 DEF Tried, Delete
    <3>4. QED
      BY <1>4, <1>5, <3>2, <3>3
  <2>3. QED
    BY <2>1, <2>2
<1>7. /\ d \in Nat /\ e \in Nat /\ d + e <= a + b + 1 /\ e <= b + 1
      /\ level = 1 \/ level = 3 => e = b
      /\ GetInt(redis', "violations") \in {c, 0}
  BY <1>4, <1>6 DEF GetInt, Counters
<1>8. Alone(q) /\ pc'[q] \notin AutoBlocking
  <2>1. CASE Finish(q)
    BY <1>1, <2>1, FinishMoves DEF AutoBlocking
  <2>2. CASE Goto(q, "record") /\ UNCHANGED <<loaded, plan>>
    BY <1>1, <2>2 DEF Goto, Typed, Alone, AutoBlocking
  <2>3. QED
    BY <1>3, <2>1, <2>2
<1>9. /\ Uncounted' = Uncounted /\ Pending' = Pending \ {q} /\ q \in Pending
      /\ Pending \in SUBSET Slots
  BY <1>1, <1>8 DEF Alone, AutoBlocking, Uncounted, Pending, Escalating
<1>10. Cardinality(Uncounted)' = k /\ Cardinality(Pending)' = n - 1 /\ n >= 1
  <2>1. Cardinality(Pending \ {q}) = n - 1 /\ Cardinality(Pending \ {q}) \in Nat
    BY <1>9, SlotSets
  <2>2. QED
    BY <1>2, <1>9, <2>1
<1>11. \A p \in Slots : /\ Aims(p, 2)' => Aims(p, 2)
                        /\ Aims(p, 3)' => Aims(p, 3)
  BY <1>8, GoroutineCalm
<1>12. Policied'
  <2>1. /\ \A j \in CounterKeys : redis'[j] \in Counters
        /\ redis'["policy"] # Nil => Get(redis', "policy") \in Settings
    BY <1>1, <1>4, <1>6 DEF Policied, CounterKeys, Counters, Get
  <2>2. QED
    BY <1>1, <1>8, <2>1, PoliciedKeeps DEF AutoBlocking
<1>13. /\ violated >= c + k
       /\ Reached1(violated, a + b + n - 1)
       /\ b > 0 \/ (\E p \in Slots : Aims(p, 2)) => Reached2(violated, b + n - 1)
       /\ (\E p \in Slots : Aims(p, 3)) => Reached3(violated, 0)
       /\ level >= 2 => Aims(q, 2)
       /\ level >= 3 => Aims(q, 3)
  BY <1>1 DEF EarnedInv, Budget, Escalating, Aims
<1>14. level \in Int
  BY <1>1
<1> HIDE DEF a, b, c, d, e, k, n, level, new
<1>15. violated >= GetInt(redis', "violations") + k
  BY <1>1, <1>2, <1>7, <1>13
<1>16. Reached1(violated, d + e + (n - 1) - 1)
  <2>1. /\ a + b + n - 1 \in Int /\ d + e + (n - 1) - 1 \in Int /\ violated \in Int
        /\ d + e + (n - 1) - 1 <= a + b + n - 1
    BY <1>1, <1>2, <1>7
  <2>2. QED
    BY <1>13, <2>1, ReachedLess
<1>17. e > 0 \/ (\E p \in Slots : Aims(p, 2)') => Reached2(violated, e + (n - 1) - 1)
  <2>1. SUFFICES ASSUME e > 0 \/ \E p \in Slots : Aims(p, 2)'
                 PROVE  Reached2(violated, e + (n - 1) - 1)
    OBVIOUS
  <2>2. b > 0 \/ \E p \in Slots : Aims(p, 2)
    BY <1>1, <1>2, <1>7, <1>11, <1>13, <2>1
  <2>3. /\ b + n - 1 \in Int /\ e + (n - 1) - 1 \in Int /\ violated \in Int
        /\ e + (n - 1) - 1 <= b + n - 1
    BY <1>1, <1>2, <1>7
  <2>4. QED
    BY <1>13, <2>2, <2>3, ReachedLess
<1>18. (\E p \in Slots : Aims(p, 3)') => Reached3(violated, 0)
  BY <1>11, <1>13
<1>19. Budget'
  BY <1>1, <1>10, <1>15, <1>16, <1>17, <1>18 DEF Budget, d, e
<1>20. BlocksAreEarned'
  <2>1. CASE redis'["active"] = redis["active"]
    BY <1>1, <2>1, BlockStays
  <2>2. CASE redis'["active"] = new
    <3>1. Get(redis', "active").level = level \/ redis'["active"] = Nil
      BY <2>2 DEF Get, new
    <3>2. violated \in Int /\ a + b + n - 1 \in Int /\ 0 <= a + b + n - 1
          /\ b + n - 1 \in Int /\ 0 <= b + n - 1 /\ 0 \in Int
      BY <1>1, <1>2, <1>10
    <3>3. /\ Reached1(violated, 0)
          /\ level >= 2 => Reached2(violated, 0)
          /\ level >= 3 => Reached3(violated, 0)
      BY <1>13, <3>2, ReachedLess
    <3>4. \E s, x, u \in Settings :
             violated >= s.l1 + (IF level >= 2 THEN x.l2 ELSE 0) + (IF level >= 3 THEN u.l3 ELSE 0)
      <4>1. CASE level >= 3
        <5>1. PICK s, x, u \in Settings : violated >= s.l1 + x.l2 + u.l3 + 0
          BY <3>3, <4>1 DEF Reached3
        <5>2. violated >= s.l1 + x.l2 + u.l3 /\ level >= 2
          BY <1>14, <4>1, <5>1, SettingsAreNumbers
        <5>3. QED
          BY <4>1, <5>2
      <4>2. CASE level >= 2 /\ ~(level >= 3)
        <5>1. PICK s, x \in Settings : violated >= s.l1 + x.l2 + 0
          BY <3>3, <4>2 DEF Reached2
        <5>2. violated >= s.l1 + x.l2 + 0
          BY <5>1
        <5>3. QED
          BY <4>2, <5>2
      <4>3. CASE ~(level >= 2)
        <5>1. PICK s \in Settings : violated >= s.l1 + 0
          BY <3>3 DEF Reached1
        <5>2. violated >= s.l1 + 0 + 0 /\ ~(level >= 3)
          BY <1>14, <4>3, <5>1, SettingsAreNumbers
        <5>3. QED
          BY <4>3, <5>2
      <4>4. QED
        BY <1>14, <4>1, <4>2, <4>3
    <3>5. QED
      BY <1>1, <3>1, <3>4 DEF BlocksAreEarned, Blocked
  <2>3. QED
    BY <1>6, <2>1, <2>2
<1>21. QED
  BY <1>12, <1>19, <1>20 DEF Earned

\* Steps that leave the goroutines where they are.
LEMMA AdminKeeps ==
  ASSUME EarnedInv, UNCHANGED <<pc, plan, loaded, violated>>,
         settings' \in [Policies -> Settings],
         \A j \in CounterKeys \cup {"policy"} : redis'[j] \in {redis[j], Nil},
         redis'["active"] \in {redis["active"], Nil} \/ redis'["active"].val.permanent
  PROVE  Earned'
<1>1. Policied'
  BY DEF EarnedInv, Policied, Counters, Get
<1>2. /\ Uncounted' \subseteq Uncounted /\ Pending' \subseteq Pending
      /\ \A p \in Slots : /\ Escalating(p)' => Escalating(p)
                          /\ Aims(p, 2)' => Aims(p, 2)
                          /\ Aims(p, 3)' => Aims(p, 3)
  BY DEF Uncounted, Pending, Escalating, Aims
<1>3. Budget' /\ BlocksAreEarned'
  BY <1>1, <1>2, CalmKeeps
<1>4. QED
  BY <1>1, <1>3 DEF Earned

LEMMA RulesKeep ==
  ASSUME EarnedInv, EditRules \/ BustCaches, UNCHANGED <<slotVars, violated>>
  PROVE  Earned'
<1>1. settings \in [Policies -> Settings] /\ DOMAIN redis = Keys
  BY DEF EarnedInv, RecordInv, Typed, Policied
<1>2. settings' \in [Policies -> Settings]
  BY <1>1 DEF EditRules, BustCaches, AdminCreateRateLimit, AdminToggleRateLimit,
     AdminDeleteRateLimit, AdminCreateBotDetectionRule, AdminToggleBotDetectionRule,
     AdminDeleteBotDetectionRule, AdminCreateIPBlockPolicy, AdminUpdateIPBlockPolicy,
     AdminToggleIPBlockPolicy, AdminDeleteIPBlockPolicy, ToggleRow, DeleteRow,
     bustRateLimitCache, bustBotDetectionCache, bustIPBlockPolicyCache, Bust
<1>3. redis' = redis \/ \E k : redis' \in Tried(redis, Delete(redis, {k}))
  BY DEF EditRules, BustCaches, AdminCreateRateLimit, AdminToggleRateLimit,
     AdminDeleteRateLimit, AdminCreateBotDetectionRule, AdminToggleBotDetectionRule,
     AdminDeleteBotDetectionRule, AdminCreateIPBlockPolicy, AdminUpdateIPBlockPolicy,
     AdminToggleIPBlockPolicy, AdminDeleteIPBlockPolicy, ToggleRow, DeleteRow,
     bustRateLimitCache, bustBotDetectionCache, bustIPBlockPolicyCache, Bust
<1>4. \A j \in Decisive : redis'[j] \in {redis[j], Nil}
  BY <1>1, <1>3, DecisiveKeys
<1>5. QED
  BY <1>2, <1>4, AdminKeeps DEF slotVars, Decisive

LEMMA RecordsKeep ==
  ASSUME EarnedInv, AdminUnblockIP \/ AdminPermanentBlockIP \/ AdminResetIPCounts
  PROVE  Earned'
<1>1. settings \in [Policies -> Settings] /\ DOMAIN redis = Keys
  BY DEF EarnedInv, RecordInv, Typed, Policied
<1>2. UNCHANGED <<pc, plan, loaded, violated, settings>>
  BY DEF AdminUnblockIP, AdminPermanentBlockIP, AdminResetIPCounts, guardRest, slotVars,
     FindBlock, SaveBlock, OnKeys
<1> DEFINE permanent == [val |-> [level |-> 4, permanent |-> TRUE], expires |-> FALSE]
<1>3. \/ redis' = redis
      \/ \E ks : redis' \in Tried(redis, Delete(redis, ks))
      \/ redis' = [redis EXCEPT !["active"] = permanent]
  BY DEF AdminUnblockIP, AdminPermanentBlockIP, AdminResetIPCounts,
     FindBlock, SaveBlock, OnKeys, Tried, Set
<1>4. CASE redis' = redis \/ \E ks : redis' \in Tried(redis, Delete(redis, ks))
  <2>1. \A j \in Decisive : redis'[j] \in {redis[j], Nil}
    BY <1>1, <1>4, DecisiveKeys
  <2>2. QED
    BY <1>1, <1>2, <2>1, AdminKeeps DEF Decisive
<1>5. CASE redis' = [redis EXCEPT !["active"] = permanent]
  <2>1. redis'["active"] = permanent /\ permanent.val.permanent
    BY <1>1, <1>5, DecisiveKeys DEF Decisive
  <2>2. \A j \in CounterKeys \cup {"policy"} : redis'[j] = redis[j]
    BY <1>1, <1>5 DEF CounterKeys
  <2>3. redis'["active"].val.permanent
    BY <2>1
  <2>4. QED
    BY <1>1, <1>2, <2>2, <2>3, AdminKeeps
<1>6. QED
  BY <1>3, <1>4, <1>5

LEMMA EarnedKeeps == EarnedInv /\ [Next]_vars => EarnedInv'
<1> SUFFICES ASSUME EarnedInv, [Next]_vars PROVE Earned'
  BY RecordKeeps DEF EarnedInv, Earned
<1>0. settings \in [Policies -> Settings] /\ DOMAIN redis = Keys
  BY DEF EarnedInv, RecordInv, Typed, Policied
<1>1. ASSUME NEW q \in Slots, AutoIPBlockMiddleware(q) \/ Serve(q) PROVE Earned'
  BY <1>1, CalmServe, LimitKeeps, CountKeeps, ChooseKeeps, TriggerKeeps DEF Serve
<1>2. CASE Administer
  BY <1>2, RulesKeep, RecordsKeep DEF Administer
<1>3. ASSUME NEW k \in Keys, NextWindow(k) \/ KeyExpires(k) PROVE Earned'
  <2>1. /\ redis' \in Tried(redis, Delete(redis, {k}))
        /\ UNCHANGED <<pc, plan, loaded, violated, settings>>
    BY <1>3 DEF NextWindow, KeyExpires, Expired, Tried, slotVars
  <2>2. \A j \in Decisive : redis'[j] \in {redis[j], Nil}
    BY <1>0, <2>1, DecisiveKeys
  <2>3. QED
    BY <1>0, <2>1, <2>2, AdminKeeps DEF Decisive
<1>4. CASE UNCHANGED vars
  BY <1>0, <1>4, AdminKeeps DEF vars, ruleVars, slotVars
<1>5. QED
  BY <1>1, <1>2, <1>3, <1>4 DEF Next, Keys

\* No address is ever blocked on a higher level than its violations earned, with
\* any number of its requests and goroutines of triggerAutoBlock at once, with
\* calls to Redis failing, and while the administrator edits the policies:
\* the separate reads and writes of the counters can only lose an escalation.
THEOREM BlocksEarned == Spec => []BlocksAreEarned
<1>1. Init => RecordInv
  BY RecordInit
<1>2. Init => EarnedInv
  <2> SUFFICES ASSUME Init PROVE EarnedInv
    OBVIOUS
  <2>1. /\ \A j \in Decisive : redis[j] = Nil
        /\ violated = 0 /\ settings \in [Policies -> Settings]
        /\ \A q \in Slots : pc[q] = "idle"
    BY DEF Init, Decisive, CounterKeys, Keys, FixedKeys
  <2>2. Policied
    BY <2>1 DEF Policied, Decisive, Counters
  <2>3. Uncounted = {} /\ \A q \in Slots : ~Escalating(q) /\ ~Aims(q, 2) /\ ~Aims(q, 3)
    BY <2>1 DEF Uncounted, Escalating, Aims
  <2>4. Budget
    BY <2>1, <2>3, FS_EmptySet DEF Budget, GetInt, Decisive, CounterKeys
  <2>5. BlocksAreEarned
    BY <2>1 DEF BlocksAreEarned, Blocked, Decisive
  <2>6. QED
    BY <1>1, <2>2, <2>4, <2>5 DEF EarnedInv
<1>3. EarnedInv => BlocksAreEarned
  BY DEF EarnedInv
<1>4. QED
  BY <1>2, <1>3, EarnedKeeps, PTL DEF Spec

============================================================================
