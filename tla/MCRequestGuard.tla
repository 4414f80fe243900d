--------------------------- MODULE MCRequestGuard ---------------------------
(***************************************************************************)
(* A small instance of RequestGuard: one address, a limit for users on     *)
(* every route and one for administrators, a blocking and an allowing bot  *)
(* rule for the same agent, one policy.                                    *)
(***************************************************************************)
EXTENDS RequestGuard, TLC

CONSTANTS userLimit, adminLimit, blockScript, allowScript, q1, q2

Asks(p, r, a) == [path |-> p, role |-> r, agent |-> a]
Users == {Asks("jobs", "user", "browser"), Asks("admin", "user", "browser")}
Mixed == {Asks("jobs", "user", "browser"), Asks("jobs", "user", "script"),
          Asks("jobs", "user", "headless"), Asks("admin", "admin", "browser")}

MatchesFn == [b \in BotRules |-> {"script"}]
RoleFn == [r \in LimitRules |-> IF r = adminLimit THEN "admin" ELSE "user"]
EndpointFn == [r \in LimitRules |-> IF r = adminLimit THEN "admin" ELSE "*"]
MaxFn == [r \in LimitRules |-> 1]
Quick == [l1 |-> 2, l2 |-> 1, l3 |-> 1]
OneSetting == {Quick}
Symmetric == Permutations(Slots)
============================================================================
