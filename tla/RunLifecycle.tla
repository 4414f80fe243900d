--------------------------- MODULE RunLifecycle ----------------------------
(***************************************************************************)
(* What a client of the API is promised about a job's runs, with no        *)
(* workers, no queue and no pairs: the status and the counters that GetRun *)
(* returns, and the request for change detection that follows a run.       *)
(*                                                                         *)
(* With Exact the promise is that every pair is counted once: the counters *)
(* stop at total_pairs and are frozen when the run is final.  Without it   *)
(* pairs may be counted again, but a final status is still final and       *)
(* detection is still requested at most once.                              *)
(***************************************************************************)
EXTENDS Naturals

CONSTANTS Runs, Exact

VARIABLES runStatus, total, completed, failed, detectSent

lifecycleVars == <<runStatus, total, completed, failed, detectSent>>

Counted(r) == completed[r] + failed[r]

LifecycleInit ==
    /\ runStatus = [r \in Runs |-> "none"]
    /\ total = [r \in Runs |-> 0]
    /\ completed = [r \in Runs |-> 0]
    /\ failed = [r \in Runs |-> 0]
    /\ detectSent = [r \in Runs |-> 0]

\* The run starts with some number of pairs.
Start(r) ==
    /\ runStatus[r] = "none"
    /\ runStatus' = [runStatus EXCEPT ![r] = "running"]
    /\ total'[r] \in Nat
    /\ total' = [total EXCEPT ![r] = total'[r]]
    /\ UNCHANGED <<completed, failed, detectSent>>

\* Some pairs turn out not to exist.
LowerTotal(r) ==
    /\ runStatus[r] # "none"
    /\ total'[r] \in Nat /\ total'[r] <= total[r]
    /\ Exact => Counted(r) <= total'[r]
    /\ total' = [total EXCEPT ![r] = total'[r]]
    /\ UNCHANGED <<runStatus, completed, failed, detectSent>>

MayCount(r) ==
    /\ runStatus[r] # "none"
    /\ Exact => runStatus[r] = "running" /\ Counted(r) < total[r]

CountCompleted(r) ==
    /\ MayCount(r)
    /\ completed' = [completed EXCEPT ![r] = @ + 1]
    /\ UNCHANGED <<runStatus, total, failed, detectSent>>

CountFailed(r) ==
    /\ MayCount(r)
    /\ failed' = [failed EXCEPT ![r] = @ + 1]
    /\ UNCHANGED <<runStatus, total, completed, detectSent>>

\* "completed" means that no pair failed, "failed" that all did.
Outcomes(r) ==
    {s \in {"completed", "partial", "failed"} :
        /\ s = "completed" <=> failed[r] = 0
        /\ s = "failed" <=> failed[r] > 0 /\ completed[r] = 0}

Finish(r) ==
    /\ runStatus[r] = "running"
    /\ Counted(r) >= total[r]
    /\ \E s \in Outcomes(r) : runStatus' = [runStatus EXCEPT ![r] = s]
    /\ UNCHANGED <<total, completed, failed, detectSent>>

RequestDetect(r) ==
    /\ runStatus[r] \in {"completed", "partial"}
    /\ detectSent[r] = 0
    /\ detectSent' = [detectSent EXCEPT ![r] = 1]
    /\ UNCHANGED <<runStatus, total, completed, failed>>

LifecycleNext ==
    \E r \in Runs :
        \/ Start(r) \/ LowerTotal(r)
        \/ CountCompleted(r) \/ CountFailed(r)
        \/ Finish(r) \/ RequestDetect(r)

LifecycleSpec == LifecycleInit /\ [][LifecycleNext]_lifecycleVars

============================================================================
