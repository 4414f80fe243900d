-------------------------- MODULE MCReportPipeline --------------------------
(***************************************************************************)
(* Small instances of ReportPipeline for TLC: one run is followed from its *)
(* end to its report, with a detect task and two report tasks; the runs    *)
(* before it, if any, only start and end.                                  *)
(***************************************************************************)
EXTENDS ReportPipeline, TLC

CONSTANTS d, a, b, w1, w2

KindOf == [m \in Tasks |-> IF m = d THEN "detect" ELSE "report"]
AboutLast == [m \in Tasks |-> CHOOSE r \in Runs : \A q \in Runs : q <= r]

AllDiffer == {p \in Runs \X Runs : p[1] < p[2]}
AnyFault == FaultKinds
LostConfirmation == {"publish_lost"}

Symmetric == Permutations(Workers) \cup Permutations({a, b})
============================================================================
