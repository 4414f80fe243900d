----------------------------- MODULE MCScanRun -----------------------------
(***************************************************************************)
(* Small instances of ScanRun for TLC.  One run of two or three pairs, or  *)
(* two runs of one pair each.                                              *)
(***************************************************************************)
EXTENDS ScanRun, TLC

CONSTANTS r1, r2, p1, p2, p3, w1, w2

OneRun == [p \in Tasks |-> r1]
TwoRuns == [p \in Tasks |-> IF p = p1 THEN r1 ELSE r2]

NoFaults == {}
AnyFault == FaultKinds
RaceFault == {"trigger_race"}

Symmetric == Permutations(Workers) \cup Permutations(Tasks)
============================================================================
