-------------------------- MODULE MCAllocationRuns --------------------------
(***************************************************************************)
(* Small instances of AllocationRuns for TLC.                              *)
(***************************************************************************)
EXTENDS AllocationRuns, TLC

CONSTANTS r1, u1, t1, t2, p1, w1, w2, w3

OneRun == {r1}
OneRule == {u1}
NoRule == {}
TwoTargets == {t1, t2}
Amounts == {0, 3}
PositiveAmounts == {3}
OnePeriod == {p1}
OneRequest == {w1}
TwoRequests == {w1, w2}
ThreeRequests == {w1, w2, w3}

\* Targets and requests are interchangeable: all properties are symmetric in them.
Interchangeable ==
  Permutations(TwoTargets) \cup Permutations(ThreeRequests)
=============================================================================
