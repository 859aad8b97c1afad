------------------------- MODULE MCSalaryAllocation -------------------------
(***************************************************************************)
(* Small instances of SalaryAllocation for TLC: two assignments of one     *)
(* employee to one project.                                                *)
(***************************************************************************)
EXTENDS SalaryAllocation, TLC

CONSTANTS a1, a2, j, w1, w2, w3

TwoAssignments == {a1, a2}
OneJob == a1 :> j @@ a2 :> j
TwoRequests == {w1, w2}
ThreeRequests == {w1, w2, w3}
Interchangeable == Permutations(ThreeRequests)
=============================================================================
