--------------------------- MODULE MCPeriodLedger ---------------------------
(***************************************************************************)
(* Small instances of PeriodLedger for TLC.                                *)
(***************************************************************************)
EXTENDS PeriodLedger, TLC

CONSTANTS p1, p2, c1, c2, r1, w1, w2

TwoPeriods == {p1, p2}
OnePeriod == {p1}
CostKeys == {c1, c2}
RevenueKeys == {r1}
NoKeys == {}
TwoRequests == {w1, w2}
OneRequest == {w1}
=============================================================================
