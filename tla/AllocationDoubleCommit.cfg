\* No rule is deleted: two commits of one run overlap, and a reversal follows.
CONSTANTS
  r1 = r1
  u1 = u1
  t1 = t1
  t2 = t2
  p1 = p1
  w1 = w1
  w2 = w2
  w3 = w3
  Run <- OneRun
  Rule <- OneRule
  DeletableRule <- NoRule
  Target <- TwoTargets
  Amount <- PositiveAmounts
  Period <- OnePeriod
  Request <- TwoRequests
  MaxPostings = 2
  Nil = Nil

SPECIFICATION Spec

INVARIANT ReversedLeavesNothing
