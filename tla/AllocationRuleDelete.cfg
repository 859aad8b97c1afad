\* One request at a time: the rule of a committed run is deleted, and a reversal follows.
CONSTANTS
  r1 = r1
  u1 = u1
  t1 = t1
  t2 = t2
  p1 = p1
  w1 = w1
  w2 = w2
  w3 = w3
  Run <- OneRun
  Rule <- OneRule
  DeletableRule <- OneRule
  Target <- TwoTargets
  Amount <- PositiveAmounts
  Period <- OnePeriod
  Request <- OneRequest
  MaxPostings = 1
  Nil = Nil

SPECIFICATION Spec

INVARIANT ReversedLeavesNothing
