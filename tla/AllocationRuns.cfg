\* Three requests at once over one run, whose rule has up to two targets.
CONSTANTS
  r1 = r1
  u1 = u1
  t1 = t1
  t2 = t2
  p1 = p1
  w1 = w1
  w2 = w2
  w3 = w3
  Run <- OneRun
  Rule <- OneRule
  DeletableRule <- OneRule
  Target <- TwoTargets
  Amount <- Amounts
  Period <- OnePeriod
  Request <- ThreeRequests
  MaxPostings = 6
  Nil = Nil

SPECIFICATION Spec
SYMMETRY Interchangeable

INVARIANT TypeOK
INVARIANT ExactUnlessDisturbed
INVARIANT PostedOncePerRequest
INVARIANT OffsetsBacked

PROPERTY WorkflowUnlessClash
