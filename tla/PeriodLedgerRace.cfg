\* Two requests and one period: an entry and a closing that overlap.
CONSTANTS
  p1 = p1
  p2 = p2
  c1 = c1
  c2 = c2
  r1 = r1
  w1 = w1
  w2 = w2
  Period <- OnePeriod
  CostRow <- CostKeys
  RevenueRow <- NoKeys
  Request <- TwoRequests
  Unborn = Unborn
  Gone = Gone
  Nil = Nil

SPECIFICATION Spec

PROPERTY ClosedPeriodGainsNoCost
