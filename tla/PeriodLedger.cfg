\* Two requests at a time over two periods, two cost keys and one revenue key.
CONSTANTS
  p1 = p1
  p2 = p2
  c1 = c1
  c2 = c2
  r1 = r1
  w1 = w1
  w2 = w2
  Period <- TwoPeriods
  CostRow <- CostKeys
  RevenueRow <- RevenueKeys
  Request <- TwoRequests
  Unborn = Unborn
  Gone = Gone
  Nil = Nil

SPECIFICATION FairSpec

INVARIANT TypeOK
INVARIANT ClosedStampAgrees
INVARIANT CostDeleteGuardsTruePeriod

PROPERTY ClosedGainsDrain
PROPERTY DrainsAfterClose
PROPERTY ImplementsPermitLedger
