\* Two portfolios, two products, two Celery processes and a web worker, two refreshes and two edits.
CONSTANTS
  pf1 = pf1
  pf2 = pf2
  prod1 = prod1
  prod2 = prod2
  Portfolio = {pf1, pf2}
  Product = {prod1, prod2}
  Worker = {w1, w2}
  Web = {b1}
  Days = 2
  Limits = {40, 60}
  RateBase = 4
  max_iter = 6
  Default <- MCDefault
  Start <- MCStart
  FormInput <- MCForms
  AdminInput <- MCAdmin
  MaxEdits = 2
  MaxRefreshes = 2
SPECIFICATION Spec
SYMMETRY Symmetry
INVARIANT TypeOK
INVARIANT FormKeepsProduct
INVARIANT DayCompleted
INVARIANT OneFinishes
INVARIANT StressAddsUp
INVARIANT MeasuresSound
CHECK_DEADLOCK FALSE
