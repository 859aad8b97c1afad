\* Two of everything but rules, two runs and two edits; shares in tenths.
CONSTANTS
  d1 = d1
  d2 = d2
  a = a
  b = b
  e1 = e1
  e2 = e2
  p1 = p1
  p2 = p2
  k1 = k1
  None = None
  Division = {d1, d2}
  Department = {a, b}
  Employee = {e1, e2}
  Project = {p1, p2}
  Category = {labor, other}
  Rule = {k1}
  Run = {run1, run2}
  Start <- MCStart
  FormInput <- MCForms
  RuleInput <- MCRules
  Amounts <- MCAmounts
  Percent = {0, 3}
  MaxEdits = 2
  ShareUnit = 10
SPECIFICATION Spec
INVARIANT TypeOK
INVARIANT BudgetsFollow
INVARIANT TotalKept
INVARIANT SharesAddUp
INVARIANT SourceCovered
INVARIANT RelievedWasSource
CHECK_DEADLOCK FALSE
