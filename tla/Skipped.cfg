\* Two canonical jobs and an older source imported between them.
SPECIFICATION Spec
CONSTANTS
  c1 = c1  c2 = c2  old = old  new = new
  Consultations = {c1, c2}
  Business = {c1}
  Sources = {old, new}
  Stamp <- MCStamp
  ReportMin = 2
  PageSize = 1
  Budgets <- SkippedBudgets
INVARIANTS
  GateSeesLibrary
CHECK_DEADLOCK FALSE
