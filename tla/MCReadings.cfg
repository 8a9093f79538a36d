\* Redeliveries, deaths, failing hooks and rebuilds beside the gate of canonical jobs.
SPECIFICATION Spec
CONSTANTS
  c1 = c1  c2 = c2  old = old  new = new
  Consultations = {c1, c2}
  Business = {c1}
  Sources = {old, new}
  Stamp <- MCStamp
  ReportMin = 2
  PageSize = 1
  Budgets <- MCBudgets
INVARIANTS
  TypeOK
  NotifiedOnce
  TermsCountedOnce
  RebuildHeals
  WindowSeesLibrary
PROPERTIES
  RecordsAreTallied
  ReadingsCatchUp
CHECK_DEADLOCK FALSE
