SPECIFICATION Spec
CONSTANTS
  s1 = s1  s2 = s2  s3 = s3  p1 = p1  p2 = p2
  Sources = {s1, s2, s3}
  Pages = {p1, p2}
  About <- MCAbout
  Held = {s1, s3}
  Retired = {p2}
  RecordBlocks = {1, 2, 3}
  Threshold = 2
  KeepRecent = 1
  MaxAttempts = 1
  Budgets <- OvertakenBudgets
INVARIANTS
  RetriesAreSafe
CHECK_DEADLOCK FALSE
