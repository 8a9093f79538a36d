\* A copy and its deletions beside imports, commits and projections of the base.
SPECIFICATION Spec
CONSTANTS
  s1 = s1  s2 = s2  page = page  volume = volume  n1 = n1
  L0 = L0  Absent = Absent
  Sources = {s1, s2}
  Documents = {page, volume}
  Held = {s1}
  Filing = page
  Pictured = {s2}
  FirstBatch <- MCFirstBatch
  Snapshot = {n1}
  Budgets <- MCBudgets
INVARIANTS
  NothingDangles
  NotHalfCopied
  NothingStranded
CHECK_DEADLOCK FALSE
