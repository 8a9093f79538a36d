SPECIFICATION Spec
CONSTANTS
  a = a  b = b  c = c  p = p  q = q
  Claims = {a, b, c}
  Pages = {p, q}
  Home <- MCHome
  Begin = {a, b}
  Callers = {owner, compile}
  Budgets <- DoubledBudgets
INVARIANTS
  AdoptedAnchorsAreUnique
CHECK_DEADLOCK FALSE
