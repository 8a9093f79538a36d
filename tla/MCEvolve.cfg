\* Deaths, commits while a draft is reviewed, drops and expiries, two rounds.
SPECIFICATION Spec
CONSTANTS
  a = a  b = b  c = c  p = p  q = q
  Claims = {a, b, c}
  Pages = {p, q}
  Home <- MCHome
  Begin = {a, b}
  Callers = {owner, compile}
  Budgets <- MCBudgets
INVARIANTS
  FreshWorkKept
  AdoptedSkillsStay
  AdoptionsAreProjected
PROPERTIES
  CompiledAnchorsStayUnique
  SkillFlipsWithData
  RoundsEnd
CHECK_DEADLOCK FALSE
