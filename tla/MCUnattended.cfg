SPECIFICATION RoundsSpec
CONSTANTS
    c1 = c1
    e1 = e1
    i1 = i1
    g1 = g1
    s1 = s1
    Worker = Worker
    None = None
    Job <- MCJob
    Source = {s1}
    KindOf <- MCKindOf
    About <- MCAbout
    Imports <- MCImports
    Launch = {l1, l2, l3, l4}
    Steward = {st}
    Skips <- MCSkips
    MaxAttempts = 1
    Faults = 2
    Commands = 0
INVARIANTS
    RoundsTypeOK
    CompileSeesJudgement
    KeptIsNobodys
PROPERTIES
    RoundsUseQueue
