SPECIFICATION FairRounds
CONSTANTS
    c1 = c1
    e1 = e1
    i1 = i1
    g1 = g1
    s1 = s1
    Worker = Worker
    None = None
    Job <- AttendedJob
    Source = {s1}
    KindOf <- AttendedKindOf
    About <- AttendedAbout
    Imports <- AttendedImports
    Launch = {l1, l2, l3, l4, l5, l6}
    Steward = {st}
    Skips <- MCSkips
    MaxAttempts = 2
    Faults = 2
    Commands = 3
INVARIANTS
    WriterFenced
PROPERTIES
    KeptWorkSurvives
    JobsDone
