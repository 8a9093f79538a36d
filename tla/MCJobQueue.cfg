SPECIFICATION Spec
CONSTANTS
    c1 = c1
    c2 = c2
    Worker = Worker
    None = None
    Job <- MCJob
    Source = {}
    KindOf <- MCKindOf
    About <- MCAbout
    Launch = {l1}
    Steward = {st}
    Skips <- MCSkips
    MaxAttempts = 1
SYMMETRY RowSymmetry
INVARIANTS
    TypeOK
    LaneReserved
    ClaimFollowsDraft
PROPERTIES
    LanesHandOver
    NeverRevived
CONSTRAINT WaitsAlone
