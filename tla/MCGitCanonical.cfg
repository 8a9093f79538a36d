SPECIFICATION Spec
CONSTANTS
    page = page
    archived = archived
    v1 = v1
    v2 = v2
    Path = {page, archived}
    Page = {v1, v2}
    Writer = {api, worker}
    Call <- MCCall
    Hand = Hand
    Partial = Partial
    Torn = Torn
    None = None
SYMMETRY WriterSymmetry
INVARIANTS
    TypeOK
    DirtIsDeclared
PROPERTIES
    KeepsToItsPaths
    NoStrangersCommitted
    CommitIsWhole
