\* Two commands at a time on one path, with Sessions, crashes and people.
SPECIFICATION Spec
CONSTANTS
    Procs = {p1, p2}
    Targets = {t1}
    Refs = {main}
    MaxTrees = 2
    SessionIDs = {s1,s2}
    None = None
    Foreign = Foreign
    SharedState = TRUE
    MaxActs = 2
SYMMETRY MCSymmetry
INVARIANTS
    TypeOK
    OneIncompletePerTarget
    StagedIsOwned
    RemovedIsGone
    OneSessionPerWorktree
PROPERTIES
    NothingLost
    SessionKeepsTree
CHECK_DEADLOCK FALSE
