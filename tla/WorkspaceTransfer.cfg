\* Two workstations, one Box.
SPECIFICATION Spec
CONSTANTS
    w1 = w1
    w2 = w2
    p1 = p1
    Clients = {w1, w2}
    Paths = {p1}
    DefaultPath = p1
    Commits <- MCCommits
    Ancestry <- MCAncestry
    Upstream = 2
    Absent = Absent
    NoLink = NoLink
    MaxStarts = 2
    MaxActs = 1
    MaxFaults = 1
INVARIANTS
    TypeOK
PROPERTIES
    Directional
    SameMachine
SYMMETRY MCSymmetry
CHECK_DEADLOCK FALSE
