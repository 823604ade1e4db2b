SPECIFICATION Spec
CONSTANTS
    a = a
    b = b
    m1 = m1
    m2 = m2
    Missing = Missing
    Damaged = Damaged
    NoBox = NoBox
    Stations = {a, b}
    Machines = {m1, m2}
    Versions <- MCVersions
    OldVersion = 1
    MaxStarts = 2
    MaxActs = 1
    MaxFaults = 1
SYMMETRY Symmetry
CHECK_DEADLOCK FALSE
INVARIANTS TypeOK Prepared
PROPERTIES NoDowngrade RightMachine
