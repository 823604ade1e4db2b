\* One command at a time on two Boxes that share a name: crashes and failures.
SPECIFICATION Spec
CONSTANTS
    Procs = {p1}
    Boxes = {b1, b2}
    Names = {n1}
    Accounts = {a1, a2}
    None = None
    Ops = {"connect", "status", "disconnect"}
    MaxKeys = 2
    MaxIDs = 2
    MaxConnects = 3
    MaxCrashes = 2
    LateCreates = FALSE
SYMMETRY Symmetry
INVARIANTS TypeOK AuthorityRecorded ConnectedIsUsable NamesUnambiguous
PROPERTIES RevokedBeforeRemoved
