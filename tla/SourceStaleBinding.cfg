\* The race of two commands, one of which decides before it has the lock.
SPECIFICATION Spec
CONSTANTS
    Procs = {p1, p2}
    Boxes = {b1}
    Names = {n1}
    Accounts = {a1, a2}
    None = None
    Ops = {"connect", "status", "disconnect"}
    MaxKeys = 2
    MaxIDs = 2
    MaxConnects = 2
    MaxCrashes = 0
    LateCreates = FALSE
SYMMETRY ProcSymmetry
PROPERTIES RevokedBeforeRemoved
