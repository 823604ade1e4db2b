\* Two commands at a time on one Box, with registrations that land late.
SPECIFICATION Spec
CONSTANTS
    Procs = {p1, p2}
    Boxes = {b1}
    Names = {n1}
    Accounts = {a1, a2}
    None = None
    Ops = {"connect", "status", "disconnect"}
    MaxKeys = 2
    MaxIDs = 2
    MaxConnects = 2
    MaxCrashes = 1
    LateCreates = TRUE
SYMMETRY ProcSymmetry
INVARIANTS ExclusiveOperation
PROPERTIES ConnectedIsVerified
