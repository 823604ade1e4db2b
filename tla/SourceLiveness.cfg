\* A person repeats disconnect until it is done; a connect may follow an interrupted one.
SPECIFICATION FairSpec
CONSTANTS
    Procs = {p1}
    Boxes = {b1}
    Names = {n1}
    Accounts = {a1, a2}
    None = None
    Ops = {"connect", "status", "disconnect"}
    MaxKeys = 2
    MaxIDs = 2
    MaxConnects = 2
    MaxCrashes = 2
    LateCreates = FALSE
PROPERTIES EventuallyDisconnected
