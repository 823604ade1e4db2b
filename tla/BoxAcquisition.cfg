\* One provision at a time, beside the other commands.
SPECIFICATION Spec
CONSTANTS
    p1 = p1
    p2 = p2
    Procs = {p1, p2}
    Commands <- MCOneProvisions
    Names = {n1, n2}
    Hosts = {h1}
    None = None
    LateCreates = TRUE
    MayDelete = TRUE
    MayUntag = TRUE
    MaxDroplets = 2
    MaxOps = 2
    MaxBoxes = 2
    MaxActs = 1
INVARIANTS
    TypeOK
    NoDuplicate
    NoneLost
    KeyIsTemporary
PROPERTIES
    ForgottenWhenGone
SYMMETRY MCSymmetry
CHECK_DEADLOCK FALSE
