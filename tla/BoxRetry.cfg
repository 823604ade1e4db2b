\* Interrupted commands repeated until they are done.
SPECIFICATION Retried
CONSTANTS
    p1 = p1
    p2 = p2
    Procs = {p1, p2}
    Commands <- MCRetries
    Names = {n1}
    Hosts = {h1}
    None = None
    LateCreates = FALSE
    MayDelete = FALSE
    MayUntag = FALSE
    MaxDroplets = 3
    MaxOps = 3
    MaxBoxes = 3
    MaxActs = 3
PROPERTIES
    DestroyResumes
    ProvisionResumes
CHECK_DEADLOCK FALSE
