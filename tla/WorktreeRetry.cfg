\* Interruptions the journal accounts for: retrying finishes the operation.
SPECIFICATION RetrySpec
CONSTANTS
    Procs = {p1}
    Targets = {t1}
    Refs = {main, dev}
    MaxTrees = 2
    SessionIDs = {s1}
    None = None
    Foreign = Foreign
    SharedState = TRUE
    MaxActs = 2
    StopsAt <- MCResumable
PROPERTIES
    InterruptedIsResumed
CHECK_DEADLOCK FALSE
