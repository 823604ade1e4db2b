\* One transfer beside people.
SPECIFICATION Spec
CONSTANTS
    Names <- MCNames
    PathOrder <- MCPathOrder
    Up <- MCUp
    Top = "top"
    Plans <- MCPlans
    MaxEdits = 3
    MaxFaults = 1
INVARIANTS
    TypeOK
    WritingKept
    Recoverable
    RefusedGit
PROPERTIES
    GitKept
    AllOrNothing
CHECK_DEADLOCK FALSE
