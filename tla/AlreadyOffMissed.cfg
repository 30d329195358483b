SPECIFICATION Spec
CONSTANTS
    MaxWaits = 1
    MaxTurns = 2
    GetMayFail = FALSE
INVARIANTS
    AlreadyOffIsSeen
CHECK_DEADLOCK FALSE
