SPECIFICATION Spec
CONSTANTS
    MaxWaits = 2
    MaxTurns = 4
    GetMayFail = TRUE
INVARIANTS
    SuccessMeansCycle
    CycleEndsWait
PROPERTIES
    KeepsPromise
\* The monitor rests between two waits.
CHECK_DEADLOCK FALSE
