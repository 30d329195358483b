SPECIFICATION Spec
CONSTANTS
    MaxRuns = 1
    MaxCrashes = 0
    MaxProgress = 1
INVARIANTS
    StrapHeldWhileRunning
