SPECIFICATION ComposedSpec
CONSTANTS
    Packages = {p1, p2, p3}
    Versioned = {p1, p2}
    Chunks = 3
    MaxUpdates = 2
    MaxRestarts = 1
INVARIANTS
    SessionOwnsLockAndProgress
    NeverOverwrittenWhileMounted
    ActiveMeansMounted
    ActiveVersionIsMounted
    TestedIsChecked
PROPERTIES
    OnlyVerifiedImagesStay
    RefusedHeaderDisturbsNothing
    ProgressNeverGoesBack
    UpdateEnds
    RunFollowsProtocol
\* At rest the daemon waits for a client, and MaxUpdates bounds the client.
CHECK_DEADLOCK FALSE
