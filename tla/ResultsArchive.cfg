SPECIFICATION Spec
CONSTANTS
    Files = {summary, service}
    MaxBlocks = 2
    MaxRuns = 2
INVARIANTS
    PackedBeforeRemoved
    ServedArchiveIsFinal
PROPERTIES
    FollowsContract
\* The bound on the runs stops it.
CHECK_DEADLOCK FALSE
