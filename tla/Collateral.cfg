SPECIFICATION Spec
CONSTANTS
    Names = {a, b, c}
    Blocks = 2
    MaxPaths = 3
INVARIANTS
    VerdictIsReference
    SocketsAreTheInventory
PROPERTIES
    KeepsPromise
\* It ends with its answer.
CHECK_DEADLOCK FALSE
