SPECIFICATION Spec
CONSTANTS
    MaxLines = 2
INVARIANTS
    SuccessIsGenuine
    OutputIsComplete
PROPERTIES
    KeepsPromise
\* It ends with its answer.
CHECK_DEADLOCK FALSE
