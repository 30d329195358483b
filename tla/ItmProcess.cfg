SPECIFICATION Spec
CONSTANTS
    MaxLines = 2
    MaxTests = 2
INVARIANTS
    OutputIsComplete
    ProgressIsGenuine
    VerdictIsGenuine
PROPERTIES
    KeepsPromise
\* It ends with its answer.
CHECK_DEADLOCK FALSE
