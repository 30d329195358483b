SPECIFICATION Spec
CONSTANTS
    Base = 6
INVARIANTS
    ChunkingDoesNotMatter
    SizeIsExact
    ImageIsThePayload
\* It ends with the upload.
CHECK_DEADLOCK FALSE
