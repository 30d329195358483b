SPECIFICATION Spec
CONSTANTS
    MaxRuns = 2
    MaxCrashes = 1
    MaxProgress = 1
INVARIANTS
    TypeOK
    StageNamesTheWait
    CompletedMeansReleased
    LogClosedBeforeArchive
    PassHasNoErrorLine
    ServedArchiveIsOfTheRun
    ObjectShowsState
PROPERTIES
    FailureIsExplained
    ArmedRunIsReleased
    RunEnds
    FollowsProtocol
