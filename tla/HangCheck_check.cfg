CONSTANTS
    Nodes = {n1, n2}
    Processes <- Job
    Samples = 3
    IntervalFlags <- AnyFlag
    IntervalSettings <- AnySetting
    MaxRounds = 1
    MaxChanges = 1
    MaxFailures = 1

SPECIFICATION FairSpec
CHECK_DEADLOCK FALSE
INVARIANT
    TypeOK
    NoDiffMeansSame
    HaveDiffHasCause
    RoundIsComplete
PROPERTY
    RoundsGoOn
    ImplementsGather
