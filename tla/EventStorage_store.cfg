CONSTANTS
    Events = {e1, e2}
    Loads = {l1, l2}
    NoOne = NoOne
    NoIndex = NoIndex
    BaseSize = 1
    EventSize = 4
    FlagSize = 1
    MaxFileSize = 100
    MaxTime = 1
    MaxFaults = 2
    MaxFiles = 3
    Queries <- AllKinds

SPECIFICATION Spec
SYMMETRY Symmetry
INVARIANTS
    TypeOK
    ProcessedWasRead
    KeptUnlessOverlapped
    AnsweredIsProcessed
    NothingMissed
PROPERTY
    AnsweredOnce
    ImplementsAlertLog
