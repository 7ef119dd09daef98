CONSTANTS
    Events = {e1, e2}
    Loads = {l1}
    NoOne = NoOne
    NoIndex = NoIndex
    BaseSize = 1
    EventSize = 4
    FlagSize = 1
    MaxFileSize = 100
    MaxTime = 0
    MaxFaults = 0
    MaxFiles = 1
    Queries <- UnreadOnly

SPECIFICATION Spec
SYMMETRY Symmetry
INVARIANT
    AckedAlertKept
