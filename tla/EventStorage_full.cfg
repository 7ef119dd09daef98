CONSTANTS
    Events = {e1, e2}
    Loads = {l1, l2}
    NoOne = NoOne
    NoIndex = NoIndex
    BaseSize = 1
    EventSize = 4
    FlagSize = 1
    MaxFileSize = 4
    MaxTime = 0
    MaxFaults = 1
    MaxFiles = 2
    Queries <- UnreadOnly

SPECIFICATION FairSpec
CHECK_DEADLOCK FALSE
PROPERTY
    LoadsReturn
