CONSTANTS
    MinRank = 0
    MaxRank = 1
    LineCounts = {2}
    Kinds <- Stamped
    Writers = {0, 1}
    Zones = {0}
    MaxTime = 1
    MaxLines = 1

SPECIFICATION Spec
INVARIANT
    AllRanksReported
