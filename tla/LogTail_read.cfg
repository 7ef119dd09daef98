CONSTANTS
    MinRank = 0
    MaxRank = 2
    LineCounts <- AnyCount
    Kinds <- AllKinds
    Writers = {0}
    Zones <- ThreeZones
    MaxTime = 1
    MaxLines = 3

SPECIFICATION FairSpec
INVARIANT
    TypeOK
    TailIsLast
    HangNotMissed
    RanksInOrder
PROPERTY
    Answers
