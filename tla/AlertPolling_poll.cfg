CONSTANTS
    n1 = n1
    Nodes = {n1}
    Entries = {i1, i2}
    Alerts = {a1}
    NodeOf <- OnFirst
    Lag <- OneBehind
    CommandLines <- Lines
    Unset = Unset
    Invalid = Invalid
    FeishuURL = TRUE
    MaxTime = 1
    MaxRounds = 2
    MaxRestarts = 1

SPECIFICATION FairSpec
CHECK_DEADLOCK FALSE
INVARIANT
    TypeOK
    BehindHasCause
    ProcessedIsPrinted
    PrintedOnce
PROPERTY
    RoundsEnd
    InterruptStops
    ImplementsGather
