CONSTANTS
    Calls = {c1, c2}
    Restarts = {r1}
    Pids = {p1, p2}
    MaxConcurrent = 1
    MaxBoots = 2
    MaxFaults = 1

SPECIFICATION FairSpec
INVARIANT
    TypeOK
    TracersBounded
    AnswerIsComplete
PROPERTY
    CallsEnd
    RestartTakesEffect
