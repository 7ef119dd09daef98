CONSTANTS
    Sources <- TwoNodes
    RankFlags <- Numbers
    TypeFlags = {""}
    TypeSettings = {""}
    Holdings <- AllHoldings
    MaxList = 2
    MaxRuns = 1

SPECIFICATION Spec
INVARIANT
    RankExampleSelects
