CONSTANTS
    Sources <- AllSources
    RankFlags <- Labels
    TypeFlags = {"", "loader", "bad"}
    TypeSettings = {"", "trainer", "bad"}
    Holdings <- AllHoldings
    MaxList = 2
    MaxRuns = 2

SPECIFICATION FairSpec
INVARIANT
    TypeOK
    ReportIsComplete
    NoSendOnClosed
    VerdictIsTrue
    DocumentsStartLines
PROPERTY
    CommandEnds
    ImplementsGather
