SPECIFICATION FairSpec
CONSTANTS
    MaxSeq = 2
    Window = 1
    NoCursor = NoCursor
    Lag = 0
    PendingLimit = 1
    Budget <- LivenessBudget
INVARIANTS
    LeasesSettle
PROPERTIES
    CatchesUp
CHECK_DEADLOCK FALSE
