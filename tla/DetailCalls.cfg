SPECIFICATION Spec
CONSTANTS
    MaxSeq = 2
    Window = 1
    NoCursor = NoCursor
    Lag = 0
    PendingLimit = 1
    Budget <- CallBudget
INVARIANTS
    TypeOK
    CursorCoherentUnlessCrossed
    CreditCoherentUnlessCrossed
CHECK_DEADLOCK FALSE
