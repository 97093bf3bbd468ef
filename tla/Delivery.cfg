\* Blockers, verdicts, a crash and a failing statement around three events.
\* The source may really stop: the log is full and consumed, or a statement failed.
CHECK_DEADLOCK FALSE
CONSTANTS
    t1 = t1
    t2 = t2
    Thread = {t1, t2}
    Intent <- Mixed
    MaxLog = 3
    RetryLimit = 2
    Crashes = 1
    Faults = 1
    Verdicts = 1
SPECIFICATION FairSpec
INVARIANTS
    TypeOK
    NeverLosesOwnership
    NoBlindReplay
    QuarantineIsBacked
PROPERTIES
    ImplementsLedger
    EveryEventPasses
