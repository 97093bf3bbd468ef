\* Two blockers of one thread, settled oldest first; nothing crashes or fails.
CONSTANTS
    t1 = t1
    t2 = t2
    Thread = {t1, t2}
    Intent <- Stopped
    MaxLog = 3
    RetryLimit = 2
    Crashes = 0
    Faults = 0
    Verdicts = 2
SPECIFICATION Spec
CHECK_DEADLOCK FALSE
INVARIANT SkippedAwaitsReplay
