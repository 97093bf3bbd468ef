\* A stop and a closing scope overlap with full admission and a killed consumer.
CONSTANTS
    i1 = i1
    i2 = i2
    i3 = i3
    k1 = k1
    k2 = k2
    Item = {i1, i2, i3}
    TryItem = {i3}
    Produced = {i2}
    Controller = {k1, k2}
    Job <- Jobs
    Capacity = 1
    Interrupts = 1
    Free = Free
    Dead = Dead
SPECIFICATION FairSpec
INVARIANTS
    Accounting
    NoLostWakeup
    StopIsClean
    DrainIsHonest
PROPERTIES
    ControlEnds
