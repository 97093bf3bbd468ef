CHECK_DEADLOCK FALSE
CONSTANTS
    parent = parent
    child = child
    a = a
    b = b
    c = c
    Message = {a, c}
    Thread = {parent, child}
    Owner = parent
    ThreadOf <- Pair
    Steer = {}
    MaxLog = 5
    Crashes = 1
    Faults = 1
    Stops = 1
    Incidents = 2
SPECIFICATION FairSpec
INVARIANTS
    TypeOK
    StartsOnce
    NoMessageLost
    NoneReserved
PROPERTIES
    CancelledStaysDead
    EveryMessageSettles
