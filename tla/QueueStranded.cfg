CHECK_DEADLOCK FALSE
CONSTANTS
    parent = parent
    child = child
    a = a
    b = b
    c = c
    Message = {a, b, c}
    Thread = {parent, child}
    Owner = parent
    ThreadOf <- Three
    Steer = {b}
    MaxLog = 6
    Crashes = 0
    Faults = 0
    Stops = 0
    Incidents = 0
SPECIFICATION FairSpec
INVARIANTS
    NoneStranded
