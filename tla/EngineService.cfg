\* Full queues, impatient callers, defects, quiesce and stop.
CONSTANTS
    e1 = e1
    e2 = e2
    e3 = e3
    c1 = c1
    c2 = c2
    Envelope = {e1, e2, e3}
    CommandId = {c1, c2}
    Command <- CommandOf
    Content <- E2Differs
    Owner <- AllAlike
    Lane <- LaneOf
    Capacity = 2
    Reserve = 1
    MaxEvents = 1
    Budget <- ServiceBudget
    NoReceipt = NoReceipt
    NoEnvelope = NoEnvelope
SPECIFICATION FairSpec
INVARIANTS
    TypeOK
    AdmissionAccounting
    ReserveKept
    StopDrains
PROPERTIES
    EveryCallReturns
