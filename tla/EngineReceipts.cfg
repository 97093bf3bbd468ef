\* Retries of an id, from another owner, against failures and a crash.
CONSTANTS
    e1 = e1
    e2 = e2
    e3 = e3
    c1 = c1
    c2 = c2
    Envelope = {e1, e2, e3}
    CommandId = {c1, c2}
    Command <- CommandOf
    Content <- AllAlike
    Owner <- E2Differs
    Lane <- LaneOf
    Capacity = 3
    Reserve = 1
    MaxEvents = 1
    Budget <- ReceiptBudget
    NoReceipt = NoReceipt
    NoEnvelope = NoEnvelope
SPECIFICATION Spec
INVARIANTS
    ReceiptsMatchLog
    AcceptedIsCommitted
    FailureWroteNothing
PROPERTIES
    ImplementsLog
