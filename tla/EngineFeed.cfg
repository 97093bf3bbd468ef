\* Deadlines, slipped projections and maintenance against what live consumers see.
CONSTANTS
    e1 = e1
    e2 = e2
    e3 = e3
    c1 = c1
    c2 = c2
    Envelope = {e1, e2, e3}
    CommandId = {c1, c2}
    Command <- CommandOf
    Content <- AllAlike
    Owner <- AllAlike
    Lane <- LaneOf
    Capacity = 3
    Reserve = 1
    MaxEvents = 2
    Budget <- FeedBudget
    NoReceipt = NoReceipt
    NoEnvelope = NoEnvelope
SPECIFICATION Spec
INVARIANTS
    FeedHasNoGap
    FeedCaughtUp
    AcceptedIsPublished
    DecidesOnWholeLog
