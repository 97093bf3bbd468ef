----------------------- MODULE MCOrchestrationEngine -----------------------
(* Instances of OrchestrationEngine small enough for TLC. *)
EXTENDS OrchestrationEngine, TLC

CONSTANTS e1, e2, e3, c1, c2

\* e2 is a retry of e1 under the same id; e3 settles work, in the control lane.
CommandOf == e1 :> c1 @@ e2 :> c1 @@ e3 :> c2
LaneOf    == e1 :> "user" @@ e2 :> "normal" @@ e3 :> "control"

\* e2 carries the id of e1 with another content, or from another owner.
AllAlike  == [e \in Envelope |-> "same"]
E2Differs == [e \in Envelope |-> IF e = e2 THEN "other" ELSE "same"]

OneEach(struck) == [f \in Faults |-> IF f \in struck THEN 1 ELSE 0]

FeedBudget      == OneEach({"deadline", "projection", "maintenance"})
ReceiptBudget   == OneEach({"deadline", "sql", "receipt", "reconcile", "crash"})
ServiceBudget   == OneEach({"impatience", "defect", "crash"})
OneDeadline     == OneEach({"deadline"})
OneProjection   == OneEach({"projection"})
=============================================================================
