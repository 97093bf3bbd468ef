--------------------------- MODULE ProviderIntents ---------------------------
(* The events of the log as the provider command reactor classes them           *)
(* (orchestration/providerIntentClassification.ts).  "start" stands for          *)
(* thread.turn-start-requested, "command" for every other request that the      *)
(* provider must not see twice, "feedback" for thread.session-set and           *)
(* thread.turn-queued, "other" for events that are no provider intents.         *)
CONSTANT Thread

Kind == {"created", "archived", "start", "command", "interrupt",
         "deleted", "feedback", "other"}

Event == [thread : Thread, kind : Kind]

ReplaySafe(e) == e.kind \in {"created", "archived"}

SideEffect(e) == e.kind \in {"archived", "start", "command", "interrupt"}

Claimed(e) == ReplaySafe(e) \/ SideEffect(e)

Exempt(e) == e.kind = "interrupt"

\* What a blocked delivery of its thread holds back.
HeldBack(e) == SideEffect(e) /\ ~Exempt(e)
=============================================================================
