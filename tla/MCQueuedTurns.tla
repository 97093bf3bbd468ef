---------------------------- MODULE MCQueuedTurns ----------------------------
(* Instances of QueuedTurns small enough for TLC. *)
EXTENDS QueuedTurns

CONSTANTS parent, child, a, b, c

\* Two messages of the thread that owns the session, one of its child.
Three == (a :> parent) @@ (b :> parent) @@ (c :> child)
Pair == (a :> parent) @@ (c :> child)
=============================================================================
