--------------------------- MODULE MCThreadDetail ---------------------------
(* Small instances of ThreadDetail. *)
EXTENDS ThreadDetail

Once(S) == [k \in Kinds |-> IF k \in S THEN 1 ELSE 0]

\* The calls beside the stream, against eviction and leases.
CallBudget == Once({"hold", "drop", "evict", "replay", "reconcile", "break"})

\* Leases, resets, refusals, a broken stream and deletion.
LivenessBudget == Once({"hold", "evict", "delete", "break", "refuse", "reset"})
=============================================================================
