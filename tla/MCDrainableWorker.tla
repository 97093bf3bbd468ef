-------------------------- MODULE MCDrainableWorker --------------------------
(* Instances of DrainableWorker small enough for TLC. *)
EXTENDS DrainableWorker, TLC

CONSTANTS i1, i2, i3, k1, k2

\* A stop and the closing of the producers' scope overlap.
Jobs == k1 :> "stop" @@ k2 :> "close"
=============================================================================
