------------------------- MODULE MCProviderDelivery -------------------------
(* Instances of ProviderDelivery small enough for TLC. *)
EXTENDS ProviderDelivery

CONSTANTS t1, t2

Ev(t, k) == [thread |-> t, kind |-> k]

\* A turn start; what may follow it, on its thread or another; commands replayed
\* safely and not.
Mixed == <<{Ev(t1, "start")},
           {Ev(t1, "interrupt"), Ev(t2, "start"), Ev(t1, "deleted")},
           {Ev(t1, "command"), Ev(t1, "archived")}>>
\* Two turn starts and the interrupt that a blocked thread still lets through.
Stopped == <<{Ev(t1, "start")}, {Ev(t1, "start")}, {Ev(t1, "interrupt")}>>
=============================================================================
