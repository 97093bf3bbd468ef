--------------------------- MODULE DeliveryLedger ---------------------------
(***************************************************************************)
(* What the delivery of provider commands promises, whatever crashes,      *)
(* fails or is decided by an operator in between:                          *)
(*                                                                         *)
(*   - the cursor moves one event at a time and passes a claimed command   *)
(*     only when it is settled, when it or another command blocks its       *)
(*     thread, or when its retry was ordered and is due;                   *)
(*   - a command reaches the provider only while it is claimed, and never  *)
(*     while its thread is blocked, interrupts excepted;                   *)
(*   - a settled command is never claimed again, and only a verdict of an  *)
(*     operator (or of the startup, on proof) unblocks a thread.           *)
(*                                                                         *)
(* ProviderDelivery implements this module (see the Ledger instance there).*)
(***************************************************************************)
EXTENDS ProviderIntents, Naturals, Sequences

CONSTANTS
    Intent,        \* bound: the events the engine may commit at each place of the log
    MaxLog         \* bound: events committed

VARIABLES
    log,           \* orchestration_events
    cursor,        \* last_acked_sequence
    fate,          \* what became of each event
    runs           \* how often the provider was given each event

vars == <<log, cursor, fate, runs>>

Init ==
    /\ log = << >>
    /\ cursor = 0
    /\ fate = [n \in 1..MaxLog |-> "open"]
    /\ runs = [n \in 1..MaxLog |-> 0]

Blocked(t) == \E n \in DOMAIN log : log[n].thread = t /\ fate[n] = "blocked"

Barred(n) == HeldBack(log[n]) /\ Blocked(log[n].thread)

Publish ==
    /\ Len(log) < MaxLog
    /\ \E e \in Intent[Len(log) + 1] : log' = Append(log, e)
    /\ UNCHANGED <<cursor, fate, runs>>

\* From one fate of event n to another.
Moves(n, from, to) ==
    /\ fate[n] = from
    /\ fate' = [fate EXCEPT ![n] = to]
    /\ UNCHANGED <<log, runs>>

Claim(n) ==
    /\ Claimed(log[n]) /\ ~Barred(n) /\ n <= cursor + 1
    /\ \E from \in {"open", "due"} : Moves(n, from, "running")
    /\ UNCHANGED cursor

Run(n) ==
    /\ fate[n] = "running" /\ ~Barred(n)
    /\ runs' = [runs EXCEPT ![n] = @ + 1]
    /\ UNCHANGED <<log, cursor, fate>>

Return(n) ==
    /\ \E to \in {"open", "due"} : Moves(n, "running", to)
    /\ UNCHANGED cursor

Settle(n) ==
    /\ Moves(n, "running", "settled")
    /\ cursor' = IF n = cursor + 1 THEN n ELSE cursor

Block(n) == Moves(n, "running", "blocked") /\ UNCHANGED cursor

Verdict(n) ==
    /\ \E to \in {"due", "settled"} : Moves(n, "blocked", to)
    /\ UNCHANGED cursor

Pass ==
    LET n == cursor + 1 IN
    /\ n <= Len(log)
    /\ fate[n] \in {"settled", "blocked", "due"} \/ ~Claimed(log[n]) \/ Barred(n)
    /\ cursor' = n
    /\ UNCHANGED <<log, fate, runs>>

Next ==
    \/ Publish
    \/ \E n \in DOMAIN log :
        Claim(n) \/ Run(n) \/ Return(n) \/ Settle(n) \/ Block(n) \/ Verdict(n)
    \/ Pass

Spec == Init /\ [][Next]_vars
=============================================================================
