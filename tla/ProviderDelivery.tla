-------------------------- MODULE ProviderDelivery --------------------------
(* The durable source of the provider command reactor                           *)
(* (orchestration/Layers/ProviderCommandReactor.ts, from                        *)
(* startProviderIntentSource on) over its delivery table                        *)
(* (persistence/Layers/OrchestrationEventDeliveries.ts).  One reactor runs at a  *)
(* time; whoever holds deliverySourceLock (the source, an operator's verdict,    *)
(* the resumption at startup) works on one event after the other.  An action     *)
(* ends at each durable write and at each provider call: a crash, or a failing   *)
(* statement, falls between any two of them.                                    *)
EXTENDS ProviderIntents, Naturals, Sequences, FiniteSets

CONSTANTS
    Intent,        \* bound: the events the engine may commit at each place of the log
    MaxLog,        \* bound: events committed
    RetryLimit,    \* PROVIDER_COMMAND_SAFE_RETRY_LIMIT
    Crashes,       \* bound: how often the process dies
    Faults,        \* bound: how often a statement of the reactor itself fails
    Verdicts       \* bound: how often an operator decides

ASSUME DeliveryAssumption ==
    /\ MaxLog \in Nat /\ Intent \in [1..MaxLog -> SUBSET Event]
    /\ RetryLimit \in Nat \ {0}
    /\ Crashes \in Nat /\ Faults \in Nat /\ Verdicts \in Nat

VARIABLES
    log,           \* orchestration_events
    cursor,        \* orchestration_consumer_state.last_acked_sequence
    row,           \* orchestration_event_deliveries, by event
    granted,       \* events with a safe_retry in provider_delivery_reconciliations
    phase,         \* how far startProviderIntentSource got
    epoch,         \* processOwner: which process this is
    acked,         \* the process's copy of the cursor
    quarantined,   \* quarantinedThreads
    handled,       \* handledTurnStartKeys
    todo,          \* retryableDeliveries not resumed yet
    job,           \* what the holder of deliverySourceLock is at
    sent,          \* ghost: how often the provider may have been given each event
    faulted,       \* ghost: events one of whose attempts ended in a persistence error
    left           \* what is left of the bounds

durableVars == <<log, cursor, row, granted>>
memoryVars == <<phase, epoch, acked, quarantined, handled, todo>>
ghostVars == <<sent, faulted>>
vars == <<durableVars, memoryVars, job, ghostVars, left>>

Seqs == 1..MaxLog
States == {"none", "inflight", "retry", "succeeded", "dead", "uncertain"}
NoRow == [state |-> "none", owner |-> 0, tries |-> 0, proof |-> FALSE]
NoJob == [by |-> "none", at |-> 0, stage |-> "idle", home |-> 0, through |-> 0]
Outcomes == {"accepted", "safe_retry", "uncertain", "unwritten"}
Stages == {"look", "claim", "call", "refresh", "advance", "resumed", "next"} \cup Outcomes
Row == [state : States, owner : 0..Crashes + 1, tries : Nat, proof : BOOLEAN]
Job == [by : {"source", "operator", "boot"}, at : 1..Len(log), stage : Stages,
        home : 0..Len(log), through : 0..Len(log)]

TypeOK ==
    /\ log \in Seq(Event) /\ Len(log) <= MaxLog
    /\ cursor \in 0..Len(log) /\ acked \in 0..cursor
    /\ row \in [Seqs -> Row]
    /\ \A n \in Seqs : row[n].state # "none" => n <= Len(log) /\ Claimed(log[n])
    /\ granted \subseteq Seqs /\ todo \subseteq Seqs /\ handled \subseteq Seqs
    /\ faulted \subseteq Seqs
    /\ phase \in {"down", "heal", "listed", "resume", "live", "halted"}
    /\ epoch \in 0..Crashes + 1
    /\ quarantined \subseteq Thread
    /\ job = NoJob \/ job \in Job
    /\ sent \in [Seqs -> Nat]
    /\ left \in [crash : 0..Crashes, fault : 0..Faults, verdict : 0..Verdicts]

Init ==
    /\ log = << >> /\ cursor = 0 /\ granted = {}
    /\ row = [n \in Seqs |-> NoRow]
    /\ phase = "down" /\ epoch = 0 /\ acked = 0
    /\ quarantined = {} /\ handled = {} /\ todo = {} /\ job = NoJob
    /\ sent = [n \in Seqs |-> 0] /\ faulted = {}
    /\ left = [crash |-> Crashes, fault |-> Faults, verdict |-> Verdicts]

-----------------------------------------------------------------------------
(* What the tables and the caches say. *)

ThreadOf(n) == log[n].thread
Blocks(n) == row[n].state \in {"dead", "uncertain"}
HasBlocker(t) == \E n \in DOMAIN log : ThreadOf(n) = t /\ Blocks(n)
IsQuarantined(t) == t \in quarantined \/ HasBlocker(t)
Owned(n) == row[n].state = "inflight" /\ row[n].owner = epoch
Retryable ==
    {n \in granted : n <= cursor /\ row[n].state \in {"retry", "inflight"}}

At(stage) == job.stage = stage
GoTo(stage) == job' = [job EXCEPT !.stage = stage]

Free(r, state) == [r EXCEPT !.state = state, !.owner = 0]
SetRow(r) == row' = [row EXCEPT ![job.at] = r]

\* Where a job stands once its event is done with.
Over ==
    IF job.by = "source" THEN NoJob
    ELSE [job EXCEPT !.stage = IF job.at = job.home THEN "resumed" ELSE "next"]

-----------------------------------------------------------------------------
(* One event, whoever works on it. *)

\* Mutant: only the cache is asked, which a restart has emptied.
SkipsByCache == HeldBack(log[job.at]) /\ ThreadOf(job.at) \in quarantined
Skips == HeldBack(log[job.at]) /\ IsQuarantined(ThreadOf(job.at))
Admitted == At("look") /\ ~Skips

Skip ==
    /\ At("look") /\ Skips
    /\ quarantined' = quarantined \cup {ThreadOf(job.at)}
    /\ GoTo("advance")
    /\ UNCHANGED <<durableVars, phase, epoch, acked, handled, todo, ghostVars, left>>

FindSettled ==
    /\ Admitted
    /\ row[job.at].state \in {"succeeded", "dead", "uncertain"}
    /\ quarantined' = IF Blocks(job.at) THEN quarantined \cup {ThreadOf(job.at)}
                      ELSE quarantined
    /\ GoTo("advance")
    /\ UNCHANGED <<durableVars, phase, epoch, acked, handled, todo, ghostVars, left>>

\* Mutant: the row is taken over as it is.
RequeueInPlace ==
    /\ Admitted /\ row[job.at].state = "inflight" /\ ReplaySafe(log[job.at])
    /\ GoTo("call")
    /\ UNCHANGED <<durableVars, memoryVars, ghostVars, left>>

\* A claim of a process that is gone; its lease is slept out first.
Requeue ==
    /\ Admitted /\ row[job.at].state = "inflight" /\ ReplaySafe(log[job.at])
    /\ SetRow(Free(row[job.at], "retry"))
    /\ GoTo("claim")
    /\ UNCHANGED <<log, cursor, granted, memoryVars, ghostVars, left>>

Claim ==
    /\ At("claim") \/ (Admitted /\ row[job.at].state \in {"none", "retry"})
    /\ SetRow([state |-> "inflight", owner |-> epoch, tries |-> row[job.at].tries + 1,
               proof |-> FALSE])
    /\ GoTo("call")
    /\ UNCHANGED <<log, cursor, granted, memoryVars, ghostVars, left>>

\* hasHandledTurnStartRecently answers for a turn start seen before.
CallKnownStart ==
    /\ At("call") /\ log[job.at].kind = "start" /\ job.at \in handled
    /\ GoTo("accepted")
    /\ UNCHANGED <<durableVars, memoryVars, ghostVars, left>>

\* processDomainEvent within its deadline, as classifyProviderAttemptOutcome and
\* isSafeLegacyProviderBlocker see it.  Rejected counts as accepted below.
Call ==
    /\ At("call") /\ ~(log[job.at].kind = "start" /\ job.at \in handled)
    /\ handled' = IF log[job.at].kind = "start" THEN handled \cup {job.at} ELSE handled
    /\ \E outcome \in IF log[job.at].kind = "created" THEN {"accepted"} ELSE Outcomes :
        /\ sent' = IF log[job.at].kind = "created" \/ outcome = "unwritten" THEN sent
                   ELSE [sent EXCEPT ![job.at] = @ + 1]
        /\ faulted' = IF outcome = "safe_retry" THEN faulted \cup {job.at} ELSE faulted
        /\ GoTo(outcome)
    /\ UNCHANGED <<durableVars, phase, epoch, acked, quarantined, todo, left>>

Complete ==
    /\ At("accepted") /\ Owned(job.at)
    /\ SetRow(Free(row[job.at], "succeeded"))
    /\ cursor' = IF job.at = cursor + 1 THEN job.at ELSE cursor
    /\ GoTo("refresh")
    /\ UNCHANGED <<log, granted, memoryVars, ghostVars, left>>

RefreshCursor ==
    /\ At("refresh")
    /\ acked' = cursor
    /\ job' = Over
    /\ UNCHANGED <<durableVars, phase, epoch, quarantined, handled, todo, ghostVars, left>>

MarkRetryable ==
    /\ At("safe_retry") /\ row[job.at].tries < RetryLimit /\ Owned(job.at)
    /\ SetRow(Free(row[job.at], "retry"))
    /\ GoTo("claim")
    /\ UNCHANGED <<log, cursor, granted, memoryVars, ghostVars, left>>

\* settleTerminalFailure, before it needs the cursor.
BlockAs(state, proof) ==
    /\ SetRow([Free(row[job.at], state) EXCEPT !.proof = proof])
    /\ quarantined' = quarantined \cup {ThreadOf(job.at)}
    /\ GoTo("advance")
    /\ UNCHANGED <<log, cursor, granted, phase, epoch, acked, handled, todo, ghostVars,
                   left>>

\* Mutant: an expired claim of any kind is requeued.
ExpireClaimRequeues ==
    /\ Admitted /\ row[job.at].state = "inflight" /\ ~ReplaySafe(log[job.at])
    /\ SetRow(Free(row[job.at], "retry"))
    /\ GoTo("claim")
    /\ UNCHANGED <<log, cursor, granted, memoryVars, ghostVars, left>>

ExpireClaim ==
    /\ Admitted /\ row[job.at].state = "inflight" /\ ~ReplaySafe(log[job.at])
    /\ BlockAs("uncertain", FALSE)

GiveUp ==
    /\ At("safe_retry") /\ row[job.at].tries >= RetryLimit /\ Owned(job.at)
    /\ BlockAs("dead", FALSE)

MarkUncertain ==
    /\ At("uncertain") \/ At("unwritten")
    /\ Owned(job.at)
    /\ BlockAs("uncertain", At("unwritten"))

\* Mutant: the process counts events instead of reading the cursor back.
AdvanceCounts ==
    /\ At("advance") /\ job.at <= cursor + 1
    /\ cursor' = IF job.at = cursor + 1 THEN job.at ELSE cursor
    /\ acked' = acked + 1
    /\ job' = Over
    /\ UNCHANGED <<log, row, granted, phase, epoch, quarantined, handled, todo, ghostVars,
                   left>>

\* Mutant: the cursor waits for the verdict on a blocked delivery.
AdvanceUnblocked ==
    /\ At("advance") /\ job.at <= cursor + 1 /\ ~Blocks(job.at)
    /\ cursor' = IF job.at = cursor + 1 THEN job.at ELSE cursor
    /\ acked' = cursor'
    /\ job' = Over
    /\ UNCHANGED <<log, row, granted, phase, epoch, quarantined, handled, todo, ghostVars,
                   left>>

\* requireCursorAdvance.
Advance ==
    /\ At("advance") /\ job.at <= cursor + 1
    /\ cursor' = IF job.at = cursor + 1 THEN job.at ELSE cursor
    /\ acked' = cursor'
    /\ job' = Over
    /\ UNCHANGED <<log, row, granted, phase, epoch, quarantined, handled, todo, ghostVars,
                   left>>

EventStep ==
    \/ Skip \/ FindSettled \/ Requeue \/ Claim \/ CallKnownStart \/ Call
    \/ Complete \/ RefreshCursor \/ MarkRetryable \/ ExpireClaim \/ GiveUp
    \/ MarkUncertain \/ Advance

-----------------------------------------------------------------------------
(* The source: the boot replay and then the live events, in order. *)

Begin(by, n, stage, home, through) ==
    job' = [by |-> by, at |-> n, stage |-> stage, home |-> home, through |-> through]

\* processOrderedEvent.  A deleted thread's caches are cleared, at best effort.
TakeEvent ==
    /\ phase = "live" /\ job = NoJob /\ acked < Len(log)
    /\ LET e == log[acked + 1] IN
        /\ Begin("source", acked + 1, IF Claimed(e) THEN "look" ELSE "advance", 0, 0)
        /\ quarantined' \in IF e.kind = "deleted"
                            THEN {quarantined, quarantined \ {e.thread}}
                            ELSE {quarantined}
    /\ UNCHANGED <<durableVars, phase, epoch, acked, handled, todo, ghostVars, left>>

-----------------------------------------------------------------------------
(* An operator's verdict, and the resumption of an authorized retry. *)

SafeRetry(n) ==
    /\ row' = [row EXCEPT ![n] = Free(@, "retry")]
    /\ granted' = granted \cup {n}
    /\ Begin("operator", n, "look", n, 0)

\* "accepted" and "abandon".
Abandon(n) ==
    /\ row' = [row EXCEPT ![n] = Free(@, "succeeded")]
    /\ Begin("operator", n, "next", n, acked)
    /\ UNCHANGED granted

\* Mutant: the verdict leaves the in-memory quarantine alone.
ReconcileRowOnly(n) ==
    /\ phase \in {"heal", "listed", "live", "halted"} /\ job = NoJob
    /\ left.verdict > 0 /\ Blocks(n)
    /\ SafeRetry(n) \/ Abandon(n)
    /\ handled' \in {handled, handled \ {n}}
    /\ left' = [left EXCEPT !.verdict = @ - 1]
    /\ UNCHANGED <<log, cursor, phase, epoch, acked, quarantined, todo, ghostVars>>

\* reconcileDelivery.  It may come after HANDLED_TURN_START_KEY_TTL.
Reconcile(n) ==
    /\ phase \in {"heal", "listed", "live", "halted"} /\ job = NoJob
    /\ left.verdict > 0 /\ Blocks(n)
    /\ SafeRetry(n) \/ Abandon(n)
    /\ quarantined' = quarantined \ {ThreadOf(n)}
    /\ handled' \in {handled, handled \ {n}}
    /\ left' = [left EXCEPT !.verdict = @ - 1]
    /\ UNCHANGED <<log, cursor, phase, epoch, acked, todo, ghostVars>>

\* The end of resumeRetryableDelivery.
AfterResume ==
    /\ At("resumed")
    /\ IF row[job.home].state = "succeeded"
       THEN /\ quarantined' = quarantined \ {ThreadOf(job.home)}
            /\ job' = [job EXCEPT !.stage = "next", !.through = acked]
       ELSE /\ job' = NoJob
            /\ UNCHANGED quarantined
    /\ UNCHANGED <<durableVars, phase, epoch, acked, handled, todo, ghostVars, left>>

\* replayQuarantinedThreadSideEffects: its next event, or its end.
Replayed ==
    {n \in job.at + 1..job.through :
        ThreadOf(n) = ThreadOf(job.home) /\ SideEffect(log[n])}

ReplayNext ==
    /\ At("next")
    /\ \/ /\ Replayed = {}
          /\ job' = NoJob
       \/ \E n \in Replayed :
            /\ \A m \in Replayed : n <= m
            /\ job' = [job EXCEPT !.at = n, !.stage = "look"]
    /\ UNCHANGED <<durableVars, memoryVars, ghostVars, left>>

ReplayStep == AfterResume \/ ReplayNext

-----------------------------------------------------------------------------
(* Startup, crash, failing statements. *)

StartUp ==
    /\ phase = "down"
    /\ phase' = "heal" /\ epoch' = epoch + 1 /\ acked' = cursor
    /\ UNCHANGED <<durableVars, quarantined, handled, todo, job, ghostVars, left>>

\* The startup abandons a blocker whose error proves that nothing was written.
Heal(n) ==
    /\ phase = "heal" /\ Blocks(n) /\ row[n].proof
    /\ row' = [row EXCEPT ![n] = Free(@, "succeeded")]
    /\ quarantined' = quarantined \ {ThreadOf(n)}
    /\ UNCHANGED <<log, cursor, granted, phase, epoch, acked, handled, todo, job,
                   ghostVars, left>>

\* A failing heal is only logged.
HealEnds ==
    /\ phase = "heal"
    /\ \/ /\ \A n \in Seqs : ~(Blocks(n) /\ row[n].proof)
          /\ UNCHANGED left
       \/ /\ left.fault > 0
          /\ left' = [left EXCEPT !.fault = @ - 1]
    /\ phase' = "listed" /\ todo' = Retryable
    /\ UNCHANGED <<durableVars, epoch, acked, quarantined, handled, job, ghostVars>>

\* The lock is held from the first resumption to the last.
Resume ==
    /\ phase \in {"listed", "resume"} /\ job = NoJob
    /\ \E n \in todo :
        /\ \A m \in todo : n <= m
        /\ todo' = todo \ {n}
        /\ quarantined' = quarantined \ {ThreadOf(n)}
        /\ Begin("boot", n, "look", n, 0)
    /\ phase' = "resume"
    /\ UNCHANGED <<durableVars, epoch, acked, handled, ghostVars, left>>

GoLive ==
    /\ phase \in {"listed", "resume"} /\ job = NoJob /\ todo = {}
    /\ phase' = "live"
    /\ UNCHANGED <<durableVars, epoch, acked, quarantined, handled, todo, job, ghostVars,
                   left>>

BootStep == StartUp \/ (\E n \in Seqs : Heal(n)) \/ HealEnds \/ Resume \/ GoLive

\* The process dies; a failing statement of the startup ends it as well.
Crash ==
    /\ phase # "down" /\ left.crash > 0
    /\ phase' = "down" /\ job' = NoJob
    /\ quarantined' = {} /\ handled' = {} /\ todo' = {} /\ acked' = 0
    /\ left' = [left EXCEPT !.crash = @ - 1]
    /\ UNCHANGED <<durableVars, epoch, ghostVars>>

\* A statement of the delivery repository fails: the source stops for good, an
\* operator is told so.
Fail ==
    /\ job.by \in {"source", "operator"} /\ left.fault > 0
    /\ phase' = IF job.by = "source" THEN "halted" ELSE phase
    /\ job' = NoJob
    /\ left' = [left EXCEPT !.fault = @ - 1]
    /\ UNCHANGED <<durableVars, epoch, acked, quarantined, handled, todo, ghostVars>>

\* The engine commits an event.
Publish ==
    /\ phase # "down" /\ Len(log) < MaxLog
    /\ \E e \in Intent[Len(log) + 1] : log' = Append(log, e)
    /\ UNCHANGED <<cursor, row, granted, memoryVars, job, ghostVars, left>>

Next ==
    \/ EventStep \/ TakeEvent \/ ReplayStep \/ BootStep
    \/ \E n \in Seqs : Reconcile(n)
    \/ Publish
    \/ Crash \/ Fail

Spec == Init /\ [][Next]_vars

\* The reactor's fibers run on, every provider call has a deadline, every lease
\* runs out, and a dead process is started again.
FairSpec == Spec /\ WF_vars(EventStep \/ TakeEvent \/ ReplayStep \/ BootStep)

-----------------------------------------------------------------------------
(* Properties. *)

\* settlement and cursor: whoever settles an event still owns its claim, and the
\* cursor is never behind an event it must pass.  The five Effect.die of the source
\* ("lost settlement ownership", "could not advance", ...) are out of reach.
NeverLosesOwnership ==
    /\ job.stage \in Outcomes \cup {"call"} => Owned(job.at)
    /\ At("claim") => row[job.at].state = "retry"
    /\ job # NoJob => job.at <= cursor + 1

\* A command the provider must not see twice is given to it once, through crashes,
\* expired claims, skips and replays, unless an attempt ended in a persistence
\* error (which the code takes for proof that nothing was sent) or an operator
\* ordered the retry.
NoBlindReplay ==
    \A n \in DOMAIN log :
        ~ReplaySafe(log[n]) /\ n \notin granted \cup faulted => sent[n] <= 1

\* The in-memory quarantine never outlives the durable blocker it was read from:
\* no thread is held back by a cache that no verdict can clear.
QuarantineIsBacked == \A t \in quarantined : HasBlocker(t)

\* Every committed event is passed, or the source has been stopped by a statement
\* of its own that failed: no provider outcome, blocker or verdict stalls it.
EveryEventPasses == []<>(phase = "halted" \/ cursor = Len(log))

\* What becomes of an event, for the abstract ledger.
Fate(n) ==
    CASE row[n].state = "inflight" -> "running"
      [] row[n].state = "succeeded" -> "settled"
      [] Blocks(n) -> "blocked"
      [] row[n].state = "retry" /\ n \in granted -> "due"
      [] OTHER -> "open"

Fates == [n \in Seqs |-> Fate(n)]

Ledger == INSTANCE DeliveryLedger WITH fate <- Fates, runs <- sent

\* The source keeps what DeliveryLedger promises.
ImplementsLedger == Ledger!Spec

\* A command skipped behind a blocker is still going to be replayed: an earlier
\* delivery blocks its thread or is due to be retried at the next start, or the
\* replay after a verdict has yet to reach it.
SkippedAwaitsReplay ==
    \A n \in 1..cursor :
        SideEffect(log[n]) /\ row[n].state = "none" =>
            \/ \E m \in 1..n - 1 :
                ThreadOf(m) = ThreadOf(n) /\ (Blocks(m) \/ m \in Retryable)
            \/ job.home > 0 /\ ThreadOf(job.home) = ThreadOf(n)
               /\ job.at <= n
=============================================================================
