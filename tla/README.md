# Verification of Quack

TLA+ models of the server's core, of the delivery of commands to providers and of the client's copy of a thread, the TLC runs that check them and TLAPS proofs
about them. Paths in this file are relative to `src/` of the repository.

| module | what it is |
| --- | --- |
| `OrchestrationLog` | abstract specification: what the command engine promises to clients |
| `OrchestrationEngine` | the engine: admission, worker, commit, deferred projection, publication, error path, catch-up, maintenance, stop, crash |
| `OrchestrationEngineProofs` | the engine's invariants and its refinement of `OrchestrationLog`, for all constants |
| `EngineFeedProofs`, `EngineCallProofs` | what the engine shows of its log, and what it owes its callers, for all constants |
| `DrainableWorker` | the bounded single-consumer queue the reactors are built on, with its staged shutdown |
| `DrainableWorkerProofs` | its inductive invariant and what follows from it, for all constants |
| `ThreadFeed` | abstract specification: what one thread subscription promises its client |
| `SnapshotLiveStream` | the server's side of it: cursor-safe stream over the bounded live buffer |
| `SnapshotLiveStreamProofs` | the stream's inductive invariant and its refinement of `ThreadFeed`, for all constants |
| `ThreadDetail` | the web client's side: event router, resume cursor, retention and leases of one thread, over a `ThreadFeed` |
| `ThreadDetailProofs` | the client's leases settle, its cursor and credit are coherent, for all constants |
| `ProviderIntents` | which events of the log the provider command reactor claims, replays, holds back |
| `DeliveryLedger` | abstract specification: what the delivery of provider commands promises |
| `ProviderDelivery` | the reactor's durable source: claims, outcomes, settlement, quarantine, verdicts, startup, crash |
| `ProviderDeliveryProofs` | the delivery's inductive invariant and its refinement of `DeliveryLedger`, for all constants |
| `QueuedTurns` | messages that wait for a turn to end: the promotion table, the reservation of a session, the two fibers that drain |
| `QueuedTurnsProofs` | no message started twice or lost, for all constants |
| `MC*` | small instances of the module of that name, with the `.cfg` files of its runs |

`PROJECT.json` names, for each definition, the lines it translates (`map`), the
runs, one mutant per checked property, the hazards and the theorems.

## 1. Inventory

The repository is a monorepo: a server (`apps/server`) that drives coding agents, a web
client (`apps/web`), a desktop shell (`apps/desktop`) and shared packages. The
server's own logic is event sourced. Clients and reactors dispatch *commands*; the engine
decides each against its read model, appends *events*, projects them into tables and
publishes them; *reactors* consume the published events, talk to provider
processes and git, and dispatch further commands.

**Orchestration engine** (`orchestration/Layers/OrchestrationEngine.ts`, `orchestrationAdmission.ts`).
State: three bounded queues and a wake queue, admission phase and outstanding count, the
in-memory command read model and its sequence, the maintenance lock, the flags of
deferred projection; in the database the log, the receipts and the projectors'
cursors. Operations: dispatch, the worker's command cycle, the error path that reconciles and answers
from the receipt, the catch-up fiber, refresh, repair, quiesce, stop, start.
Hard: a deadline or a defect may strike between any two steps after the commit;
the start sequence is read before the lock; callers give up while their command
starts; ids are retried; the process dies between commit and reply.
Correct when: an id is decided once and every reply is true to the log; consumers
see every event, the first time in order; the reserve for control commands holds; stop loses nothing
and ends.

**Drainable worker** (`packages/shared/src/DrainableWorker.ts`). State: phase,
outstanding count, two Deferreds that are replaced (idle, slot available), a bounded queue,
the consumer fiber. Operations: enqueue (waits), tryEnqueue (refuses), quiesce,
drain, stop, closing of the producers' scope. Hard: Deferreds are chosen in one step and
completed in another; stops overlap. Correct when: counts are exact, no wake-up is
lost, a drain tells the truth, shutdown discards no accepted item.

**Command receipts, event store, projections, snapshot query** (`persistence/Layers/OrchestrationCommandReceipts.ts`,
`OrchestrationEventStore.ts`, `orchestration/Layers/ProjectionPipeline.ts`, `ProjectionSnapshotQuery.ts`).
Tables and cursors. Their transactional behaviour is part of the engine's model. Correct
when a receipt is final and a cursor never stands past an event that was not applied unless the
slip is flagged.

**Live streams** (`wsSnapshotLiveStream.ts`, `wsStreamBackpressure.ts`, `wsRpc.ts`; client side
`apps/web/src/routes/__root.tsx`, `threadDetailResumeCursors.ts`). Attach to the live
feed, snapshot or resume from a cursor, replay to a fence, then live events, with
a bounded lag. Hard: events published while the snapshot is read; overflow;
reconnection with a cursor of detail that was evicted. Correct when the
client's detail covers every relevant event up to its cursor.

**Provider command delivery** (`orchestration/Layers/ProviderCommandReactor.ts`,
`persistence/Layers/OrchestrationEventDeliveries.ts`, `orchestration/providerIntentClassification.ts`). State: a cursor over
the log, a delivery row per claimed event with owner, lease and attempts, operators' verdicts; in
memory the copy of the cursor, the quarantined threads and the turn starts already handled. Operations: claim, the
provider call with its deadline, settlement, retry, terminal failure, skip, reconcile with replay of what was
skipped, startup with self-heal. Hard: a crash between a provider's effect and its record; quarantine read from a cache;
verdicts that move rows behind the cursor. Correct when no command is repeated that the provider may have had, the cursor
passes every event, and a blocked thread is blocked by something a verdict can clear.

**Queued turn promotion** (`persistence/Layers/QueuedTurnPromotions.ts` and the part of `ProviderCommandReactor.ts` that
drains it). State: the rows with their claims; in memory a reservation per provider session, a guard per thread. Operations:
enqueue by a queued or a re-queued start, claim, dispatch, mark, release, the end of a turn, session stop, recovery at start. Hard: two fibers drain,
the live turn is read before an await and used after it, terminal events come late or without an id, dispatch and mark are two
transactions. Correct when each message is started at most once, none is lost, and none waits for an event that has passed.

**Provider runtime journal** (`runtimeJournalPoisonGate.ts`, `ProviderRuntimeIngestion.ts`,
`persistence/Layers/ProviderRuntimeEvents.ts`). Append, read in order, apply, advance; a poisoned
head row is dead-lettered. Correct when no row is skipped that could be applied and no thread is frozen for ever.

**Pending interactions**
(`ProjectionPendingInteractions.ts`), **managed attachments** (`ManagedAttachments.ts`,
`managedAttachmentCleanup.ts`), **turn checkpoints** (`TurnCheckpointCoordinator.ts`),
**automations** (`AutomationService.ts`), **agent gateway creations**
(`creationCoordinator.ts`), **database lifecycle lock and migration backup**
(`DatabaseLifecycleLock.ts`, `MigrationBackup.ts`), **terminals**
(`terminal/Layers/Manager.ts`), **desktop shutdown** (`backendShutdown.ts`): claims, leases and
journals with recovery at start; each has a planned module of its own or a
reason in `PROJECT.json` not to.

**Decider and projector**, **provider adapters**, **git**, **browser and device
automation**, **authentication**, the **user interface**: sequential functions
over large records, or input and output. Not modelled.

Interaction: clients call dispatch through the WebSocket layer; the engine's feed
(`eventPubSub`) drives streams and reactors; reactors dispatch commands back and enqueue
their work on drainable workers; the shutdown sequence (`serverShutdown.ts`) quiesces admission, drains the
reactors and stops the engine last.

## 2. Plan

1. `OrchestrationLog`, `OrchestrationEngine` and their proofs. *Done.*
2. `DrainableWorker` and its proofs. *Done.*
3. `ThreadFeed`, `SnapshotLiveStream`, `ThreadDetail`. *Modelled, checked and proved.*
4. `ProviderIntents`, `DeliveryLedger`, `ProviderDelivery`. *Modelled, checked and proved.*
5. `QueuedTurns`. *Modelled, checked and proved.*
6. `RuntimeJournal`: ingestion with the poison gate.
7. `Attachments`, `Checkpoints`, `Automations`, `LifecycleLock` in that order.
8. `Shutdown`: a composition of engine, workers and producers in the order of `serverShutdown.ts`.

Module 6, which decides whether an event is lost, and 8, which composes what is there, come first if
not all can be done. Each gets one run that checks safety and liveness together, on bounds that TLC exhausts in minutes.

Every safety property of a passing run but `NoneReserved` has its theorem; of the parts modelled so far only liveness is left to TLC.

## 3. The engine

### Correspondence

One action is what runs between two points where the fiber can be interrupted or another fiber can act.
`pc` names those points: `take`, `poll` (a wake token is in hand), `lock` (the envelope is in
hand, the lock is not), `receipt`, `decide`, `assign`, `project`, `publish`, `reply`,
then `finish`; `reconcile` and `resolve` are the error path. The maintenance lock is held from `receipt`
to `resolve`, so `LockFree` is a function of `pc`.

* `Dispatch`, `CallerReceives`, `CallerTimesOut`: `dispatch` with its phase check, its limit per lane and the race of the caller's timer with the start of the command.
* `TakeToken`, `TakeEnvelope`, `StartCommand`, `LookUpReceipt`, `Commit`, `AssignReadModel`, `ProjectDeferred`, `DeferredDone`, `PublishNext`, `ReplyAccepted`, `Finish`: the command cycle. `Commit` is the whole transaction.
* `DeadlineStrikes`, `SectionDies`, `TransactionFails`, `DecisionRejects`, `BuildThrows`: ways to leave it. `Reconcile`, `ResolveFromReceipt`, `ResolveRejected`, `ResolveOther`: the error path.
* `CatchUp*`: the supervised fiber. The flag is cleared after the lock is given back, as in the code.
* `RefreshCommandReadModel`, `RepairState`, `Quiesce`, `Stop`, `StopCompletes`, `CrashAndRestart`.

Data: an event is the envelope that caused it; a command is its id, its content fingerprint and
the owner of its attachments; the read model is the set of sequences folded into it,
with its sequence number apart from it. Time is abstracted: a deadline may strike wherever the
timed section can be interrupted. `Budget` says how often each kind of fault may strike in a run.

### Runs

| run | question | bounds |
| --- | --- | --- |
| `engine_feed` | do live consumers and the read model keep up with the log through deadlines, slipped projections and maintenance? | 3 calls, 2 events each, one of each of these faults |
| `engine_receipts` | is each id decided once and each reply true, through retries, failing statements and a crash? does the engine implement `OrchestrationLog`? | a call, its retry under the same id for another owner, a control call; one of each of five faults |
| `engine_service` | do counts, reserve and stop hold with full queues, and does every call return? | capacity 2, reserve 1; an impatient caller, a defect, a crash |
| `engine_late_deadline` | is a slipped projection always supervised? (violated) | one deadline |

Three calls are the least with a retry, an unrelated command and all three lanes; two events make a
partly published command; one fault of a kind followed by another kind
covers a fault on the path that handles a fault. The theorems of section 8 carry over the safety
properties to any number. `engine_feed` leaves failing reconcile reads off: with one,
the engine only warns, and its feed and read model stay behind the log until
the next failure or restart (a hazard in `PROJECT.json`).

Fairness (`FairSpec`): weak fairness of the worker, the catch-up fiber, stop and
the delivery of a completed Deferred; the Effect scheduler runs every ready fiber. No fairness for
clients, faults or the request to stop.

### Disagreements found

`SlipIsSupervised` states the comment at `OrchestrationEngine.ts:296-297`: when a
deferred projection slips, retries are supervised while idle. It is violated in two ways.

1. A deadline between the commit and the deferred projection: the error path folds and publishes the
   events and neither projects them nor sets the flag; the next command moves the cursor past them
   (`engine_late_deadline`).
2. The catch-up fiber gives the lock back before it clears the flag. A command that commits in
   between is skipped as dirty, no second fiber is started, and the flag is cleared. It takes a
   yield of the scheduler between the two steps. With `Budget <- OneProjection` in place of
   `OneDeadline`, `EngineLateDeadline.cfg` shows this one.

## 4. The drainable worker

`Reserve`, `Release` and `QuiesceAdmission` are the three `Ref.modify`s; `Offer`, `Take`,
`Process`, `Signal`, `Settle` and the controllers' steps interleave between them. Deferreds are
named by generation. `Job` gives each controller its call: quiesce, drain, stop, or the closing of the
producers' scope, which interrupts the producers, waits for them and stops.

| run | question | bounds |
| --- | --- | --- |
| `worker` | counts, wake-ups, drains and shutdown under overlapping controllers, an interrupted item and interrupted calls; do controllers end? | capacity 1, 3 calls (one tryEnqueue, one by a producer), a stop and a closing |

Capacity 1 makes both Deferreds change hands at once. Three calls
refill a full worker while a wake-up is under way. A lone drain or quiesce is a part of stop; other overlaps
and other capacities are covered by the proofs.

Fairness: the scheduler runs ready fibers, `process(item)` ends, and an interrupted producer does not
go on waiting. An item whose processing ends in nothing but an interruption ends the
consumer (line 172): if it leaves items behind in an open queue, nothing returns or ends, so `ControlEnds` excepts exactly
that. The consumer's normal end after `Queue.shutdown` is no exception: the second of two overlapping stops still returns.
`StopIsClean` also says that a worker one of them has stopped stays stopped (a `stop` that marked `draining`
whatever the phase would break it). That a waiting call returns follows from `NoLostWakeup`. The run has no
plain drain with admission open; `WorkerDrainsHonestly` covers it.

## 5. Live streams of a thread

Two models meet in `ThreadFeed`. Its promise: a subscription resumes after the client's cursor
or opens with a snapshot that shows at least what its label says; then no event of the
thread that still exists is passed over; the stream may break at any time. `SnapshotLiveStream`
implements it (`FeedKept`), `ThreadDetail` is built on it, so the client is checked against every
server that keeps the promise.

**Server.** Stages of `makeCursorSafeSnapshotLiveStream`: `attached`, `head`, `snapshot`, `fence`, `replay`,
`live`. Each read is an action; commits, publications, purges and the projectors' cursors move between
any two. `HighWater` is the `MAX(sequence)` of the rows left, so a purge lowers it. `Offer` is the
filter and the ingress count: an event over the capacity fails the live stream after
what was buffered (`LiveFails`). The one-item handoff queue counts into `Capacity`.
An event is its sequence; a snapshot its label (the lowest projector cursor) and the last event it shows. `asked` is a
history variable that maps to the abstract one of that name.

**Client.** An action is what runs between two awaits. `ops` is the promise chain of
`enqueueThreadSubscriptionOperation`: `lease`, `drop`, `refresh` and `reset`, with their steps.
`TakeLease` fixes the cursor with `Begin`, `SubscribeThread` opens the stream later.
An unsubscription interrupts the stream and waits (`StreamStops`); what is in flight may still arrive.
A stream may be asked for in vain, and `forsaken` (a history variable) says that this was how the last request ended. `Subscribe`: without a client the request is rejected before the
transport takes note of the thread (`wsTransport.ts:625`, `961-969`), and both callers swallow that (`__root.tsx:1179`, `1217`): the thread stays leased without a stream
until the next reset or refresh. `StreamFails`: a stream that is refused with `THREAD_SNAPSHOT_NOT_FOUND` is asked
for once more; with another code, such as `STREAM_DUPLICATE_SUBSCRIPTION` after the transport's retries, the router only forgets cursor and credit. The transport keeps such a thread and opens its
stream with the next connection (`TransportRestarts`); until then what was synced stays on the screen without a word, because `markThreadDetailSyncFailed` leaves a synced thread alone (`storeProjection.ts:649-657`).
`stored` is the set of events whose effect the store shows, `batch` the events waiting for the flush, `latest` the router's credit
(`threadSnapshotSequenceById`), `resume` the cursor. Replays and projection reads are sets of outstanding calls; they may be
answered in any order, after any of the above. Retention is one entry that may be evicted at any time,
which is more than the code does for a thread on screen. The two effects of one React commit, which
enqueue the lease list and update the ref the reset reads, are one step.

| run | question | bounds |
| --- | --- | --- |
| `stream` | is `ThreadFeed` implemented, nothing missed at the seam, nothing sent twice? does an event arrive or the stream end, and a purged thread surface? | 3 events, buffer 1, replay limit 1, one purge or one republication |
| `detail_calls` | do cursor and credit vouch only for detail that is there? | 2 events, room for one early event; one each of eviction, replay, projection poll, broken stream, lost lease |
| `detail_liveness` | does the chain settle on the last lease list, and is a leased thread never blank for good? | one each of eviction, deletion, broken stream, refused or rejected request, reset; a lease is lost at no cost once nothing holds it; room for one early event |

Three events put one before, one inside and one after the replay; a limit of 1 makes both the resume and the
refusal reachable. Two events of a thread are the least that can leave a gap. The client's runs take one of each
outside event, which gives every ordered pair of them; labels that trail their snapshots are left to the theorems.

Fairness: the server's fibers, the socket and the client's event loop go on; a stream that broke is
opened again. None for a stream that was refused: the next connection may never come, so `LeasesSettle` and `CatchesUp` except a `forsaken` thread, and nothing else that fails. None for commits, faults, evictions, list changes, or answers to calls.

`CursorCoherentUnlessCrossed` and `CreditCoherentUnlessCrossed` except what happens after credit or detail was lost (evicted, released,
failed, set back by an older snapshot) while a call was out (`crossed`), or an early event was (`spilled`), and a deleted thread; the exceptions are needed, and what they exempt is wrong in the code, if only until the next repair
(`CatchesUp` has neither exception; its run has the projection reads that early events ask for, but no replays):

1. `replayThreadEvents` checks no generation when its answer arrives (`__root.tsx:1463`), and re-creates
   the cursor over wiped detail, against `threadDetailResumeCursors.ts:8-15`.
   If the lease had gone too, the next one resumes from that cursor on top of missing history.
2. A projection read that was out is applied after an eviction though it is older than events that
   have arrived since; the refresh that the eviction asked for repairs it.
3. A stream snapshot older than an applied projection read sets the credit back, and a replay answered then
   jumps over what the stream is about to send; the next projection read repairs it.
4. Events that arrive without a snapshot wait in a buffer of `PENDING_THREAD_EVENT_BUFFER_LIMIT` (512) events, which drops its
   oldest when it is full (`__root.tsx:1678`). A projection read that was served before the dropped event and answered
   after it installs a snapshot without the event; the events still waiting are queued behind it and move cursor and credit over
   the gap. The refresh under way repairs it. The proof attempt showed this one: without `spilled` the coherence
   properties are not preserved, and `detail_calls` violates them once the buffer has room for a single event.

A second divergence from the comments, which the model shows and no run states: the reset reads the lease list before and after an await (`__root.tsx:1305`, `1312`). A
thread that leaves it in between keeps detail that neither a lease nor a retention entry owns, and
`-threadDetailOwnership.ts:10-12` says that such detail "can never be freed again".

Left out: the manual retry of `ChatView`, the fence bookkeeping of ended sessions, a change of server
identity, purges on the client's side, and duplicates: `stored` merges events by identity, while the
reducers append streamed text (a hazard in `PROJECT.json`).

## 6. Provider command delivery

### Correspondence

`startProviderIntentSource` works on one event at a time: whoever holds `deliverySourceLock` is the `job`, on
behalf of the source (`by = "source"`), a resumption at startup or an operator's verdict. Its stages are the
points between two durable writes, or a write and a provider call, where a crash or a failing statement can fall: `look`, `claim`, `call`, then
the outcome, then `refresh` of the copied cursor.

* `TakeEvent`, `Skip`, `FindSettled`, `Requeue`, `ExpireClaim`, `Claim`, `Call`, `CallKnownStart`, `Complete`, `MarkRetryable`, `GiveUp`, `MarkUncertain`, `Advance`: `processOrderedEvent` and `processClaimedProviderIntent`. The three classes of `ProviderIntents` are those of `providerIntentClassification.ts`.
* `SafeRetry`, `Abandon`, `Reconcile`, `ReplayNext`, `AfterResume`: `reconcileDelivery` and the replay of what was skipped.
* `StartUp`, `Heal`, `HealEnds`, `Resume`, `GoLive`, `Crash`, `Fail`: the start of the process, its end, and a statement of the source that fails and stops it.

A command is its thread and its class; a provider call is its outcome, in the classes of
`classifyProviderAttemptOutcome`, and whether the provider may have seen it. Leases are not timed: the model lets only the one process that runs
claim, and a claim of a process that died has expired when it is met. `sent` and `faulted` are history variables.

`DeliveryLedger` says what this amounts to: a cursor that passes an event only when it is settled, blocks its thread, is held back by a
blocker, or is `due`: its retry was ordered by a verdict; runs only under a claim; no claim of what is settled. `ImplementsLedger` maps a row to its fate and `sent` to the runs.

The fate `due` is there because of the refinement's proof. The self-heal of the startup (`ProviderCommandReactor.ts:4008-4055`) moves rows without
`deliverySourceLock`, so an operator's `safe_retry` (line 3933) can order the retry of an event that the cursor has not passed; the cursor then passes it in the
state `retry`, and the end of the startup resumes it. Nothing is lost, but a ledger without `due` forbids the step. It takes two crashes, one fault
and two verdicts, more than the run has; in that instance (457 thousand states) TLC confirms that the ledger with `due` is kept.

### Runs

| run | question | bounds |
| --- | --- | --- |
| `delivery` | is the ledger kept, nothing repeated blindly, no quarantine without a blocker, every event passed? | 3 events of 2 threads in every mix of the classes, 2 attempts, one crash, one failing statement, one verdict |
| `delivery_lost_skip` | is what was skipped behind a blocker still going to be replayed? (violated) | 3 events of one thread, 2 verdicts |

Three events are a blocker, what it holds back or lets through, and what comes behind; one crash may fall before, between
and after the settlement, the verdict and the replay. Two attempts are the least with a retry and an exhausted budget.

Fairness: the holder of the lock goes on (every provider call has a deadline) and a dead process is started again. None for
commits, verdicts, crashes, faults. `EveryEventPasses` excepts a source that was stopped by a statement of its own.

### Disagreement found, and exceptions

`SkippedAwaitsReplay` states `apps/web/src/lib/threadUnblock.ts:42-47`: messages sent while a thread was blocked are dispatched
again once its blockers are reconciled, oldest first. An interrupt is exempt from the quarantine and may itself become a blocker behind a
skipped turn start; abandoning the first blocker replays the turn start, which the second makes the source skip again,
and abandoning the second replays only what follows it. The message is never sent. A crash after a verdict's commit and before the end of its replay
has the same effect.

`NoBlindReplay` excepts attempts that ended in a persistence error: the code retries them, taking the error for proof that
the provider was not reached, though handlers write after their call too. A turn start is not among the victims: its key is found in
`handledTurnStartKeys` (line 2179), and the retry is settled as a success, sent or not (a hazard without a property).

## 7. Queued turns

### Correspondence

One provider session, shared by the threads of `Thread`, of which `Owner` owns it. `row` is `queued_turn_promotions`; as
each event has a sequence of its own and one active row per message is allowed (`Migrations/065`), `enqueue` inserts or does nothing.
`reserved` is the session's entry of `pendingQueuedDispatchBySessionThread`, `draining` the guard, `live` the `activeTurnId` of the session, `ended` the
terminal events between the adapter and the reactor's second fiber. A turn is named by the event that started it.

* The source: `TakeQueued`, `CheckQueued` (`processTurnQueued`), `TakeStart`, `Requeue`, `Bind`, `StartRefused`, `TurnStarts`, `CallFails`, `CallTimesOut`, `Exit` (`processTurnStartRequestedWithoutLease`), `Over`, `SkipStart`, `ExpireClaim` (section 6, reduced to what they do here), `TakeStop`, `StopSession` (`processThreadSessionStop`).
* A drain, by the source or by the fiber of terminal events: `Enter`, `ClaimNext`, `Dispatch`, `Mark`, `Undo`, `DrainFails`.
* The second fiber: `TakeTerminal`. The start: `StartUp`, `Recover`, `GoLive`; terminal events are subscribed to only after the recovery.

A start fails in one of three ways. `CallFails` is the handler of `dispatchTurnForThread` (2330-2362): the failure is shown and the session drained. `StartRefused` is
a failure before that call (the session's row, the attachments: 2243-2266), or of the handler itself: nothing is shown and nothing drained but by `Exit`. `CallTimesOut` is the
deadline, shown only where the session is projected as starting (3338-3341). `Shown` and `Silent` say which: a silent step puts the message into the ghost `untold` unless its event has a row.
Inserts fail (`StatementFails`): of a queued message it is logged and the cursor passes (3507-3514, 3851), of a re-queued start the retry finds its key (2179) and settles it as a
success. A retry is part of the attempt it repeats: no crash comes between the two, and an error of the database after the provider took the turn is left out.

An action ends where the fiber waits for a statement, the engine or the provider. `Dispatch` appends the turn start to the log the source reads, so
the source may handle it before `Mark`.

### Runs

| run | question | bounds |
| --- | --- | --- |
| `queue` | is a message started twice, lost, revived after a stop, or left waiting? is a reservation leaked? | a message of the owner and one of its child, any two of a crash, a failing statement and a stop |
| `queue_stranded` | does a session at rest leave a message in its queue? (violated) | three messages, one of them a steer; no fault |

Two messages are one that runs and one that waits; a message may be queued, re-queued and promoted, so the log of
these runs never passes five events and `MaxLog` cuts nothing off. With all three incidents in one behaviour (`Incidents = 3`, twice
the states) the properties hold as well. Without crashes, faults and stops the properties were also checked with three messages, none a steer, and a log of seven events (1.8 million states).

Fairness: both fibers and the start go on, every provider call has a deadline and every turn ends. None for clients, stops, crashes, faults.

### What the model shows

`NoneStranded` states two comments (`ProviderCommandReactor.ts:2204-2205`, `2384-2388`). It is violated by a turn start that sees a live turn
and enqueues its message after that turn has ended and was drained: `processTurnQueued` has a re-check against this race, the re-queue has none.

`NoneReserved` states that the net under a promoted start that never reaches a turn (`releaseOrphanedQueuedDispatchReservation`, 2142-2147) and the terminal events between them take every reservation
back: through deadlines, refused starts, given-up drains and late ends. It has exceptions, each needed in the bounds of `queue`: the marks `idless`, `unheard`, `failed`, `repeated`, `skipped` (below) and `unmarked`.
In the last the comment is contradicted without any fault: a promoted start
is refused while the drain that dispatched it has yet to mark its row; the net asks `hasQueuedTurnStart` whether the message was re-queued, finds that row still `promoting`, and leaves
the reservation in place (2161-2163). The row is marked, and the reservation, bound to no turn, turns every drain of the session away until a stop, a terminal event without a turn id or a restart.

`NoMessageLost` is not true of every message: the code lets go of some without a word, each of them in `untold` from the step that does it. The steps are

* `TakeQueued`: the insert fails, and the event is passed all the same;
* `Requeue`: the insert fails and the retry is taken for a success; or it does nothing, for the row the start came from is still `promoting`: the drain then marks that row, and the message is in no queue and had no turn;
* `StartRefused`: the attachments are refused before the dispatch;
* `CallTimesOut` and `ExpireClaim`: the deadline strikes while the session is not projected as starting, or the process dies before the settlement; the thread is blocked (an operator sees it), its user is told nothing of the message;
* `SkipStart`: the block of the thread could not be shown.

Of every other message, in the same behaviour too, both properties hold. `EveryMessageSettles` excepts besides behaviours in which one of these races was met
(`marks`): it does not cover what they do wrong. Each is a step the code can
take, and each exception is needed: without it TLC finds a message left waiting for good (in instances of three messages; `repeated` takes a crash
besides, `skipped` a fourth message, `failed` a fault).

* `late`: the race of `queue_stranded`.
* `repeated`: a drain that failed after its dispatch is done again; the dispatch is answered from its receipt, no start follows, and the reservation it took is released by nothing but a stop or a restart (or a terminal event without a turn id).
* `masked`: a failed start releases the reservation and drains the session while the drain that dispatched it is still marking its row; the guard turns the second drain away.
* `idless`: an end without a turn id is taken when the next turn is live; the reservation stays bound to the turn that ended.
* `skipped`: a promoted start fails and drains the next message of its thread before the thread is blocked; that start is then skipped, its reservation stays, and the session's other threads wait.
* `timeout`: a deadline releases the reservation without a drain; what was queued behind waits for another turn.
* `unmarked`: the leak of a reservation described above.
* `unheard`: a turn ends during the start, before terminal events are subscribed to.
* `failed`: a statement of a drain fails; what was queued waits until the next turn of the session ends.

After a stop, a start that
was dispatched before still runs, its row cancelled: `CancelledStaysDead` is about the row.

Left out: providers that take a message into a running turn, edit and resend (`cancelMessage`), deleted threads, a dispatch that the decider refuses during a
checkpoint revert, the interrupt of a child's turn, operators' verdicts. The interrupt of a steer is one of the ways `TurnEnds`.

## 8. Proofs

The theorems hold for every value of the constants that the named assumptions of the modules allow: any number of clients, messages, threads, events,
crashes and faults, any capacity and limit. Each rests on an inductive invariant: the property itself says too little of the state in which a step is taken.
Each invariant was checked by TLC before it was proved.

**The engine** (`OrchestrationEngineProofs`).

* `TypeCorrect`, `AccountingCorrect`, `ReserveCorrect`, `DecidedOnce`, `RepliesAreTrue`: `TypeOK`, `AdmissionAccounting`, `ReserveKept`, `ReceiptsMatchLog`, `AcceptedIsCommitted`;
* `HistoryCorrect`: receipts and the past of the log never change;
* `EngineImplementsLog`: the refinement, initial states and every step.

Admission is inductive alone (`AdmissionStep`). `ReceiptsMatchLog` is not: after a commit the worker still
acts on `first`, `next` and the end of the log, so `JobInv` records what the worker knows of its own
commit until it has replied. `AcceptedIsCommitted` also needs that receipts are kept (`ReceiptsKept`) and
that a call not yet made has no answer. The view invariants bound cursors, read model and feed by the log.

**What the engine shows** (`EngineFeedProofs`): `FeedWithoutGap`, `FeedNeverBehind`, `ToldIsShown`, `DecidedOnAll`, that is `FeedHasNoGap`, `FeedCaughtUp`,
`AcceptedIsPublished` and `DecidesOnWholeLog`. A gap is closed by the error path, which re-reads the log from the sequence at which the worker took its command; so
the invariant says how far the feed (`PlaceInv`) and the read model (`ModelInv`) are at each step of the worker, and that what is missing lies behind that sequence. `RunAppended` is
the lemma on feeds: a gapless feed that covers what is before a run covers the run once it is published. The theorems have the hypothesis `ReadsWork`, that no reconcile read
has failed so far. It is needed: the code only warns of such a failure, and a feed left behind the log by it stays so until the next failure or restart (the hazard of section 3).

**What it owes its callers** (`EngineCallProofs`): `ErrorsAreTrue` and `StopOwesNothing`, that is `FailureWroteNothing` and `StopDrains`. `ServiceInv` says where each call is: in one
place of one lane, in the worker's hands, or answered. `WroteInv` says whose events the log can hold at each step: an error before the commit is of a call that wrote nothing;
after it only the deadline and a defect are possible, and both look the receipt up.

**The drainable worker** (`DrainableWorkerProofs`): type correctness (`WorkerTypes`, which no run repeats) and every safety property of the run `worker`: `WorkerAccounting`, `WorkerWakesUp`,
`WorkerStopsCleanly`, `WorkerDrainsHonestly`, `WorkerPhases`. `WorkerInvariance` is the induction; its parts
are the counts (`CountInv`), the generations of the two Deferreds (`GenInv`), where controllers and calls stand
(`ControlInv`, `DrainInv`, `WaitInv`) and that nothing was discarded (`NoneDropped`). `StopIsClean` rests on
`GenInv`: only when the *current* idle Deferred is completed is the worker idle, and a
controller reads it after admission was closed. That a stop is for good is `StoppedInv`, by `PhaseAdvances`.

**The stream** (`SnapshotLiveStreamProofs`): `StreamTypes`, `NothingTwice` (`SentOnce`) and `StreamKeepsFeed`, the refinement of `ThreadFeed`. What the subscription was asked for after
lies at or below the fence (`StageInv`); what came later was offered to the buffer in the order of its publication, and whatever lies below the head of the buffer was
replayed, sent or purged (`BufInv`); while nothing is published twice the buffer ascends above what was sent (`OnceInv`). `Least` and `Greatest` say what `Min` and `Max` of a set
of sequences are. With 3 events, a buffer of 2, a replay limit of 2 and two purges or republications TLC finds the invariant kept.

**The delivery** (`ProviderDeliveryProofs`): `DeliveryTypes`, `OwnershipKept`, `SentOnce`, `QuarantineBacked` and `LedgerKept`, that is every safety property of the run `delivery` and the
refinement of `DeliveryLedger`. `JobInv` and `RowInv` say what the holder of the lock knows of the row and the cursor of its event;
`AdmittedInv` that nothing else blocks the thread of a command that was admitted until it is settled, though the admission was decided several durable writes before;
`PassInv` what the cursor is about to pass; `OnceInv` that a row that is open again was never sent, is safe to replay, or has a verdict or a persistence error behind it.

**Queued turns** (`QueuedTurnsProofs`): `QueueTypes`, `CancelledForGood`, `StartedOnce`, `NothingVanishes`, that is every safety property of the run `queue` but `NoneReserved`, which TLC checks (also with three messages and no incident). `ShapeInv` is what the two fibers know of
rows, reservations and guards while they wait. `ChainInv` is the argument for `StartsOnce`: the events of a message form a chain, each but the last was dispatched out of the
table by a promotion (`Chained`), so only the last can still be taken (`LastOpen`), and it has no row left once it has started a turn (`TurnTaken`).
`LossInv` follows a message from one place to the next; a message in `untold` is followed no further. TLC checked the three with logs of six events and all three incidents (1.5 million states).

**The client's thread** (`ThreadDetailProofs`): `DetailTypes`, `ChainSettles`, `CursorCoherent`, `CreditCoherent`, that is every safety property of `detail_calls` and `detail_liveness`.
`TypeInv` adds to the types that nothing points past the journal (`BoundInv`) and that the stream in flight ascends behind at most one snapshot (`WireInv`).
`ChainInv` is the argument for `LeasesSettle`: only the first operation of the chain is between two steps (`Tidy`); it determines whether lease and stream are there (`Placed`); the last operation that takes or
drops the lease agrees with the lease list, as only refreshes follow it, and if there is none the lease itself agrees (`Settling`).

The coherence properties say nothing of what is still to come, so they are far from inductive. `CoherenceInv` asks of every event that the stream will not bring any more (`Behind`: at or below the
last item sent, or the cursor asked for or promised, and not in flight) that it is already known: shown, when there is a credit; shown by each projection read of
this lease that was served, or waiting in the buffer, when there is none (`StreamInv`, `EarlyInv`); or below the label of the snapshot that is on the wire, which is newer
than what waits for it (`WaitInv`). `BookInv` is the conclusion: what lies below cursor and credit is shown, the cursor of a lease is covered by its credit and every replay
started at or below it. All but `WaitInv` is under `Sound`, the absence of the exceptions of section 5. There is a lemma for each kind of step: `SnapshotKept`, `EarlyEventKept`, `EventKept`, `ReplayKept`, `CheckKept`, `BeginKept`, and `LostKept` and `QuietKept` for
the steps that lose detail while no call is out, or lose nothing (`LossSteps`, `QuietSteps`). TLC checked the invariants with three events, labels one behind their snapshots and room for one early event (71 thousand states with few incidents,
and 9 million without a violation of an instance with more).

**Only model-checked.** Liveness, which is out of the prover's reach: `EveryCallReturns`, `ControlEnds`, `EventsArrive`, `PurgeSurfaces`, `CatchesUp`, `EveryEventPasses`,
`EveryMessageSettles`.

## 9. Assumed and left out

* Effect's primitives are taken at their documentation: `Ref.modify` is atomic, a bounded queue suspends an offer when full, interrupting a queue lets what is in it be taken, shutting one down discards it, `ensuring` finalizers run uninterrupted.
* SQLite transactions are atomic and durable.
* What deciding, folding and projecting compute; the read model is a set, so folding an event twice shows nothing.
* A repair whose rebuild and whose restore both fail: the code asks for a restart.
* The default limit of 1000 events of the reconcile read.
