---------------------------- MODULE ThreadDetail ----------------------------
(* The web client's copy of one thread: the store's detail, the event router's   *)
(* bookkeeping (apps/web/src/routes/__root.tsx), the resume cursor and the       *)
(* retention that evicts detail.  The stream is a ThreadFeed.  JavaScript runs   *)
(* one callback at a time; an action is what runs between two awaits.            *)
EXTENDS ThreadFeed, SequencesExt, FiniteSetsExt

CONSTANTS
    Lag,            \* how far a snapshot's label may trail what it shows
    PendingLimit,   \* PENDING_THREAD_EVENT_BUFFER_LIMIT
    Budget          \* bound: how often each kind of outside event happens

Kinds == {"hold", "show", "drop", "evict", "delete", "replay", "reconcile", "break",
          "refuse", "reset"}

ASSUME DetailAssumption ==
    /\ Lag \in Nat
    /\ PendingLimit \in Nat \ {0}
    /\ Budget \in [Kinds -> Nat]

VARIABLES
    stored,         \* the events whose effect the store's detail shows
    synced,         \* threadDetailSyncById is "synced"
    batch,          \* pendingDomainEvents; a flush applies them in order of sequence
    deleted,        \* the store holds a tombstone of the thread
    latest,         \* threadSnapshotSequenceById
    pending,        \* pendingThreadEventsById
    resume,         \* the resume cursor
    replayFlag,     \* threadReplayRequestInFlight
    replays,        \* the replayEvents calls that are out, each its fromSequence
    generation,     \* threadSubscriptionGenerationById; 0: none
    generations,    \* nextThreadSubscriptionGeneration
    checking,       \* threadProjectionReconcileInFlight; 0: none
    checks,         \* the getThreadDetailSnapshot calls that are out
    crossed,        \* ghost: credit or detail was lost under a call that was out
    spilled,        \* ghost: so was an event that waited for a snapshot
    refreshFlag,    \* threadSnapshotRequestInFlight
    refreshAgain,   \* threadSnapshotRefreshPending
    retried,        \* threadSnapshotNotFoundRetryAttempted
    leased,         \* subscribedThreadIds has the thread
    held,           \* retention owns an entry for the thread
    wanted,         \* the lease list last handed to the router has the thread
    subscribed,     \* the transport's threadSubscriptions has the thread
    forsaken,       \* ghost: the last request for a stream was refused for good
    ops,            \* reconcileThreadSubscriptionsChain
    left            \* what is left of Budget

storeVars == <<stored, synced, batch, deleted>>
bookVars == <<latest, pending, resume>>
ghosts == <<crossed, spilled>>
callVars == <<replayFlag, replays, generation, generations, checking, checks, ghosts>>
refreshVars == <<refreshFlag, refreshAgain, retried>>
leaseVars == <<leased, held, wanted, subscribed, forsaken>>
vars == <<feedVars, storeVars, bookVars, callVars, refreshVars, leaseVars, ops, left>>

Op(name, step, with) == [name |-> name, step |-> step, with |-> with]
Ops == [name : {"lease", "drop", "refresh", "reset"}, step : 0..2, with : Cursors]

TypeOK ==
    /\ FeedTypeOK
    /\ stored \subseteq 1..last /\ synced \in BOOLEAN /\ deleted \in BOOLEAN
    /\ batch \subseteq 1..last
    /\ latest \in Cursors /\ resume \in Cursors
    /\ pending \subseteq 1..last /\ Cardinality(pending) <= PendingLimit
    /\ replayFlag \in BOOLEAN /\ replays \in Seq(0..MaxSeq)
    /\ generations \in Nat
    /\ generation \in 0..generations /\ checking \in 0..generations
    /\ checks \in Seq([generation : 1..generations, upto : 0..last \union {NoCursor}])
    /\ crossed \in BOOLEAN /\ spilled \in BOOLEAN
    /\ refreshFlag \in BOOLEAN /\ refreshAgain \in BOOLEAN /\ retried \in BOOLEAN
    /\ leased \in BOOLEAN /\ held \in BOOLEAN /\ wanted \in BOOLEAN
    /\ subscribed \in BOOLEAN /\ forsaken \in BOOLEAN
    /\ ops \in Seq(Ops)
    /\ left \in [Kinds -> Nat] /\ \A k \in Kinds : left[k] <= Budget[k]
    /\ leased <=> generation # 0

Init ==
    /\ FeedInit
    /\ stored = {} /\ synced = FALSE /\ batch = {} /\ deleted = FALSE
    /\ latest = NoCursor /\ pending = {} /\ resume = NoCursor
    /\ replayFlag = FALSE /\ replays = <<>>
    /\ generation = 0 /\ generations = 0 /\ checking = 0 /\ checks = <<>>
    /\ crossed = FALSE /\ spilled = FALSE
    /\ refreshFlag = FALSE /\ refreshAgain = FALSE /\ retried = FALSE
    /\ leased = FALSE /\ held = FALSE /\ wanted = FALSE
    /\ subscribed = FALSE /\ forsaken = FALSE
    /\ ops = <<>> /\ left = Budget

-----------------------------------------------------------------------------
(* Pieces of the handlers.                                                       *)

Spend(k) == left[k] > 0 /\ left' = [left EXCEPT ![k] = @ - 1]

\* advanceThreadDetailResumeCursor
Advanced(c, s) == IF c = NoCursor \/ s > c THEN s ELSE c

\* The events of the journal above a and up to b.
Between(a, b) == {e \in rel \ gone : a < e /\ e <= b}

\* queueDomainEvent for each; cursor and credit move with them.
Queue(events, l, r) ==
    /\ batch' = batch \union events
    /\ latest' = IF events = {} THEN l ELSE Max(events)
    /\ resume' = IF events = {} THEN r ELSE Advanced(r, Max(events))

\* flushThreadBuffer after detail labelled s was applied.
FlushPending(l, r) ==
    /\ pending' = {}
    /\ Queue({e \in pending : e > l}, l, r)

Enqueue(op) == ops' = Append(ops, op)

RequestRefreshNever == UNCHANGED <<refreshFlag, refreshAgain, ops>>

\* refreshThreadSnapshot up to its first await
RequestRefresh ==
    IF refreshFlag
    THEN refreshAgain' = TRUE /\ UNCHANGED <<refreshFlag, ops>>
    ELSE refreshFlag' = TRUE /\ Enqueue(Op("refresh", 0, NoCursor)) /\ UNCHANGED refreshAgain

\* Credit or detail is dropped or set back: a call that is out was made on the
\* strength of it.
Cross == crossed' = (crossed \/ replays # <<>> \/ checks # <<>>) /\ UNCHANGED spilled

WipeKeepsCursor == stored' = {} /\ synced' = FALSE /\ UNCHANGED resume

\* evictThreadDetail and the like: cached detail and resume cursor go together.
Wipe == stored' = {} /\ synced' = FALSE /\ resume' = NoCursor

\* releaseOrphanedThreadDetail for a thread whose lease is gone
FreeOrphan(kept) == IF kept THEN UNCHANGED <<stored, synced, resume>> ELSE Wipe

CanCheckUnleased == checking = 0

CanCheck == leased /\ checking = 0

\* reconcileThreadProjection up to its first await
StartCheck ==
    IF CanCheck
    THEN checking' = generation /\ checks' = Append(checks, [generation |-> generation, upto |-> NoCursor])
    ELSE UNCHANGED <<checking, checks>>

-----------------------------------------------------------------------------
(* The journal and the stream.                                                   *)

JournalGrows ==
    /\ FeedAppend(TRUE)
    /\ UNCHANGED <<storeVars, bookVars, callVars, refreshVars, leaseVars, ops, left>>

StreamAnswers ==
    /\ \/ FeedResume
       \/ \E s, u \in 0..MaxSeq : u - s <= Lag /\ FeedSnapshot(s, u)
       \/ \E e \in Sequences : FeedSend(e)
    /\ UNCHANGED <<storeVars, bookVars, callVars, refreshVars, leaseVars, ops, left>>

\* A lagging subscriber, a lost socket.
StreamBreaks ==
    /\ Spend("break")
    /\ FeedBreak
    /\ UNCHANGED <<storeVars, bookVars, callVars, refreshVars, leaseVars, ops>>

\* The transport opens the stream again with the cursor as it is now; a stream that
\* failed for good it opens with the next connection.
TransportRestarts ==
    /\ subscribed
    /\ FeedSubscribe(resume)
    /\ \/ phase = "broken" /\ UNCHANGED left
       \/ phase = "off" /\ Spend("break")
    /\ forsaken' = FALSE
    /\ UNCHANGED <<storeVars, bookVars, callVars, refreshVars, leased, held, wanted,
                   subscribed, ops>>

-----------------------------------------------------------------------------
(* onThreadEvent                                                                 *)

\* A snapshot replaces the detail, unless the lease or the thread is gone.
ReceiveSnapshot ==
    /\ wire # <<>> /\ Head(wire).kind = "snapshot"
    /\ FeedReceive
    /\ refreshFlag' = FALSE
    /\ LET s == Head(wire).seq
       IN  IF leased /\ ~deleted
           THEN /\ stored' = Between(0, Head(wire).upto) /\ synced' = TRUE
                /\ retried' = FALSE
                /\ FlushPending(s, s)
                /\ IF latest # NoCursor /\ s < latest THEN Cross ELSE UNCHANGED ghosts
           ELSE /\ IF leased THEN stored' = {} /\ synced' = FALSE ELSE UNCHANGED <<stored, synced>>
                /\ latest' = NoCursor /\ pending' = {} /\ resume' = NoCursor
                /\ Cross
                /\ UNCHANGED <<batch, retried>>
    /\ UNCHANGED <<deleted, replayFlag, replays, generation, generations, checking, checks,
                   refreshAgain, leaseVars, ops, left>>

Bounded(S) == IF Cardinality(S) > PendingLimit THEN S \ {Min(S)} ELSE S

\* An event is pushed out of the buffer that a projection read may be too old to show.
Spills(S) ==
    /\ Cardinality(S) > PendingLimit
    /\ \E i \in 1..Len(checks) : checks[i].upto # NoCursor

\* Without a snapshot to stand on, an event waits and the projection is asked.
ReceiveEarlyEvent ==
    /\ wire # <<>> /\ Head(wire).kind = "event"
    /\ latest = NoCursor
    /\ FeedReceive
    /\ pending' = Bounded(pending \union {Head(wire).seq})
    /\ StartCheck
    /\ spilled' = (spilled \/ Spills(pending \union {Head(wire).seq}))
    /\ UNCHANGED <<storeVars, latest, resume, replayFlag, replays, generation, generations,
                   crossed, refreshVars, leaseVars, ops, left>>

ReceiveEvent ==
    /\ wire # <<>> /\ Head(wire).kind = "event"
    /\ latest # NoCursor
    /\ FeedReceive
    /\ Queue({Head(wire).seq} \ 0..latest, latest, resume)
    /\ UNCHANGED <<stored, synced, deleted, pending, callVars, refreshVars, leaseVars, ops, left>>

\* flushPendingDomainEvents
Flush ==
    /\ batch # {}
    /\ stored' = IF deleted THEN stored ELSE stored \union batch
    /\ batch' = {}
    /\ UNCHANGED <<feedVars, synced, deleted, bookVars, callVars, refreshVars, leaseVars, ops, left>>

-----------------------------------------------------------------------------
(* Calls beside the stream.                                                      *)

\* A shell update or the catch-up timer: replayThreadEvents up to its await.
StartReplay ==
    /\ leased /\ ~replayFlag /\ latest # NoCursor
    /\ Spend("replay")
    /\ replayFlag' = TRUE
    /\ replays' = Append(replays, latest)
    /\ UNCHANGED <<feedVars, storeVars, bookVars, generation, generations, checking, checks,
                   ghosts, refreshVars, leaseVars, ops>>

\* The answer holds what follows fromSequence; what the credit covers is skipped.
ReplayStart(from) == IF latest = NoCursor \/ latest < from THEN from ELSE latest

ReplayReturns(i, through) ==
    /\ i \in 1..Len(replays)
    /\ Queue(Between(ReplayStart(replays[i]), through), latest, resume)
    /\ replays' = RemoveAt(replays, i)
    /\ replayFlag' = FALSE
    /\ UNCHANGED <<feedVars, stored, synced, deleted, pending, generation, generations,
                   checking, checks, ghosts, refreshVars, leaseVars, ops, left>>

PollProjection ==
    /\ CanCheck
    /\ Spend("reconcile")
    /\ StartCheck
    /\ UNCHANGED <<feedVars, storeVars, bookVars, replayFlag, replays, generation, generations,
                   ghosts, refreshVars, leaseVars, ops>>

\* The server reads the thread some time before its answer arrives.
ServeCheck(i) ==
    /\ i \in 1..Len(checks)
    /\ checks[i].upto = NoCursor
    /\ checks' = [checks EXCEPT ![i].upto = last]
    /\ UNCHANGED <<feedVars, storeVars, bookVars, replayFlag, replays, generation, generations,
                   checking, ghosts, refreshVars, leaseVars, ops, left>>

CheckAnswered(i) ==
    /\ i \in 1..Len(checks)
    /\ checks' = RemoveAt(checks, i)
    /\ checking' = IF checking = checks[i].generation THEN 0 ELSE checking
    /\ UNCHANGED <<feedVars, deleted, replayFlag, replays, generation, generations, ghosts,
                   refreshVars, leaseVars, ops, left>>

ApplicableThoughOld(g, s) == g = generation

\* A snapshot of an ended subscription, or behind the credit, is not applied.
Applicable(g, s) == g = generation /\ (latest # NoCursor => s >= latest)

\* The rest of reconcileThreadProjection.  The store discards the snapshot of a
\* deleted thread, and with it the cursor that was just advanced.
CheckApplies(i, s) ==
    /\ CheckAnswered(i)
    /\ checks[i].upto # NoCursor
    /\ s <= checks[i].upto /\ checks[i].upto - s <= Lag
    /\ Applicable(checks[i].generation, s)
    /\ IF deleted
       THEN /\ stored' = {} /\ synced' = FALSE
            /\ FlushPending(Advanced(latest, s), NoCursor)
       ELSE /\ stored' = Between(0, checks[i].upto) /\ synced' = TRUE
            /\ FlushPending(Advanced(latest, s), Advanced(resume, s))

\* A stale answer, none, or a failure of the call.
CheckIgnored(i) ==
    /\ CheckAnswered(i)
    /\ UNCHANGED <<stored, synced, batch, bookVars>>

-----------------------------------------------------------------------------
(* Retention, deletion, failure.                                                 *)

\* evictEntry: the store wipes detail and cursor; the router, if it holds a
\* lease, forgets its credit and asks for a fresh snapshot.
Evict ==
    /\ held
    /\ Spend("evict")
    /\ held' = FALSE
    /\ Wipe
    /\ Cross
    /\ IF leased
       THEN latest' = NoCursor /\ pending' = {} /\ RequestRefresh
       ELSE UNCHANGED <<latest, pending, refreshFlag, refreshAgain, ops>>
    /\ UNCHANGED <<feedVars, batch, deleted, replayFlag, replays, generation, generations,
                   checking, checks, retried, leased, wanted, subscribed, forsaken>>

\* removeThreadState with a tombstone
Delete ==
    /\ ~deleted
    /\ Spend("delete")
    /\ deleted' = TRUE
    /\ Wipe
    /\ Cross
    /\ UNCHANGED <<feedVars, batch, latest, pending, replayFlag, replays, generation,
                   generations, checking, checks, refreshVars, leaseVars, ops>>

\* The server refuses the stream, the transport's own retries used up.  Only a
\* THREAD_SNAPSHOT_NOT_FOUND is asked again, once.
StreamFails ==
    /\ phase = "asked" /\ wire = <<>> /\ leased /\ subscribed
    /\ Spend("refuse")
    /\ FeedClose
    /\ resume' = NoCursor
    /\ latest' = NoCursor
    /\ Cross
    /\ refreshAgain' = FALSE
    /\ \/ /\ ~retried /\ ~deleted
          /\ retried' = TRUE /\ refreshFlag' = TRUE /\ Enqueue(Op("refresh", 0, NoCursor))
          /\ UNCHANGED forsaken
       \/ refreshFlag' = FALSE /\ forsaken' = TRUE /\ UNCHANGED <<retried, ops>>
    /\ UNCHANGED <<storeVars, pending, replayFlag, replays, generation, generations, checking,
                   checks, leased, held, wanted, subscribed>>

-----------------------------------------------------------------------------
(* Leases: reconcileThreadSubscriptions, refreshThreadSnapshot and the reset of  *)
(* ensureScopedSubscriptions run one after the other in a chain of promises.     *)

Hold ==
    /\ ~held
    /\ Spend("hold")
    /\ held' = TRUE
    /\ UNCHANGED <<feedVars, storeVars, bookVars, callVars, refreshVars, leased, wanted,
                   subscribed, forsaken, ops>>

\* The lease list changes.  A thread is on it while it is on screen or held; a
\* held one may lose its place to WS_STREAM_LIMITS.threadPerClient.
WantLease ==
    /\ ~wanted
    /\ IF held THEN UNCHANGED left ELSE Spend("show")
    /\ wanted' = TRUE
    /\ Enqueue(Op("lease", 0, NoCursor))
    /\ UNCHANGED <<feedVars, storeVars, bookVars, callVars, refreshVars, leased, held,
                   subscribed, forsaken>>

WantDrop ==
    /\ wanted
    /\ IF held THEN Spend("drop") ELSE UNCHANGED left
    /\ wanted' = FALSE
    /\ Enqueue(Op("drop", 0, NoCursor))
    /\ UNCHANGED <<feedVars, storeVars, bookVars, callVars, refreshVars, leased, held,
                   subscribed, forsaken>>

\* A new connection; waits for the list the router knows then.
Reconnect ==
    /\ Spend("reset")
    /\ Enqueue(Op("reset", 0, NoCursor))
    /\ UNCHANGED <<feedVars, storeVars, bookVars, callVars, refreshVars, leaseVars>>

Running(name, step) == ops # <<>> /\ Head(ops).name = name /\ Head(ops).step = step
GoOn(step, with) == ops' = <<Op(Head(ops).name, step, with)>> \o Tail(ops)
Done == ops' = Tail(ops)

\* unsubscribeThread interrupts the stream and waits until it has stopped.
Unsubscribe == subscribed' = FALSE /\ UNCHANGED feedVars
Stopped == phase = "off"

StreamStops ==
    /\ ~subscribed
    /\ FeedClose
    /\ UNCHANGED <<storeVars, bookVars, callVars, refreshVars, leaseVars, ops, left>>

\* beginThreadSubscription; the input of the subscription is fixed in the same breath.
Begin ==
    /\ leased' = TRUE
    /\ latest' = resume
    /\ pending' = {}
    /\ refreshFlag' = FALSE /\ refreshAgain' = FALSE /\ retried' = FALSE
    /\ checking' = 0
    /\ generations' = generations + 1
    /\ generation' = generations + 1
    /\ GoOn(2, resume)

TakeLease ==
    /\ Running("lease", 0)
    /\ IF leased
       THEN Done /\ UNCHANGED <<leased, latest, pending, refreshVars, checking, generation, generations>>
       ELSE Begin
    /\ UNCHANGED <<feedVars, storeVars, resume, replayFlag, replays, checks, ghosts, held,
                   wanted, subscribed, forsaken, left>>

\* Everything the router keeps for a lease goes; detail nobody owns goes with it.
Release ==
    /\ leased' = FALSE
    /\ latest' = NoCursor /\ pending' = {}
    /\ refreshFlag' = FALSE /\ refreshAgain' = FALSE
    /\ replayFlag' = FALSE /\ checking' = 0 /\ generation' = 0
    /\ Cross
    /\ Unsubscribe

DropLease ==
    /\ Running("drop", 0)
    /\ IF leased
       THEN /\ Release
            /\ GoOn(1, NoCursor)
            /\ retried' = FALSE
            /\ FreeOrphan(held)
       ELSE /\ Done
            /\ UNCHANGED <<feedVars, stored, synced, bookVars, replayFlag, generation, checking,
                           ghosts, refreshVars, leased, subscribed>>
    /\ UNCHANGED <<batch, deleted, replays, generations, checks, held, wanted, forsaken, left>>

DropEnds ==
    /\ Running("drop", 1) /\ Stopped
    /\ Done
    /\ UNCHANGED <<feedVars, storeVars, bookVars, callVars, refreshVars, leaseVars, left>>

\* A reset keeps the detail of a thread that it is about to lease again.
Reset ==
    /\ Running("reset", 0)
    /\ GoOn(1, NoCursor)
    /\ Release
    /\ FreeOrphan(~leased \/ held \/ wanted)
    /\ UNCHANGED <<batch, deleted, replays, generations, checks, retried, held,
                   wanted, forsaken, left>>

LeaseAgain ==
    /\ Running("reset", 1) /\ Stopped
    /\ IF wanted
       THEN Begin
       ELSE Done /\ UNCHANGED <<leased, latest, pending, refreshVars, checking, generation, generations>>
    /\ UNCHANGED <<feedVars, storeVars, resume, replayFlag, replays, checks, ghosts, held,
                   wanted, subscribed, forsaken, left>>

\* subscribeThread, once there is a client.  Without one in time the request is
\* rejected, which its callers swallow.
Subscribe(c) ==
    \/ FeedSubscribe(c) /\ subscribed' = TRUE /\ forsaken' = FALSE /\ UNCHANGED left
    \/ Spend("refuse") /\ forsaken' = TRUE /\ UNCHANGED <<feedVars, subscribed>>

SubscribeThread ==
    /\ Running("lease", 2) \/ Running("reset", 2)
    /\ Subscribe(Head(ops).with)
    /\ Done
    /\ UNCHANGED <<storeVars, bookVars, callVars, refreshVars, leased, held, wanted>>

StopForRefreshUnleased ==
    /\ Running("refresh", 0)
    /\ Unsubscribe
    /\ GoOn(1, NoCursor)
    /\ UNCHANGED <<storeVars, bookVars, callVars, refreshVars, leased, held, wanted, forsaken,
                   left>>

StopForRefresh ==
    /\ Running("refresh", 0)
    /\ leased
    /\ Unsubscribe
    /\ GoOn(1, NoCursor)
    /\ UNCHANGED <<storeVars, bookVars, callVars, refreshVars, leased, held, wanted, forsaken,
                   left>>

\* Every caller wants authoritative history.
ForgetCursor ==
    /\ Running("refresh", 1) /\ Stopped
    /\ resume' = NoCursor
    /\ GoOn(2, NoCursor)
    /\ UNCHANGED <<feedVars, storeVars, latest, pending, callVars, refreshVars, leaseVars, left>>

\* The end of a refresh, with another one if it was asked for meanwhile.
RefreshEnds ==
    /\ refreshAgain' = FALSE
    /\ IF refreshAgain /\ leased
       THEN refreshFlag' = TRUE /\ ops' = Append(Tail(ops), Op("refresh", 0, NoCursor))
       ELSE refreshFlag' = FALSE /\ Done
    /\ UNCHANGED retried

SubscribeForRefresh ==
    /\ Running("refresh", 2)
    /\ Subscribe(NoCursor)
    /\ RefreshEnds
    /\ UNCHANGED <<storeVars, bookVars, callVars, leased, held, wanted>>

RefreshWithoutLease ==
    /\ Running("refresh", 0)
    /\ ~leased
    /\ RefreshEnds
    /\ UNCHANGED <<feedVars, storeVars, bookVars, callVars, leaseVars, left>>

-----------------------------------------------------------------------------
Chain ==
    \/ TakeLease \/ DropLease \/ DropEnds \/ Reset \/ LeaseAgain \/ SubscribeThread
    \/ StopForRefresh \/ ForgetCursor \/ SubscribeForRefresh \/ RefreshWithoutLease

Receive == ReceiveSnapshot \/ ReceiveEarlyEvent \/ ReceiveEvent

Answer ==
    \/ \E i \in 1..Len(replays), t \in 0..last :
          ReplayReturns(i, t)
    \/ \E i \in 1..Len(checks) :
          ServeCheck(i) \/ CheckIgnored(i) \/ \E s \in 0..last : CheckApplies(i, s)

Outside ==
    \/ JournalGrows \/ StreamBreaks \/ StreamFails
    \/ StartReplay \/ PollProjection
    \/ Hold \/ WantLease \/ Evict \/ Delete \/ Reconnect

Next ==
    \/ Outside \/ WantDrop
    \/ StreamAnswers \/ TransportRestarts \/ StreamStops
    \/ Receive \/ Flush \/ Answer \/ Chain

Spec == Init /\ [][Next]_vars

-----------------------------------------------------------------------------
Shown == stored \union batch

Covers(c) == c # NoCursor => Between(0, c) \subseteq Shown

(* A resume cursor exists only while the cached detail is coherent up to it
   (threadDetailResumeCursors.ts:8-15), whatever stream, eviction, leases and calls
   do, as long as no credit, detail or waiting event was lost while a replay or a
   projection read was out. *)
CursorCoherentUnlessCrossed == crossed \/ spilled \/ deleted \/ Covers(resume)

(* So does the router's credit: no event at or below it, which is dropped on
   sight, is missing from the detail. *)
CreditCoherentUnlessCrossed == crossed \/ spilled \/ deleted \/ Covers(latest)

(* When the chain is idle the router leases the thread exactly if the last lease list
   asks for it, and the transport has it then, whatever was asked, reset and refreshed
   meanwhile.  Excepted is a thread whose last request for a stream was refused. *)
LeasesSettle ==
    ops = <<>> =>
        /\ leased = wanted
        /\ subscribed => wanted
        /\ wanted => subscribed \/ forsaken

Fairness ==
    /\ WF_vars(StreamAnswers) /\ WF_vars(phase = "broken" /\ TransportRestarts) /\ WF_vars(StreamStops)
    /\ WF_vars(Receive) /\ WF_vars(Flush) /\ WF_vars(Chain)

FairSpec == Spec /\ Fairness

(* An event of a leased thread is shown in the end: no eviction, broken stream, stream
   that is not found at first, reset or early event leaves the thread blank for good,
   unless its stream was refused. *)
CatchesUp ==
    \A e \in Sequences :
        (e \in rel /\ leased) ~> (e \in stored \/ ~leased \/ deleted \/ forsaken)
=============================================================================
