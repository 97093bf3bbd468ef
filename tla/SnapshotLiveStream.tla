------------------------- MODULE SnapshotLiveStream -------------------------
(* makeCursorSafeSnapshotLiveStream as subscribeThread runs it for one          *)
(* subscriber, over the bounded live buffer of wsStreamBackpressure.  The       *)
(* journal, the publication of its events and the projection cursor go on       *)
(* between any two of the stream's reads.                                       *)
EXTENDS Integers, Sequences, FiniteSetsExt

CONSTANTS
    MaxSeq,         \* bound: the journal grows to this sequence
    Limit,          \* ORCHESTRATION_SNAPSHOT_REPLAY_LIMIT
    Capacity,       \* live events held before the subscriber counts as lagging
    Window,         \* items in flight between server and client
    Incidents,      \* bound: hard purges and events the engine publishes again
    NoCursor        \* afterSequence is absent

ASSUME StreamAssumption ==
    /\ MaxSeq \in Nat
    /\ Limit \in Nat
    /\ Capacity \in Nat \ {0}
    /\ Window \in Nat \ {0}
    /\ Incidents \in Nat
    /\ NoCursor \notin Int

VARIABLES
    last,       \* highest sequence given out (AUTOINCREMENT)
    rel,        \* the sequences of this thread's events
    gone,       \* the sequences whose rows a hard purge removed
    published,  \* events 1..published have been published once
    projected,  \* the lowest cursor of the projectors a snapshot needs
    stage,      \* where the stream's program stands
    cursor,     \* resumeFromSequence
    asked,      \* ghost: last, when the subscription was asked for
    fence,      \* highWaterSequence
    snap,       \* the snapshot that was read
    pos,        \* the highest sequence the subscriber was sent or credited with
    buf,        \* the live buffer
    lagged,     \* the live stream has failed: onDroppedEvents
    wire,       \* items in flight to the client
    purges, republications      \* spent bounds

journalVars == <<last, rel, gone, published, projected, purges, republications>>
streamVars == <<stage, cursor, asked, fence, snap, pos, buf, lagged, wire>>
vars == <<last, rel, gone, published, projected, stage, cursor, asked, fence, snap, pos,
          buf, lagged, wire, purges, republications>>

-----------------------------------------------------------------------------
\* What the subscriber can tell of the stage.
Phase ==
    CASE stage \in {"attached", "head", "snapshot", "fence"} -> "asked"
      [] stage \in {"replay", "live"} -> "open"
      [] OTHER -> stage

Feed == INSTANCE ThreadFeed WITH phase <- Phase

Sequences == 1..MaxSeq
Cursors == 0..MaxSeq \union {NoCursor}
NoSnapshot == [found |-> FALSE, seq |-> 0, upto |-> 0]
Snapshots == [found : BOOLEAN, seq : 0..MaxSeq, upto : 0..MaxSeq]

\* SELECT MAX(sequence) over the rows that are left.
HighWater == Max({0} \union (1..last \ gone))

ThreadPurged == rel # {} /\ rel \subseteq gone
ThreadExists == rel # {} /\ ~ThreadPurged

Attached == stage \notin {"off", "broken"}

TypeOK ==
    /\ last \in 0..MaxSeq
    /\ rel \subseteq 1..last
    /\ gone \subseteq 1..last
    /\ published \in 0..last
    /\ projected \in 0..last
    /\ stage \in {"off", "attached", "head", "snapshot", "fence", "replay", "live", "broken"}
    /\ cursor \in Cursors
    /\ asked \in 0..last
    /\ fence \in 0..last
    /\ snap \in Snapshots
    /\ pos \in 0..last
    /\ buf \in Seq(Sequences) /\ Len(buf) <= Capacity
    /\ lagged \in BOOLEAN
    /\ wire \in Seq(Feed!Items) /\ Len(wire) <= Window
    /\ purges \in Nat /\ republications \in Nat
    /\ purges + republications <= Incidents

Init ==
    /\ last = 0 /\ rel = {} /\ gone = {}
    /\ published = 0 /\ projected = 0
    /\ stage = "off" /\ cursor = NoCursor /\ asked = 0
    /\ fence = 0 /\ snap = NoSnapshot /\ pos = 0
    /\ buf = <<>> /\ lagged = FALSE /\ wire = <<>>
    /\ purges = 0 /\ republications = 0

-----------------------------------------------------------------------------
(* The engine.  An event is committed together with its effect on the thread's  *)
(* rows, published later, and the lowest projector cursor follows later still.  *)

Commit(mine) ==
    /\ last < MaxSeq
    /\ mine => ~ThreadPurged
    /\ last' = last + 1
    /\ rel' = IF mine THEN rel \union {last + 1} ELSE rel
    /\ UNCHANGED <<gone, published, projected, purges, republications, streamVars>>

OfferOneTooMany(e) ==
    IF e \in rel /\ Attached /\ ~lagged
    THEN IF Len(buf) <= Capacity
         THEN buf' = Append(buf, e) /\ UNCHANGED lagged
         ELSE lagged' = TRUE /\ UNCHANGED buf
    ELSE UNCHANGED <<buf, lagged>>

OfferOrDrop(e) ==
    IF e \in rel /\ Attached /\ ~lagged
    THEN IF Len(buf) < Capacity
         THEN buf' = Append(buf, e) /\ UNCHANGED lagged
         ELSE UNCHANGED <<buf, lagged>>
    ELSE UNCHANGED <<buf, lagged>>

\* Stream.filter, the ingress count with its failure, Stream.buffer.
Offer(e) ==
    IF e \in rel /\ Attached /\ ~lagged
    THEN IF Len(buf) < Capacity
         THEN buf' = Append(buf, e) /\ UNCHANGED lagged
         ELSE lagged' = TRUE /\ UNCHANGED buf
    ELSE UNCHANGED <<buf, lagged>>

Publish ==
    /\ published < last
    /\ published' = published + 1
    /\ Offer(published + 1)
    /\ UNCHANGED <<last, rel, gone, projected, purges, republications,
                   stage, cursor, asked, fence, snap, pos, wire>>

\* The engine's error path publishes what it reads back from the journal.
Republish(e) ==
    /\ purges + republications < Incidents
    /\ e \in 1..published \ gone
    /\ republications' = republications + 1
    /\ Offer(e)
    /\ UNCHANGED <<last, rel, gone, published, projected, purges,
                   stage, cursor, asked, fence, snap, pos, wire>>

Project ==
    /\ projected < last
    /\ projected' = projected + 1
    /\ UNCHANGED <<last, rel, gone, published, purges, republications, streamVars>>

\* The rows of this thread, or of the others, leave the journal.
Purge(rows) ==
    /\ purges + republications < Incidents
    /\ rows # {}
    /\ purges' = purges + 1
    /\ gone' = gone \union rows
    /\ UNCHANGED <<last, rel, published, projected, republications, streamVars>>

PurgeThread == Purge(rel)
PurgeOthers == Purge(1..last \ rel)

-----------------------------------------------------------------------------
(* The stream.                                                                  *)

\* subscribeLive registers the subscription before anything is read.
Subscribe(c) ==
    /\ stage \in {"off", "broken"}
    /\ wire = <<>>
    /\ stage' = IF c = NoCursor THEN "snapshot" ELSE "attached"
    /\ cursor' = c
    /\ asked' = last
    /\ UNCHANGED <<journalVars, fence, snap, pos, buf, lagged, wire>>

ReadHighWater ==
    /\ stage = "attached"
    /\ stage' = "head"
    /\ fence' = HighWater
    /\ UNCHANGED <<journalVars, cursor, asked, snap, pos, buf, lagged, wire>>

CheckGapOnly ==
    /\ stage = "head"
    /\ IF fence - cursor >= 0 /\ fence - cursor <= Limit
       THEN stage' = "replay" /\ pos' = cursor
       ELSE stage' = "snapshot" /\ UNCHANGED pos
    /\ UNCHANGED <<journalVars, cursor, asked, fence, snap, buf, lagged, wire>>

\* resumeSubjectExists, then the test of the gap.
CheckSubject ==
    /\ stage = "head"
    /\ IF ThreadExists /\ fence - cursor >= 0 /\ fence - cursor <= Limit
       THEN stage' = "replay" /\ pos' = cursor
       ELSE stage' = "snapshot" /\ UNCHANGED pos
    /\ UNCHANGED <<journalVars, cursor, asked, fence, snap, buf, lagged, wire>>

\* One transaction reads the thread's rows and the projectors' cursors.
LoadSnapshot ==
    /\ stage = "snapshot"
    /\ stage' = "fence"
    /\ snap' = [found |-> ThreadExists, seq |-> projected, upto |-> last]
    /\ UNCHANGED <<journalVars, cursor, asked, fence, pos, buf, lagged, wire>>

\* The stream's scope closes: subscription, queue and buffer go with it.
End(how) ==
    /\ stage' = how
    /\ cursor' = NoCursor
    /\ asked' = 0
    /\ fence' = 0 /\ snap' = NoSnapshot /\ pos' = 0
    /\ buf' = <<>> /\ lagged' = FALSE

\* ORCHESTRATION_RESNAPSHOT_REQUIRED and THREAD_SNAPSHOT_NOT_FOUND.
Refused == HighWater - snap.seq > Limit \/ ~snap.found

OpenWithSnapshot ==
    /\ stage = "fence"
    /\ ~Refused
    /\ Len(wire) < Window
    /\ stage' = "replay"
    /\ fence' = HighWater
    /\ pos' = snap.seq
    /\ snap' = NoSnapshot
    /\ wire' = Append(wire, Feed!Snapshot(snap.seq, snap.upto))
    /\ UNCHANGED <<journalVars, cursor, asked, buf, lagged>>

Refuse ==
    /\ stage = "fence"
    /\ Refused
    /\ End("broken")
    /\ UNCHANGED <<journalVars, wire>>

ToReplayShort == {e \in rel \ gone : pos < e /\ e < fence}

ToReplay == {e \in rel \ gone : pos < e /\ e <= fence}

Replay ==
    /\ stage = "replay"
    /\ ToReplay # {}
    /\ Len(wire) < Window
    /\ pos' = Min(ToReplay)
    /\ wire' = Append(wire, Feed!EventItem(Min(ToReplay)))
    /\ UNCHANGED <<journalVars, stage, cursor, asked, fence, snap, buf, lagged>>

ReplayDone ==
    /\ stage = "replay"
    /\ ToReplay = {}
    /\ stage' = "live"
    /\ UNCHANGED <<journalVars, cursor, asked, fence, snap, pos, buf, lagged, wire>>

SendLiveUnfenced ==
    /\ stage = "live"
    /\ buf # <<>>
    /\ Len(wire) < Window
    /\ pos' = IF Head(buf) > pos THEN Head(buf) ELSE pos
    /\ buf' = Tail(buf)
    /\ wire' = Append(wire, Feed!EventItem(Head(buf)))
    /\ UNCHANGED <<journalVars, stage, cursor, asked, fence, snap, lagged>>

SendLive ==
    /\ stage = "live"
    /\ buf # <<>> /\ Head(buf) > fence
    /\ Len(wire) < Window
    /\ pos' = IF Head(buf) > pos THEN Head(buf) ELSE pos
    /\ buf' = Tail(buf)
    /\ wire' = Append(wire, Feed!EventItem(Head(buf)))
    /\ UNCHANGED <<journalVars, stage, cursor, asked, fence, snap, lagged>>

\* What is at or below the fence was replayed.
DropLive ==
    /\ stage = "live"
    /\ buf # <<>> /\ Head(buf) <= fence
    /\ buf' = Tail(buf)
    /\ UNCHANGED <<journalVars, stage, cursor, asked, fence, snap, pos, lagged, wire>>

\* The failure of the live stream comes after what was buffered before it.
LiveFails ==
    /\ stage = "live"
    /\ buf = <<>> /\ lagged
    /\ End("broken")
    /\ UNCHANGED <<journalVars, wire>>

\* The socket is lost.
Disconnect ==
    /\ Attached
    /\ End("broken")
    /\ UNCHANGED <<journalVars, wire>>

Receive ==
    /\ wire # <<>>
    /\ wire' = Tail(wire)
    /\ UNCHANGED <<journalVars, stage, cursor, asked, fence, snap, pos, buf, lagged>>

\* The client lets go of the stream and of what is in flight.
Close ==
    /\ stage # "off"
    /\ End("off")
    /\ wire' = <<>>
    /\ UNCHANGED journalVars

StreamStep ==
    \/ ReadHighWater \/ CheckSubject \/ LoadSnapshot \/ OpenWithSnapshot \/ Refuse
    \/ Replay \/ ReplayDone \/ SendLive \/ DropLive \/ LiveFails

Next ==
    \/ \E mine \in BOOLEAN : Commit(mine)
    \/ Publish
    \/ \E e \in Sequences : Republish(e)
    \/ Project
    \/ PurgeThread
    \/ PurgeOthers
    \/ \E c \in 0..last \union {NoCursor} : Subscribe(c)
    \/ StreamStep
    \/ Disconnect
    \/ Receive
    \/ Close

Spec == Init /\ [][Next]_vars

\* The server's fibers and the socket go on; clients and faults need not.
FairSpec == Spec /\ WF_vars(StreamStep) /\ WF_vars(Publish) /\ WF_vars(Receive)

-----------------------------------------------------------------------------
(* Every step of the server keeps the promise of ThreadFeed: no surviving event
   of the thread is passed over, whatever was published, purged or projected
   between the reads. *)
FeedKept == Feed!FeedSpec

(* Replay and live events do not overlap (wsSnapshotLiveStream.ts:53-56): what is
   sent lies after everything sent or credited before, unless the engine
   published it again or its row is gone. *)
SentOnce ==
    [][Len(wire') > Len(wire) /\ stage \in {"replay", "live"} =>
        LET e == wire'[Len(wire')].seq
        IN  e > pos \/ e \in gone \/ republications > 0]_vars

(* An event of the thread reaches the subscriber, or the stream ends: one that
   falls behind the live buffer is not left with a silent gap
   (wsStreamBackpressure.ts, recordThreadStreamDrop). *)
EventsArrive ==
    \A e \in Sequences :
        (e \in rel /\ Attached) ~> (e <= pos \/ e \in gone \/ ~Attached)

(* A thread purged before the subscriber asks is reported, and not resumed as a
   stream of nothing (wsSnapshotLiveStream.ts:29-35). *)
PurgeSurfaces ==
    (ThreadPurged /\ stage \in {"attached", "snapshot"}) ~> ~Attached
=============================================================================
