----------------------------- MODULE ThreadFeed -----------------------------
(* What one thread subscription promises its client, whatever the server does  *)
(* to keep the promise: either the stream resumes after the client's cursor or  *)
(* it opens with a snapshot, and from there on every event of the thread that   *)
(* still exists is sent, the first time in order.  The stream may break at any  *)
(* moment.  An event is its sequence number in the journal.                     *)
EXTENDS Integers, Sequences

CONSTANTS
    MaxSeq,     \* bound: the journal grows to this sequence
    Window,     \* items in flight between server and client
    NoCursor    \* the subscription asks for a snapshot

ASSUME FeedAssumption ==
    /\ MaxSeq \in Nat
    /\ Window \in Nat \ {0}
    /\ NoCursor \notin Int

VARIABLES
    last,       \* highest sequence ever given out
    rel,        \* the sequences of the thread's events
    gone,       \* the sequences whose rows a purge has removed
    phase,      \* of the subscription: "off", "asked", "open", "broken"
    cursor,     \* what the client asked to resume after
    asked,      \* last, when the subscription was asked for
    pos,        \* the client has been sent everything up to here
    wire        \* items sent and not yet received

feedVars == <<last, rel, gone, phase, cursor, asked, pos, wire>>

Sequences == 1..MaxSeq
Cursors == 0..MaxSeq \union {NoCursor}

\* A snapshot is labelled seq and shows the effect of the events up to upto.
Snapshot(s, u) == [kind |-> "snapshot", seq |-> s, upto |-> u]
EventItem(e) == [kind |-> "event", seq |-> e, upto |-> e]
Items == [kind : {"snapshot", "event"}, seq : 0..MaxSeq, upto : 0..MaxSeq]

FeedTypeOK ==
    /\ last \in 0..MaxSeq
    /\ rel \subseteq 1..last
    /\ gone \subseteq 1..last
    /\ phase \in {"off", "asked", "open", "broken"}
    /\ cursor \in Cursors
    /\ asked \in 0..last
    /\ pos \in 0..MaxSeq
    /\ wire \in Seq(Items)

FeedInit ==
    /\ last = 0
    /\ rel = {}
    /\ gone = {}
    /\ phase = "off"
    /\ cursor = NoCursor
    /\ asked = 0
    /\ pos = 0
    /\ wire = <<>>

Put(item) == Len(wire) < Window /\ wire' = Append(wire, item)

\* The journal takes one more event, the thread's or another's.
FeedAppend(mine) ==
    /\ last < MaxSeq
    /\ last' = last + 1
    /\ rel' = IF mine THEN rel \union {last + 1} ELSE rel
    /\ UNCHANGED <<gone, phase, cursor, asked, pos, wire>>

FeedPurge(rows) ==
    /\ rows \subseteq 1..last
    /\ gone' = gone \union rows
    /\ UNCHANGED <<last, rel, phase, cursor, asked, pos, wire>>

\* What was sent before the stream broke is received before a new one opens.
FeedSubscribe(c) ==
    /\ phase \in {"off", "broken"}
    /\ wire = <<>>
    /\ phase' = "asked"
    /\ cursor' = c
    /\ asked' = last
    /\ UNCHANGED <<last, rel, gone, pos, wire>>

FeedResume ==
    /\ phase = "asked"
    /\ cursor # NoCursor
    /\ phase' = "open"
    /\ pos' = cursor
    /\ UNCHANGED <<last, rel, gone, cursor, asked, wire>>

\* The snapshot shows what its label says, and what there was when it was asked for.
FeedSnapshot(s, u) ==
    /\ phase = "asked"
    /\ s <= u /\ asked <= u /\ u <= last
    /\ phase' = "open"
    /\ pos' = s
    /\ Put(Snapshot(s, u))
    /\ UNCHANGED <<last, rel, gone, cursor, asked>>

\* No event that still exists is skipped.
FeedSend(e) ==
    /\ phase = "open"
    /\ e \in rel /\ e > pos
    /\ \A r \in rel \ gone : r <= pos \/ r >= e
    /\ pos' = e
    /\ Put(EventItem(e))
    /\ UNCHANGED <<last, rel, gone, phase, cursor, asked>>

\* The engine may publish an event again.
FeedResend(e) ==
    /\ phase = "open"
    /\ e \in rel /\ e <= pos
    /\ Put(EventItem(e))
    /\ UNCHANGED <<last, rel, gone, phase, cursor, asked, pos>>

FeedBreak ==
    /\ phase \in {"asked", "open"}
    /\ phase' = "broken"
    /\ cursor' = NoCursor
    /\ asked' = 0
    /\ pos' = 0
    /\ UNCHANGED <<last, rel, gone, wire>>

FeedReceive ==
    /\ wire # <<>>
    /\ wire' = Tail(wire)
    /\ UNCHANGED <<last, rel, gone, phase, cursor, asked, pos>>

FeedClose ==
    /\ phase # "off"
    /\ phase' = "off"
    /\ cursor' = NoCursor
    /\ asked' = 0
    /\ pos' = 0
    /\ wire' = <<>>
    /\ UNCHANGED <<last, rel, gone>>

FeedNext ==
    \/ \E mine \in BOOLEAN : FeedAppend(mine)
    \/ \E rows \in SUBSET Sequences : FeedPurge(rows)
    \/ \E c \in Cursors : FeedSubscribe(c)
    \/ FeedResume
    \/ \E s, u \in 0..MaxSeq : FeedSnapshot(s, u)
    \/ \E e \in Sequences : FeedSend(e) \/ FeedResend(e)
    \/ FeedBreak
    \/ FeedReceive
    \/ FeedClose

FeedSpec == FeedInit /\ [][FeedNext]_feedVars
=============================================================================
