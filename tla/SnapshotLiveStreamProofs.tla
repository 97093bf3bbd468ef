---------------------- MODULE SnapshotLiveStreamProofs ----------------------
(***************************************************************************)
(* Theorems about the snapshot and live stream of a thread: it implements  *)
(* ThreadFeed and sends nothing twice, for a journal of any length, any    *)
(* replay limit, buffer, window and number of purges and republications.   *)
(*                                                                         *)
(* What the subscription was asked for after lies at or below the fence;   *)
(* what came later was offered to the buffer in order.  So whatever lies   *)
(* below the head of the buffer was replayed, sent before or is gone.      *)
(***************************************************************************)
EXTENDS SnapshotLiveStream, WellFoundedInduction, TLAPS

\* The event r was sent or replayed, or lies in the first i places of the buffer b.
Seen(r, b, i) ==
    \/ stage = "live" /\ (r <= pos \/ r <= fence)
    \/ \E j \in 1..i : b[j] = r

\* Where the program stands, what it has read holds.
StageInv ==
    /\ stage \in {"attached", "head"} => cursor # NoCursor
    /\ ~Attached => buf = << >> /\ ~lagged
    /\ stage = "fence" => asked <= snap.upto /\ snap.upto <= last /\ snap.seq <= snap.upto
    /\ stage \in {"head", "replay", "live"} => \A r \in rel \ gone : r <= asked => r <= fence
    /\ stage = "live" => \A r \in rel \ gone : r <= fence => r <= pos

\* The buffer holds published events of the thread, and since the subscription was
\* asked for none was left out before one that is in it.
BufInv ==
    /\ \A i \in 1..Len(buf) : buf[i] \in rel /\ buf[i] <= published
    /\ Attached => \A i \in 1..Len(buf) : \A r \in rel :
         asked < r /\ r < buf[i] => Seen(r, buf, i - 1)
    /\ Attached /\ ~lagged => \A r \in rel :
         asked < r /\ r <= published => Seen(r, buf, Len(buf))

\* While nothing is published again the buffer ascends, and behind the fence it
\* lies above what was sent.
OnceInv ==
    republications = 0 =>
        /\ \A i, j \in 1..Len(buf) : i < j => buf[i] < buf[j]
        /\ stage \in {"replay", "live"} =>
             /\ \A e \in 1..last : fence < e /\ e <= pos => e \in gone \/ e <= published
             /\ \A i \in 1..Len(buf) : fence < buf[i] => buf[i] > pos \/ buf[i] \in gone

StreamInv == TypeOK /\ StageInv /\ BufInv /\ OnceInv

-----------------------------------------------------------------------------
(* Extremes of a set of sequences, and what the reads return. *)

LEMMA Least ==
    ASSUME NEW S, S \subseteq Nat, S # {}
    PROVE  Min(S) \in S /\ \A x \in S : Min(S) <= x
<1>1. PICK x \in S : \A y \in S : ~(<<y, x>> \in OpToRel(<, Nat))
  BY NatLessThanWellFounded, WFMin
<1>2. ASSUME NEW y \in S, ~(x <= y) PROVE FALSE
  <2>1. y < x /\ <<y, x>> \in Nat \X Nat
    BY <1>2
  <2>2. <<y, x>> \in OpToRel(<, Nat)
    BY <2>1 DEF OpToRel
  <2> QED
    BY <1>1, <2>2, Zenon
<1> QED
  BY <1>2 DEF Min

LEMMA Greatest ==
    ASSUME NEW k \in Nat, NEW S, S \subseteq 0..k, S # {}
    PROVE  Max(S) \in S /\ \A x \in S : x <= Max(S)
<1> DEFINE D == {k - x : x \in S}
<1>1. D \subseteq Nat /\ D # {}
  <2>1. ASSUME NEW x \in S PROVE k - x \in Nat
    BY <2>1
  <2> QED
    BY <2>1
<1>2. Min(D) \in D /\ \A d \in D : Min(D) <= d
  BY <1>1, Least
<1>3. PICK x \in S : Min(D) = k - x
  BY <1>2
<1>4. ASSUME NEW y \in S PROVE x >= y
  <2>1. k - x <= k - y
    BY <1>2, <1>3
  <2> QED
    BY <2>1
<1> QED
  BY <1>4 DEF Max

LEMMA HighWaterRead ==
    ASSUME TypeOK
    PROVE  HighWater \in 0..last /\ \A e \in (1..last) \ gone : e <= HighWater
<1>1. last \in Nat
  BY StreamAssumption DEF TypeOK, StreamAssumption
<1>2. {0} \union ((1..last) \ gone) \subseteq 0..last
  BY <1>1
<1> QED
  BY <1>1, <1>2, Greatest DEF HighWater

-----------------------------------------------------------------------------
(* Types. *)

LEMMA TypeInit == Init => TypeOK
<1>1. ASSUME Init PROVE TypeOK
  <2>1. /\ MaxSeq \in Nat /\ Capacity \in Nat /\ Window \in Nat /\ Incidents \in Nat
        /\ << >> \in Seq(Sequences) /\ << >> \in Seq(Feed!Items) /\ Len(<< >>) = 0
    BY StreamAssumption DEF StreamAssumption
  <2>2. NoSnapshot \in Snapshots /\ NoCursor \in Cursors
    BY <2>1 DEF NoSnapshot, Snapshots, Cursors
  <2>3. /\ last \in 0..MaxSeq /\ rel \subseteq 1..last /\ gone \subseteq 1..last
        /\ published \in 0..last /\ projected \in 0..last /\ asked \in 0..last
        /\ fence \in 0..last /\ pos \in 0..last
    BY <1>1, <2>1 DEF Init
  <2>4. /\ buf \in Seq(Sequences) /\ Len(buf) <= Capacity
        /\ wire \in Seq(Feed!Items) /\ Len(wire) <= Window
        /\ purges \in Nat /\ republications \in Nat /\ purges + republications <= Incidents
    BY <1>1, <2>1 DEF Init
  <2>5. /\ stage \in {"off", "attached", "head", "snapshot", "fence", "replay", "live", "broken"}
        /\ cursor \in Cursors /\ snap \in Snapshots /\ lagged \in BOOLEAN
    BY <1>1, <2>2 DEF Init
  <2> QED
    BY <2>3, <2>4, <2>5 DEF TypeOK
<1> QED
  BY <1>1

\* What is offered enters the buffer, is too much for it, or is not for this stream.
LEMMA Offered ==
    ASSUME TypeOK, NEW e, Offer(e)
    PROVE  /\ \/ /\ e \in rel /\ Attached /\ ~lagged /\ Len(buf) < Capacity
                 /\ buf' = Append(buf, e) /\ lagged' = FALSE
              \/ e \in rel /\ Attached /\ ~lagged /\ buf' = buf /\ lagged' = TRUE
              \/ ~(e \in rel /\ Attached /\ ~lagged) /\ buf' = buf /\ lagged' = lagged
           /\ buf' \in Seq(Sequences) /\ Len(buf') <= Capacity /\ lagged' \in BOOLEAN
<1>1. /\ lagged \in BOOLEAN /\ buf \in Seq(Sequences) /\ Len(buf) \in Nat
      /\ Len(buf) <= Capacity /\ Capacity \in Nat
      /\ \A x \in rel : x \in Sequences
  BY StreamAssumption DEF TypeOK, StreamAssumption, Sequences
<1>2. \/ /\ e \in rel /\ Attached /\ ~lagged /\ Len(buf) < Capacity
         /\ buf' = Append(buf, e) /\ lagged' = FALSE
      \/ e \in rel /\ Attached /\ ~lagged /\ buf' = buf /\ lagged' = TRUE
      \/ ~(e \in rel /\ Attached /\ ~lagged) /\ buf' = buf /\ lagged' = lagged
  BY <1>1 DEF Offer
<1>3. e \in rel /\ Len(buf) < Capacity =>
        Append(buf, e) \in Seq(Sequences) /\ Len(Append(buf, e)) <= Capacity
  BY <1>1
<1>4. buf' \in Seq(Sequences) /\ Len(buf') <= Capacity /\ lagged' \in BOOLEAN
  BY <1>1, <1>2, <1>3
<1> QED
  BY <1>2, <1>4

\* The engine's steps leave the stream's program, and the wire, alone.
LEMMA TypeStepEngine ==
    ASSUME TypeOK,
           \/ \E mine \in BOOLEAN : Commit(mine)
           \/ Publish \/ (\E e \in Sequences : Republish(e)) \/ Project
           \/ PurgeThread \/ PurgeOthers
    PROVE  TypeOK'
<1>a. /\ last \in 0..MaxSeq /\ MaxSeq \in Nat /\ Incidents \in Nat /\ rel \subseteq 1..last
      /\ gone \subseteq 1..last /\ published \in 0..last /\ projected \in 0..last
      /\ asked \in 0..last /\ fence \in 0..last /\ pos \in 0..last
      /\ purges \in Nat /\ republications \in Nat /\ purges + republications <= Incidents
  BY StreamAssumption DEF TypeOK, StreamAssumption
<1>1. ASSUME NEW mine \in BOOLEAN, Commit(mine) PROVE TypeOK'
  <2>1. /\ last' = last + 1 /\ last' \in 0..MaxSeq
        /\ rel' \subseteq 1..last' /\ gone' \subseteq 1..last'
        /\ published' \in 0..last' /\ projected' \in 0..last' /\ asked' \in 0..last'
        /\ fence' \in 0..last' /\ pos' \in 0..last'
    BY <1>a, <1>1 DEF Commit, streamVars
  <2> QED
    BY <1>1, <2>1 DEF Commit, streamVars, TypeOK
<1>2. CASE Publish
  <2>1. published' \in 0..last
    BY <1>a, <1>2 DEF Publish
  <2>2. Offer(published + 1)
    BY <1>2 DEF Publish
  <2>3. buf' \in Seq(Sequences) /\ Len(buf') <= Capacity /\ lagged' \in BOOLEAN
    BY <2>2, Offered
  <2> QED
    BY <1>2, <2>1, <2>3 DEF Publish, TypeOK
<1>3. ASSUME NEW e \in Sequences, Republish(e) PROVE TypeOK'
  <2>1. republications' \in Nat /\ purges + republications' <= Incidents
    BY <1>a, <1>3 DEF Republish
  <2>2. Offer(e)
    BY <1>3 DEF Republish
  <2>3. buf' \in Seq(Sequences) /\ Len(buf') <= Capacity /\ lagged' \in BOOLEAN
    BY <2>2, Offered
  <2> QED
    BY <1>3, <2>1, <2>3 DEF Republish, TypeOK
<1>4. CASE Project
  BY <1>a, <1>4 DEF Project, streamVars, TypeOK
<1>5. ASSUME NEW rows, rows \subseteq 1..last, Purge(rows) PROVE TypeOK'
  <2>1. purges' \in Nat /\ purges' + republications <= Incidents /\ gone' \subseteq 1..last
    BY <1>a, <1>5 DEF Purge
  <2> QED
    BY <1>5, <2>1 DEF Purge, streamVars, TypeOK
<1>6. CASE PurgeThread \/ PurgeOthers
  BY <1>a, <1>5, <1>6 DEF PurgeThread, PurgeOthers
<1> QED
  BY <1>1, <1>2, <1>3, <1>4, <1>6

\* The least of what is left to replay.
LEMMA NextToReplay ==
    ASSUME TypeOK, ToReplay # {}
    PROVE  /\ Min(ToReplay) \in rel \ gone /\ pos < Min(ToReplay) /\ Min(ToReplay) <= fence
           /\ Min(ToReplay) \in 1..last
           /\ \A r \in rel \ gone : pos < r /\ r <= fence => Min(ToReplay) <= r
<1>1. ToReplay \subseteq rel \ gone /\ rel \subseteq 1..last /\ ToReplay \subseteq Nat
  <2>1. ToReplay \subseteq rel \ gone /\ rel \subseteq 1..last /\ last \in Nat
    BY StreamAssumption DEF TypeOK, ToReplay, StreamAssumption
  <2> QED
    BY <2>1
<1>2. Min(ToReplay) \in ToReplay /\ \A r \in ToReplay : Min(ToReplay) <= r
  BY <1>1, Least
<1> QED
  BY <1>1, <1>2 DEF ToReplay

LEMMA TypeStepStream ==
    ASSUME TypeOK, StageInv, BufInv,
           \/ \E c \in 0..last \union {NoCursor} : Subscribe(c)
           \/ StreamStep \/ Disconnect \/ Receive \/ Close
    PROVE  TypeOK'
<1>a. /\ last \in 0..MaxSeq /\ MaxSeq \in Nat /\ last \in Nat
      /\ asked \in 0..last /\ fence \in 0..last /\ pos \in 0..last /\ projected \in 0..last
      /\ rel \subseteq 1..last
      /\ buf \in Seq(Sequences) /\ Len(buf) <= Capacity /\ Capacity \in Nat
      /\ wire \in Seq(Feed!Items) /\ Len(wire) <= Window /\ Window \in Nat
  BY StreamAssumption DEF TypeOK, StreamAssumption
<1>b. /\ NoSnapshot \in Snapshots /\ NoCursor \in Cursors
      /\ << >> \in Seq(Sequences) /\ Len(<< >>) <= Capacity
      /\ << >> \in Seq(Feed!Items) /\ Len(<< >>) <= Window
  BY <1>a DEF NoSnapshot, Snapshots, Cursors
<1>c. \A x \in Feed!Items : Len(wire) < Window =>
        Append(wire, x) \in Seq(Feed!Items) /\ Len(Append(wire, x)) <= Window
  BY <1>a
<1>d. buf # << >> =>
        /\ Tail(buf) \in Seq(Sequences) /\ Len(Tail(buf)) <= Capacity
        /\ Head(buf) \in Sequences
  BY <1>a
<1>1. ASSUME NEW c \in 0..last \union {NoCursor}, Subscribe(c) PROVE TypeOK'
  <2>1. c \in Cursors
    BY <1>a DEF Cursors
  <2> QED
    BY <1>a, <1>1, <2>1 DEF Subscribe, journalVars, TypeOK
<1>2. CASE ReadHighWater
  BY <1>2, HighWaterRead DEF ReadHighWater, journalVars, TypeOK
<1>3. CASE CheckSubject
  <2>1. pos' \in 0..last
    BY <1>a, <1>3, StreamAssumption DEF CheckSubject, TypeOK, Cursors, StreamAssumption
  <2> QED
    BY <1>3, <2>1 DEF CheckSubject, journalVars, TypeOK
<1>4. CASE LoadSnapshot
  <2>1. snap' \in Snapshots
    BY <1>a, <1>4 DEF LoadSnapshot, Snapshots, ThreadExists
  <2> QED
    BY <1>4, <2>1 DEF LoadSnapshot, journalVars, TypeOK
<1>5. CASE OpenWithSnapshot
  <2>1. snap \in Snapshots /\ Feed!Snapshot(snap.seq, snap.upto) \in Feed!Items
    BY DEF TypeOK, Snapshots, Feed!Snapshot, Feed!Items
  <2>2. pos' \in 0..last /\ fence' \in 0..last
    <3>1. snap.seq \in Nat /\ snap.upto \in Nat
      BY <1>a, <2>1 DEF Snapshots
    <3> QED
      BY <1>a, <1>5, <3>1, HighWaterRead DEF OpenWithSnapshot, StageInv
  <2>3. wire' \in Seq(Feed!Items) /\ Len(wire') <= Window
    BY <1>c, <1>5, <2>1 DEF OpenWithSnapshot
  <2> QED
    BY <1>5, <1>b, <2>2, <2>3 DEF OpenWithSnapshot, journalVars, TypeOK
<1>6. ASSUME NEW how \in {"off", "broken"}, End(how), UNCHANGED journalVars,
             wire' \in {wire, << >>}
      PROVE  TypeOK'
  <2>1. wire' \in Seq(Feed!Items) /\ Len(wire') <= Window
    BY <1>a, <1>b, <1>6
  <2>2. 0 \in 0..last
    BY <1>a
  <2> QED
    BY <1>b, <1>6, <2>1, <2>2 DEF End, journalVars, TypeOK
<1>7. CASE Refuse \/ LiveFails \/ Disconnect \/ Close
  BY <1>6, <1>7 DEF Refuse, LiveFails, Disconnect, Close
<1>8. CASE Replay
  <2>1. Min(ToReplay) \in 1..last
    BY <1>8, NextToReplay DEF Replay
  <2>2. Min(ToReplay) \in 0..last /\ Feed!EventItem(Min(ToReplay)) \in Feed!Items
    BY <1>a, <2>1 DEF Feed!EventItem, Feed!Items
  <2>3. wire' \in Seq(Feed!Items) /\ Len(wire') <= Window
    BY <1>c, <1>8, <2>2 DEF Replay
  <2> QED
    BY <1>8, <2>2, <2>3 DEF Replay, journalVars, TypeOK
<1>9. CASE ReplayDone
  BY <1>9 DEF ReplayDone, journalVars, TypeOK
<1>10. ASSUME buf # << >>, Head(buf) \in rel, SendLive PROVE TypeOK'
  <2>1. Head(buf) \in 0..last /\ Feed!EventItem(Head(buf)) \in Feed!Items
    BY <1>a, <1>d, <1>10 DEF Feed!EventItem, Feed!Items, Sequences
  <2>2. wire' \in Seq(Feed!Items) /\ Len(wire') <= Window
    BY <1>c, <1>10, <2>1 DEF SendLive
  <2>3. pos' \in 0..last
    BY <1>a, <1>10, <2>1 DEF SendLive
  <2>4. buf' \in Seq(Sequences) /\ Len(buf') <= Capacity
    BY <1>d, <1>10 DEF SendLive
  <2> QED
    BY <1>10, <2>2, <2>3, <2>4 DEF SendLive, journalVars, TypeOK
<1>11. CASE SendLive
  <2>1. buf # << >> /\ Head(buf) \in rel
    <3>1. buf # << >> /\ Head(buf) = buf[1] /\ 1 \in 1..Len(buf)
      BY <1>a, <1>11 DEF SendLive
    <3> QED
      BY <3>1 DEF BufInv
  <2> QED
    BY <1>10, <1>11, <2>1
<1>12. CASE DropLive
  BY <1>d, <1>12 DEF DropLive, journalVars, TypeOK
<1>13. CASE Receive
  <2>1. wire' \in Seq(Feed!Items) /\ Len(wire') <= Window
    BY <1>a, <1>13 DEF Receive
  <2> QED
    BY <1>13, <2>1 DEF Receive, journalVars, TypeOK
<1> QED
  BY <1>1, <1>2, <1>3, <1>4, <1>5, <1>7, <1>8, <1>9, <1>11, <1>12, <1>13 DEF StreamStep

LEMMA TypeStep ==
    ASSUME TypeOK, StageInv, BufInv, [Next]_vars
    PROVE  TypeOK'
<1>1. CASE UNCHANGED vars
  BY <1>1 DEF vars, TypeOK
<1> QED
  BY <1>1, TypeStepEngine, TypeStepStream DEF Next

-----------------------------------------------------------------------------
(* What the program has read. *)

LEMMA StageStep ==
    ASSUME TypeOK, StageInv, BufInv, [Next]_vars
    PROVE  StageInv'
<1>a. /\ last \in Nat /\ MaxSeq \in Nat /\ rel \subseteq 1..last /\ gone \subseteq 1..last
      /\ asked \in 0..last /\ fence \in 0..last /\ pos \in 0..last /\ projected \in 0..last
      /\ lagged \in BOOLEAN
      /\ stage \in {"off", "attached", "head", "snapshot", "fence", "replay", "live", "broken"}
      /\ snap.seq \in Nat /\ snap.upto \in Nat
  <2>1. last \in Nat /\ MaxSeq \in Nat
    BY StreamAssumption DEF TypeOK, StreamAssumption
  <2>2. snap.seq \in Nat /\ snap.upto \in Nat
    BY <2>1 DEF TypeOK, Snapshots
  <2> QED
    BY <2>1, <2>2 DEF TypeOK
<1>1. CASE UNCHANGED vars
  BY <1>1 DEF vars, StageInv, Attached
<1>2. ASSUME NEW mine \in BOOLEAN, Commit(mine) PROVE StageInv'
  BY <1>a, <1>2 DEF Commit, streamVars, StageInv, Attached
<1>3. CASE Publish
  BY <1>a, <1>3, Offered DEF Publish, StageInv, Attached
<1>4. ASSUME NEW e \in Sequences, Republish(e) PROVE StageInv'
  BY <1>a, <1>4, Offered DEF Republish, StageInv, Attached
<1>5. CASE Project \/ PurgeThread \/ PurgeOthers
  BY <1>5 DEF Project, PurgeThread, PurgeOthers, Purge, streamVars, StageInv, Attached
<1>6. ASSUME NEW c \in 0..last \union {NoCursor}, Subscribe(c) PROVE StageInv'
  BY <1>6 DEF Subscribe, journalVars, StageInv, Attached
<1>7. CASE ReadHighWater
  BY <1>a, <1>7, HighWaterRead DEF ReadHighWater, journalVars, StageInv, Attached
<1>8. CASE CheckSubject
  BY <1>8 DEF CheckSubject, journalVars, StageInv, Attached
<1>9. CASE LoadSnapshot
  BY <1>a, <1>9 DEF LoadSnapshot, journalVars, StageInv, Attached
<1>10. CASE OpenWithSnapshot
  BY <1>a, <1>10, HighWaterRead DEF OpenWithSnapshot, journalVars, StageInv, Attached
<1>11. CASE Refuse \/ LiveFails \/ Disconnect \/ Close
  BY <1>11 DEF Refuse, LiveFails, Disconnect, Close, End, journalVars, StageInv, Attached
<1>12. CASE Replay \/ Receive
  BY <1>12 DEF Replay, Receive, journalVars, StageInv, Attached
<1>13. CASE ReplayDone
  BY <1>a, <1>13 DEF ReplayDone, ToReplay, journalVars, StageInv, Attached
<1>14. CASE SendLive
  <2>1. buf # << >> => Head(buf) \in Sequences
    BY DEF TypeOK
  <2>2. pos' >= pos /\ pos' \in Nat
    BY <1>a, <1>14, <2>1 DEF SendLive, Sequences
  <2>3. \A r \in rel : r \in Nat
    BY <1>a
  <2> QED
    BY <1>a, <1>14, <2>2, <2>3 DEF SendLive, journalVars, StageInv, Attached
<1>15. CASE DropLive
  BY <1>15 DEF DropLive, journalVars, StageInv, Attached
<1> QED
  BY <1>1, <1>2, <1>3, <1>4, <1>5, <1>6, <1>7, <1>8, <1>9, <1>10, <1>11, <1>12, <1>13, <1>14,
     <1>15
     DEF Next, StreamStep

-----------------------------------------------------------------------------
(* The buffer. *)

\* A longer buffer shows no less.
LEMMA SeenInLonger ==
    ASSUME NEW b \in Seq(Nat), NEW e \in Nat, NEW r, NEW i \in 0..Len(b), Seen(r, b, i)
    PROVE  Seen(r, Append(b, e), i)
<1>1. \A j \in 1..i : Append(b, e)[j] = b[j]
  OBVIOUS
<1> QED
  BY <1>1 DEF Seen

\* An offer keeps the order of the buffer.
LEMMA BufOffered ==
    ASSUME TypeOK, BufInv, NEW e \in Nat, Offer(e),
           e <= published', published' = published \/ (published' = published + 1 /\ e = published'),
           UNCHANGED <<rel, stage, asked, pos, fence>>
    PROVE  BufInv'
<1> DEFINE k == Len(buf) + 1
<1>a. /\ buf \in Seq(Nat) /\ Len(buf) \in Nat /\ published \in Nat /\ asked \in Nat
      /\ \A r \in rel : r \in Nat
      /\ stage' = stage /\ (Attached' <=> Attached)
  <2>1. MaxSeq \in Nat /\ last \in Nat
    BY StreamAssumption DEF TypeOK, StreamAssumption
  <2> QED
    BY <2>1 DEF TypeOK, Sequences, Attached
<1>b. \A r, b, i : Seen(r, b, i)' <=> Seen(r, b, i)
  BY DEF Seen
<1>c. \A r \in rel : r <= published' => r <= published \/ r = e
  BY <1>a
<1>1. CASE /\ e \in rel /\ Attached /\ ~lagged
           /\ buf' = Append(buf, e) /\ lagged' = FALSE
  <2>1. /\ Len(buf') = k /\ buf'[k] = e /\ \A i \in 1..Len(buf) : buf'[i] = buf[i]
        /\ \A i \in 1..k : i \in 1..Len(buf) \/ i = k
        /\ k - 1 = Len(buf) /\ k \in Nat /\ k >= 1
    BY <1>a, <1>1
  <2> HIDE DEF k
  <2>2. \A i \in 1..Len(buf') : buf'[i] \in rel' /\ buf'[i] <= published'
    BY <1>a, <1>1, <2>1 DEF BufInv
  <2>3. ASSUME NEW i \in 1..Len(buf'), NEW r \in rel, asked < r, r < buf'[i]
        PROVE  Seen(r, buf', i - 1)
    <3>1. CASE i \in 1..Len(buf)
      <4>1. Seen(r, buf, i - 1) /\ i - 1 \in 0..Len(buf)
        BY <1>a, <1>1, <2>1, <2>3, <3>1 DEF BufInv
      <4> QED
        BY <1>a, <1>1, <4>1, SeenInLonger
    <3>2. CASE i = k
      <4>1. r <= published
        BY <1>a, <1>c, <2>1, <2>3, <3>2
      <4>2. Seen(r, buf, Len(buf))
        BY <1>1, <2>3, <4>1 DEF BufInv
      <4>3. Seen(r, buf', Len(buf))
        BY <1>a, <1>1, <4>2, SeenInLonger
      <4> QED
        BY <2>1, <3>2, <4>3
    <3> QED
      BY <2>1, <3>1, <3>2
  <2>4. ASSUME NEW r \in rel, asked < r, r <= published'
        PROVE  Seen(r, buf', Len(buf'))
    <3>1. CASE r = e
      BY <2>1, <3>1 DEF Seen
    <3>2. CASE r <= published
      <4>1. Seen(r, buf, Len(buf))
        BY <1>1, <2>4, <3>2 DEF BufInv
      <4>2. Seen(r, buf', Len(buf))
        BY <1>a, <1>1, <4>1, SeenInLonger
      <4> QED
        BY <2>1, <4>2 DEF Seen
    <3> QED
      BY <1>c, <2>4, <3>1, <3>2
  <2> QED
    BY <2>2, <2>3, <2>4 DEF BufInv, Seen
<1>2. CASE buf' = buf /\ (lagged' \/ ~(e \in rel /\ Attached)) /\ (lagged => lagged')
  <2>1. \A i \in 1..Len(buf') : buf'[i] \in rel' /\ buf'[i] <= published'
    BY <1>a, <1>2 DEF BufInv
  <2>2. Attached' => \A i \in 1..Len(buf') : \A r \in rel' :
            asked' < r /\ r < buf'[i] => Seen(r, buf, i - 1)'
    <3>1. ASSUME Attached, NEW i \in 1..Len(buf), NEW r \in rel, asked < r, r < buf[i]
          PROVE  Seen(r, buf, i - 1)'
      <4>1. Seen(r, buf, i - 1)
        BY <3>1 DEF BufInv
      <4> QED
        BY <1>2, <1>b, <4>1
    <3>2. rel' = rel /\ asked' = asked /\ buf' = buf
      BY <1>2
    <3> QED
      BY <1>a, <3>1, <3>2
  <2>3. Attached' /\ ~lagged' => \A r \in rel' :
            asked' < r /\ r <= published' => Seen(r, buf, Len(buf))'
    BY <1>a, <1>c, <1>2 DEF BufInv, Seen
  <2> QED
    BY <2>1, <2>2, <2>3 DEF BufInv
<1> QED
  BY <1>1, <1>2, Offered

\* The head of the buffer leaves it once it is sent or known to be replayed.
LEMMA BufTaken ==
    ASSUME TypeOK, BufInv, stage = "live", buf # << >>, buf' = Tail(buf),
           UNCHANGED <<rel, stage, asked, fence, published, lagged>>, pos' \in Nat,
           pos <= pos', Head(buf) <= pos' \/ Head(buf) <= fence
    PROVE  BufInv'
<1>a. /\ buf \in Seq(Nat) /\ Len(buf) \in Nat /\ pos \in Nat /\ fence \in Nat
      /\ \A r \in rel : r \in Nat
  <2>1. MaxSeq \in Nat /\ last \in Nat
    BY StreamAssumption DEF TypeOK, StreamAssumption
  <2> QED
    BY <2>1 DEF TypeOK, Sequences
<1>b. /\ Head(buf) = buf[1] /\ Len(buf') = Len(buf) - 1 /\ Len(buf) >= 1
      /\ \A i \in 1..Len(buf') : buf'[i] = buf[i + 1] /\ i + 1 \in 1..Len(buf)
  BY <1>a
<1>c. ASSUME NEW r \in rel, NEW i \in 1..Len(buf), Seen(r, buf, i)
      PROVE  Seen(r, buf, i - 1)'
  <2>1. CASE r <= pos \/ r <= fence
    BY <1>a, <2>1 DEF Seen
  <2>2. CASE \E j \in 1..i : buf[j] = r
    <3>1. PICK j \in 1..i : buf[j] = r
      BY <2>2
    <3>2. CASE j = 1
      BY <1>a, <1>b, <3>1, <3>2 DEF Seen
    <3>3. CASE j # 1
      <4>1. j - 1 \in 1..(i - 1) /\ j - 1 \in 1..Len(buf') /\ (j - 1) + 1 = j
        BY <1>a, <1>b, <3>1, <3>3
      <4>2. buf'[j - 1] = r
        BY <1>b, <3>1, <4>1
      <4> QED
        BY <4>1, <4>2 DEF Seen
    <3> QED
      BY <3>2, <3>3
  <2> QED
    BY <1>c, <2>1, <2>2 DEF Seen
<1>1. \A i \in 1..Len(buf') : buf'[i] \in rel' /\ buf'[i] <= published'
  BY <1>b DEF BufInv
<1>2. ASSUME NEW i \in 1..Len(buf'), NEW r \in rel', asked' < r, r < buf'[i]
      PROVE  Seen(r, buf, i - 1)'
  <2>1. i + 1 \in 1..Len(buf) /\ buf'[i] = buf[i + 1] /\ (i + 1) - 1 = i /\ i \in 1..Len(buf)
    BY <1>a, <1>b
  <2>2. Seen(r, buf, i)
    <3>1. Attached /\ r \in rel /\ asked < r /\ r < buf[i + 1]
      BY <1>2, <2>1 DEF Attached
    <3>2. Seen(r, buf, (i + 1) - 1)
      BY <2>1, <3>1 DEF BufInv
    <3> QED
      BY <2>1, <3>2
  <2> QED
    BY <1>2, <1>c, <2>1, <2>2
<1>3. ASSUME ~lagged', NEW r \in rel', asked' < r, r <= published'
      PROVE  Seen(r, buf, Len(buf))'
  <2>1. PICK k : k = Len(buf)
    OBVIOUS
  <2>2. Seen(r, buf, k)
    BY <1>3, <2>1 DEF BufInv, Attached
  <2>3. Seen(r, buf, k - 1)'
    BY <1>3, <1>a, <1>b, <1>c, <2>1, <2>2
  <2> QED
    BY <1>b, <2>1, <2>3 DEF Seen
<1> QED
  BY <1>1, <1>2, <1>3 DEF BufInv

LEMMA BufStep ==
    ASSUME TypeOK, StageInv, BufInv, [Next]_vars
    PROVE  BufInv'
<1>a. /\ last \in Nat /\ MaxSeq \in Nat /\ rel \subseteq 1..last /\ published \in 0..last
      /\ pos \in Nat /\ fence \in Nat /\ asked \in 0..last
      /\ Len(buf) \in Nat /\ \A i \in 1..Len(buf) : buf[i] \in Nat
      /\ (buf # << >> => Head(buf) \in Nat)
      /\ \A r \in rel : r \in Nat /\ r <= last
  <2>1. last \in Nat /\ MaxSeq \in Nat
    BY StreamAssumption DEF TypeOK, StreamAssumption
  <2>2. buf \in Seq(Nat)
    BY <2>1 DEF TypeOK, Sequences
  <2> QED
    BY <2>1, <2>2 DEF TypeOK
\* The buffer stays, and the stream is no less far.
<1>k. ASSUME UNCHANGED <<rel, asked, published, buf, lagged>>, Attached' => Attached,
             stage = "live" /\ Attached' => stage' = "live" /\ fence' = fence /\ pos' = pos
      PROVE  BufInv'
  <2>1. ASSUME Attached', NEW r, NEW i, Seen(r, buf, i) PROVE Seen(r, buf, i)'
    BY <1>k, <2>1 DEF Seen
  <2> QED
    BY <1>k, <2>1 DEF BufInv
<1>n. ASSUME buf' = << >>, ~Attached' PROVE BufInv'
  BY <1>n DEF BufInv
<1>1. CASE UNCHANGED vars
  BY <1>1, <1>k DEF vars, Attached
<1>2. ASSUME NEW mine \in BOOLEAN, Commit(mine) PROVE BufInv'
  <2>1. /\ rel' \subseteq rel \union {last + 1} /\ rel \subseteq rel' /\ published < last + 1
        /\ UNCHANGED <<stage, asked, published, pos, fence, buf, lagged>>
    BY <1>a, <1>2 DEF Commit, streamVars
  <2>2. \A r, i : Seen(r, buf, i)' <=> Seen(r, buf, i)
    BY <2>1 DEF Seen
  <2>3. Attached' <=> Attached
    BY <2>1 DEF Attached
  <2>4. \A r \in rel' : (r <= published \/ \E i \in 1..Len(buf) : r < buf[i]) => r \in rel
    BY <1>a, <2>1 DEF BufInv
  <2>5. \A i \in 1..Len(buf') : buf'[i] \in rel' /\ buf'[i] <= published'
    BY <2>1 DEF BufInv
  <2>6. ASSUME Attached, NEW i \in 1..Len(buf), NEW r \in rel', asked < r, r < buf[i]
        PROVE  Seen(r, buf, i - 1)
    BY <2>4, <2>6 DEF BufInv
  <2>7. ASSUME Attached, ~lagged, NEW r \in rel', asked < r, r <= published
        PROVE  Seen(r, buf, Len(buf))
    BY <2>4, <2>7 DEF BufInv
  <2> QED
    BY <2>1, <2>2, <2>3, <2>5, <2>6, <2>7 DEF BufInv
<1>3. CASE Publish
  <2>1. Offer(published + 1) /\ published' = published + 1 /\ published + 1 \in Nat
    BY <1>a, <1>3 DEF Publish
  <2> QED
    BY <1>a, <1>3, <2>1, BufOffered DEF Publish
<1>4. ASSUME NEW e \in Sequences, Republish(e) PROVE BufInv'
  <2>1. Offer(e) /\ e <= published' /\ e \in Nat
    BY <1>a, <1>4 DEF Republish, Sequences
  <2> QED
    BY <1>4, <2>1, BufOffered DEF Republish
<1>5. CASE Project \/ PurgeThread \/ PurgeOthers
  BY <1>5, <1>k DEF Project, PurgeThread, PurgeOthers, Purge, streamVars, Attached
<1>6. ASSUME NEW c \in 0..last \union {NoCursor}, Subscribe(c) PROVE BufInv'
  <2>1. /\ buf = << >> /\ buf' = buf /\ asked' = last /\ published' = published /\ rel' = rel
    BY <1>6 DEF Subscribe, StageInv, Attached, journalVars
  <2>2. \A r \in rel' : ~(asked' < r)
    BY <1>a, <2>1
  <2> QED
    BY <2>1, <2>2 DEF BufInv
<1>7. CASE ReadHighWater \/ CheckSubject \/ LoadSnapshot \/ OpenWithSnapshot \/ Replay
           \/ ReplayDone \/ Receive
  BY <1>7, <1>k
     DEF ReadHighWater, CheckSubject, LoadSnapshot, OpenWithSnapshot, Replay, ReplayDone,
         Receive, journalVars, Attached
<1>8. CASE Refuse \/ LiveFails \/ Disconnect \/ Close
  BY <1>8, <1>n DEF Refuse, LiveFails, Disconnect, Close, End, Attached
<1>9. CASE SendLive
  <2>1. pos' \in Nat /\ pos <= pos' /\ Head(buf) <= pos'
    BY <1>a, <1>9 DEF SendLive
  <2> QED
    BY <1>9, <2>1, BufTaken DEF SendLive, journalVars
<1>10. CASE DropLive
  BY <1>a, <1>10, BufTaken DEF DropLive, journalVars
<1> QED
  BY <1>1, <1>2, <1>3, <1>4, <1>5, <1>6, <1>7, <1>8, <1>9, <1>10 DEF Next, StreamStep

-----------------------------------------------------------------------------
(* Nothing twice. *)

LEMMA OnceStep ==
    ASSUME StreamInv, [Next]_vars
    PROVE  OnceInv'
<1> SUFFICES ASSUME republications' = 0
             PROVE  /\ \A i, j \in 1..Len(buf') : i < j => buf'[i] < buf'[j]
                    /\ stage' \in {"replay", "live"} =>
                         /\ \A e \in 1..last' : fence' < e /\ e <= pos' =>
                              e \in gone' \/ e <= published'
                         /\ \A i \in 1..Len(buf') : fence' < buf'[i] =>
                              buf'[i] > pos' \/ buf'[i] \in gone'
  BY DEF OnceInv
<1> DEFINE Above(g, p, f, l, c) == \A e \in 1..l : f < e /\ e <= p => e \in g \/ e <= c
           Ahead(b, g, p, f) == \A i \in 1..Len(b) : f < b[i] => b[i] > p \/ b[i] \in g
           Ascends(b) == \A i, j \in 1..Len(b) : i < j => b[i] < b[j]
           Open(x) == x \in {"replay", "live"}
<1> DEFINE Goal == /\ Ascends(buf')
                   /\ Open(stage') => /\ Above(gone', pos', fence', last', published')
                                      /\ Ahead(buf', gone', pos', fence')
<1> SUFFICES Goal
  OBVIOUS
<1>a. /\ TypeOK /\ StageInv /\ BufInv
      /\ last \in Nat /\ MaxSeq \in Nat /\ rel \subseteq 1..last /\ published \in 0..last
      /\ pos \in 0..last /\ fence \in 0..last /\ gone \subseteq 1..last /\ cursor \in Cursors
      /\ buf \in Seq(Nat) /\ Len(buf) \in Nat /\ republications \in Nat
      /\ \A i \in 1..Len(buf) : buf[i] \in Nat /\ buf[i] \in 1..last /\ buf[i] <= published
  <2>1. TypeOK /\ StageInv /\ BufInv
    BY DEF StreamInv
  <2>2. last \in Nat /\ MaxSeq \in Nat
    BY <2>1, StreamAssumption DEF TypeOK, StreamAssumption
  <2>3. buf \in Seq(Nat)
    BY <2>1, <2>2 DEF TypeOK, Sequences
  <2> QED
    BY <2>1, <2>2, <2>3 DEF TypeOK, BufInv
<1>b. republications = 0 => /\ Ascends(buf)
                            /\ Open(stage) => /\ Above(gone, pos, fence, last, published)
                                              /\ Ahead(buf, gone, pos, fence)
  BY DEF StreamInv, OnceInv
<1> HIDE DEF Above, Ahead, Ascends, Open, Goal
<1>k. ASSUME UNCHANGED <<gone, pos, fence, last, published, buf, republications>>,
             Open(stage') => Open(stage)
      PROVE  Goal
  BY <1>k, <1>b DEF Goal
<1>n. ASSUME ~Open(stage'), buf' = << >> PROVE Goal
  BY <1>n DEF Goal, Ascends
<1>p. ASSUME buf' = buf, UNCHANGED republications, Above(gone', pos', fence', last', published'),
             Ahead(buf, gone', pos', fence')
      PROVE  Goal
  BY <1>p, <1>b DEF Goal
<1>1. CASE UNCHANGED vars
  BY <1>1, <1>k DEF vars
<1>2. ASSUME NEW mine \in BOOLEAN, Commit(mine) PROVE Goal
  <2>1. /\ last' = last + 1
        /\ UNCHANGED <<gone, stage, pos, fence, published, buf, republications>>
    BY <1>2 DEF Commit, streamVars
  <2>2. Above(gone, pos, fence, last, published) => Above(gone, pos, fence, last + 1, published)
    BY <1>a DEF Above
  <2> QED
    BY <1>b, <2>1, <2>2 DEF Goal
<1>3. CASE Publish
  <2>1. /\ published' = published + 1
        /\ UNCHANGED <<gone, stage, pos, fence, last, republications>>
        /\ published < last
    BY <1>3 DEF Publish
  <2>2. buf' \in {buf, Append(buf, published + 1)}
    BY <1>3, <1>a, Offered DEF Publish
  <2>3. Ascends(buf) => Ascends(Append(buf, published + 1))
    BY <1>a DEF Ascends
  <2>4. Above(gone, pos, fence, last, published) => Above(gone, pos, fence, last, published + 1)
    BY <1>a DEF Above
  <2>5. ASSUME Above(gone, pos, fence, last, published), Ahead(buf, gone, pos, fence)
        PROVE  Ahead(Append(buf, published + 1), gone, pos, fence)
    <3>1. fence < published + 1 => published + 1 > pos \/ published + 1 \in gone
      BY <1>a, <2>1, <2>5 DEF Above
    <3> QED
      BY <1>a, <2>5, <3>1 DEF Ahead
  <2> QED
    BY <1>b, <2>1, <2>2, <2>3, <2>4, <2>5 DEF Goal
<1>4. ASSUME NEW e \in Sequences, Republish(e) PROVE Goal
  BY <1>4, <1>a DEF Republish
<1>5. CASE Project
  BY <1>5, <1>k DEF Project, streamVars
<1>6. CASE PurgeThread \/ PurgeOthers
  <2>1. gone \subseteq gone' /\ UNCHANGED <<stage, pos, fence, last, published, buf, republications>>
    BY <1>6 DEF PurgeThread, PurgeOthers, Purge, streamVars
  <2>2. /\ Above(gone, pos, fence, last, published) => Above(gone', pos, fence, last, published)
        /\ Ahead(buf, gone, pos, fence) => Ahead(buf, gone', pos, fence)
    BY <2>1 DEF Above, Ahead
  <2> QED
    BY <1>b, <2>1, <2>2 DEF Goal
<1>7. ASSUME NEW c \in 0..last \union {NoCursor}, Subscribe(c) PROVE Goal
  <2>1. ~Open(stage')
    BY <1>7 DEF Subscribe, Open
  <2>2. buf' = << >>
    BY <1>7, <1>a DEF Subscribe, StageInv, Attached
  <2> QED
    BY <1>n, <2>1, <2>2
<1>8. CASE ReadHighWater \/ LoadSnapshot
  <2>1. ~Open(stage') /\ buf' = buf /\ republications' = republications
    BY <1>8 DEF ReadHighWater, LoadSnapshot, journalVars, Open
  <2> QED
    BY <1>b, <2>1 DEF Goal
<1>9. CASE CheckSubject
  <2>1. CASE stage' = "snapshot"
    <3>1. ~Open(stage') /\ buf' = buf /\ republications' = republications
      BY <1>9, <2>1 DEF CheckSubject, journalVars, Open
    <3> QED
      BY <1>b, <3>1 DEF Goal
  <2>2. CASE stage' # "snapshot"
    <3>1. cursor \in Nat
      BY <1>9, <1>a DEF CheckSubject, StageInv, Cursors
    <3>2. pos' = cursor /\ cursor <= fence
          /\ UNCHANGED <<gone, fence, last, published, buf, republications>>
      BY <1>9, <1>a, <2>2, <3>1 DEF CheckSubject, journalVars
    <3>3. Above(gone, pos', fence, last, published) /\ Ahead(buf, gone, pos', fence)
      BY <1>a, <3>1, <3>2 DEF Above, Ahead
    <3> QED
      BY <1>p, <3>2, <3>3
  <2> QED
    BY <2>1, <2>2
<1>10. CASE OpenWithSnapshot
  <2>1. UNCHANGED <<gone, last, published, buf, republications>> /\ fence' = HighWater
    BY <1>10 DEF OpenWithSnapshot, journalVars
  <2>2. \A e \in 1..last : HighWater < e => e \in gone
    BY <1>a, HighWaterRead
  <2>3. Above(gone, pos', HighWater, last, published) /\ Ahead(buf, gone, pos', HighWater)
    BY <1>a, <2>2 DEF Above, Ahead
  <2> QED
    BY <1>p, <2>1, <2>3
<1>11. CASE Refuse \/ LiveFails \/ Disconnect \/ Close
  BY <1>11, <1>n DEF Refuse, LiveFails, Disconnect, Close, End, Open
<1>12. CASE Replay
  <2>1. pos' = Min(ToReplay) /\ UNCHANGED <<gone, fence, last, published, buf, republications>>
    BY <1>12 DEF Replay, journalVars
  <2>2. Min(ToReplay) \in Nat /\ Min(ToReplay) <= fence
    BY <1>12, <1>a, NextToReplay DEF Replay
  <2>3. Above(gone, pos', fence, last, published) /\ Ahead(buf, gone, pos', fence)
    BY <1>a, <2>1, <2>2 DEF Above, Ahead
  <2> QED
    BY <1>p, <2>1, <2>3
<1>13. CASE ReplayDone \/ Receive
  BY <1>13, <1>k DEF ReplayDone, Receive, journalVars, Open
<1>14. CASE SendLive \/ DropLive
  <2>1. /\ UNCHANGED <<gone, stage, fence, last, published, republications>>
        /\ stage = "live" /\ buf # << >> /\ buf' = Tail(buf)
        /\ pos' = pos \/ (pos' = Head(buf) /\ Head(buf) > pos)
    BY <1>14 DEF SendLive, DropLive, journalVars
  <2>2. /\ Head(buf) = buf[1] /\ 1 \in 1..Len(buf) /\ Len(Tail(buf)) = Len(buf) - 1
        /\ \A i \in 1..Len(Tail(buf)) : Tail(buf)[i] = buf[i + 1] /\ i + 1 \in 1..Len(buf)
    BY <1>a, <2>1
  <2>3. Ascends(buf) /\ Above(gone, pos, fence, last, published) /\ Ahead(buf, gone, pos, fence)
    BY <1>a, <1>b, <2>1 DEF Open
  <2>4. Ascends(Tail(buf))
    BY <1>a, <2>2, <2>3 DEF Ascends
  <2>5. Above(gone, pos', fence, last, published)
    BY <1>a, <2>1, <2>2, <2>3 DEF Above
  <2>6. ASSUME NEW i \in 1..Len(Tail(buf)), fence < Tail(buf)[i]
        PROVE  Tail(buf)[i] > pos' \/ Tail(buf)[i] \in gone
    <3>1. Tail(buf)[i] = buf[i + 1] /\ i + 1 \in 1..Len(buf) /\ 1 < i + 1
      BY <1>a, <2>2
    <3>2. buf[1] < buf[i + 1]
      BY <2>2, <2>3, <3>1 DEF Ascends
    <3>3. buf[i + 1] > pos \/ buf[i + 1] \in gone
      BY <2>3, <2>6, <3>1 DEF Ahead
    <3> QED
      BY <2>1, <2>2, <3>1, <3>2, <3>3
  <2>7. Ahead(Tail(buf), gone, pos', fence)
    BY <2>6 DEF Ahead
  <2> QED
    BY <2>1, <2>4, <2>5, <2>7 DEF Goal
<1> QED
  BY <1>1, <1>2, <1>3, <1>4, <1>5, <1>6, <1>7, <1>8, <1>9, <1>10, <1>11, <1>12, <1>13, <1>14
     DEF Next, StreamStep

LEMMA StreamInvariance ==
    /\ Init => StreamInv
    /\ StreamInv /\ [Next]_vars => StreamInv'
<1>1. ASSUME Init PROVE StreamInv
  <2>1. StageInv /\ BufInv /\ OnceInv
    BY <1>1 DEF Init, StageInv, BufInv, OnceInv, Attached
  <2> QED
    BY <1>1, <2>1, TypeInit DEF StreamInv
<1>2. ASSUME StreamInv, [Next]_vars PROVE StreamInv'
  BY <1>2, TypeStep, StageStep, BufStep, OnceStep DEF StreamInv
<1> QED
  BY <1>1, <1>2

LEMMA InStream == Spec => []StreamInv
BY StreamInvariance, PTL DEF Spec

(* The buffers, cursors and items of the stream are of their types and within   *)
(* their bounds: no more than Capacity live events wait, no more than Window     *)
(* items are in flight.                                                         *)
THEOREM StreamTypes == Spec => []TypeOK
<1>1. StreamInv => TypeOK
  BY DEF StreamInv
<1> QED
  BY <1>1, InStream, PTL

(* What a stream sends lies after everything sent or credited before: a replayed *)
(* event by the order of the replay, a live one because the buffer ascends and   *)
(* what lies between fence and position has been sent or is gone.                *)
THEOREM NothingTwice == Spec => SentOnce
<1> DEFINE A == Len(wire') > Len(wire) /\ stage \in {"replay", "live"} =>
                  LET e == wire'[Len(wire')].seq
                  IN  e > pos \/ e \in gone \/ republications > 0
<1>1. ASSUME StreamInv, [Next]_vars PROVE [A]_vars
  <2> SUFFICES ASSUME Len(wire') > Len(wire), stage \in {"replay", "live"}
               PROVE  LET e == wire'[Len(wire')].seq
                      IN  e > pos \/ e \in gone \/ republications > 0
    OBVIOUS
  <2>a. /\ TypeOK /\ StageInv /\ BufInv /\ OnceInv
        /\ wire \in Seq(Feed!Items) /\ Len(wire) \in Nat /\ republications \in Nat
    BY <1>1 DEF StreamInv, TypeOK
  <2>1. ASSUME NEW e, wire' = Append(wire, Feed!EventItem(e))
        PROVE  wire'[Len(wire')].seq = e
    BY <2>a, <2>1 DEF Feed!EventItem
  <2>2. Replay \/ SendLive
    <3>1. ~(wire' = wire) /\ ~(wire' = << >>) /\ ~(wire # << >> /\ wire' = Tail(wire))
      BY <2>a
    <3>2. ~OpenWithSnapshot
      BY DEF OpenWithSnapshot
    <3> QED
      BY <1>1, <3>1, <3>2
         DEF Next, StreamStep, Commit, Publish, Republish, Project, PurgeThread, PurgeOthers,
             Purge, Subscribe, ReadHighWater, CheckSubject, LoadSnapshot, Refuse, ReplayDone,
             DropLive, LiveFails, Disconnect, Receive, Close, End, streamVars, vars
  <2>3. CASE Replay
    <3>1. wire'[Len(wire')].seq = Min(ToReplay)
      BY <2>1, <2>3 DEF Replay
    <3>2. pos < Min(ToReplay) /\ Min(ToReplay) \in 1..last /\ pos \in 0..last /\ last \in 0..MaxSeq
      BY <2>3, <2>a, NextToReplay DEF Replay, TypeOK
    <3> QED
      BY <3>1, <3>2
  <2>4. CASE SendLive
    <3>1. wire'[Len(wire')].seq = Head(buf)
      BY <2>1, <2>4 DEF SendLive
    <3>2. Head(buf) = buf[1] /\ 1 \in 1..Len(buf) /\ fence < buf[1] /\ stage = "live"
      <4>1. buf # << >> /\ buf \in Seq(Sequences) /\ Head(buf) > fence /\ stage = "live"
        BY <2>4, <2>a DEF SendLive, TypeOK
      <4>2. Head(buf) = buf[1] /\ 1 \in 1..Len(buf)
        BY <4>1
      <4> QED
        BY <4>1, <4>2
    <3>3. republications = 0 => buf[1] > pos \/ buf[1] \in gone
      BY <2>a, <3>2 DEF OnceInv
    <3> QED
      BY <2>a, <3>1, <3>2, <3>3
  <2> QED
    BY <2>2, <2>3, <2>4
<1> QED
  BY <1>1, InStream, PTL DEF Spec, SentOnce

-----------------------------------------------------------------------------
(* The stream implements ThreadFeed. *)

LEMMA FeedInitially == Init => Feed!FeedInit
BY DEF Init, Feed!FeedInit, Phase

\* The least sequence that may still be replayed is the next event of the feed.
LEMMA ReplaySends ==
    ASSUME StreamInv, Replay
    PROVE  \E e \in Feed!Sequences : Feed!FeedSend(e)
<1> DEFINE e == Min(ToReplay)
<1>1. TypeOK /\ last \in 0..MaxSeq /\ pos \in 0..last /\ fence \in 0..last /\ MaxSeq \in Nat
      /\ \A r \in rel : r \in 1..last
  BY StreamAssumption DEF StreamInv, TypeOK, StreamAssumption
<1>2. /\ e \in rel \ gone /\ pos < e /\ e <= fence /\ e \in 1..last
      /\ \A r \in rel \ gone : pos < r /\ r <= fence => e <= r
  BY <1>1, NextToReplay DEF Replay
<1>3. \A r \in rel \ gone : r <= pos \/ r >= e
  BY <1>1, <1>2
<1>4. Phase = "open" /\ Phase' = Phase
  BY DEF Replay, Phase
<1>5. Feed!FeedSend(e)
  BY <1>2, <1>3, <1>4, <1>1 DEF Replay, journalVars, Feed!FeedSend, Feed!Put
<1>6. e \in Feed!Sequences
  BY <1>1, <1>2 DEF Feed!Sequences
<1> QED
  BY <1>5, <1>6

\* The head of the buffer is the next event of the feed, unless it was sent before.
LEMMA LiveSends ==
    ASSUME StreamInv, SendLive
    PROVE  \E e \in Feed!Sequences : Feed!FeedSend(e) \/ Feed!FeedResend(e)
<1> DEFINE e == Head(buf)
<1>1. /\ TypeOK /\ StageInv /\ BufInv /\ last \in 0..MaxSeq /\ pos \in 0..last
      /\ fence \in 0..last /\ MaxSeq \in Nat /\ asked \in 0..last
      /\ \A r \in rel : r \in 1..last
  BY StreamAssumption DEF StreamInv, TypeOK, StreamAssumption
<1>2. e = buf[1] /\ 1 \in 1..Len(buf) /\ e > fence /\ stage = "live" /\ Attached
  <2>1. buf # << >> /\ buf \in Seq(Sequences) /\ e > fence /\ stage = "live"
    BY <1>1 DEF SendLive, TypeOK
  <2>2. e = buf[1] /\ 1 \in 1..Len(buf)
    BY <2>1
  <2> QED
    BY <2>1, <2>2 DEF Attached
<1>3. e \in rel /\ e \in 1..last
  BY <1>1, <1>2 DEF BufInv
<1>4. Phase = "open" /\ Phase' = Phase
  BY DEF SendLive, Phase
<1>5. ASSUME e > pos PROVE Feed!FeedSend(e)
  <2>1. ASSUME NEW r \in rel \ gone PROVE r <= pos \/ r >= e
    <3> SUFFICES ASSUME ~(r <= pos), ~(r >= e) PROVE FALSE
      OBVIOUS
    <3>1. r \in Nat /\ r < e /\ r > pos
      BY <1>1, <1>3
    <3>2. ~(r <= fence) /\ ~(r <= asked)
      BY <1>1, <1>2 DEF StageInv
    <3>3. Seen(r, buf, 1 - 1)
      BY <1>1, <1>2, <3>1, <3>2 DEF BufInv
    <3> QED
      BY <3>1, <3>2, <3>3 DEF Seen
  <2> QED
    BY <1>1, <1>3, <1>4, <1>5, <2>1 DEF SendLive, journalVars, Feed!FeedSend, Feed!Put
<1>6. ASSUME ~(e > pos) PROVE Feed!FeedResend(e)
  BY <1>1, <1>3, <1>4, <1>6 DEF SendLive, journalVars, Feed!FeedResend, Feed!Put
<1>7. e \in Feed!Sequences
  BY <1>1, <1>3 DEF Feed!Sequences
<1> QED
  BY <1>5, <1>6, <1>7

LEMMA SnapshotOpens ==
    ASSUME StreamInv, OpenWithSnapshot
    PROVE  \E s, u \in 0..MaxSeq : Feed!FeedSnapshot(s, u)
<1>1. /\ last \in 0..MaxSeq /\ MaxSeq \in Nat /\ asked \in 0..last
      /\ snap.seq \in 0..MaxSeq /\ snap.upto \in 0..MaxSeq
      /\ asked <= snap.upto /\ snap.upto <= last /\ snap.seq <= snap.upto
  BY StreamAssumption
     DEF StreamInv, TypeOK, StageInv, OpenWithSnapshot, Snapshots, StreamAssumption
<1>2. Phase = "asked" /\ Phase' = "open"
  BY DEF OpenWithSnapshot, Phase
<1>3. Feed!FeedSnapshot(snap.seq, snap.upto)
  BY <1>1, <1>2 DEF OpenWithSnapshot, journalVars, Feed!FeedSnapshot, Feed!Put
<1> QED
  BY <1>1, <1>3

LEMMA FeedStep ==
    ASSUME StreamInv, [Next]_vars
    PROVE  [Feed!FeedNext]_(Feed!feedVars)
<1>a. /\ TypeOK /\ StageInv /\ last \in 0..MaxSeq /\ MaxSeq \in Nat /\ rel \subseteq 1..last
      /\ stage \in {"off", "attached", "head", "snapshot", "fence", "replay", "live", "broken"}
  BY StreamAssumption DEF StreamInv, TypeOK, StreamAssumption
<1>k. ASSUME UNCHANGED <<last, rel, gone, cursor, asked, pos, wire>>, Phase' = Phase
      PROVE  UNCHANGED Feed!feedVars
  BY <1>k DEF Feed!feedVars
<1>1. CASE UNCHANGED vars
  BY <1>1, <1>k DEF vars, Phase
<1>2. ASSUME NEW mine \in BOOLEAN, Commit(mine) PROVE Feed!FeedAppend(mine)
  BY <1>2 DEF Commit, streamVars, Feed!FeedAppend, Phase
<1>3. ASSUME Publish \/ Project \/ (\E e \in Sequences : Republish(e))
      PROVE  UNCHANGED Feed!feedVars
  BY <1>3, <1>k DEF Publish, Project, Republish, streamVars, Phase
<1>4. ASSUME PurgeThread \/ PurgeOthers
      PROVE  \E rows \in SUBSET Feed!Sequences : Feed!FeedPurge(rows)
  <2>1. ASSUME NEW rows, rows \subseteq 1..last, Purge(rows)
        PROVE  Feed!FeedPurge(rows) /\ rows \in SUBSET Feed!Sequences
    <3>1. rows \subseteq 1..MaxSeq
      BY <1>a, <2>1
    <3> QED
      BY <2>1, <3>1 DEF Purge, streamVars, Feed!FeedPurge, Feed!Sequences, Phase
  <2> QED
    BY <1>4, <1>a, <2>1 DEF PurgeThread, PurgeOthers
<1>5. ASSUME NEW c \in 0..last \union {NoCursor}, Subscribe(c)
      PROVE  \E d \in Feed!Cursors : Feed!FeedSubscribe(d)
  <2>1. c \in Feed!Cursors
    BY <1>a DEF Feed!Cursors
  <2>2. Feed!FeedSubscribe(c)
    BY <1>5 DEF Subscribe, journalVars, Feed!FeedSubscribe, Phase
  <2> QED
    BY <2>1, <2>2
<1>6. ASSUME ReadHighWater \/ LoadSnapshot \/ ReplayDone \/ DropLive
      PROVE  UNCHANGED Feed!feedVars
  BY <1>6, <1>k DEF ReadHighWater, LoadSnapshot, ReplayDone, DropLive, journalVars, Phase
<1>7. ASSUME CheckSubject PROVE Feed!FeedResume \/ UNCHANGED Feed!feedVars
  <2>1. CASE stage' = "snapshot" /\ pos' = pos
    BY <1>7, <1>k, <2>1 DEF CheckSubject, journalVars, Phase
  <2>2. CASE stage' = "replay" /\ pos' = cursor
    <3>1. Phase = "asked" /\ Phase' = "open" /\ cursor # NoCursor
      BY <1>7, <1>a, <2>2 DEF CheckSubject, StageInv, Phase
    <3> QED
      BY <1>7, <2>2, <3>1 DEF CheckSubject, journalVars, Feed!FeedResume
  <2> QED
    BY <1>7, <2>1, <2>2 DEF CheckSubject
<1>8. ASSUME Refuse \/ LiveFails \/ Disconnect PROVE Feed!FeedBreak
  <2>1. Attached /\ End("broken") /\ UNCHANGED <<journalVars, wire>>
    BY <1>8 DEF Refuse, LiveFails, Disconnect, Attached
  <2>2. Phase \in {"asked", "open"} /\ Phase' = "broken"
    BY <1>a, <2>1 DEF Attached, End, Phase
  <2> QED
    BY <2>1, <2>2 DEF End, journalVars, Feed!FeedBreak
<1>9. ASSUME Receive PROVE Feed!FeedReceive
  BY <1>9 DEF Receive, journalVars, Feed!FeedReceive, Phase
<1>10. ASSUME Close PROVE Feed!FeedClose
  <2>1. Phase # "off" /\ Phase' = "off"
    BY <1>10 DEF Close, End, Phase
  <2> QED
    BY <1>10, <2>1 DEF Close, End, journalVars, Feed!FeedClose
<1> QED
  BY <1>1, <1>2, <1>3, <1>4, <1>5, <1>6, <1>7, <1>8, <1>9, <1>10, ReplaySends, LiveSends,
     SnapshotOpens
     DEF Next, StreamStep, Feed!FeedNext

(* The stream keeps the promise of ThreadFeed: it resumes after the client's      *)
(* cursor or opens with a snapshot, and sends every surviving event of the thread  *)
(* from there on, the first time in order, whatever is committed, published,       *)
(* purged or projected between its reads.                                          *)
THEOREM StreamKeepsFeed == Spec => FeedKept
<1>1. StreamInv /\ [Next]_vars => [Feed!FeedNext]_(Feed!feedVars)
  BY FeedStep
<1> QED
  BY <1>1, FeedInitially, InStream, PTL DEF Spec, FeedKept, Feed!FeedSpec
=============================================================================
