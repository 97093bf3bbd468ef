------------------------- MODULE ThreadDetailProofs -------------------------
(***************************************************************************)
(* Theorems about the client's copy of a thread: the chain of operations   *)
(* settles on the last lease list, and cursor and credit vouch only for    *)
(* detail that is there, for any journal, lag, buffer and number of        *)
(* evictions, replays, projection reads, resets and failures.              *)
(*                                                                         *)
(* What the stream will not bring any more has to be known already: shown, *)
(* if there is a credit; shown by every projection read that was served or *)
(* waiting in the buffer, if there is none.                                *)
(***************************************************************************)
EXTENDS ThreadDetail, SequenceTheorems, FiniteSetTheorems, WellFoundedInduction, TLAPS

Reach == 0..last \union {NoCursor}
Asking == [name : {"lease", "drop", "refresh", "reset"}, step : 0..2, with : Reach]

\* The chain is between two steps of its first operation.
UnderWay(o) == o # <<>> /\ Head(o).step # 0

\* Nothing points past the journal.
BoundInv ==
    /\ resume \in Reach /\ latest \in Reach /\ cursor \in Reach
    /\ pos \in 0..last
    /\ replays \in Seq(0..last)
    /\ ops \in Seq(Asking)

\* A snapshot is the first item of its stream; items ascend up to the server's position.
WireInv ==
    /\ \A i \in 1..Len(wire) :
        /\ wire[i].upto <= last /\ wire[i].seq <= wire[i].upto
        /\ wire[i].kind = "snapshot" => i = 1
        /\ wire[i].kind = "event" => wire[i].seq \in rel
    /\ \A i, j \in 1..Len(wire) : i < j => wire[i].seq < wire[j].seq
    /\ phase = "open" /\ wire # <<>> => wire[Len(wire)].seq = pos
    /\ phase \in {"off", "asked"} => wire = <<>>
    /\ gone = {}

\* Only the first operation is under way, and it knows what it goes through.
Tidy(o) ==
    \A k \in 1..Len(o) :
        /\ o[k].step # 0 => k = 1
        /\ o[k].name = "drop" => o[k].step # 2
        /\ o[k].name = "lease" => o[k].step # 1
        /\ o[k].name = "refresh" => o[k].with = NoCursor

\* The lease and the stream are where the operation under way has left them.
Placed(o, l, s, f, ph) ==
    /\ UnderWay(o) => (l <=> Head(o).step = 2 \/ Head(o).name = "refresh")
    /\ UnderWay(o) /\ Head(o).step = 2 => ph = "off"
    /\ ~UnderWay(o) /\ ~l => ph = "off"
    /\ s => l /\ ~UnderWay(o)
    /\ l /\ ~UnderWay(o) => s \/ f

Says(op, w) ==
    /\ op.name = "lease" => w
    /\ op.name = "drop" => ~w
    /\ op.name = "reset" /\ op.step = 2 => w

\* Only refreshes follow the operation at k.
Closing(o, k) == \A j \in k + 1..Len(o) : o[j].name = "refresh"

\* The last operation that takes or drops the lease agrees with the lease list; where
\* there is none, the lease does.
Settling(o, l, w) ==
    /\ \A k \in 1..Len(o) : Closing(o, k) => Says(o[k], w)
    /\ Closing(o, 0) => l = w

ChainInv == Tidy(ops) /\ Placed(ops, leased, subscribed, forsaken, phase) /\ Settling(ops, leased, wanted)

\* No call crossed a loss, and the thread is not deleted.
Sound == ~crossed /\ ~spilled /\ ~deleted

\* The stream has opened with a snapshot that is still to be received.
Fresh == wire # <<>> /\ Head(wire).kind = "snapshot"

InWire(r) == \E j \in 1..Len(wire) : wire[j].kind = "event" /\ wire[j].seq = r

\* The cursor the chain is about to subscribe with.
Promised == IF ops # <<>> /\ Head(ops).step = 2 THEN Head(ops).with ELSE NoCursor

\* The stream has brought, or need not bring, everything up to here.
Top ==
    IF wire # <<>> THEN wire[Len(wire)].seq
    ELSE IF phase = "open" THEN pos
    ELSE IF phase = "asked" THEN cursor
    ELSE Promised

Below(c) == {r \in rel : c # NoCursor /\ r <= c}

\* What the stream will not bring any more.
Behind == {r \in Below(Top) : ~InWire(r)}

\* The projection reads of this lease that the server has served.
Served == {i \in 1..Len(checks) : checks[i].generation = generation /\ checks[i].upto # NoCursor}

\* What the router knows of, shown or waiting.
Credited == IF latest = NoCursor THEN pending ELSE Below(latest)

\* A snapshot is newer than what waits for it.
WaitInv ==
    /\ phase = "asked" => \A p \in pending : p <= asked
    /\ Fresh => \A p \in pending : p <= Head(wire).upto

\* A credit belongs to a lease; it covers the cursor and the replays that are out, and
\* both cover only what is shown.
BookInv ==
    /\ ~leased => latest = NoCursor
    /\ leased /\ resume # NoCursor => latest # NoCursor /\ resume <= latest
    /\ latest # NoCursor => pending = {}
    /\ \A i \in 1..Len(replays) : latest # NoCursor /\ replays[i] <= latest
    /\ Below(resume) \subseteq Shown /\ Below(latest) \subseteq Shown

\* What the stream has left behind is in the snapshot it brings; or it is shown, and
\* every projection read that was served shows it or it is known without.
StreamInv ==
    /\ Fresh => \A r \in Behind : r <= Head(wire).seq
    /\ ~Fresh /\ latest # NoCursor => Behind \subseteq Shown
    /\ ~Fresh => \A i \in Served : \A r \in Behind : r <= checks[i].upto \/ r \in Credited

\* A projection read that was served shows all that is below a waiting event, but what
\* waits too.
EarlyInv ==
    latest = NoCursor =>
        \A i \in Served : \A p \in pending, r \in rel :
            r <= p => r <= checks[i].upto \/ r \in pending

CoherenceInv == WaitInv /\ (Sound => BookInv /\ StreamInv /\ EarlyInv)

-----------------------------------------------------------------------------
(* Sequences. *)

LEMMA Appended ==
    ASSUME NEW T, NEW s \in Seq(T), NEW x \in T
    PROVE  /\ Append(s, x) \in Seq(T) /\ Len(Append(s, x)) = Len(s) + 1
           /\ Len(s) \in Nat /\ Append(s, x)[Len(s) + 1] = x /\ Append(s, x) # <<>>
           /\ \A i \in 1..Len(s) : Append(s, x)[i] = s[i]
           /\ \A i \in 1..Len(s) + 1 : i \in 1..Len(s) \/ i = Len(s) + 1
<1>1. /\ Append(s, x) \in Seq(T) /\ Len(Append(s, x)) = Len(s) + 1
      /\ Len(s) \in Nat /\ Append(s, x)[Len(s) + 1] = x
      /\ \A i \in 1..Len(s) : Append(s, x)[i] = s[i]
  OBVIOUS
<1>2. \A i \in 1..Len(s) + 1 : i \in 1..Len(s) \/ i = Len(s) + 1
  BY <1>1
<1>3. Append(s, x) # <<>>
  <2>1. Len(<<>>) = 0 /\ Len(Append(s, x)) # 0
    BY <1>1
  <2> QED
    BY <2>1
<1> QED
  BY <1>1, <1>2, <1>3

LEMMA Wider ==
    ASSUME NEW A, NEW B, A \subseteq B, NEW s \in Seq(A)
    PROVE  s \in Seq(B)
OBVIOUS

LEMMA Behead ==
    ASSUME NEW T, NEW s \in Seq(T), s # <<>>
    PROVE  /\ Tail(s) \in Seq(T) /\ Head(s) \in T /\ Head(s) = s[1] /\ 1 \in 1..Len(s)
           /\ Len(s) \in Nat /\ Len(Tail(s)) \in Nat /\ Len(s) = Len(Tail(s)) + 1
           /\ \A i \in 1..Len(Tail(s)) : i + 1 \in 1..Len(s) /\ Tail(s)[i] = s[i + 1]
  OBVIOUS

LEMMA Shorter ==
    ASSUME NEW T, NEW s \in Seq(T), s # <<>>
    PROVE  Tail(s) # s
<1>1. Len(Tail(s)) # Len(s)
  BY Behead
<1> QED
  BY <1>1

LEMMA NewHead ==
    ASSUME NEW T, NEW s \in Seq(T), s # <<>>, NEW x \in T
    PROVE  LET r == <<x>> \o Tail(s)
           IN  /\ r \in Seq(T) /\ Len(r) = Len(s) /\ r # <<>> /\ Head(r) = x /\ r[1] = x
               /\ Len(s) \in Nat /\ \A i \in 1..Len(s) : i # 1 => r[i] = s[i]
<1> DEFINE r == <<x>> \o Tail(s)
<1>1. Tail(s) \in Seq(T) /\ Len(s) = Len(Tail(s)) + 1 /\ Len(Tail(s)) \in Nat
      /\ \A i \in 1..Len(Tail(s)) : Tail(s)[i] = s[i + 1]
  OBVIOUS
<1>2. <<x>> \in Seq(T) /\ Len(<<x>>) = 1
  OBVIOUS
<1>3. r \in Seq(T) /\ Len(r) = 1 + Len(Tail(s))
      /\ \A i \in 1..(1 + Len(Tail(s))) : r[i] = IF i <= 1 THEN <<x>>[i] ELSE Tail(s)[i - 1]
  BY <1>1, <1>2, ConcatProperties
<1>4. ASSUME NEW i \in 1..Len(s), i # 1 PROVE r[i] = s[i]
  <2>1. i - 1 \in 1..Len(Tail(s)) /\ (i - 1) + 1 = i /\ i \in 1..(1 + Len(Tail(s))) /\ ~(i <= 1)
    BY <1>1, <1>4
  <2> QED
    BY <1>1, <1>3, <2>1
<1>5. r[1] = x /\ r # <<>> /\ Head(r) = r[1]
  BY <1>1, <1>3
<1> QED
  BY <1>1, <1>3, <1>4, <1>5

\* What is removed from a sequence leaves nothing behind that was not in it.
LEMMA Removed ==
    ASSUME NEW T, NEW s \in Seq(T), NEW n \in 1..Len(s)
    PROVE  /\ RemoveAt(s, n) \in Seq(T)
           /\ \A j \in 1..Len(RemoveAt(s, n)) : \E k \in 1..Len(s) : RemoveAt(s, n)[j] = s[k]
<1> DEFINE a == SubSeq(s, 1, n - 1)
           b == SubSeq(s, n + 1, Len(s))
<1>1. Len(s) \in Nat /\ n \in Nat /\ n >= 1 /\ n <= Len(s)
  OBVIOUS
<1>2. a \in Seq(T) /\ Len(a) = n - 1 /\ \A i \in 1..(n - 1) : a[i] = s[i]
  BY <1>1
<1>3. b \in Seq(T) /\ Len(b) = Len(s) - n /\ \A i \in 1..(Len(s) - n) : b[i] = s[n + i]
  <2>1. \A i \in (n + 1)..Len(s) : s[i] \in T
    BY <1>1
  <2> QED
    BY <1>1, <2>1, SubSeqProperties
<1>4. RemoveAt(s, n) = a \o b
  BY DEF RemoveAt
<1>5. /\ a \o b \in Seq(T) /\ Len(a \o b) = Len(a) + Len(b)
      /\ \A i \in 1..(Len(a) + Len(b)) : (a \o b)[i] = IF i <= Len(a) THEN a[i] ELSE b[i - Len(a)]
  BY <1>2, <1>3, ConcatProperties
<1> HIDE DEF a, b
<1>6. ASSUME NEW j \in 1..Len(a \o b) PROVE \E k \in 1..Len(s) : (a \o b)[j] = s[k]
  <2>1. CASE j <= n - 1
    <3>1. j \in 1..(n - 1) /\ j \in 1..Len(s) /\ (a \o b)[j] = a[j]
      BY <1>1, <1>2, <1>3, <1>5, <2>1
    <3> QED
      BY <1>2, <3>1
  <2>2. CASE j > n - 1
    <3>1. j - (n - 1) \in 1..(Len(s) - n) /\ (a \o b)[j] = b[j - (n - 1)]
      BY <1>1, <1>2, <1>3, <1>5, <2>2
    <3>2. n + (j - (n - 1)) \in 1..Len(s)
      BY <1>1, <3>1
    <3> QED
      BY <1>3, <3>1, <3>2
  <2> QED
    BY <1>1, <2>1, <2>2, <1>2, <1>3, <1>5
<1> QED
  BY <1>4, <1>5, <1>6

-----------------------------------------------------------------------------
(* The stream. *)

\* What a step of the client is to the stream.
FeedMoves ==
    \/ UNCHANGED feedVars
    \/ FeedAppend(TRUE) \/ FeedResume \/ FeedBreak \/ FeedReceive \/ FeedClose
    \/ \E s, u \in 0..MaxSeq : FeedSnapshot(s, u)
    \/ \E e \in Sequences : FeedSend(e)
    \/ \E c \in Reach : FeedSubscribe(c)

LEMMA FeedFrame == TypeOK /\ BoundInv /\ [Next]_vars => FeedMoves
<1> SUFFICES ASSUME TypeOK, BoundInv, [Next]_vars PROVE FeedMoves
  OBVIOUS
<1>s. NoCursor \in Reach /\ resume \in Reach
  BY DEF Reach, BoundInv
<1>o. ops # <<>> => Head(ops).with \in Reach
  <2>1. ops # <<>> => Head(ops) \in Asking
    BY Behead DEF BoundInv
  <2> QED
    BY <2>1 DEF Asking
<1> HIDE DEF Reach
<1>1. CASE JournalGrows
  BY <1>1 DEF JournalGrows, FeedMoves
<1>2. CASE StreamAnswers
  BY <1>2 DEF StreamAnswers, FeedMoves
<1>3. CASE StreamBreaks \/ StreamFails \/ StreamStops
  BY <1>3 DEF StreamBreaks, StreamFails, StreamStops, FeedMoves
<1>4. CASE TransportRestarts
  BY <1>4, <1>s DEF TransportRestarts, FeedMoves
<1>5. CASE Receive
  BY <1>5 DEF Receive, ReceiveSnapshot, ReceiveEarlyEvent, ReceiveEvent, FeedMoves
<1>6. CASE SubscribeThread
  BY <1>6, <1>o DEF SubscribeThread, Subscribe, Running, FeedMoves
<1>7. CASE SubscribeForRefresh
  BY <1>7, <1>s DEF SubscribeForRefresh, Subscribe, FeedMoves
<1>8. CASE Flush \/ Answer
  <2>1. CASE Flush
    BY <2>1 DEF Flush, FeedMoves
  <2>2. CASE Answer
    BY <2>2 DEF Answer, ReplayReturns, ServeCheck, CheckIgnored, CheckApplies, CheckAnswered, FeedMoves
  <2> QED
    BY <1>8, <2>1, <2>2
<1>9. CASE StartReplay \/ PollProjection \/ Hold \/ WantLease \/ Evict \/ Delete \/ Reconnect \/ WantDrop
  BY <1>9 DEF StartReplay, PollProjection, Hold, WantLease, Evict, Delete, Reconnect, WantDrop, FeedMoves
<1>10. CASE TakeLease \/ DropLease \/ DropEnds \/ Reset \/ LeaseAgain
  BY <1>10 DEF TakeLease, DropLease, DropEnds, Reset, LeaseAgain, Release, Unsubscribe, FeedMoves
<1>11. CASE StopForRefresh \/ ForgetCursor \/ RefreshWithoutLease
  BY <1>11 DEF StopForRefresh, ForgetCursor, RefreshWithoutLease, Unsubscribe, FeedMoves
<1>12. CASE UNCHANGED vars
  BY <1>12 DEF vars, FeedMoves
<1> QED
  BY <1>1, <1>2, <1>3, <1>4, <1>5, <1>6, <1>7, <1>8, <1>9, <1>10, <1>11, <1>12
     DEF Next, Outside, Chain, Answer

LEMMA FeedStep ==
    ASSUME FeedTypeOK, WireInv, cursor \in Reach, pos \in 0..last, FeedMoves
    PROVE  /\ FeedTypeOK' /\ WireInv' /\ cursor' \in Reach' /\ pos' \in 0..last'
           /\ last \in Nat /\ last' \in Nat /\ last <= last' /\ last' <= MaxSeq
           /\ rel \subseteq rel' /\ gone' = {}
<1>a. /\ MaxSeq \in Nat /\ NoCursor \notin Int /\ last \in Nat /\ last <= MaxSeq
      /\ wire \in Seq(Items) /\ Len(wire) \in Nat /\ pos \in Nat /\ pos <= last /\ asked \in 0..last
      /\ rel \subseteq 1..last /\ gone = {} /\ pos \in 0..MaxSeq
  BY FeedAssumption DEF FeedAssumption, FeedTypeOK, WireInv
<1>1. CASE UNCHANGED feedVars
  BY <1>1, <1>a DEF feedVars, FeedTypeOK, WireInv, Reach
<1>2. CASE FeedAppend(TRUE)
  <2>1. /\ last' = last + 1 /\ rel' = rel \union {last + 1}
        /\ UNCHANGED <<gone, phase, cursor, asked, pos, wire>> /\ last + 1 <= MaxSeq
    BY <1>2, <1>a DEF FeedAppend
  <2>2. last' \in 0..MaxSeq /\ rel' \subseteq 1..last' /\ asked' \in 0..last' /\ pos' \in 0..last'
    BY <2>1, <1>a
  <2>3. cursor' \in Reach'
    BY <2>1, <1>a DEF Reach
  <2>4. \A i \in 1..Len(wire) : wire[i] \in Items
    BY <1>a
  <2>5. \A i \in 1..Len(wire) : wire[i].upto \in Nat
    BY <2>4, <1>a DEF Items
  <2>6. \A i \in 1..Len(wire) : wire[i].upto <= last'
    BY <2>1, <2>5, <1>a DEF WireInv
  <2>7. WireInv'
    BY <2>1, <2>6 DEF WireInv
  <2>8. FeedTypeOK'
    BY <2>1, <2>2, <1>a DEF FeedTypeOK
  <2> QED
    BY <2>1, <2>2, <2>3, <2>7, <2>8, <1>a
<1>3. CASE FeedResume
  BY <1>3, <1>a DEF FeedResume, FeedTypeOK, WireInv, Reach
<1>4. CASE FeedBreak
  BY <1>4, <1>a DEF FeedBreak, FeedTypeOK, WireInv, Reach, Cursors
<1>5. CASE FeedClose
  BY <1>5, <1>a DEF FeedClose, FeedTypeOK, WireInv, Reach, Cursors
<1>6. CASE FeedReceive
  <2>1. /\ wire # <<>> /\ wire' = Tail(wire)
        /\ UNCHANGED <<last, rel, gone, phase, cursor, asked, pos>>
    BY <1>6 DEF FeedReceive
  <2>2. /\ wire' \in Seq(Items) /\ Len(wire') \in Nat /\ Len(wire) = Len(wire') + 1
        /\ \A i \in 1..Len(wire') : i + 1 \in 1..Len(wire) /\ wire'[i] = wire[i + 1]
    BY <2>1, <1>a, Behead
  <2>3. \A i \in 1..Len(wire') : i + 1 # 1 /\ i \in Nat
    BY <2>2
  <2>4. /\ \A i \in 1..Len(wire') :
            /\ wire'[i].upto <= last /\ wire'[i].seq <= wire'[i].upto
            /\ wire'[i].kind = "snapshot" => FALSE
            /\ wire'[i].kind = "event" => wire'[i].seq \in rel
    BY <2>2, <2>3 DEF WireInv
  <2>5. ASSUME NEW i \in 1..Len(wire'), NEW j \in 1..Len(wire'), i < j
        PROVE  wire'[i].seq < wire'[j].seq
    <3>1. i + 1 < j + 1
      BY <2>5
    <3> QED
      BY <2>2, <3>1 DEF WireInv
  <2>6. ASSUME phase = "open", wire' # <<>>
        PROVE  wire'[Len(wire')].seq = pos
    <3>1. Len(wire') \in 1..Len(wire')
      BY <2>2, <2>6
    <3> QED
      BY <2>1, <2>2, <2>6, <3>1 DEF WireInv
  <2>7. WireInv'
    BY <2>1, <2>4, <2>5, <2>6 DEF WireInv
  <2> QED
    BY <2>1, <2>2, <2>7, <1>a DEF FeedTypeOK, Reach
<1>7. ASSUME NEW item \in Items, Put(item), UNCHANGED <<last, rel, gone, cursor, asked>>,
             phase' = "open", pos' = item.seq, item.upto <= last, item.seq <= item.upto,
             item.kind = "snapshot" => wire = <<>>, item.kind = "event" => item.seq \in rel,
             phase # "open" => wire = <<>>, pos < item.seq \/ wire = <<>>
      PROVE  /\ FeedTypeOK' /\ WireInv' /\ cursor' \in Reach' /\ pos' \in 0..last'
             /\ last' \in Nat /\ last <= last' /\ last' <= MaxSeq /\ rel \subseteq rel' /\ gone' = {}
  <2>1. /\ wire' \in Seq(Items) /\ Len(wire') = Len(wire) + 1 /\ wire'[Len(wire) + 1] = item
        /\ \A i \in 1..Len(wire) : wire'[i] = wire[i]
        /\ \A i \in 1..Len(wire) + 1 : i \in 1..Len(wire) \/ i = Len(wire) + 1
    BY <1>7, <1>a, Appended DEF Put
  <2>2. item.seq \in Nat /\ item.upto \in Nat /\ item.seq <= last /\ item.seq \in 0..MaxSeq
    <3>1. item.seq \in 0..MaxSeq /\ item.upto \in 0..MaxSeq
      BY <1>7 DEF Items
    <3> QED
      BY <1>7, <1>a, <3>1
  <2>3. ASSUME NEW i \in 1..Len(wire) PROVE wire[i].seq < item.seq
    <3>1. wire # <<>> /\ phase = "open" /\ wire[Len(wire)].seq = pos /\ pos < item.seq
      BY <1>7, <1>a, <2>3 DEF WireInv
    <3>2. wire[i] \in Items /\ wire[i].seq \in Nat
      <4>1. wire[i] \in Items
        BY <1>a
      <4> QED
        BY <4>1, <1>a DEF Items
    <3>3. i = Len(wire) \/ i < Len(wire)
      BY <1>a
    <3>4. i < Len(wire) => wire[i].seq < wire[Len(wire)].seq
      BY <1>a DEF WireInv
    <3> QED
      BY <1>a, <2>2, <3>1, <3>2, <3>3, <3>4
  <2>4. /\ \A i \in 1..Len(wire') :
            /\ wire'[i].upto <= last /\ wire'[i].seq <= wire'[i].upto
            /\ wire'[i].kind = "snapshot" => i = 1
            /\ wire'[i].kind = "event" => wire'[i].seq \in rel
    <3>1. \A i \in 1..Len(wire') : i \in 1..Len(wire) \/ i = Len(wire) + 1
      BY <2>1
    <3>2. wire = <<>> => Len(wire) + 1 = 1
      OBVIOUS
    <3> QED
      BY <1>7, <2>1, <3>1, <3>2 DEF WireInv
  <2>5. ASSUME NEW i \in 1..Len(wire'), NEW j \in 1..Len(wire'), i < j
        PROVE  wire'[i].seq < wire'[j].seq
    <3>1. i \in 1..Len(wire)
      BY <1>a, <2>1, <2>5
    <3>2. j \in 1..Len(wire) \/ j = Len(wire) + 1
      BY <2>1
    <3> QED
      BY <2>1, <2>3, <2>5, <3>1, <3>2 DEF WireInv
  <2>6. wire'[Len(wire')].seq = pos'
    BY <1>7, <2>1
  <2>7. WireInv'
    BY <1>7, <1>a, <2>4, <2>5, <2>6 DEF WireInv
  <2>8. FeedTypeOK'
    BY <1>7, <1>a, <2>1, <2>2 DEF FeedTypeOK
  <2>9. cursor' \in Reach' /\ pos' \in 0..last'
    BY <1>7, <1>a, <2>2 DEF Reach
  <2> QED
    BY <1>7, <1>a, <2>7, <2>8, <2>9
<1>8. CASE \E s, u \in 0..MaxSeq : FeedSnapshot(s, u)
  <2>1. PICK s \in 0..MaxSeq, u \in 0..MaxSeq : FeedSnapshot(s, u)
    BY <1>8
  <2>2. /\ Snapshot(s, u) \in Items /\ Snapshot(s, u).seq = s /\ Snapshot(s, u).upto = u
        /\ Snapshot(s, u).kind = "snapshot"
    BY DEF Snapshot, Items
  <2>3. phase = "asked" /\ wire = <<>>
    BY <2>1 DEF FeedSnapshot, WireInv
  <2> QED
    BY <2>1, <2>2, <2>3, <1>7, <1>a DEF FeedSnapshot
<1>9. CASE \E e \in Sequences : FeedSend(e)
  <2>1. PICK e \in Sequences : FeedSend(e)
    BY <1>9
  <2>2. e \in 1..last /\ e <= last /\ e \in 0..MaxSeq
    BY <2>1, <1>a DEF FeedSend
  <2>3. /\ EventItem(e) \in Items /\ EventItem(e).seq = e /\ EventItem(e).upto = e
        /\ EventItem(e).kind = "event"
    BY <2>2 DEF EventItem, Items
  <2>4. phase = "open" /\ phase' = "open" /\ pos < e /\ e <= e
    BY <2>1, <2>2, <1>a DEF FeedSend
  <2> QED
    BY <2>1, <2>2, <2>3, <2>4, <1>7, <1>a DEF FeedSend
<1>10. CASE \E c \in Reach : FeedSubscribe(c)
  BY <1>10, <1>a DEF FeedSubscribe, FeedTypeOK, WireInv, Reach, Cursors
<1> QED
  BY <1>1, <1>2, <1>3, <1>4, <1>5, <1>6, <1>8, <1>9, <1>10, <1>a DEF FeedMoves
-----------------------------------------------------------------------------
(* What is queued and what waits. *)

LEMMA Least ==
    ASSUME NEW S, S \subseteq Nat, S # {}
    PROVE  Min(S) \in S /\ \A x \in S : Min(S) <= x
<1>1. PICK x \in S : \A y \in S : ~(<<y, x>> \in OpToRel(<, Nat))
  BY NatLessThanWellFounded, WFMin
<1>2. ASSUME NEW y \in S, ~(x <= y) PROVE FALSE
  <2>1. y < x /\ <<y, x>> \in Nat \X Nat
    BY <1>2
  <2>2. <<y, x>> \in OpToRel(<, Nat)
    BY <2>1 DEF OpToRel
  <2> QED
    BY <1>1, <2>2, Zenon
<1> QED
  BY <1>2 DEF Min

LEMMA Greatest ==
    ASSUME NEW k \in Nat, NEW S, S \subseteq 0..k, S # {}
    PROVE  Max(S) \in S /\ \A x \in S : x <= Max(S)
<1> DEFINE D == {k - x : x \in S}
<1>1. D \subseteq Nat /\ D # {}
  <2>1. ASSUME NEW x \in S PROVE k - x \in Nat
    BY <2>1
  <2> QED
    BY <2>1
<1>2. Min(D) \in D /\ \A d \in D : Min(D) <= d
  BY <1>1, Least
<1>3. PICK x \in S : Min(D) = k - x
  BY <1>2
<1>4. ASSUME NEW y \in S PROVE x >= y
  <2>1. k - x <= k - y
    BY <1>2, <1>3
  <2> QED
    BY <2>1
<1> QED
  BY <1>4 DEF Max


\* Credit and cursor move to the last of the events that are queued.
LEMMA Queued ==
    ASSUME last \in Nat, NoCursor \notin Int, NEW events, events \subseteq 1..last,
           NEW l \in Reach, NEW r \in Reach, Queue(events, l, r)
    PROVE  /\ latest' \in Reach /\ resume' \in Reach
           /\ batch' = batch \union events
           /\ events = {} => latest' = l /\ resume' = r
           /\ events # {} =>
                /\ latest' \in events /\ \A e \in events : e <= latest'
                /\ resume' = Advanced(r, latest') /\ resume' \in {latest', r}
<1>1. CASE events = {}
  BY <1>1 DEF Queue
<1>2. CASE events # {}
  <2>1. latest' = Max(events) /\ resume' = Advanced(r, Max(events)) /\ batch' = batch \union events
    BY <1>2 DEF Queue
  <2>2. events \subseteq 0..last
    OBVIOUS
  <2>3. Max(events) \in events /\ \A x \in events : x <= Max(events)
    BY <1>2, <2>2, Greatest
  <2>4. Max(events) \in Reach
    <3>1. Max(events) \in 0..last
      BY <2>2, <2>3
    <3> QED
      BY <3>1 DEF Reach
  <2> HIDE DEF Reach
  <2> QED
    BY <1>2, <2>1, <2>3, <2>4 DEF Advanced
<1> QED
  BY <1>1, <1>2

\* One more event waits, or takes the place of the lowest.
LEMMA Kept ==
    ASSUME NEW k \in Nat, NEW S, S \subseteq 1..k, Cardinality(S) <= PendingLimit,
           NEW e \in 1..k
    PROVE  /\ Bounded(S \union {e}) \subseteq S \union {e}
           /\ Cardinality(Bounded(S \union {e})) <= PendingLimit
           /\ Cardinality(S \union {e}) <= PendingLimit => Bounded(S \union {e}) = S \union {e}
<1> DEFINE T == S \union {e}
<1>1. PendingLimit \in Nat
  BY DetailAssumption DEF DetailAssumption
<1>2. IsFiniteSet(S) /\ IsFiniteSet(T)
  <2>1. IsFiniteSet(1..k)
    BY FS_Interval
  <2> QED
    BY <2>1, FS_Subset
<1>3. Cardinality(S) \in Nat /\ Cardinality(T) \in Nat /\ Cardinality(T) <= Cardinality(S) + 1
  <2>1. Cardinality(S) \in Nat /\ Cardinality(T) \in Nat
    BY <1>2, FS_CardinalityType
  <2>2. Cardinality(T) = IF e \in S THEN Cardinality(S) ELSE Cardinality(S) + 1
    BY <1>2, FS_AddElement
  <2> QED
    BY <2>1, <2>2
<1>4. T \subseteq Nat /\ T # {}
  OBVIOUS
<1>5. Min(T) \in T
  BY <1>4, Least
<1>6. Cardinality(T \ {Min(T)}) = Cardinality(T) - 1
  BY <1>2, <1>5, FS_RemoveElement
<1> HIDE DEF T
<1>7. CASE Cardinality(T) > PendingLimit
  <2>1. Bounded(T) = T \ {Min(T)}
    BY <1>7 DEF Bounded
  <2>2. Cardinality(Bounded(T)) <= PendingLimit /\ ~(Cardinality(T) <= PendingLimit)
    BY <1>1, <1>3, <1>6, <1>7, <2>1
  <2>3. Bounded(T) \subseteq T
    BY <2>1
  <2> QED
    BY <2>2, <2>3 DEF T
<1>8. CASE ~(Cardinality(T) > PendingLimit)
  <2>1. Bounded(T) = T
    BY <1>8 DEF Bounded
  <2> QED
    BY <1>1, <1>3, <1>8, <2>1 DEF T
<1> QED
  BY <1>7, <1>8
-----------------------------------------------------------------------------
(* Types. *)

TypeInv == TypeOK /\ BoundInv /\ WireInv

LEMMA Facts ==
    ASSUME TypeInv
    PROVE  /\ last \in Nat /\ last <= MaxSeq /\ MaxSeq \in Nat /\ NoCursor \notin Int
           /\ NoCursor \in Reach /\ resume \in Reach /\ latest \in Reach
           /\ \A c \in Reach : c # NoCursor => c \in Nat /\ c <= last
           /\ rel \subseteq 1..last /\ gone = {}
           /\ \A a, b : Between(a, b) \subseteq 1..last
           /\ wire \in Seq(Items) /\ Len(wire) \in Nat
           /\ ops \in Seq(Asking) /\ Len(ops) \in Nat
           /\ ops # <<>> => Head(ops) \in Asking
           /\ wire # <<>> =>
                /\ Head(wire) = wire[1] /\ 1 \in 1..Len(wire)
                /\ Head(wire).seq \in 0..last /\ Head(wire).upto \in 0..last
                /\ Head(wire).seq <= Head(wire).upto
                /\ Head(wire).kind \in {"snapshot", "event"}
                /\ Head(wire).kind = "event" => Head(wire).seq \in rel /\ Head(wire).seq \in 1..last
<1>1. /\ MaxSeq \in Nat /\ NoCursor \notin Int /\ last \in 0..MaxSeq /\ last \in Nat /\ last <= MaxSeq
      /\ rel \subseteq 1..last /\ gone = {} /\ wire \in Seq(Items) /\ ops \in Seq(Asking)
      /\ resume \in Reach /\ latest \in Reach
  BY FeedAssumption DEF FeedAssumption, TypeInv, TypeOK, FeedTypeOK, BoundInv, WireInv
<1>2. NoCursor \in Reach /\ \A c \in Reach : c # NoCursor => c \in Nat /\ c <= last
  BY <1>1 DEF Reach
<1>3. \A a, b : Between(a, b) \subseteq 1..last
  BY <1>1 DEF Between
<1>4. Len(wire) \in Nat /\ Len(ops) \in Nat
  BY <1>1
<1>5. ops # <<>> => Head(ops) \in Asking
  BY <1>1, Behead
<1>6. ASSUME wire # <<>>
      PROVE /\ Head(wire) = wire[1] /\ 1 \in 1..Len(wire)
            /\ Head(wire).seq \in 0..last /\ Head(wire).upto \in 0..last
            /\ Head(wire).seq <= Head(wire).upto
            /\ Head(wire).kind \in {"snapshot", "event"}
            /\ Head(wire).kind = "event" => Head(wire).seq \in rel /\ Head(wire).seq \in 1..last
  <2>1. Head(wire) = wire[1] /\ 1 \in 1..Len(wire) /\ Head(wire) \in Items
    BY <1>1, <1>6, Behead
  <2>2. /\ Head(wire).upto <= last /\ Head(wire).seq <= Head(wire).upto
        /\ Head(wire).kind = "event" => Head(wire).seq \in rel
    BY <2>1 DEF TypeInv, WireInv
  <2>3. /\ Head(wire).seq \in Nat /\ Head(wire).upto \in Nat
        /\ Head(wire).kind \in {"snapshot", "event"}
    BY <1>1, <2>1 DEF Items
  <2>4. Head(wire).seq \in 0..last /\ Head(wire).upto \in 0..last
    BY <1>1, <2>2, <2>3
  <2> QED
    BY <1>1, <2>1, <2>2, <2>3, <2>4
<1> QED
  BY <1>1, <1>2, <1>3, <1>4, <1>5, <1>6

\* The steps that change the detail, the cursor or the credit.
BookMoves ==
    \/ UNCHANGED <<storeVars, bookVars>>
    \/ ReceiveSnapshot \/ ReceiveEarlyEvent \/ ReceiveEvent \/ Flush
    \/ \E i \in 1..Len(replays), t \in 0..last : ReplayReturns(i, t)
    \/ \E i \in 1..Len(checks), s \in 0..last : CheckApplies(i, s)
    \/ Evict \/ Delete \/ StreamFails
    \/ TakeLease \/ LeaseAgain \/ DropLease \/ Reset \/ ForgetCursor

LEMMA BookFrame == [Next]_vars => BookMoves
<1> SUFFICES ASSUME [Next]_vars PROVE BookMoves
  OBVIOUS
<1>1. CASE JournalGrows \/ StreamAnswers \/ StreamBreaks \/ TransportRestarts \/ StreamStops
  BY <1>1 DEF JournalGrows, StreamAnswers, StreamBreaks, TransportRestarts, StreamStops, BookMoves
<1>2. CASE StartReplay \/ PollProjection \/ Hold \/ WantLease \/ WantDrop \/ Reconnect
  BY <1>2 DEF StartReplay, PollProjection, Hold, WantLease, WantDrop, Reconnect, BookMoves
<1>3. CASE DropEnds \/ SubscribeThread \/ StopForRefresh \/ SubscribeForRefresh \/ RefreshWithoutLease
  BY <1>3 DEF DropEnds, SubscribeThread, StopForRefresh, SubscribeForRefresh, RefreshWithoutLease, BookMoves
<1>4. CASE \E i \in 1..Len(checks) : ServeCheck(i) \/ CheckIgnored(i)
  BY <1>4 DEF ServeCheck, CheckIgnored, CheckAnswered, storeVars, BookMoves
<1>5. CASE UNCHANGED vars
  BY <1>5 DEF vars, BookMoves
<1> QED
  BY <1>1, <1>2, <1>3, <1>4, <1>5 DEF Next, Outside, Chain, Answer, Receive, BookMoves

LEMMA BookTypes ==
    ASSUME TypeInv, [Next]_vars
    PROVE  /\ stored' \subseteq 1..last /\ batch' \subseteq 1..last
           /\ synced' \in BOOLEAN /\ deleted' \in BOOLEAN
           /\ latest' \in Reach /\ resume' \in Reach
           /\ pending' \subseteq 1..last /\ Cardinality(pending') <= PendingLimit
<1>a. /\ stored \subseteq 1..last /\ batch \subseteq 1..last
      /\ synced \in BOOLEAN /\ deleted \in BOOLEAN
      /\ pending \subseteq 1..last /\ Cardinality(pending) <= PendingLimit
  BY DEF TypeInv, TypeOK
<1>b. /\ last \in Nat /\ NoCursor \notin Int /\ NoCursor \in Reach /\ resume \in Reach /\ latest \in Reach
      /\ \A a, b : Between(a, b) \subseteq 1..last
      /\ wire # <<>> =>
          /\ Head(wire).seq \in Reach
          /\ Head(wire).kind = "event" => Head(wire).seq \in 1..last
  BY Facts DEF Reach
<1>c. Cardinality({}) <= PendingLimit /\ {} \subseteq 1..last
  BY FS_EmptySet, DetailAssumption DEF DetailAssumption
<1>q. ASSUME NEW events, events \subseteq 1..last, NEW l \in Reach, NEW r \in Reach, Queue(events, l, r)
      PROVE  batch' \subseteq 1..last /\ latest' \in Reach /\ resume' \in Reach
  BY <1>a, <1>b, <1>q, Queued
<1>f. ASSUME NEW l \in Reach, NEW r \in Reach, FlushPending(l, r)
      PROVE  /\ batch' \subseteq 1..last /\ latest' \in Reach /\ resume' \in Reach
             /\ pending' \subseteq 1..last /\ Cardinality(pending') <= PendingLimit
  <2>1. {e \in pending : e > l} \subseteq 1..last
    BY <1>a
  <2> QED
    BY <1>c, <1>f, <1>q, <2>1 DEF FlushPending
<1>d. \A c, s \in Reach : Advanced(c, s) \in Reach
  BY DEF Advanced
<1> HIDE DEF Reach
<1>1. CASE UNCHANGED <<storeVars, bookVars>>
  BY <1>1, <1>a, <1>b DEF storeVars, bookVars
<1>2. CASE ReceiveSnapshot
  <2>1. wire # <<>> /\ deleted' = deleted
    BY <1>2 DEF ReceiveSnapshot
  <2>2. CASE leased /\ ~deleted
    BY <1>2, <1>a, <1>b, <1>f, <2>1, <2>2 DEF ReceiveSnapshot
  <2>3. CASE ~(leased /\ ~deleted)
    BY <1>2, <1>a, <1>b, <1>c, <2>1, <2>3 DEF ReceiveSnapshot
  <2> QED
    BY <2>2, <2>3
<1>3. CASE ReceiveEarlyEvent
  <2>1. /\ wire # <<>> /\ Head(wire).kind = "event" /\ UNCHANGED <<storeVars, latest, resume>>
        /\ pending' = Bounded(pending \union {Head(wire).seq})
    BY <1>3 DEF ReceiveEarlyEvent
  <2>2. PICK e \in 1..last : e = Head(wire).seq
    BY <1>b, <2>1
  <2>3. PICK k \in Nat : k = last
    BY <1>b
  <2>4. /\ Bounded(pending \union {e}) \subseteq pending \union {e}
        /\ Cardinality(Bounded(pending \union {e})) <= PendingLimit
    BY <1>a, <2>2, <2>3, Kept
  <2>5. pending' \subseteq 1..last /\ Cardinality(pending') <= PendingLimit
    BY <1>a, <2>1, <2>2, <2>4
  <2> QED
    BY <1>a, <1>b, <2>1, <2>5 DEF storeVars
<1>4. CASE ReceiveEvent
  <2>1. wire # <<>> /\ Head(wire).kind = "event" /\ UNCHANGED <<stored, synced, deleted, pending>>
        /\ Queue({Head(wire).seq} \ 0..latest, latest, resume)
    BY <1>4 DEF ReceiveEvent
  <2>2. {Head(wire).seq} \ 0..latest \subseteq 1..last
    BY <1>b, <2>1
  <2> QED
    BY <1>a, <1>b, <1>q, <2>1, <2>2
<1>5. CASE Flush
  BY <1>5, <1>a, <1>b DEF Flush, bookVars
<1>6. CASE \E i \in 1..Len(replays), t \in 0..last : ReplayReturns(i, t)
  BY <1>6, <1>a, <1>b, <1>q DEF ReplayReturns
<1>7. CASE \E i \in 1..Len(checks), s \in 0..last : CheckApplies(i, s)
  <2>1. PICK i \in 1..Len(checks), s \in 0..last : CheckApplies(i, s)
    BY <1>7
  <2>2. s \in Reach
    BY DEF Reach
  <2>3. /\ UNCHANGED deleted
        /\ \/ /\ stored' = {} /\ synced' = FALSE
              /\ FlushPending(Advanced(latest, s), NoCursor)
           \/ /\ stored' = Between(0, checks[i].upto) /\ synced' = TRUE
              /\ FlushPending(Advanced(latest, s), Advanced(resume, s))
    BY <2>1 DEF CheckApplies, CheckAnswered
  <2>4. Advanced(latest, s) \in Reach /\ Advanced(resume, s) \in Reach
    BY <1>b, <1>d, <2>2
  <2> QED
    BY <1>a, <1>b, <1>f, <2>3, <2>4
<1>8. CASE Evict \/ Delete \/ StreamFails
  BY <1>8, <1>a, <1>b, <1>c DEF Evict, Delete, StreamFails, Wipe, storeVars
<1>9. CASE TakeLease \/ LeaseAgain \/ ForgetCursor
  BY <1>9, <1>a, <1>b, <1>c DEF TakeLease, LeaseAgain, ForgetCursor, Begin, storeVars
<1>10. CASE DropLease \/ Reset
  <2>1. UNCHANGED <<batch, deleted>>
    BY <1>10 DEF DropLease, Reset
  <2>2. UNCHANGED <<stored, synced, resume>> \/ Wipe
    BY <1>10 DEF DropLease, Reset, FreeOrphan, bookVars
  <2>3. UNCHANGED <<latest, pending>> \/ (latest' = NoCursor /\ pending' = {})
    <3>1. CASE Reset
      BY <3>1 DEF Reset, Release
    <3>2. CASE DropLease
      <4>1. CASE leased
        BY <3>2, <4>1 DEF DropLease, Release
      <4>2. CASE ~leased
        <5>1. bookVars' = bookVars
          BY <3>2, <4>2 DEF DropLease
        <5> QED
          BY <5>1 DEF bookVars
      <4> QED
        BY <4>1, <4>2
    <3> QED
      BY <1>10, <3>1, <3>2
  <2>4. stored' \subseteq 1..last /\ synced' \in BOOLEAN /\ resume' \in Reach
    BY <1>a, <1>b, <1>c, <2>2 DEF Wipe
  <2>5. pending' \subseteq 1..last /\ Cardinality(pending') <= PendingLimit /\ latest' \in Reach
    <3>1. CASE UNCHANGED <<latest, pending>>
      BY <1>a, <1>b, <3>1
    <3>2. CASE latest' = NoCursor /\ pending' = {}
      BY <1>b, <1>c, <3>2
    <3> QED
      BY <2>3, <3>1, <3>2
  <2>6. batch' \subseteq 1..last /\ deleted' \in BOOLEAN
    BY <1>a, <2>1
  <2> QED
    BY <2>4, <2>5, <2>6
<1> QED
  BY <1>1, <1>2, <1>3, <1>4, <1>5, <1>6, <1>7, <1>8, <1>9, <1>10, BookFrame DEF BookMoves

\* A call is made, served or answered; a lease begins or ends.
CallMoves ==
    \/ UNCHANGED <<checks, checking, generation, generations, leased>>
    \/ leased /\ StartCheck /\ UNCHANGED <<generation, generations, leased>>
    \/ \E i \in 1..Len(checks) :
        /\ checks[i].upto = NoCursor /\ checks' = [checks EXCEPT ![i].upto = last]
        /\ UNCHANGED <<checking, generation, generations, leased, last>>
    \/ \E i \in 1..Len(checks) :
        /\ checks' = RemoveAt(checks, i) /\ checking' \in {0, checking}
        /\ UNCHANGED <<generation, generations, leased>>
    \/ Begin /\ UNCHANGED checks
    \/ /\ leased' = FALSE /\ checking' = 0 /\ generation' = 0
       /\ UNCHANGED <<checks, generations>>

LEMMA CallFrame == [Next]_vars => CallMoves
<1> SUFFICES ASSUME [Next]_vars PROVE CallMoves
  OBVIOUS
<1> DEFINE Same == UNCHANGED <<checks, checking, generation, generations, leased>>
<1>s. ASSUME StartCheck, UNCHANGED <<generation, generations, leased>> PROVE CallMoves
  <2>1. CASE leased
    BY <1>s, <2>1 DEF CallMoves
  <2>2. CASE ~leased
    <3>1. UNCHANGED <<checks, checking>>
      BY <1>s, <2>2 DEF StartCheck, CanCheck
    <3> QED
      BY <1>s, <3>1 DEF CallMoves
  <2> QED
    BY <2>1, <2>2
<1>r. Same => CallMoves
  BY DEF CallMoves
<1>1. CASE JournalGrows \/ StreamAnswers \/ StreamBreaks \/ TransportRestarts \/ StreamStops \/ Flush
  <2>1. Same
    BY <1>1 DEF JournalGrows, StreamAnswers, StreamBreaks, TransportRestarts, StreamStops, Flush, callVars, leaseVars
  <2> QED
    BY <1>r, <2>1
<1>2. CASE ReceiveSnapshot \/ ReceiveEvent \/ StreamFails \/ StartReplay
  <2>1. Same
    BY <1>2 DEF ReceiveSnapshot, ReceiveEvent, StreamFails, StartReplay, callVars, leaseVars
  <2> QED
    BY <1>r, <2>1
<1>3. CASE ReceiveEarlyEvent \/ PollProjection
  BY <1>3, <1>s DEF ReceiveEarlyEvent, PollProjection, leaseVars
<1>4. CASE Hold \/ WantLease \/ WantDrop \/ Reconnect \/ Evict \/ Delete
  <2>1. Same
    BY <1>4 DEF Hold, WantLease, WantDrop, Reconnect, Evict, Delete, callVars, leaseVars
  <2> QED
    BY <1>r, <2>1
<1>5. CASE \E i \in 1..Len(replays), t \in 0..last : ReplayReturns(i, t)
  <2>1. Same
    BY <1>5 DEF ReplayReturns, leaseVars
  <2> QED
    BY <1>r, <2>1
<1>6. CASE \E i \in 1..Len(checks) :
              ServeCheck(i) \/ CheckIgnored(i) \/ \E s \in 0..last : CheckApplies(i, s)
  <2>1. PICK i \in 1..Len(checks) : ServeCheck(i) \/ CheckIgnored(i) \/ \E s \in 0..last : CheckApplies(i, s)
    BY <1>6
  <2>2. CASE ServeCheck(i)
    BY <2>2 DEF ServeCheck, leaseVars, feedVars, CallMoves
  <2>3. CASE CheckAnswered(i)
    BY <2>3 DEF CheckAnswered, leaseVars, CallMoves
  <2> QED
    BY <2>1, <2>2, <2>3 DEF CheckIgnored, CheckApplies
<1>7. CASE TakeLease \/ LeaseAgain
  <2>1. CASE Begin
    BY <1>7, <2>1 DEF TakeLease, LeaseAgain, CallMoves
  <2>2. CASE ~Begin
    <3>1. Same
      BY <1>7, <2>2 DEF TakeLease, LeaseAgain
    <3> QED
      BY <1>r, <3>1
  <2> QED
    BY <2>1, <2>2
<1>8. CASE DropLease
  <2>1. CASE leased
    BY <1>8, <2>1 DEF DropLease, Release, CallMoves
  <2>2. CASE ~leased
    <3>1. Same
      BY <1>8, <2>2 DEF DropLease
    <3> QED
      BY <1>r, <3>1
  <2> QED
    BY <2>1, <2>2
<1>9. CASE Reset
  BY <1>9 DEF Reset, Release, CallMoves
<1>10. CASE DropEnds \/ SubscribeThread \/ StopForRefresh \/ ForgetCursor \/ SubscribeForRefresh \/ RefreshWithoutLease
  <2>1. Same
    BY <1>10 DEF DropEnds, SubscribeThread, StopForRefresh, ForgetCursor, SubscribeForRefresh,
                 RefreshWithoutLease, callVars, leaseVars
  <2> QED
    BY <1>r, <2>1
<1>11. CASE UNCHANGED vars
  <2>1. Same
    BY <1>11 DEF vars, callVars, leaseVars
  <2> QED
    BY <1>r, <2>1
<1> HIDE DEF Same
<1> QED
  BY <1>1, <1>2, <1>3, <1>4, <1>5, <1>6, <1>7, <1>8, <1>9, <1>10, <1>11
     DEF Next, Outside, Chain, Answer, Receive

\* A replay is asked for what follows the credit, and forgotten when it is answered.
ReplayMoves ==
    \/ UNCHANGED replays
    \/ latest # NoCursor /\ replays' = Append(replays, latest)
    \/ \E i \in 1..Len(replays) : replays' = RemoveAt(replays, i)

LEMMA ReplayFrame == [Next]_vars => ReplayMoves
<1> SUFFICES ASSUME [Next]_vars PROVE ReplayMoves
  OBVIOUS
<1>1. CASE JournalGrows \/ StreamAnswers \/ StreamBreaks \/ TransportRestarts \/ StreamStops \/ Flush
  BY <1>1 DEF JournalGrows, StreamAnswers, StreamBreaks, TransportRestarts, StreamStops, Flush, callVars, ReplayMoves
<1>2. CASE Receive \/ StreamFails \/ PollProjection
  BY <1>2 DEF Receive, ReceiveSnapshot, ReceiveEvent, ReceiveEarlyEvent, StreamFails, PollProjection,
              callVars, ReplayMoves
<1>3. CASE StartReplay
  BY <1>3 DEF StartReplay, ReplayMoves
<1>4. CASE Hold \/ WantLease \/ WantDrop \/ Reconnect \/ Evict \/ Delete
  BY <1>4 DEF Hold, WantLease, WantDrop, Reconnect, Evict, Delete, callVars, ReplayMoves
<1>5. CASE Answer
  BY <1>5 DEF Answer, ReplayReturns, ServeCheck, CheckIgnored, CheckApplies, CheckAnswered, ReplayMoves
<1>6. CASE TakeLease \/ LeaseAgain \/ DropLease \/ Reset
  BY <1>6 DEF TakeLease, LeaseAgain, DropLease, Reset, ReplayMoves
<1>7. CASE DropEnds \/ SubscribeThread \/ StopForRefresh \/ ForgetCursor \/ SubscribeForRefresh \/ RefreshWithoutLease
  BY <1>7 DEF DropEnds, SubscribeThread, StopForRefresh, ForgetCursor, SubscribeForRefresh,
              RefreshWithoutLease, callVars, ReplayMoves
<1>8. CASE UNCHANGED vars
  BY <1>8 DEF vars, callVars, ReplayMoves
<1> QED
  BY <1>1, <1>2, <1>3, <1>4, <1>5, <1>6, <1>7, <1>8 DEF Next, Outside, Chain

\* An operation joins the chain, goes on, ends, or ends with another refresh behind it.
ChainMoves ==
    \/ UNCHANGED ops
    \/ \E n \in {"lease", "drop", "refresh", "reset"} : Enqueue(Op(n, 0, NoCursor))
    \/ ops # <<>> /\ Done
    \/ ops # <<>> /\ \E s \in 0..2, c \in {NoCursor, resume} : GoOn(s, c)
    \/ ops # <<>> /\ ops' = Append(Tail(ops), Op("refresh", 0, NoCursor))

LEMMA ChainFrame == [Next]_vars => ChainMoves
<1> SUFFICES ASSUME [Next]_vars PROVE ChainMoves
  OBVIOUS
<1>g. \A s \in 0..2 : ops # <<>> /\ (GoOn(s, NoCursor) \/ GoOn(s, resume)) => ChainMoves
  BY DEF ChainMoves
<1>n. 1 \in 0..2 /\ 2 \in 0..2
  OBVIOUS
<1>1. CASE JournalGrows \/ StreamAnswers \/ StreamBreaks \/ TransportRestarts \/ StreamStops \/ Flush
  BY <1>1 DEF JournalGrows, StreamAnswers, StreamBreaks, TransportRestarts, StreamStops, Flush, ChainMoves
<1>2. CASE Receive \/ StartReplay \/ PollProjection
  BY <1>2 DEF Receive, ReceiveSnapshot, ReceiveEvent, ReceiveEarlyEvent, StartReplay, PollProjection, ChainMoves
<1>3. CASE Answer
  BY <1>3 DEF Answer, ReplayReturns, ServeCheck, CheckIgnored, CheckApplies, CheckAnswered, ChainMoves
<1>4. CASE Hold \/ Delete \/ WantLease \/ WantDrop \/ Reconnect
  BY <1>4 DEF Hold, Delete, WantLease, WantDrop, Reconnect, ChainMoves
<1>5. CASE Evict
  <2>1. UNCHANGED ops \/ Enqueue(Op("refresh", 0, NoCursor))
    BY <1>5 DEF Evict, RequestRefresh
  <2> QED
    BY <2>1 DEF ChainMoves
<1>6. CASE StreamFails
  <2>1. UNCHANGED ops \/ Enqueue(Op("refresh", 0, NoCursor))
    BY <1>6 DEF StreamFails
  <2> QED
    BY <2>1 DEF ChainMoves
<1>7. CASE TakeLease \/ LeaseAgain
  <2>1. ops # <<>> /\ (Done \/ GoOn(2, resume))
    BY <1>7 DEF TakeLease, LeaseAgain, Begin, Running
  <2> HIDE DEF Done, GoOn
  <2>2. CASE Done
    BY <2>1, <2>2 DEF ChainMoves
  <2> QED
    BY <1>g, <1>n, <2>1, <2>2
<1>8. CASE DropLease \/ Reset
  <2>1. ops # <<>> /\ (Done \/ GoOn(1, NoCursor))
    BY <1>8 DEF DropLease, Reset, Running
  <2>2. CASE Done
    BY <2>1, <2>2 DEF ChainMoves
  <2> QED
    BY <1>g, <1>n, <2>1, <2>2
<1>9. CASE StopForRefresh \/ ForgetCursor
  <2>1. ops # <<>> /\ (GoOn(1, NoCursor) \/ GoOn(2, NoCursor))
    BY <1>9 DEF StopForRefresh, ForgetCursor, Running
  <2> QED
    BY <1>g, <1>n, <2>1
<1>10. CASE DropEnds \/ SubscribeThread
  BY <1>10 DEF DropEnds, SubscribeThread, Running, ChainMoves
<1>11. CASE SubscribeForRefresh \/ RefreshWithoutLease
  BY <1>11 DEF SubscribeForRefresh, RefreshWithoutLease, RefreshEnds, Running, ChainMoves
<1>12. CASE UNCHANGED vars
  BY <1>12 DEF vars, ChainMoves
<1> QED
  BY <1>1, <1>2, <1>3, <1>4, <1>5, <1>6, <1>7, <1>8, <1>9, <1>10, <1>11, <1>12 DEF Next, Outside, Chain

\* The outside world does no more than the bounds allow.
LEMMA Spent ==
    ASSUME TypeInv, [Next]_vars
    PROVE  left' \in [Kinds -> Nat] /\ \A k \in Kinds : left'[k] <= Budget[k]
<1>a. left \in [Kinds -> Nat] /\ Budget \in [Kinds -> Nat] /\ \A k \in Kinds : left[k] <= Budget[k]
  BY DetailAssumption DEF DetailAssumption, TypeInv, TypeOK
<1>b. ASSUME NEW k \in Kinds, Spend(k)
      PROVE  left' \in [Kinds -> Nat] /\ \A j \in Kinds : left'[j] <= Budget[j]
  <2>1. left[k] \in Nat /\ left[k] > 0 /\ left' = [left EXCEPT ![k] = left[k] - 1]
    BY <1>a, <1>b DEF Spend
  <2>2. PICK n \in Nat : left[k] = n + 1
    <3>1. left[k] - 1 \in Nat /\ left[k] = (left[k] - 1) + 1
      BY <2>1
    <3> QED
      BY <3>1
  <2>3. left[k] - 1 = n
    BY <2>2
  <2>4. left' = [left EXCEPT ![k] = n]
    BY <2>1, <2>3
  <2>5. left' \in [Kinds -> Nat] /\ left'[k] = n /\ \A j \in Kinds : j # k => left'[j] = left[j]
    BY <1>a, <2>4
  <2>6. n <= Budget[k]
    BY <1>a, <2>2
  <2> QED
    BY <1>a, <2>5, <2>6
<1>k. /\ "hold" \in Kinds /\ "show" \in Kinds /\ "drop" \in Kinds /\ "evict" \in Kinds /\ "delete" \in Kinds
      /\ "replay" \in Kinds /\ "reconcile" \in Kinds /\ "break" \in Kinds /\ "refuse" \in Kinds
      /\ "reset" \in Kinds
  BY DEF Kinds
<1>m. UNCHANGED left \/ \E k \in Kinds : Spend(k)
  <2> HIDE DEF Kinds, Spend
  <2>1. CASE JournalGrows \/ StreamAnswers \/ StreamBreaks \/ TransportRestarts \/ StreamStops \/ Flush
    BY <2>1, <1>k DEF JournalGrows, StreamAnswers, StreamBreaks, TransportRestarts, StreamStops, Flush
  <2>2. CASE Receive \/ StreamFails \/ StartReplay \/ PollProjection
    BY <2>2, <1>k DEF Receive, ReceiveSnapshot, ReceiveEvent, ReceiveEarlyEvent, StreamFails,
                      StartReplay, PollProjection
  <2>3. CASE Answer
    BY <2>3 DEF Answer, ReplayReturns, ServeCheck, CheckIgnored, CheckApplies, CheckAnswered
  <2>4. CASE Hold \/ WantLease \/ WantDrop \/ Reconnect \/ Evict \/ Delete
    BY <2>4, <1>k DEF Hold, WantLease, WantDrop, Reconnect, Evict, Delete
  <2>5. CASE Chain
    BY <2>5, <1>k DEF Chain, TakeLease, DropLease, DropEnds, Reset, LeaseAgain, SubscribeThread, Subscribe,
                StopForRefresh, ForgetCursor, SubscribeForRefresh, RefreshWithoutLease
  <2>6. CASE UNCHANGED vars
    BY <2>6 DEF vars
  <2> QED
    BY <2>1, <2>2, <2>3, <2>4, <2>5, <2>6 DEF Next, Outside
<1>c. CASE UNCHANGED left
  BY <1>a, <1>c
<1> QED
  BY <1>b, <1>c, <1>m

FlagsOK ==
    /\ replayFlag \in BOOLEAN /\ crossed \in BOOLEAN /\ spilled \in BOOLEAN
    /\ refreshFlag \in BOOLEAN /\ refreshAgain \in BOOLEAN /\ retried \in BOOLEAN
    /\ leased \in BOOLEAN /\ held \in BOOLEAN /\ wanted \in BOOLEAN /\ subscribed \in BOOLEAN
    /\ forsaken \in BOOLEAN

LEMMA FlagTypes ==
    ASSUME FlagsOK, [Next]_vars
    PROVE  FlagsOK'
<1>c. Cross => crossed' \in BOOLEAN /\ spilled' = spilled
  BY DEF Cross
<1>r. RequestRefresh => refreshFlag' \in {TRUE, refreshFlag} /\ refreshAgain' \in {TRUE, refreshAgain}
  BY DEF RequestRefresh
<1>u. UNCHANGED <<callVars, refreshVars, leaseVars>> => FlagsOK'
  BY DEF callVars, ghosts, refreshVars, leaseVars, FlagsOK
<1>1. CASE JournalGrows \/ StreamAnswers \/ StreamBreaks \/ TransportRestarts \/ StreamStops \/ Flush
  <2>1. UNCHANGED <<callVars, refreshVars, leased, held, wanted, subscribed>> /\ forsaken' \in {FALSE, forsaken}
    BY <1>1 DEF JournalGrows, StreamAnswers, StreamBreaks, TransportRestarts, StreamStops, Flush, leaseVars
  <2> QED
    BY <2>1 DEF callVars, ghosts, refreshVars, FlagsOK
<1>2. CASE ReceiveSnapshot
  <2>1. /\ refreshFlag' = FALSE /\ retried' \in {FALSE, retried} /\ (Cross \/ UNCHANGED ghosts)
        /\ UNCHANGED <<replayFlag, refreshAgain, leaseVars>>
    BY <1>2 DEF ReceiveSnapshot
  <2> QED
    BY <1>c, <2>1 DEF ghosts, leaseVars, FlagsOK
<1>3. CASE ReceiveEarlyEvent
  <2>1. /\ spilled' = (spilled \/ Spills(pending \union {Head(wire).seq}))
        /\ UNCHANGED <<replayFlag, crossed, refreshVars, leaseVars>>
    BY <1>3 DEF ReceiveEarlyEvent
  <2>2. spilled' \in BOOLEAN
    BY <2>1
  <2> QED
    BY <2>1, <2>2 DEF refreshVars, leaseVars, FlagsOK
<1>4. CASE ReceiveEvent \/ StartReplay \/ PollProjection
  <2>1. replayFlag' \in {TRUE, replayFlag} /\ UNCHANGED <<ghosts, refreshVars, leaseVars>>
    BY <1>4 DEF ReceiveEvent, StartReplay, PollProjection, callVars
  <2> QED
    BY <2>1 DEF ghosts, refreshVars, leaseVars, FlagsOK
<1>5. CASE StreamFails
  <2>1. /\ Cross /\ refreshFlag' \in BOOLEAN /\ refreshAgain' = FALSE /\ retried' \in {TRUE, retried}
        /\ UNCHANGED <<replayFlag, leased, held, wanted, subscribed>> /\ forsaken' \in {TRUE, forsaken}
    BY <1>5 DEF StreamFails
  <2> QED
    BY <1>c, <2>1 DEF FlagsOK
<1>6. CASE Answer
  <2>1. replayFlag' \in {FALSE, replayFlag} /\ UNCHANGED <<ghosts, refreshVars, leaseVars>>
    BY <1>6 DEF Answer, ReplayReturns, ServeCheck, CheckIgnored, CheckApplies, CheckAnswered
  <2> QED
    BY <2>1 DEF ghosts, refreshVars, leaseVars, FlagsOK
<1>7. CASE Hold \/ WantLease \/ WantDrop \/ Reconnect
  <2>1. UNCHANGED <<replayFlag, ghosts, refreshVars, leased, subscribed, forsaken>>
    BY <1>7 DEF Hold, WantLease, WantDrop, Reconnect, callVars, leaseVars
  <2>2. held' \in {TRUE, held} /\ wanted' \in {TRUE, FALSE, wanted}
    BY <1>7 DEF Hold, WantLease, WantDrop, Reconnect, leaseVars
  <2> QED
    BY <2>1, <2>2 DEF ghosts, refreshVars, FlagsOK
<1>8. CASE Evict
  <2>1. /\ Cross /\ held' = FALSE /\ (RequestRefresh \/ UNCHANGED <<refreshFlag, refreshAgain>>)
        /\ UNCHANGED <<replayFlag, retried, leased, wanted, subscribed, forsaken>>
    BY <1>8 DEF Evict
  <2> QED
    BY <1>c, <1>r, <2>1 DEF FlagsOK
<1>9. CASE Delete
  <2>1. Cross /\ UNCHANGED <<replayFlag, refreshVars, leaseVars>>
    BY <1>9 DEF Delete
  <2> QED
    BY <1>c, <2>1 DEF refreshVars, leaseVars, FlagsOK
<1>10. CASE TakeLease \/ LeaseAgain
  <2>1. UNCHANGED <<replayFlag, ghosts, held, wanted, subscribed, forsaken>>
    BY <1>10 DEF TakeLease, LeaseAgain
  <2>2. \/ UNCHANGED <<leased, refreshVars>>
        \/ leased' = TRUE /\ refreshFlag' = FALSE /\ refreshAgain' = FALSE /\ retried' = FALSE
    BY <1>10 DEF TakeLease, LeaseAgain, Begin
  <2> QED
    BY <2>1, <2>2 DEF ghosts, refreshVars, FlagsOK
<1>11. CASE DropLease \/ Reset
  <2>1. UNCHANGED <<held, wanted, forsaken>>
    BY <1>11 DEF DropLease, Reset, leaseVars
  <2>2. \/ UNCHANGED <<replayFlag, ghosts, refreshVars, leased, subscribed>>
        \/ Release /\ retried' \in {FALSE, retried}
    BY <1>11 DEF DropLease, Reset
  <2>3. CASE UNCHANGED <<replayFlag, ghosts, refreshVars, leased, subscribed>>
    BY <2>1, <2>3 DEF ghosts, refreshVars, FlagsOK
  <2>4. CASE Release /\ retried' \in {FALSE, retried}
    BY <1>c, <2>1, <2>4 DEF Release, Unsubscribe, FlagsOK
  <2> QED
    BY <2>2, <2>3, <2>4
<1>12. CASE DropEnds \/ SubscribeThread \/ StopForRefresh \/ ForgetCursor
  <2>1. /\ UNCHANGED <<callVars, refreshVars, leased, held, wanted>>
        /\ subscribed' \in {TRUE, FALSE, subscribed} /\ forsaken' \in {TRUE, FALSE, forsaken}
    BY <1>12 DEF DropEnds, SubscribeThread, Subscribe, StopForRefresh, ForgetCursor, Unsubscribe, leaseVars
  <2> QED
    BY <2>1 DEF callVars, ghosts, refreshVars, FlagsOK
<1>13. CASE SubscribeForRefresh \/ RefreshWithoutLease
  <2>1. /\ UNCHANGED <<callVars, leased, held, wanted>>
        /\ subscribed' \in {TRUE, subscribed} /\ forsaken' \in {TRUE, FALSE, forsaken}
    BY <1>13 DEF SubscribeForRefresh, Subscribe, RefreshWithoutLease, leaseVars
  <2>2. refreshFlag' \in BOOLEAN /\ refreshAgain' = FALSE /\ retried' = retried
    BY <1>13 DEF SubscribeForRefresh, RefreshWithoutLease, RefreshEnds
  <2> QED
    BY <2>1, <2>2 DEF callVars, ghosts, FlagsOK
<1>14. CASE UNCHANGED vars
  BY <1>14 DEF vars, callVars, ghosts, refreshVars, leaseVars, FlagsOK
<1> QED
  BY <1>1, <1>2, <1>3, <1>4, <1>5, <1>6, <1>7, <1>8, <1>9, <1>10, <1>11, <1>12, <1>13, <1>14
     DEF Next, Outside, Chain, Receive

Calls(g, n) == [generation : 1..g, upto : 0..n \union {NoCursor}]

LEMMA CallTypes ==
    ASSUME TypeInv, CallMoves, last' \in Nat, last <= last'
    PROVE  /\ generations' \in Nat /\ generation' \in 0..generations' /\ checking' \in 0..generations'
           /\ checks' \in Seq(Calls(generations', last'))
           /\ leased' <=> generation' # 0
<1>a. /\ generations \in Nat /\ generation \in 0..generations /\ checking \in 0..generations
      /\ checks \in Seq(Calls(generations, last)) /\ (leased <=> generation # 0)
      /\ last \in Nat
  BY Facts DEF TypeInv, TypeOK, Calls
<1>b. \A g \in Nat : generations <= g => Calls(generations, last) \subseteq Calls(g, last')
  <2>1. 0..last \subseteq 0..last'
    BY <1>a
  <2>2. \A g \in Nat : generations <= g => 1..generations \subseteq 1..g
    BY <1>a
  <2> QED
    BY <2>1, <2>2 DEF Calls
<1>c. \A g \in Nat : generations <= g => checks \in Seq(Calls(g, last'))
  <2>1. ASSUME NEW g \in Nat, generations <= g PROVE checks \in Seq(Calls(g, last'))
    <3>1. Calls(generations, last) \subseteq Calls(g, last')
      BY <1>b, <2>1
    <3> HIDE DEF Calls
    <3> QED
      BY <1>a, <3>1
  <2> QED
    BY <2>1
<1>1. CASE UNCHANGED <<checks, checking, generation, generations, leased>>
  BY <1>1, <1>a, <1>c
<1>2. CASE leased /\ StartCheck /\ UNCHANGED <<generation, generations, leased>>
  <2>1. CASE CanCheck
    <3>1. /\ checking' = generation
          /\ checks' = Append(checks, [generation |-> generation, upto |-> NoCursor])
      BY <1>2, <2>1 DEF StartCheck
    <3>2. [generation |-> generation, upto |-> NoCursor] \in Calls(generations, last')
      BY <1>a, <1>2 DEF Calls
    <3>3. checks \in Seq(Calls(generations, last'))
      BY <1>a, <1>c
    <3>4. checks' \in Seq(Calls(generations, last'))
      BY <3>1, <3>2, <3>3, Appended
    <3> QED
      BY <1>2, <1>a, <3>1, <3>4
  <2>2. CASE ~CanCheck
    <3>1. UNCHANGED <<checks, checking>>
      BY <1>2, <2>2 DEF StartCheck
    <3> QED
      BY <1>2, <1>a, <1>c, <3>1
  <2> QED
    BY <2>1, <2>2
<1>3. CASE \E i \in 1..Len(checks) :
            /\ checks[i].upto = NoCursor /\ checks' = [checks EXCEPT ![i].upto = last]
            /\ UNCHANGED <<checking, generation, generations, leased, last>>
  <2>1. PICK i \in 1..Len(checks) : checks' = [checks EXCEPT ![i].upto = last]
    BY <1>3
  <2>2. checks \in Seq(Calls(generations, last'))
    BY <1>a, <1>c
  <2>3. checks[i] \in Calls(generations, last') /\ Len(checks) \in Nat
    BY <2>2
  <2>4. [checks[i] EXCEPT !.upto = last] \in Calls(generations, last')
    BY <1>a, <2>3 DEF Calls
  <2>5. checks' = [checks EXCEPT ![i] = [checks[i] EXCEPT !.upto = last]]
    BY <2>1
  <2> HIDE DEF Calls
  <2>6. checks' \in Seq(Calls(generations, last'))
    BY <2>2, <2>4, <2>5
  <2> QED
    BY <1>3, <1>a, <2>6
<1>4. CASE \E i \in 1..Len(checks) :
            /\ checks' = RemoveAt(checks, i) /\ checking' \in {0, checking}
            /\ UNCHANGED <<generation, generations, leased>>
  <2>1. checks \in Seq(Calls(generations, last'))
    BY <1>a, <1>c
  <2>2. checks' \in Seq(Calls(generations, last'))
    BY <1>4, <2>1, Removed
  <2> QED
    BY <1>4, <1>a, <2>2
<1>5. CASE Begin /\ UNCHANGED checks
  <2>1. /\ generations' = generations + 1 /\ generation' = generations + 1
        /\ checking' = 0 /\ leased' = TRUE /\ checks' = checks
    BY <1>5 DEF Begin
  <2>2. generations + 1 \in Nat /\ generations <= generations + 1 /\ generations + 1 # 0
    BY <1>a
  <2>3. checks \in Seq(Calls(generations + 1, last'))
    BY <1>c, <2>2
  <2> HIDE DEF Calls
  <2>4. generation' \in 0..generations' /\ checking' \in 0..generations' /\ generation' # 0
    BY <2>1, <2>2
  <2> QED
    BY <2>1, <2>2, <2>3, <2>4
<1>6. CASE /\ leased' = FALSE /\ checking' = 0 /\ generation' = 0
           /\ UNCHANGED <<checks, generations>>
  BY <1>6, <1>a, <1>c
<1> QED
  BY <1>1, <1>2, <1>3, <1>4, <1>5, <1>6 DEF CallMoves

LEMMA TypeInit == Init => TypeInv
<1> SUFFICES ASSUME Init PROVE TypeInv
  OBVIOUS
<1>1. /\ last = 0 /\ rel = {} /\ gone = {} /\ phase = "off" /\ cursor = NoCursor /\ asked = 0
      /\ pos = 0 /\ wire = <<>> /\ MaxSeq \in Nat
  BY FeedAssumption DEF Init, FeedInit, FeedAssumption
<1>2. FeedTypeOK /\ WireInv
  BY <1>1 DEF FeedTypeOK, WireInv, Cursors
<1>3. BoundInv
  BY <1>1 DEF Init, BoundInv, Reach
<1>4. Cardinality({}) <= PendingLimit /\ Budget \in [Kinds -> Nat] /\ \A k \in Kinds : Budget[k] <= Budget[k]
  BY FS_EmptySet, DetailAssumption DEF DetailAssumption
<1>5. /\ stored = {} /\ synced = FALSE /\ batch = {} /\ deleted = FALSE
      /\ latest = NoCursor /\ pending = {} /\ resume = NoCursor
      /\ replays = <<>> /\ generation = 0 /\ generations = 0 /\ checking = 0 /\ checks = <<>>
      /\ leased = FALSE /\ ops = <<>> /\ left = Budget
  BY DEF Init
<1>6. /\ replayFlag \in BOOLEAN /\ crossed \in BOOLEAN /\ spilled \in BOOLEAN
      /\ refreshFlag \in BOOLEAN /\ refreshAgain \in BOOLEAN /\ retried \in BOOLEAN
      /\ leased \in BOOLEAN /\ held \in BOOLEAN /\ wanted \in BOOLEAN /\ subscribed \in BOOLEAN
      /\ forsaken \in BOOLEAN
  BY DEF Init
<1>7. /\ \A S : <<>> \in Seq(S)
      /\ {} \subseteq 1..0 /\ generations \in Nat /\ generation \in 0..generations
      /\ checking \in 0..generations /\ (leased <=> generation # 0)
  BY <1>5
<1>8. FeedTypeOK /\ latest \in Cursors /\ resume \in Cursors
  BY <1>2, <1>5 DEF Cursors
<1>9. TypeOK
  BY <1>1, <1>8, <1>4, <1>5, <1>6, <1>7 DEF TypeOK
<1> QED
  BY <1>2, <1>3, <1>9 DEF TypeInv

LEMMA TypeKept ==
    ASSUME TypeInv, [Next]_vars
    PROVE  /\ TypeInv' /\ last \in Nat /\ last' \in Nat /\ last <= last' /\ rel \subseteq rel'
<1>a. TypeOK /\ BoundInv /\ WireInv /\ FeedTypeOK
  BY DEF TypeInv, TypeOK
<1>1. /\ FeedTypeOK' /\ WireInv' /\ cursor' \in Reach' /\ pos' \in 0..last'
      /\ last \in Nat /\ last' \in Nat /\ last <= last' /\ last' <= MaxSeq
      /\ rel \subseteq rel' /\ gone' = {}
  <2>1. FeedMoves
    BY <1>a, FeedFrame
  <2>2. cursor \in Reach /\ pos \in 0..last
    BY <1>a DEF BoundInv
  <2> QED
    BY <1>a, <2>1, <2>2, FeedStep
<1>2. 1..last \subseteq 1..last' /\ 0..last \subseteq 0..last' /\ Reach \subseteq Reach' /\ 0..last' \subseteq 0..MaxSeq
  <2>1. MaxSeq \in Nat
    BY FeedAssumption DEF FeedAssumption
  <2> QED
    BY <1>1, <2>1 DEF Reach
<1>3. /\ stored' \subseteq 1..last' /\ batch' \subseteq 1..last'
      /\ synced' \in BOOLEAN /\ deleted' \in BOOLEAN
      /\ latest' \in Reach' /\ resume' \in Reach'
      /\ pending' \subseteq 1..last' /\ Cardinality(pending') <= PendingLimit
  BY <1>2, BookTypes
<1>4. Reach' \subseteq Cursors
  BY <1>1, <1>2 DEF Reach, Cursors
<1>5. /\ generations' \in Nat /\ generation' \in 0..generations' /\ checking' \in 0..generations'
      /\ checks' \in Seq(Calls(generations', last'))
      /\ (leased' <=> generation' # 0)
  BY <1>1, CallFrame, CallTypes
<1>6. FlagsOK'
  <2>1. FlagsOK
    BY <1>a DEF TypeOK, FlagsOK
  <2> QED
    BY <2>1, FlagTypes
<1>7. replays' \in Seq(0..last') /\ replays' \in Seq(0..MaxSeq)
  <2>1. replays \in Seq(0..last) /\ (latest # NoCursor => latest \in 0..last)
    BY <1>a DEF BoundInv, Reach
  <2>2. replays' \in Seq(0..last)
    <3>1. CASE UNCHANGED replays
      BY <2>1, <3>1
    <3>2. CASE latest # NoCursor /\ replays' = Append(replays, latest)
      BY <2>1, <3>2
    <3>3. CASE \E i \in 1..Len(replays) : replays' = RemoveAt(replays, i)
      BY <2>1, <3>3, Removed
    <3> QED
      BY <3>1, <3>2, <3>3, ReplayFrame DEF ReplayMoves
  <2>3. PICK k, n, m : k = 0..last /\ n = 0..last' /\ m = 0..MaxSeq
    OBVIOUS
  <2>4. replays' \in Seq(n) /\ replays' \in Seq(m)
    BY <1>2, <2>2, <2>3, Wider
  <2> QED
    BY <2>3, <2>4
<1>8. ops' \in Seq(Asking') /\ ops' \in Seq(Ops)
  <2>1. ops \in Seq(Asking) /\ NoCursor \in Reach /\ resume \in Reach
        /\ (ops # <<>> => Tail(ops) \in Seq(Asking) /\ Head(ops) \in Asking)
    <3>1. ops \in Seq(Asking) /\ NoCursor \in Reach /\ resume \in Reach
      BY Facts
    <3> QED
      BY <3>1, Behead
  <2> HIDE DEF Reach
  <2>2. \A n \in {"lease", "drop", "refresh", "reset"}, s \in 0..2, c \in Reach : Op(n, s, c) \in Asking
    BY DEF Op, Asking
  <2>3. ops # <<>> => Head(ops).name \in {"lease", "drop", "refresh", "reset"}
    BY <2>1 DEF Asking
  <2>4. ops' \in Seq(Asking)
    <3> HIDE DEF Op, Asking
    <3>1. CASE UNCHANGED ops
      BY <2>1, <3>1
    <3>2. CASE \E n \in {"lease", "drop", "refresh", "reset"} : Enqueue(Op(n, 0, NoCursor))
      <4>1. PICK n \in {"lease", "drop", "refresh", "reset"} : ops' = Append(ops, Op(n, 0, NoCursor))
        BY <3>2 DEF Enqueue
      <4>2. Op(n, 0, NoCursor) \in Asking
        BY <2>1, <2>2
      <4> QED
        BY <2>1, <4>1, <4>2, Appended
    <3>3. CASE ops # <<>> /\ Done
      BY <2>1, <3>3 DEF Done
    <3>4. CASE ops # <<>> /\ \E s \in 0..2, c \in {NoCursor, resume} : GoOn(s, c)
      <4>1. PICK s \in 0..2, c \in {NoCursor, resume} : ops' = <<Op(Head(ops).name, s, c)>> \o Tail(ops)
        BY <3>4 DEF GoOn
      <4>2. Op(Head(ops).name, s, c) \in Asking
        BY <2>1, <2>2, <2>3, <3>4
      <4> QED
        BY <2>1, <3>4, <4>1, <4>2, NewHead
    <3>5. CASE ops # <<>> /\ ops' = Append(Tail(ops), Op("refresh", 0, NoCursor))
      <4>1. Op("refresh", 0, NoCursor) \in Asking
        BY <2>1, <2>2
      <4> QED
        BY <2>1, <3>5, <4>1, Appended
    <3> QED
      BY <3>1, <3>2, <3>3, <3>4, <3>5, ChainFrame DEF ChainMoves
  <2>5. Asking \subseteq Asking' /\ Asking \subseteq Ops
    <3>1. Reach \subseteq Cursors
      BY <1>2, <1>4
    <3> QED
      BY <1>2, <3>1 DEF Asking, Ops
  <2> HIDE DEF Asking, Ops
  <2> QED
    BY <2>4, <2>5
<1>9. left' \in [Kinds -> Nat] /\ \A k \in Kinds : left'[k] <= Budget[k]
  BY Spent
<1>10. BoundInv'
  BY <1>1, <1>3, <1>7, <1>8 DEF BoundInv
<1>11. TypeOK'
  <2>1. latest' \in Cursors /\ resume' \in Cursors
    BY <1>3, <1>4
  <2>2. checks' \in Seq([generation : 1..generations', upto : 0..last' \union {NoCursor}])
    BY <1>5 DEF Calls
  <2> QED
    BY <1>1, <1>3, <1>5, <1>6, <1>7, <1>8, <1>9, <2>1, <2>2 DEF TypeOK, FlagsOK
<1> QED
  BY <1>1, <1>10, <1>11 DEF TypeInv

LEMMA TypeHolds == Spec => []TypeInv
<1>1. TypeInv /\ [Next]_vars => TypeInv'
  BY TypeKept
<1> QED
  BY <1>1, TypeInit, PTL DEF Spec

\* Every variable keeps to its type: the early-event buffer never passes its limit,
\* and the router has a generation exactly while it has a lease.
THEOREM DetailTypes == Spec => []TypeOK
<1>1. TypeInv => TypeOK
  BY DEF TypeInv
<1> QED
  BY <1>1, TypeHolds, PTL
-----------------------------------------------------------------------------
(* The chain of operations. *)

LEMMA OneMore ==
    ASSUME NEW T, NEW o \in Seq(T), NEW x \in T, x.step = 0, x.name = "refresh" => x.with = NoCursor,
           Tidy(o), NEW l \in BOOLEAN, NEW w \in BOOLEAN
    PROVE  LET p == Append(o, x)
           IN  /\ Tidy(p)
               /\ UnderWay(p) = UnderWay(o) /\ (UnderWay(o) => Head(p) = Head(o))
               /\ x.name = "refresh" /\ Settling(o, l, w) => Settling(p, l, w)
               /\ x.name # "refresh" /\ Says(x, w) => Settling(p, l, w)
<1> DEFINE p == Append(o, x)
           n == Len(o)
<1>1. /\ p \in Seq(T) /\ Len(p) = n + 1 /\ n \in Nat /\ p[n + 1] = x /\ p # <<>>
      /\ \A i \in 1..n : p[i] = o[i]
      /\ \A i \in 1..n + 1 : i \in 1..n \/ i = n + 1
  BY Appended
<1>2. Head(p) = p[1]
  BY <1>1, Behead
<1>3. Tidy(p)
  BY <1>1 DEF Tidy
<1>6. UnderWay(p) = UnderWay(o) /\ (UnderWay(o) => Head(p) = Head(o))
  <2>1. UnderWay(o) \in BOOLEAN /\ UnderWay(p) \in BOOLEAN
    BY DEF UnderWay
  <2>2. CASE o = <<>>
    <3>1. n = 0 /\ Head(p) = x
      BY <1>1, <1>2, <2>2
    <3> QED
      BY <2>1, <2>2, <3>1 DEF UnderWay
  <2>3. CASE o # <<>>
    <3>1. Head(o) = o[1] /\ 1 \in 1..n
      BY <2>3, Behead
    <3>2. Head(p) = Head(o)
      BY <1>1, <1>2, <3>1
    <3> QED
      BY <1>1, <2>1, <2>3, <3>2 DEF UnderWay
  <2> QED
    BY <2>2, <2>3
<1> HIDE DEF p, n
<1>7. ASSUME NEW k \in 0..n, Closing(p, k) PROVE x.name = "refresh" /\ Closing(o, k)
  <2>1. n + 1 \in k + 1..Len(p) /\ \A j \in k + 1..n : j \in k + 1..Len(p) /\ j \in 1..n
    BY <1>1
  <2>2. Closing(o, k)
    <3>1. \A j \in k + 1..n : o[j].name = "refresh"
      BY <1>1, <1>7, <2>1 DEF Closing
    <3> QED
      BY <3>1 DEF Closing, n
  <2> QED
    BY <1>1, <1>7, <2>1, <2>2 DEF Closing
<1>8. ASSUME x.name = "refresh", Settling(o, l, w) PROVE Settling(p, l, w)
  <2>1. ASSUME NEW k \in 1..Len(p), Closing(p, k) PROVE Says(p[k], w)
    <3>1. CASE k \in 1..n
      <4>1. k \in 0..n /\ k \in 1..Len(o) /\ p[k] = o[k]
        BY <1>1, <3>1 DEF n
      <4> QED
        BY <1>7, <1>8, <2>1, <4>1 DEF Settling
    <3>2. CASE k = n + 1
      BY <1>1, <1>8, <3>2 DEF Says
    <3> QED
      BY <1>1, <3>1, <3>2
  <2>2. Closing(p, 0) => l = w
    <3>1. 0 \in 0..n
      BY <1>1
    <3> QED
      BY <1>7, <1>8, <3>1 DEF Settling
  <2> QED
    BY <2>1, <2>2 DEF Settling
<1>9. ASSUME x.name # "refresh", Says(x, w) PROVE Settling(p, l, w)
  <2>1. ASSUME NEW k \in 1..Len(p), Closing(p, k) PROVE Says(p[k], w)
    <3>1. CASE k \in 1..n
      <4>1. k \in 0..n
        BY <1>1, <3>1
      <4> QED
        BY <1>7, <1>9, <2>1, <4>1
    <3>2. CASE k = n + 1
      BY <1>1, <1>9, <3>2
    <3> QED
      BY <1>1, <3>1, <3>2
  <2>2. ~Closing(p, 0)
    <3>1. 0 \in 0..n
      BY <1>1
    <3> QED
      BY <1>7, <1>9, <3>1
  <2> QED
    BY <2>1, <2>2 DEF Settling
<1> QED
  BY <1>3, <1>6, <1>8, <1>9 DEF p

LEMMA OneLess ==
    ASSUME NEW T, NEW o \in Seq(T), o # <<>>, Tidy(o), NEW l \in BOOLEAN, NEW w \in BOOLEAN
    PROVE  LET p == Tail(o)
           IN  /\ Tidy(p) /\ ~UnderWay(p)
               /\ (\A k \in 1..Len(o) : Closing(o, k) => Says(o[k], w)) /\ (Closing(o, 1) => l = w)
                    => Settling(p, l, w)
<1> DEFINE p == Tail(o)
           n == Len(p)
<1>1. /\ p \in Seq(T) /\ Head(o) = o[1] /\ n \in Nat /\ Len(o) = n + 1
      /\ \A i \in 1..n : i + 1 \in 1..Len(o) /\ p[i] = o[i + 1] /\ i + 1 # 1
  <2>1. /\ p \in Seq(T) /\ Head(o) = o[1] /\ n \in Nat /\ Len(o) = n + 1
        /\ \A i \in 1..n : i + 1 \in 1..Len(o) /\ p[i] = o[i + 1]
    BY Behead
  <2>2. \A i \in 1..n : i + 1 # 1
    BY <2>1
  <2> QED
    BY <2>1, <2>2
<1>2. ASSUME NEW k \in 1..n
      PROVE  /\ p[k].step = 0
             /\ p[k].name = "refresh" => p[k].with = NoCursor
  BY <1>1 DEF Tidy
<1>3. Tidy(p)
  BY <1>2 DEF Tidy
<1>4. ~UnderWay(p)
  <2>1. ASSUME p # <<>> PROVE Head(p) = p[1] /\ 1 \in 1..n
    BY <1>1, <2>1, Behead
  <2> HIDE DEF p
  <2> QED
    BY <1>2, <2>1 DEF UnderWay
<1> HIDE DEF p, n
<1>5. ASSUME NEW k \in 0..n, Closing(p, k) PROVE Closing(o, k + 1)
  <2>1. ASSUME NEW j \in (k + 1) + 1..Len(o) PROVE o[j].name = "refresh"
    <3>1. j - 1 \in k + 1..n /\ j - 1 \in 1..n /\ (j - 1) + 1 = j
      BY <1>1
    <3>2. p[j - 1].name = "refresh"
      BY <1>5, <3>1 DEF Closing, n
    <3> QED
      BY <1>1, <3>1, <3>2
  <2> QED
    BY <2>1 DEF Closing
<1>6. ASSUME \A k \in 1..Len(o) : Closing(o, k) => Says(o[k], w), Closing(o, 1) => l = w
      PROVE  Settling(p, l, w)
  <2>1. ASSUME NEW k \in 1..n, Closing(p, k) PROVE Says(p[k], w)
    <3>1. k \in 0..n /\ k + 1 \in 1..Len(o) /\ p[k] = o[k + 1]
      BY <1>1
    <3> QED
      BY <1>5, <1>6, <2>1, <3>1
  <2>2. Closing(p, 0) => l = w
    <3>1. 0 \in 0..n /\ 0 + 1 = 1
      BY <1>1
    <3> QED
      BY <1>5, <1>6, <3>1
  <2> QED
    BY <2>1, <2>2 DEF Settling, n
<1> QED
  BY <1>3, <1>4, <1>6 DEF p

LEMMA Onward ==
    ASSUME NEW T, NEW o \in Seq(T), o # <<>>, Tidy(o), NEW x \in T, x.name = Head(o).name,
           x.name = "drop" => x.step # 2, x.name = "lease" => x.step # 1,
           x.name = "refresh" => x.with = NoCursor,
           NEW l \in BOOLEAN, NEW m \in BOOLEAN, NEW w \in BOOLEAN, Settling(o, l, w)
    PROVE  LET p == <<x>> \o Tail(o)
           IN  /\ Tidy(p) /\ p # <<>> /\ Head(p) = x
               /\ x.name = "refresh" /\ l = m => Settling(p, m, w)
               /\ x.name # "refresh" /\ (Says(Head(o), w) => Says(x, w)) => Settling(p, m, w)
<1> DEFINE p == <<x>> \o Tail(o)
           n == Len(o)
<1>1. /\ p \in Seq(T) /\ Len(p) = n /\ p # <<>> /\ Head(p) = x /\ p[1] = x
      /\ n \in Nat /\ \A i \in 1..n : i # 1 => p[i] = o[i]
  BY NewHead
<1>2. Head(o) = o[1] /\ 1 \in 1..n
  BY Behead
<1> HIDE DEF p, n
<1>3. Tidy(p)
  BY <1>1 DEF Tidy, n
<1>4. \A i \in 1..n : p[i].name = o[i].name
  BY <1>1, <1>2
<1>5. \A k \in 0..n : Closing(p, k) <=> Closing(o, k)
  <2>1. ASSUME NEW k \in 0..n PROVE \A j \in k + 1..n : j \in 1..n
    BY <1>1
  <2>2. Len(o) = n
    BY DEF n
  <2> QED
    BY <1>1, <1>4, <2>1, <2>2 DEF Closing
<1>6. ASSUME Says(Head(o), w) => Says(x, w), NEW k \in 1..n, Closing(p, k) PROVE Says(p[k], w)
  <2>1. k \in 0..n
    BY <1>1
  <2>2. Says(o[k], w)
    BY <1>5, <1>6, <2>1 DEF Settling, n
  <2> QED
    BY <1>1, <1>2, <1>6, <2>2
<1>7. 0 \in 0..n
  BY <1>1
<1>8. ASSUME x.name = "refresh", l = m PROVE Settling(p, m, w)
  <2>1. Says(x, w)
    BY <1>8 DEF Says
  <2>2. \A k \in 1..n : Closing(p, k) => Says(p[k], w)
    BY <1>6, <2>1
  <2> QED
    BY <1>1, <1>5, <1>7, <1>8, <2>2 DEF Settling
<1>9. ASSUME x.name # "refresh", Says(Head(o), w) => Says(x, w) PROVE Settling(p, m, w)
  <2>1. ~Closing(p, 0)
    <3>1. 1 \in 0 + 1..n
      BY <1>2
    <3> QED
      BY <1>1, <1>9, <3>1 DEF Closing
  <2>2. \A k \in 1..n : Closing(p, k) => Says(p[k], w)
    BY <1>6, <1>9
  <2> QED
    BY <1>1, <2>1, <2>2 DEF Settling
<1> QED
  BY <1>1, <1>3, <1>8, <1>9 DEF p

LEMMA ChainInit == Init => ChainInv
<1> SUFFICES ASSUME Init PROVE ChainInv
  OBVIOUS
<1>1. ops = <<>> /\ leased = FALSE /\ wanted = FALSE /\ subscribed = FALSE /\ phase = "off" /\ Len(ops) = 0
  BY DEF Init, FeedInit
<1>2. Tidy(ops) /\ ~UnderWay(ops)
  BY <1>1 DEF Tidy, UnderWay
<1>3. Placed(ops, leased, subscribed, forsaken, phase)
  BY <1>1, <1>2 DEF Placed
<1>4. Settling(ops, leased, wanted)
  <2>1. \A k \in 1..Len(ops) : FALSE
    BY <1>1
  <2>2. leased = wanted
    BY <1>1
  <2> QED
    BY <2>1, <2>2 DEF Settling
<1> QED
  BY <1>2, <1>3, <1>4 DEF ChainInv

LEMMA ChainKept ==
    ASSUME TypeInv, ChainInv, [Next]_vars
    PROVE  ChainInv'
<1>a. /\ ops \in Seq(Asking) /\ NoCursor \in Reach /\ resume \in Reach
      /\ (ops # <<>> => Head(ops) \in Asking)
      /\ leased \in BOOLEAN /\ wanted \in BOOLEAN /\ subscribed \in BOOLEAN
      /\ leased' \in BOOLEAN /\ wanted' \in BOOLEAN /\ subscribed' \in BOOLEAN
  <2>1. TypeInv'
    BY TypeKept
  <2> QED
    BY <2>1, Facts DEF TypeInv, TypeOK
<1>b. Tidy(ops) /\ Placed(ops, leased, subscribed, forsaken, phase) /\ Settling(ops, leased, wanted)
  BY DEF ChainInv
<1>x. \A n \in {"lease", "drop", "refresh", "reset"}, s \in 0..2, c \in Reach :
        /\ Op(n, s, c) \in Asking
        /\ Op(n, s, c).name = n /\ Op(n, s, c).step = s /\ Op(n, s, c).with = c
  BY DEF Op, Asking
<1>h. ops # <<>> => Head(ops).name \in {"lease", "drop", "refresh", "reset"}
  BY <1>a DEF Asking
<1> HIDE DEF Asking, Op, Reach
<1>q. ASSUME UNCHANGED <<ops, leased, wanted, subscribed>>, phase = "off" => phase' = "off" \/ leased,
             forsaken => forsaken' \/ subscribed,
             UnderWay(ops) => (phase = "off" => phase' = "off")
      PROVE  ChainInv'
  BY <1>b, <1>q DEF ChainInv, Tidy, Placed, Settling, Closing, Says, UnderWay
<1>e. ASSUME NEW n \in {"lease", "drop", "refresh", "reset"}, Enqueue(Op(n, 0, NoCursor)),
             UNCHANGED <<leased, subscribed>>, phase = "off" => phase' = "off", forsaken => forsaken',
             \/ n = "refresh" /\ wanted' = wanted
             \/ n # "refresh" /\ Says(Op(n, 0, NoCursor), wanted')
      PROVE  ChainInv'
  <2> DEFINE x == Op(n, 0, NoCursor)
  <2>1. x \in Asking /\ x.name = n /\ x.step = 0 /\ x.with = NoCursor
    BY <1>a, <1>x
  <2>2. ops' = Append(ops, x)
    BY <1>e DEF Enqueue
  <2>3. n # "refresh" => Says(x, wanted')
    BY <1>e
  <2> HIDE DEF x
  <2>4. PICK w \in BOOLEAN : w = wanted'
    BY <1>a
  <2>5. /\ Tidy(ops') /\ UnderWay(ops') = UnderWay(ops) /\ (UnderWay(ops) => Head(ops') = Head(ops))
        /\ n = "refresh" /\ Settling(ops, leased, w) => Settling(ops', leased, w)
        /\ n # "refresh" /\ Says(x, w) => Settling(ops', leased, w)
    BY <1>a, <1>b, <2>1, <2>2, OneMore
  <2>6. Settling(ops', leased', wanted')
    <3>1. CASE n = "refresh"
      BY <1>b, <1>e, <2>4, <2>5, <3>1
    <3>2. CASE n # "refresh"
      BY <1>e, <2>3, <2>4, <2>5, <3>2
    <3> QED
      BY <3>1, <3>2
  <2>7. Placed(ops', leased', subscribed', forsaken', phase')
    BY <1>b, <1>e, <2>5 DEF Placed
  <2> QED
    BY <2>5, <2>6, <2>7 DEF ChainInv
<1>d. ASSUME ops # <<>>, ops' = Tail(ops), UNCHANGED wanted, Closing(ops, 1) => leased' = wanted,
             ~leased' => phase' = "off", subscribed' => leased', leased' => subscribed' \/ forsaken'
      PROVE  ChainInv'
  <2>1. \A k \in 1..Len(ops) : Closing(ops, k) => Says(ops[k], wanted)
    BY <1>b DEF Settling
  <2>2. PICK l \in BOOLEAN : l = leased'
    BY <1>a
  <2>3. Tidy(ops') /\ ~UnderWay(ops') /\ Settling(ops', l, wanted)
    BY <1>a, <1>b, <1>d, <2>1, <2>2, OneLess
  <2>4. Placed(ops', leased', subscribed', forsaken', phase')
    BY <1>d, <2>3 DEF Placed
  <2> QED
    BY <1>d, <2>2, <2>3, <2>4 DEF ChainInv
<1>g. ASSUME ops # <<>>, NEW s \in {1, 2}, NEW c \in Reach, GoOn(s, c), UNCHANGED wanted,
             subscribed' = FALSE, leased' <=> (s = 2 \/ Head(ops).name = "refresh"),
             s = 2 => phase' = "off", Head(ops).name = "refresh" => c = NoCursor /\ leased' = leased,
             Head(ops).name = "drop" => s = 1, Head(ops).name = "lease" => s = 2,
             Head(ops).name = "reset" /\ s = 2 => wanted
      PROVE  ChainInv'
  <2> DEFINE x == Op(Head(ops).name, s, c)
  <2>1. x \in Asking /\ x.name = Head(ops).name /\ x.step = s /\ x.with = c
    <3>1. s \in 0..2
      OBVIOUS
    <3> QED
      BY <1>g, <1>h, <1>x, <3>1
  <2>2. ops' = <<x>> \o Tail(ops)
    BY <1>g DEF GoOn
  <2> HIDE DEF x
  <2>3. PICK m \in BOOLEAN : m = leased'
    BY <1>a
  <2>4. x.name = "drop" => x.step # 2
    BY <1>g, <2>1
  <2>5. x.name = "lease" => x.step # 1
    BY <1>g, <2>1
  <2>6. Says(Head(ops), wanted) => Says(x, wanted)
    BY <1>g, <2>1 DEF Says
  <2>7. x.name = "refresh" => x.with = NoCursor
    BY <1>g, <2>1
  <2>8. /\ Tidy(ops') /\ ops' # <<>> /\ Head(ops') = x
        /\ x.name = "refresh" /\ leased = m => Settling(ops', m, wanted)
        /\ x.name # "refresh" /\ (Says(Head(ops), wanted) => Says(x, wanted)) => Settling(ops', m, wanted)
    BY <1>a, <1>b, <1>g, <2>1, <2>2, <2>4, <2>5, <2>7, Onward
  <2>9. Settling(ops', leased', wanted')
    <3>1. CASE x.name = "refresh"
      BY <1>g, <2>1, <2>3, <2>8, <3>1
    <3>2. CASE x.name # "refresh"
      BY <1>g, <2>3, <2>6, <2>8, <3>2
    <3> QED
      BY <3>1, <3>2
  <2>10. Placed(ops', leased', subscribed', forsaken', phase')
    <3>1. UnderWay(ops')
      BY <1>g, <2>1, <2>8 DEF UnderWay
    <3> QED
      BY <1>g, <2>1, <2>8, <3>1 DEF Placed
  <2> QED
    BY <2>8, <2>9, <2>10 DEF ChainInv
<1>i. ASSUME ops # <<>>, GoOn(1, NoCursor), UNCHANGED wanted, subscribed' = FALSE,
             \/ Head(ops).name \in {"drop", "reset"} /\ leased' = FALSE
             \/ Head(ops).name = "refresh" /\ leased' = TRUE /\ leased = TRUE
      PROVE  ChainInv'
  <2>1. PICK s \in {1, 2} : s = 1
    OBVIOUS
  <2>2. GoOn(s, NoCursor) /\ s # 2 /\ Head(ops).name # "lease"
    BY <1>i, <2>1
  <2>3. leased' <=> (s = 2 \/ Head(ops).name = "refresh")
    BY <1>i, <2>2
  <2> QED
    BY <1>a, <1>g, <1>i, <2>1, <2>2, <2>3
<1>o. ASSUME FeedResume \/ FeedBreak \/ FeedReceive \/ FeedAppend(TRUE) \/ FeedClose \/ UNCHANGED feedVars
             \/ (\E s, u \in 0..MaxSeq : FeedSnapshot(s, u)) \/ (\E e \in Sequences : FeedSend(e))
      PROVE  phase = "off" => phase' = "off"
  BY <1>o DEF FeedResume, FeedBreak, FeedReceive, FeedAppend, FeedClose, feedVars, FeedSnapshot, FeedSend
<1>1. CASE JournalGrows \/ StreamAnswers \/ StreamBreaks \/ StreamStops \/ Flush
  <2>1. UNCHANGED <<ops, leased, wanted, subscribed, forsaken>>
    BY <1>1 DEF JournalGrows, StreamAnswers, StreamBreaks, StreamStops, Flush, leaseVars
  <2>2. phase = "off" => phase' = "off"
    BY <1>1, <1>o DEF JournalGrows, StreamAnswers, StreamBreaks, StreamStops, Flush
  <2> QED
    BY <1>q, <2>1, <2>2
<1>15. CASE TransportRestarts
  <2>1. UNCHANGED <<ops, leased, wanted, subscribed>> /\ subscribed
    BY <1>15 DEF TransportRestarts
  <2>2. leased /\ ~UnderWay(ops)
    BY <1>b, <2>1 DEF Placed
  <2> QED
    BY <1>q, <2>1, <2>2
<1>2. CASE Receive \/ StartReplay \/ PollProjection \/ Answer \/ Hold \/ Delete
  <2>1. CASE Receive \/ StartReplay \/ PollProjection
    <3>1. UNCHANGED <<ops, leased, wanted, subscribed, forsaken>> /\ (FeedReceive \/ UNCHANGED feedVars)
      BY <2>1 DEF Receive, ReceiveSnapshot, ReceiveEarlyEvent, ReceiveEvent, StartReplay, PollProjection, leaseVars
    <3> QED
      BY <1>q, <1>o, <3>1
  <2>2. CASE Answer
    <3>1. UNCHANGED <<ops, leased, wanted, subscribed, forsaken>> /\ UNCHANGED feedVars
      BY <2>2 DEF Answer, ReplayReturns, ServeCheck, CheckIgnored, CheckApplies, CheckAnswered, leaseVars
    <3> QED
      BY <1>q, <1>o, <3>1
  <2>3. CASE Hold \/ Delete
    <3>1. UNCHANGED <<ops, leased, wanted, subscribed, forsaken>> /\ UNCHANGED feedVars
      BY <2>3 DEF Hold, Delete, leaseVars
    <3> QED
      BY <1>q, <1>o, <3>1
  <2> QED
    BY <1>2, <2>1, <2>2, <2>3
<1>3. CASE Evict \/ StreamFails
  <2>1. /\ UNCHANGED <<leased, wanted, subscribed>> /\ (FeedClose \/ UNCHANGED feedVars)
        /\ forsaken => forsaken'
        /\ (UNCHANGED ops \/ Enqueue(Op("refresh", 0, NoCursor)))
    BY <1>3 DEF Evict, StreamFails, RequestRefresh, leaseVars
  <2> QED
    BY <1>q, <1>e, <1>o, <2>1
<1>4. CASE WantLease \/ WantDrop \/ Reconnect
  <2>1. UNCHANGED <<leased, subscribed, forsaken>> /\ UNCHANGED feedVars
    BY <1>4 DEF WantLease, WantDrop, Reconnect, leaseVars
  <2>2. /\ WantLease => Enqueue(Op("lease", 0, NoCursor)) /\ wanted' = TRUE
        /\ WantDrop => Enqueue(Op("drop", 0, NoCursor)) /\ wanted' = FALSE
        /\ Reconnect => Enqueue(Op("reset", 0, NoCursor))
    BY DEF WantLease, WantDrop, Reconnect
  <2>3. /\ Op("lease", 0, NoCursor).name = "lease" /\ Op("drop", 0, NoCursor).name = "drop"
        /\ Op("reset", 0, NoCursor).name = "reset" /\ Op("reset", 0, NoCursor).step = 0
    BY <1>a, <1>x
  <2>4. /\ WantLease => Says(Op("lease", 0, NoCursor), wanted')
        /\ WantDrop => Says(Op("drop", 0, NoCursor), wanted')
        /\ Reconnect => Says(Op("reset", 0, NoCursor), wanted')
    BY <2>2, <2>3 DEF Says
  <2> QED
    BY <1>4, <1>e, <1>o, <2>1, <2>2, <2>4
<1>f. /\ UnderWay(ops) => (leased <=> Head(ops).step = 2 \/ Head(ops).name = "refresh")
      /\ UnderWay(ops) /\ Head(ops).step = 2 => phase = "off"
      /\ ~UnderWay(ops) /\ ~leased => phase = "off"
      /\ subscribed => leased /\ ~UnderWay(ops)
      /\ leased /\ ~UnderWay(ops) => subscribed \/ forsaken
      /\ ops # <<>> => (UnderWay(ops) <=> Head(ops).step # 0)
  BY <1>b DEF Placed, UnderWay
<1>s. ASSUME ops # <<>>, Closing(ops, 1)
      PROVE  Says(Head(ops), wanted) /\ (Head(ops).name = "refresh" => leased = wanted)
  <2>1. Head(ops) = ops[1] /\ 1 \in 1..Len(ops) /\ Len(ops) \in Nat
    BY <1>a, <1>s, Behead
  <2>2. Head(ops).name = "refresh" => Closing(ops, 0)
    <3>1. \A j \in 0 + 1..Len(ops) : j = 1 \/ j \in 1 + 1..Len(ops)
      BY <2>1
    <3> QED
      BY <1>s, <2>1, <3>1 DEF Closing
  <2> QED
    BY <1>b, <1>s, <2>1, <2>2 DEF Settling
<1>n. Head(ops).name = "drop" => Head(ops).name # "lease" /\ Head(ops).name # "refresh" /\ Head(ops).name # "reset"
  OBVIOUS
<1>5. CASE TakeLease
  <2>1. ops # <<>> /\ Head(ops).name = "lease" /\ Head(ops).step = 0 /\ ~UnderWay(ops)
    BY <1>5 DEF TakeLease, Running, UnderWay
  <2>2. UNCHANGED <<phase, wanted, subscribed, forsaken>>
    BY <1>5 DEF TakeLease, feedVars
  <2>3. CASE leased
    <3>1. ops' = Tail(ops) /\ leased' = leased
      BY <1>5, <2>3 DEF TakeLease, Done
    <3>2. Closing(ops, 1) => wanted
      BY <1>s, <2>1 DEF Says
    <3> QED
      BY <1>a, <1>d, <1>f, <2>1, <2>2, <2>3, <3>1, <3>2
  <2>4. CASE ~leased
    <3>1. GoOn(2, resume) /\ leased' = TRUE
      BY <1>5, <2>4 DEF TakeLease, Begin
    <3> QED
      BY <1>a, <1>g, <1>f, <2>1, <2>2, <2>4, <3>1
  <2> QED
    BY <2>3, <2>4
<1>6. CASE DropLease
  <2>1. ops # <<>> /\ Head(ops).name = "drop" /\ Head(ops).step = 0 /\ ~UnderWay(ops)
    BY <1>6 DEF DropLease, Running, UnderWay
  <2>2. UNCHANGED wanted
    BY <1>6 DEF DropLease
  <2>3. CASE leased
    <3>1. GoOn(1, NoCursor) /\ leased' = FALSE /\ subscribed' = FALSE
      BY <1>6, <2>3 DEF DropLease, Release, Unsubscribe
    <3> QED
      BY <1>i, <2>1, <2>2, <3>1
  <2>4. CASE ~leased
    <3>1. ops' = Tail(ops) /\ leased' = leased /\ UNCHANGED <<subscribed, phase>>
      BY <1>6, <2>4 DEF DropLease, Done, feedVars
    <3>2. Closing(ops, 1) => ~wanted
      BY <1>s, <2>1 DEF Says
    <3> QED
      BY <1>a, <1>d, <1>f, <2>1, <2>2, <2>4, <3>1, <3>2
  <2> QED
    BY <2>3, <2>4
<1>7. CASE DropEnds
  <2>1. ops # <<>> /\ Head(ops).name = "drop" /\ Head(ops).step = 1 /\ UnderWay(ops) /\ phase = "off"
        /\ ops' = Tail(ops)
    BY <1>7 DEF DropEnds, Running, UnderWay, Stopped, Done
  <2>2. UNCHANGED <<wanted, leased, subscribed, phase>>
    BY <1>7 DEF DropEnds, leaseVars, feedVars
  <2>3. ~leased /\ ~subscribed
    BY <1>f, <2>1
  <2>4. Closing(ops, 1) => ~wanted
    BY <1>s, <2>1 DEF Says
  <2> QED
    BY <1>a, <1>d, <2>1, <2>2, <2>3, <2>4
<1>8. CASE Reset
  <2>1. /\ ops # <<>> /\ Head(ops).name = "reset" /\ GoOn(1, NoCursor)
        /\ leased' = FALSE /\ subscribed' = FALSE /\ wanted' = wanted
    BY <1>8 DEF Reset, Running, Release, Unsubscribe
  <2> QED
    BY <1>i, <2>1
<1>9. CASE LeaseAgain
  <2>1. ops # <<>> /\ Head(ops).name = "reset" /\ Head(ops).step = 1 /\ UnderWay(ops) /\ phase = "off"
    BY <1>9 DEF LeaseAgain, Running, UnderWay, Stopped
  <2>2. UNCHANGED <<phase, wanted, subscribed>>
    BY <1>9 DEF LeaseAgain, feedVars
  <2>3. ~leased /\ ~subscribed
    BY <1>f, <2>1
  <2>4. CASE wanted
    <3>1. GoOn(2, resume) /\ leased' = TRUE
      BY <1>9, <2>4 DEF LeaseAgain, Begin
    <3> QED
      BY <1>a, <1>g, <2>1, <2>2, <2>3, <2>4, <3>1
  <2>5. CASE ~wanted
    <3>1. ops' = Tail(ops) /\ leased' = leased
      BY <1>9, <2>5 DEF LeaseAgain, Done
    <3> QED
      BY <1>a, <1>d, <2>1, <2>2, <2>3, <2>5, <3>1
  <2> QED
    BY <2>4, <2>5
<1>10. CASE SubscribeThread
  <2>1. /\ ops # <<>> /\ Head(ops).name \in {"lease", "reset"} /\ Head(ops).step = 2 /\ UnderWay(ops)
        /\ ops' = Tail(ops) /\ (subscribed' \/ forsaken') /\ UNCHANGED <<leased, wanted>>
    BY <1>10 DEF SubscribeThread, Subscribe, Running, UnderWay, Done
  <2>2. leased
    BY <1>f, <2>1
  <2>3. Closing(ops, 1) => wanted
    BY <1>s, <2>1 DEF Says
  <2> QED
    BY <1>a, <1>d, <2>1, <2>2, <2>3
<1>11. CASE StopForRefresh
  <2>1. /\ ops # <<>> /\ Head(ops).name = "refresh" /\ leased /\ GoOn(1, NoCursor)
        /\ subscribed' = FALSE /\ UNCHANGED <<leased, wanted>>
    BY <1>11 DEF StopForRefresh, Running, Unsubscribe
  <2> QED
    BY <1>i, <2>1
<1>12. CASE ForgetCursor
  <2>1. /\ ops # <<>> /\ Head(ops).name = "refresh" /\ Head(ops).step = 1 /\ UnderWay(ops)
        /\ phase = "off" /\ GoOn(2, NoCursor) /\ UNCHANGED <<leased, wanted, subscribed, phase>>
    BY <1>12 DEF ForgetCursor, Running, UnderWay, Stopped, leaseVars, feedVars
  <2>2. leased /\ ~subscribed
    BY <1>f, <2>1
  <2> QED
    BY <1>a, <1>g, <2>1, <2>2
<1>13. CASE SubscribeForRefresh \/ RefreshWithoutLease
  <2>1. /\ ops # <<>> /\ Head(ops).name = "refresh" /\ UNCHANGED <<leased, wanted>>
        /\ \/ ops' = Tail(ops)
           \/ ops' = Append(Tail(ops), Op("refresh", 0, NoCursor))
    BY <1>13 DEF SubscribeForRefresh, RefreshWithoutLease, RefreshEnds, Running, Done, leaseVars
  <2>2. (~leased' => phase' = "off") /\ (subscribed' => leased') /\ (leased' => subscribed' \/ forsaken')
    <3>1. CASE SubscribeForRefresh
      <4>1. Head(ops).step = 2 /\ UnderWay(ops) /\ (subscribed' \/ forsaken')
        BY <2>1, <3>1 DEF SubscribeForRefresh, Subscribe, Running, UnderWay
      <4> QED
        BY <1>a, <1>f, <2>1, <4>1
    <3>2. CASE RefreshWithoutLease
      <4>1. Head(ops).step = 0 /\ ~leased /\ UNCHANGED <<subscribed, forsaken, phase>>
        BY <3>2 DEF RefreshWithoutLease, Running, leaseVars, feedVars
      <4> QED
        BY <1>a, <1>f, <2>1, <4>1
    <3> QED
      BY <1>13, <3>1, <3>2
  <2>3. Closing(ops, 1) => leased = wanted
    BY <1>s, <2>1
  <2>4. CASE ops' = Tail(ops)
    BY <1>d, <2>1, <2>2, <2>3, <2>4
  <2>5. CASE ops' = Append(Tail(ops), Op("refresh", 0, NoCursor))
    <3>1. \A k \in 1..Len(ops) : Closing(ops, k) => Says(ops[k], wanted)
      BY <1>b DEF Settling
    <3>2. PICK o : o = Tail(ops)
      OBVIOUS
    <3>3. o \in Seq(Asking) /\ Tidy(o) /\ ~UnderWay(o) /\ Settling(o, leased, wanted)
      <4>1. o \in Seq(Asking)
        BY <1>a, <2>1, <3>2, Behead
      <4> QED
        BY <1>a, <1>b, <2>1, <2>3, <3>1, <3>2, <4>1, OneLess
    <3>4. PICK x \in Asking : x = Op("refresh", 0, NoCursor) /\ x.name = "refresh" /\ x.step = 0 /\ x.with = NoCursor
      BY <1>a, <1>x
    <3>5. ops' = Append(o, x)
      BY <2>5, <3>2, <3>4
    <3>6. Tidy(ops') /\ UnderWay(ops') = UnderWay(o) /\ Settling(ops', leased, wanted)
      BY <1>a, <3>3, <3>4, <3>5, OneMore
    <3>7. Placed(ops', leased', subscribed', forsaken', phase')
      BY <2>2, <3>3, <3>6 DEF Placed
    <3> QED
      BY <2>1, <3>6, <3>7 DEF ChainInv
  <2> QED
    BY <2>1, <2>4, <2>5
<1>14. CASE UNCHANGED vars
  <2>1. UNCHANGED <<ops, leased, wanted, subscribed, forsaken, phase>>
    BY <1>14 DEF vars, leaseVars, feedVars
  <2> QED
    BY <1>q, <2>1
<1> QED
  BY <1>1, <1>2, <1>3, <1>4, <1>5, <1>6, <1>7, <1>8, <1>9, <1>10, <1>11, <1>12, <1>13, <1>14, <1>15
     DEF Next, Outside, Chain

\* When the chain is idle the router leases the thread exactly if the last lease list
\* asks for it, and the transport has it then unless the last request for its stream was
\* refused, whatever was asked, reset, failed and refreshed meanwhile.
THEOREM ChainSettles == Spec => []LeasesSettle
<1>1. TypeInv /\ ChainInv /\ [Next]_vars => ChainInv'
  BY ChainKept
<1>2. ChainInv => LeasesSettle
  <2> SUFFICES ASSUME ChainInv, ops = <<>> PROVE leased = wanted /\ (subscribed => wanted) /\ (wanted => subscribed \/ forsaken)
    BY DEF LeasesSettle
  <2>1. Len(ops) = 0 /\ ~UnderWay(ops)
    BY DEF UnderWay
  <2>2. Closing(ops, 0)
    BY <2>1 DEF Closing
  <2>3. leased = wanted /\ (subscribed => leased) /\ (leased => subscribed \/ forsaken)
    BY <2>1, <2>2 DEF ChainInv, Settling, Placed
  <2> QED
    BY <2>3
<1> QED
  BY <1>1, <1>2, ChainInit, TypeHolds, PTL DEF Spec
-----------------------------------------------------------------------------
(* What the stream leaves behind. *)

LEMMA Later ==
    ASSUME TypeInv, [Next]_vars
    PROVE  \A r \in rel' : r <= last => r \in rel
<1>1. FeedMoves
  BY FeedFrame DEF TypeInv
<1>2. last \in Nat
  BY Facts
<1>3. rel' = rel \/ rel' = rel \union {last + 1}
  BY <1>1 DEF FeedMoves, feedVars, FeedAppend, FeedResume, FeedBreak, FeedReceive, FeedClose,
              FeedSnapshot, FeedSend, FeedSubscribe
<1>4. ~(last + 1 <= last)
  BY <1>2
<1> QED
  BY <1>3, <1>4

LEMMA Bounds ==
    ASSUME TypeInv
    PROVE  /\ Top # NoCursor => Top \in Nat /\ Top <= last
           /\ \A j \in 1..Len(wire) :
                wire[j].seq \in Nat /\ Top \in Nat /\ Top # NoCursor /\ wire[j].seq <= Top
           /\ wire # <<>> => \A j \in 1..Len(wire) : Head(wire).seq <= wire[j].seq
           /\ Fresh => \A j \in 2..Len(wire) : wire[j].kind = "event"
           /\ ~Fresh => \A j \in 1..Len(wire) : wire[j].kind = "event"
<1>a. /\ last \in Nat /\ NoCursor \notin Int /\ wire \in Seq(Items) /\ Len(wire) \in Nat
      /\ pos \in Nat /\ pos <= last
      /\ \A c \in Reach : c # NoCursor => c \in Nat /\ c <= last
      /\ cursor \in Reach /\ (ops # <<>> => Head(ops) \in Asking)
      /\ wire # <<>> => Head(wire) = wire[1] /\ 1 \in 1..Len(wire)
  BY Facts DEF TypeInv, BoundInv
<1>b. ops # <<>> => Head(ops).with \in Reach
  BY <1>a DEF Asking
<1>c. \A j \in 1..Len(wire) :
        wire[j].seq \in Nat /\ wire[j].upto \in Nat /\ wire[j].kind \in {"snapshot", "event"}
  <2>1. \A j \in 1..Len(wire) : wire[j] \in Items
    BY <1>a
  <2>2. MaxSeq \in Nat
    BY Facts
  <2> QED
    BY <2>1, <2>2 DEF Items
<1>d. \A j \in 1..Len(wire) : wire[j].seq <= last
  BY <1>a, <1>c DEF TypeInv, WireInv
<1>e. wire # <<>> => Len(wire) \in 1..Len(wire)
  BY <1>a
<1>1. Top # NoCursor => Top \in Nat /\ Top <= last
  BY <1>a, <1>b, <1>c, <1>d, <1>e DEF Top, Promised
<1>2. ASSUME NEW j \in 1..Len(wire)
      PROVE  wire[j].seq \in Nat /\ Top \in Nat /\ Top # NoCursor /\ wire[j].seq <= Top
  <2>1. wire # <<>>
    BY <1>a
  <2>2. Top = wire[Len(wire)].seq /\ Top \in Nat
    BY <1>c, <1>e, <2>1 DEF Top
  <2>3. j = Len(wire) \/ j < Len(wire)
    BY <1>a
  <2>4. wire[j].seq <= Top
    BY <1>c, <1>e, <2>1, <2>2, <2>3 DEF TypeInv, WireInv
  <2> QED
    BY <1>a, <1>c, <2>2, <2>4
<1>3. ASSUME wire # <<>>, NEW j \in 1..Len(wire) PROVE Head(wire).seq <= wire[j].seq
  <2>1. j = 1 \/ 1 < j
    BY <1>a
  <2> QED
    BY <1>a, <1>c, <1>3, <2>1 DEF TypeInv, WireInv
<1>4. \A j \in 1..Len(wire) : wire[j].kind = "snapshot" => j = 1
  BY DEF TypeInv, WireInv
<1>5. Fresh => \A j \in 2..Len(wire) : wire[j].kind = "event"
  <2>1. \A j \in 2..Len(wire) : j \in 1..Len(wire) /\ j # 1
    BY <1>a
  <2> QED
    BY <1>c, <1>4, <2>1
<1>6. ~Fresh => \A j \in 1..Len(wire) : wire[j].kind = "event"
  <2>1. ASSUME ~Fresh, NEW j \in 1..Len(wire) PROVE wire[j].kind = "event"
    <3>1. wire # <<>>
      BY <1>a
    <3> QED
      BY <1>a, <1>c, <1>4, <2>1, <3>1 DEF Fresh
  <2> QED
    BY <2>1
<1> QED
  BY <1>1, <1>2, <1>3, <1>5, <1>6

\* The chain promises a cursor only between the begin of a lease and its subscription.
LEMMA PromiseMoves ==
    ASSUME TypeInv, ChainInv, [Next]_vars
    PROVE  /\ Promised # NoCursor => phase = "off"
           /\ \/ Promised' = Promised
              \/ (TakeLease \/ LeaseAgain) /\ Begin /\ Promised = NoCursor /\ Promised' = resume
              \/ SubscribeThread /\ Promised' = NoCursor
<1>a. /\ ops \in Seq(Asking) /\ NoCursor \in Reach /\ resume \in Reach
      /\ (ops # <<>> => Head(ops) \in Asking)
  BY Facts
<1>b. Tidy(ops) /\ Placed(ops, leased, subscribed, forsaken, phase)
  BY DEF ChainInv
<1>h. ops # <<>> => Head(ops) = ops[1] /\ 1 \in 1..Len(ops)
  BY <1>a, Behead
<1>x. \A n \in {"lease", "drop", "refresh", "reset"}, s \in 0..2, c \in Reach :
        /\ Op(n, s, c) \in Asking
        /\ Op(n, s, c).name = n /\ Op(n, s, c).step = s /\ Op(n, s, c).with = c
  BY DEF Op, Asking
<1>n. ops # <<>> => Head(ops).name \in {"lease", "drop", "refresh", "reset"}
  BY <1>a DEF Asking
<1>1. Promised # NoCursor => phase = "off" /\ ops # <<>> /\ Head(ops).step = 2 /\ Head(ops).name \in {"lease", "reset"}
  <2>1. ASSUME ops # <<>>, Head(ops).step = 2, Head(ops).with # NoCursor
        PROVE  phase = "off" /\ Head(ops).name \in {"lease", "reset"}
    <3>1. Head(ops).name # "drop" /\ Head(ops).name # "refresh"
      BY <1>b, <1>h, <2>1 DEF Tidy
    <3> QED
      BY <1>b, <1>n, <2>1, <3>1 DEF Placed, UnderWay
  <2> QED
    BY <2>1 DEF Promised
<1>e. ASSUME NEW n \in {"lease", "drop", "refresh", "reset"}, NEW o \in Seq(Asking), Tidy(o),
             ops' = Append(o, Op(n, 0, NoCursor)), ops = o \/ ~UnderWay(o)
      PROVE  Promised' = IF ops = o THEN Promised ELSE NoCursor
  <2>1. PICK x \in Asking : x = Op(n, 0, NoCursor) /\ x.step = 0 /\ (x.name = "refresh" => x.with = NoCursor)
    <3>1. 0 \in 0..2
      OBVIOUS
    <3> QED
      BY <1>a, <1>x, <3>1
  <2>2. UnderWay(ops') = UnderWay(o) /\ (UnderWay(o) => Head(ops') = Head(o))
    BY <1>e, <2>1, OneMore
  <2> QED
    BY <1>e, <2>2 DEF Promised, UnderWay
<1>d. ASSUME ops # <<>>, ops' = Tail(ops) PROVE Promised' = NoCursor /\ Tidy(Tail(ops)) /\ ~UnderWay(Tail(ops))
  <2>1. Tidy(Tail(ops)) /\ ~UnderWay(Tail(ops))
    BY <1>a, <1>b, <1>d, OneLess
  <2> QED
    BY <1>d, <2>1 DEF Promised, UnderWay
<1>g. ASSUME ops # <<>>, NEW s \in 0..2, NEW c \in Reach, GoOn(s, c)
      PROVE  Promised' = IF s = 2 THEN c ELSE NoCursor
  <2>1. PICK x \in Asking : x = Op(Head(ops).name, s, c) /\ x.step = s /\ x.with = c
    BY <1>g, <1>n, <1>x
  <2>2. ops' = <<x>> \o Tail(ops)
    BY <1>g, <2>1 DEF GoOn
  <2>3. ops' # <<>> /\ Head(ops') = x
    BY <1>a, <1>g, <2>2, NewHead
  <2> QED
    BY <2>1, <2>3 DEF Promised
<1>t. 0 \in 0..2 /\ 1 \in 0..2 /\ 2 \in 0..2 /\ 1 # 2
  OBVIOUS
<1> HIDE DEF Op, Asking, Reach
<1>2. CASE UNCHANGED ops
  BY <1>1, <1>2 DEF Promised
<1>3. CASE \E n \in {"lease", "drop", "refresh", "reset"} : Enqueue(Op(n, 0, NoCursor))
  BY <1>1, <1>3, <1>a, <1>b, <1>e DEF Enqueue
<1>z. ASSUME ops # <<>>, Head(ops).step # 2 PROVE Promised = NoCursor
  BY <1>z DEF Promised
<1>4. CASE TakeLease \/ LeaseAgain
  <2>1. ops # <<>> /\ Head(ops).step # 2
    BY <1>4 DEF TakeLease, LeaseAgain, Running
  <2>2. ops' = Tail(ops) \/ (Begin /\ GoOn(2, resume))
    BY <1>4 DEF TakeLease, LeaseAgain, Begin, Done
  <2>3. CASE ops' = Tail(ops)
    BY <1>1, <1>d, <1>z, <2>1, <2>3
  <2>4. CASE Begin /\ GoOn(2, resume)
    <3>1. Promised' = resume
      BY <1>a, <1>g, <1>t, <2>1, <2>4
    <3> QED
      BY <1>1, <1>4, <1>z, <2>1, <2>4, <3>1
  <2> QED
    BY <2>2, <2>3, <2>4
<1>5. CASE DropLease \/ DropEnds \/ Reset \/ StopForRefresh
  <2>1. ops # <<>> /\ Head(ops).step # 2
    BY <1>5, <1>t DEF DropLease, DropEnds, Reset, StopForRefresh, Running
  <2>2. ops' = Tail(ops) \/ GoOn(1, NoCursor)
    BY <1>5 DEF DropLease, DropEnds, Reset, StopForRefresh, Done
  <2>3. Promised' = NoCursor
    BY <1>a, <1>d, <1>g, <1>t, <2>1, <2>2
  <2> QED
    BY <1>1, <1>z, <2>1, <2>3
<1>6. CASE SubscribeThread
  <2>1. ops # <<>> /\ ops' = Tail(ops)
    BY <1>6 DEF SubscribeThread, Running, Done
  <2> QED
    BY <1>1, <1>6, <1>d, <2>1
<1>7. CASE ForgetCursor
  <2>1. ops # <<>> /\ Head(ops).step # 2 /\ GoOn(2, NoCursor)
    BY <1>7 DEF ForgetCursor, Running
  <2>2. Promised' = NoCursor
    BY <1>a, <1>g, <1>t, <2>1
  <2> QED
    BY <1>1, <1>z, <2>1, <2>2
<1>8. CASE SubscribeForRefresh \/ RefreshWithoutLease
  <2>1. /\ ops # <<>> /\ Head(ops).name = "refresh"
        /\ \/ ops' = Tail(ops)
           \/ ops' = Append(Tail(ops), Op("refresh", 0, NoCursor))
    BY <1>8 DEF SubscribeForRefresh, RefreshWithoutLease, RefreshEnds, Running, Done
  <2>2. Promised = NoCursor
    BY <1>1, <2>1
  <2>3. CASE ops' = Tail(ops)
    BY <1>1, <1>d, <2>1, <2>2, <2>3
  <2>4. CASE ops' = Append(Tail(ops), Op("refresh", 0, NoCursor))
    <3>1. PICK o : o = Tail(ops)
      OBVIOUS
    <3>2. o \in Seq(Asking) /\ Tidy(o) /\ ~UnderWay(o)
      <4>1. o \in Seq(Asking)
        BY <1>a, <2>1, <3>1, Behead
      <4> QED
        BY <1>a, <1>b, <2>1, <3>1, <4>1, OneLess
    <3>3. Promised' = IF ops = o THEN Promised ELSE NoCursor
      BY <1>e, <2>4, <3>1, <3>2
    <3> QED
      BY <1>1, <2>2, <3>3
  <2> QED
    BY <2>1, <2>3, <2>4
<1>9. CASE Evict \/ StreamFails
  <2>1. UNCHANGED ops \/ Enqueue(Op("refresh", 0, NoCursor))
    BY <1>9 DEF Evict, StreamFails, RequestRefresh
  <2> QED
    BY <1>2, <1>3, <2>1
<1>10. CASE WantLease \/ WantDrop \/ Reconnect
  BY <1>3, <1>10 DEF WantLease, WantDrop, Reconnect
<1>11. CASE JournalGrows \/ StreamAnswers \/ StreamBreaks \/ TransportRestarts \/ StreamStops \/ Flush
  BY <1>2, <1>11 DEF JournalGrows, StreamAnswers, StreamBreaks, TransportRestarts, StreamStops, Flush
<1>12. CASE Receive \/ StartReplay \/ PollProjection \/ Hold \/ Delete
  BY <1>2, <1>12 DEF Receive, ReceiveSnapshot, ReceiveEarlyEvent, ReceiveEvent, StartReplay, PollProjection,
                     Hold, Delete
<1>13. CASE Answer
  BY <1>2, <1>13 DEF Answer, ReplayReturns, ServeCheck, CheckIgnored, CheckApplies, CheckAnswered
<1>14. CASE UNCHANGED vars
  BY <1>2, <1>14 DEF vars
<1> QED
  BY <1>4, <1>5, <1>6, <1>7, <1>8, <1>9, <1>10, <1>11, <1>12, <1>13, <1>14 DEF Next, Outside, Chain

\* What a step that receives nothing does to what the stream has left behind.
LEMMA Drift ==
    ASSUME TypeInv, ChainInv, [Next]_vars, ~Receive
    PROVE  /\ phase' = "asked" => (phase = "asked" /\ asked' = asked) \/ asked' = last'
           /\ \/ Behind' \subseteq Behind /\ (Fresh' <=> Fresh) /\ (Fresh => Head(wire') = Head(wire))
              \/ Behind' = {} /\ ~Fresh'
              \/ /\ StreamAnswers /\ Fresh' /\ phase = "asked" /\ asked <= Head(wire').upto
                 /\ \A r \in Behind' : r <= Head(wire').seq
              \/ /\ ~Fresh' /\ Behind' \subseteq Below(resume)
                 /\ \/ TransportRestarts
                    \/ (TakeLease \/ LeaseAgain) /\ Begin
<1> DEFINE Still == Behind' \subseteq Behind /\ (Fresh' <=> Fresh) /\ (Fresh => Head(wire') = Head(wire))
           Nothing == Behind' = {} /\ ~Fresh'
           Opened == /\ StreamAnswers /\ Fresh' /\ phase = "asked" /\ asked <= Head(wire').upto
                     /\ \A r \in Behind' : r <= Head(wire').seq
           Asks == /\ ~Fresh' /\ Behind' \subseteq Below(resume)
                   /\ \/ TransportRestarts
                      \/ (TakeLease \/ LeaseAgain) /\ Begin
           Known == phase' = "asked" => (phase = "asked" /\ asked' = asked) \/ asked' = last'
           Asked == FeedSubscribe(Head(ops).with) \/ FeedSubscribe(NoCursor)
<1>a. /\ last \in Nat /\ NoCursor \notin Int /\ wire \in Seq(Items) /\ Len(wire) \in Nat /\ pos \in Nat
      /\ (Top # NoCursor => Top \in Nat /\ Top <= last)
      /\ phase \in {"off", "asked", "open", "broken"}
      /\ (phase \in {"off", "asked"} => wire = <<>>)
  BY Facts, Bounds DEF TypeInv, TypeOK, FeedTypeOK, BoundInv, WireInv
<1>p. /\ Promised # NoCursor => phase = "off"
      /\ \/ Promised' = Promised
         \/ (TakeLease \/ LeaseAgain) /\ Begin /\ Promised = NoCursor /\ Promised' = resume
         \/ SubscribeThread /\ Promised' = NoCursor
  BY PromiseMoves
<1>t. TakeLease \/ LeaseAgain => UNCHANGED feedVars
  BY DEF TakeLease, LeaseAgain
<1>s. SubscribeThread \/ SubscribeForRefresh => UNCHANGED feedVars \/ Asked
  BY DEF SubscribeThread, SubscribeForRefresh, Subscribe
<1>m. \/ UNCHANGED feedVars \/ JournalGrows \/ StreamAnswers \/ FeedBreak \/ FeedClose
      \/ TransportRestarts \/ ((SubscribeThread \/ SubscribeForRefresh) /\ Asked)
  <2>1. CASE StreamBreaks \/ StreamFails \/ StreamStops
    BY <2>1 DEF StreamBreaks, StreamFails, StreamStops
  <2>2. CASE Flush
    BY <2>2 DEF Flush
  <2>3. CASE Answer
    BY <2>3 DEF Answer, ReplayReturns, ServeCheck, CheckIgnored, CheckApplies, CheckAnswered
  <2>4. CASE StartReplay \/ PollProjection \/ Hold \/ WantLease \/ WantDrop \/ Evict \/ Delete \/ Reconnect
    BY <2>4 DEF StartReplay, PollProjection, Hold, WantLease, WantDrop, Evict, Delete, Reconnect
  <2>5. CASE TakeLease \/ DropLease \/ DropEnds \/ Reset \/ LeaseAgain
    BY <2>5 DEF TakeLease, DropLease, DropEnds, Reset, LeaseAgain, Release, Unsubscribe
  <2>6. CASE StopForRefresh \/ ForgetCursor \/ RefreshWithoutLease
    BY <2>6 DEF StopForRefresh, ForgetCursor, RefreshWithoutLease, Unsubscribe
  <2>7. CASE UNCHANGED vars
    BY <2>7 DEF vars
  <2> QED
    BY <1>s, <2>1, <2>2, <2>3, <2>4, <2>5, <2>6, <2>7 DEF Next, Outside, Chain
<1>w. ASSUME UNCHANGED <<rel, wire>>, Top' = Top PROVE Still
  BY <1>w DEF Behind, Below, InWire, Fresh
<1>n. ASSUME wire' = <<>>, Top' = NoCursor PROVE Nothing
  BY <1>n DEF Behind, Below, Fresh
<1>1. CASE UNCHANGED feedVars
  <2>1. UNCHANGED <<last, rel, phase, cursor, asked, pos, wire>>
    BY <1>1 DEF feedVars
  <2>2. CASE Promised' = Promised
    <3>1. Top' = Top
      BY <2>1, <2>2 DEF Top
    <3> QED
      BY <1>w, <2>1, <3>1
  <2>3. CASE (TakeLease \/ LeaseAgain) /\ Begin /\ Promised = NoCursor /\ Promised' = resume
    <3>1. CASE wire # <<>> \/ phase \in {"open", "asked"}
      <4>1. Top' = Top
        BY <2>1, <3>1 DEF Top
      <4> QED
        BY <1>w, <2>1, <4>1
    <3>2. CASE ~(wire # <<>> \/ phase \in {"open", "asked"})
      <4>1. Top' = resume /\ wire' = <<>>
        BY <2>1, <2>3, <3>2 DEF Top
      <4>2. Behind' \subseteq Below(resume) /\ ~Fresh'
        BY <2>1, <4>1 DEF Behind, Below, Fresh
      <4> QED
        BY <2>1, <2>3, <4>2
    <3> QED
      BY <3>1, <3>2
  <2>4. CASE SubscribeThread /\ Promised' = NoCursor
    <3>1. CASE Promised # NoCursor
      <4>1. wire' = <<>> /\ phase' = "off"
        BY <1>a, <1>p, <2>1, <3>1
      <4>2. Top' = NoCursor
        BY <2>4, <4>1 DEF Top
      <4> QED
        BY <1>n, <2>1, <4>1, <4>2
    <3> QED
      BY <2>2, <2>4, <3>1
  <2> QED
    BY <1>p, <2>2, <2>3, <2>4
<1>2. CASE JournalGrows
  <2>1. /\ UNCHANGED <<phase, cursor, asked, pos, wire, ops>> /\ rel' = rel \union {last + 1}
    BY <1>2 DEF JournalGrows, FeedAppend
  <2>2. Top' = Top /\ (Top # NoCursor => ~(last + 1 <= Top))
    BY <1>a, <2>1 DEF Top, Promised
  <2>3. Behind' \subseteq Behind
    BY <2>1, <2>2 DEF Behind, Below, InWire
  <2> QED
    BY <2>1, <2>3 DEF Fresh
<1>3. CASE StreamAnswers
  <2>0. UNCHANGED ops
    BY <1>3 DEF StreamAnswers
  <2>1. CASE FeedResume
    <3>1. UNCHANGED <<rel, wire, asked>> /\ Top' = Top /\ phase' # "asked"
      BY <1>a, <2>1 DEF FeedResume, Top
    <3> QED
      BY <1>w, <3>1
  <2>2. CASE \E s, u \in 0..MaxSeq : u - s <= Lag /\ FeedSnapshot(s, u)
    <3>1. PICK s \in 0..MaxSeq, u \in 0..MaxSeq : FeedSnapshot(s, u)
      BY <2>2
    <3>2. /\ phase = "asked" /\ asked <= u /\ phase' = "open" /\ rel' = rel
          /\ wire = <<>> /\ wire' = Append(wire, Snapshot(s, u))
      BY <1>a, <3>1 DEF FeedSnapshot, Put
    <3>3. wire' = <<Snapshot(s, u)>> /\ Len(wire') = 1 /\ wire' # <<>> /\ Head(wire') = Snapshot(s, u)
          /\ wire'[Len(wire')] = Snapshot(s, u)
      BY <3>2
    <3>4. Snapshot(s, u).kind = "snapshot" /\ Snapshot(s, u).seq = s /\ Snapshot(s, u).upto = u
      BY DEF Snapshot
    <3> HIDE DEF Snapshot
    <3>5. Top' = s /\ Fresh' /\ Head(wire').seq = s /\ Head(wire').upto = u
      BY <3>3, <3>4 DEF Top, Fresh
    <3>6. \A r \in Behind' : r <= s
      BY <3>5 DEF Behind, Below
    <3> QED
      BY <1>3, <3>2, <3>5, <3>6
  <2>3. CASE \E e \in Sequences : FeedSend(e)
    <3>1. PICK e \in Sequences : FeedSend(e)
      BY <2>3
    <3>2. /\ phase = "open" /\ phase' = "open" /\ rel' = rel /\ wire' = Append(wire, EventItem(e))
          /\ e \in rel /\ e > pos /\ \A r \in rel : r <= pos \/ r >= e
      BY <3>1, Facts DEF FeedSend, Put
    <3>3. EventItem(e) \in Items /\ EventItem(e).kind = "event" /\ EventItem(e).seq = e
      <4>1. e \in 0..MaxSeq
        BY Facts DEF Sequences
      <4> QED
        BY <4>1 DEF EventItem, Items
    <3> HIDE DEF EventItem
    <3>4. /\ wire' \in Seq(Items) /\ Len(wire') = Len(wire) + 1 /\ wire' # <<>>
          /\ wire'[Len(wire) + 1] = EventItem(e) /\ \A i \in 1..Len(wire) : wire'[i] = wire[i]
      BY <1>a, <3>2, <3>3, Appended
    <3>5. Top' = e /\ Top = pos
      <4>1. Top = pos
        BY <3>2 DEF Top, TypeInv, WireInv
      <4> QED
        BY <3>3, <3>4, <4>1 DEF Top
    <3>6. ASSUME NEW r \in Behind' PROVE r \in Behind
      <4>1. r \in rel /\ r <= e /\ ~(InWire(r)')
        BY <3>2, <3>5, <3>6 DEF Behind, Below
      <4>2. r # e
        <5>1. Len(wire) + 1 \in 1..Len(wire')
          BY <1>a, <3>4
        <5> QED
          BY <3>3, <3>4, <4>1, <5>1 DEF InWire
      <4>3. ~InWire(r)
        <5>1. \A j \in 1..Len(wire) : j \in 1..Len(wire')
          BY <1>a, <3>4
        <5> QED
          BY <3>4, <4>1, <5>1 DEF InWire
      <4>4. r <= pos
        <5>1. r \in Nat /\ e \in Nat
          BY <3>2, <4>1, Facts
        <5> QED
          BY <3>2, <4>1, <4>2, <5>1
      <4>5. pos # NoCursor
        BY <1>a
      <4> QED
        BY <3>5, <4>1, <4>3, <4>4, <4>5 DEF Behind, Below
    <3>7. (Fresh' <=> Fresh) /\ (Fresh => Head(wire') = Head(wire))
      <4>1. Head(wire') = wire'[1]
        BY <3>4, Behead
      <4>2. CASE wire = <<>>
        <5>1. Len(wire) = 0
          BY <4>2
        <5> QED
          BY <3>3, <3>4, <4>1, <4>2, <5>1 DEF Fresh
      <4>3. CASE wire # <<>>
        <5>1. Head(wire) = wire[1] /\ 1 \in 1..Len(wire)
          BY <1>a, <4>3, Behead
        <5> QED
          BY <3>4, <4>1, <4>3, <5>1 DEF Fresh
      <4> QED
        BY <4>2, <4>3
    <3> QED
      BY <3>2, <3>6, <3>7
  <2> QED
    BY <1>3, <2>1, <2>2, <2>3 DEF StreamAnswers
<1>q. ASSUME phase # "off", phase' # phase, phase' \in {"off", "broken"} PROVE Promised' = NoCursor
  BY <1>p, <1>q, <1>t, <1>s DEF feedVars
<1>4. CASE FeedBreak
  <2>1. phase # "off" /\ phase' # phase /\ phase' = "broken" /\ UNCHANGED <<rel, wire>>
    BY <1>4 DEF FeedBreak
  <2>2. CASE wire = <<>>
    <3>1. Top' = NoCursor
      BY <1>q, <2>1, <2>2 DEF Top
    <3> QED
      BY <1>n, <2>1, <2>2, <3>1
  <2>3. CASE wire # <<>>
    <3>1. Top' = Top
      BY <2>1, <2>3 DEF Top
    <3> QED
      BY <1>w, <2>1, <3>1
  <2> QED
    BY <2>2, <2>3
<1>5. CASE FeedClose
  <2>1. phase # "off" /\ phase' # phase /\ phase' = "off" /\ wire' = <<>>
    BY <1>5 DEF FeedClose
  <2>2. Top' = NoCursor
    BY <1>q, <2>1 DEF Top
  <2> QED
    BY <1>n, <2>1, <2>2
<1>6. CASE TransportRestarts
  <2>1. wire' = <<>> /\ phase' = "asked" /\ cursor' = resume /\ rel' = rel /\ asked' = last /\ last' = last
    BY <1>6 DEF TransportRestarts, FeedSubscribe
  <2>2. Top' = resume
    BY <2>1 DEF Top
  <2>3. Behind' \subseteq Below(resume) /\ ~Fresh'
    BY <2>1, <2>2 DEF Behind, Below, Fresh
  <2> QED
    BY <1>6, <2>1, <2>3
<1>7. CASE (SubscribeThread \/ SubscribeForRefresh) /\ Asked
  <2>1. /\ wire = <<>> /\ wire' = <<>> /\ phase' = "asked" /\ rel' = rel /\ asked' = last /\ last' = last
        /\ ops # <<>> /\ Head(ops).step = 2 /\ cursor' \in {Head(ops).with, NoCursor} /\ phase \in {"off", "broken"}
    BY <1>7 DEF SubscribeThread, SubscribeForRefresh, Running, FeedSubscribe
  <2>2. Top' = cursor' /\ Top = Head(ops).with
    BY <2>1 DEF Top, Promised
  <2>3. CASE cursor' = NoCursor
    BY <1>n, <2>1, <2>2, <2>3
  <2>4. CASE cursor' = Head(ops).with
    BY <1>w, <2>1, <2>2, <2>4
  <2> QED
    BY <2>1, <2>3, <2>4
<1> HIDE DEF Still, Nothing, Opened, Asks, Known, Asked
<1> QED
  BY <1>1, <1>2, <1>3, <1>4, <1>5, <1>6, <1>7, <1>m

\* What a step that receives the next item does.
LEMMA Taken ==
    ASSUME TypeInv, ChainInv, [Next]_vars, Receive
    PROVE  /\ wire # <<>> /\ phase # "asked" /\ UNCHANGED <<phase, rel, last>> /\ ~Fresh'
           /\ \A r \in Behind' : r \in Behind \/ (Head(wire).kind = "event" /\ r = Head(wire).seq)
           /\ ~Fresh => \A r \in rel : r < Head(wire).seq => r \in Behind
<1>1. FeedReceive /\ UNCHANGED ops
  BY DEF Receive, ReceiveSnapshot, ReceiveEarlyEvent, ReceiveEvent
<1>2. /\ wire # <<>> /\ wire' = Tail(wire) /\ UNCHANGED <<last, rel, phase, cursor, pos>>
  BY <1>1 DEF FeedReceive
<1>3. /\ wire \in Seq(Items) /\ Len(wire) \in Nat /\ NoCursor \notin Int
      /\ Head(wire) = wire[1] /\ wire' \in Seq(Items) /\ Len(wire') \in Nat /\ Len(wire) = Len(wire') + 1
      /\ \A i \in 1..Len(wire') : i + 1 \in 1..Len(wire) /\ wire'[i] = wire[i + 1]
      /\ 1 \in 1..Len(wire)
  BY <1>2, Facts, Behead
<1>4. phase # "asked" /\ phase # "off"
  BY <1>2 DEF TypeInv, WireInv
<1>5. /\ \A j \in 1..Len(wire) :
            wire[j].seq \in Nat /\ Top \in Nat /\ Top # NoCursor /\ wire[j].seq <= Top
      /\ \A j \in 1..Len(wire) : Head(wire).seq <= wire[j].seq
      /\ \A j \in 1..Len(wire) : j # 1 => wire[j].kind = "event"
  <2>1. \A j \in 1..Len(wire) : j # 1 => j \in 2..Len(wire)
    BY <1>3
  <2> QED
    BY <1>2, <2>1, Bounds
<1>6. ~Fresh'
  <2>1. ASSUME wire' # <<>> PROVE Head(wire') = wire'[1] /\ 1 \in 1..Len(wire')
    BY <1>3, <2>1, Behead
  <2>2. ASSUME wire' # <<>> PROVE Head(wire').kind = "event"
    <3>1. 1 + 1 \in 1..Len(wire) /\ 1 + 1 # 1 /\ Head(wire') = wire[1 + 1]
      BY <1>3, <2>1, <2>2
    <3> QED
      BY <1>5, <3>1
  <2> QED
    BY <2>2 DEF Fresh
<1>7. Top' = Top \/ Top' = NoCursor
  <2>1. CASE wire' # <<>>
    <3>1. Len(wire') \in 1..Len(wire') /\ wire'[Len(wire')] = wire[Len(wire)]
      BY <1>3, <2>1
    <3> QED
      BY <1>2, <2>1, <3>1 DEF Top
  <2>2. CASE wire' = <<>>
    <3>1. phase = "open" => pos = Top
      BY <1>2 DEF Top, TypeInv, WireInv
    <3>2. Promised' = NoCursor
      <4>1. Promised = NoCursor
        BY <1>4, PromiseMoves
      <4> QED
        BY <1>1, <4>1 DEF Promised
    <3> QED
      BY <1>2, <1>4, <2>2, <3>1, <3>2 DEF Top
  <2> QED
    BY <2>1, <2>2
<1>8. ASSUME NEW r \in Behind' PROVE r \in Behind \/ (Head(wire).kind = "event" /\ r = Head(wire).seq)
  <2>1. r \in rel /\ Top' = Top /\ r <= Top /\ ~(InWire(r)')
    BY <1>2, <1>7, <1>8 DEF Behind, Below
  <2>2. ASSUME NEW j \in 1..Len(wire), wire[j].kind = "event", wire[j].seq = r, j # 1 PROVE FALSE
    <3>1. j - 1 \in 1..Len(wire') /\ (j - 1) + 1 = j
      BY <1>3, <2>2
    <3>2. wire'[j - 1] = wire[j]
      BY <1>3, <3>1
    <3> QED
      BY <2>1, <2>2, <3>1, <3>2 DEF InWire
  <2>3. InWire(r) => Head(wire).kind = "event" /\ r = Head(wire).seq
    BY <1>3, <2>2 DEF InWire
  <2> QED
    BY <1>3, <1>5, <2>1, <2>3 DEF Behind, Below
<1>9. ASSUME ~Fresh, NEW r \in rel, r < Head(wire).seq PROVE r \in Behind
  <2>1. r \in Nat /\ Head(wire).seq \in Nat /\ Head(wire).seq <= Top /\ Top \in Nat /\ Top # NoCursor
    BY <1>3, <1>5, Facts
  <2>2. \A j \in 1..Len(wire) : wire[j].seq # r
    BY <1>5, <1>9, <2>1
  <2>3. r <= Top
    BY <1>9, <2>1
  <2> QED
    BY <1>9, <2>1, <2>2, <2>3 DEF Behind, Below, InWire
<1> QED
  BY <1>2, <1>4, <1>6, <1>8, <1>9
-----------------------------------------------------------------------------
(* Projection reads, losses, and what waits. *)

LEMMA ServedMoves ==
    ASSUME TypeInv, [Next]_vars
    PROVE  /\ \A i \in Served' :
                \/ \E k \in Served : checks'[i].upto = checks[k].upto
                \/ checks'[i].upto = last'
           /\ Begin => Served' = {}
           /\ generation' = 0 => Served' = {}
           /\ checks' = <<>> => Served' = {}
<1>a. /\ generations \in Nat /\ generation \in 0..generations
      /\ checks \in Seq(Calls(generations, last)) /\ Len(checks) \in Nat
      /\ checks' \in Seq(Calls(generations', last')) /\ Len(checks') \in Nat /\ generations' \in Nat
  <2>1. TypeInv'
    BY TypeKept
  <2>2. /\ generations \in Nat /\ generation \in 0..generations
        /\ checks \in Seq(Calls(generations, last))
    BY DEF TypeInv, TypeOK, Calls
  <2>3. checks' \in Seq(Calls(generations', last')) /\ generations' \in Nat
    BY <2>1 DEF TypeInv, TypeOK, Calls
  <2> QED
    BY <2>2, <2>3
<1>b. \A i \in 1..Len(checks) : checks[i].generation \in 1..generations
  <2>1. \A i \in 1..Len(checks) : checks[i] \in Calls(generations, last)
    BY <1>a
  <2> QED
    BY <2>1 DEF Calls
<1>c. \A i \in 1..Len(checks') : checks'[i].generation \in 1..generations'
  <2>1. \A i \in 1..Len(checks') : checks'[i] \in Calls(generations', last')
    BY <1>a
  <2> QED
    BY <2>1 DEF Calls
<1>1. generation' = 0 => Served' = {}
  <2>1. \A i \in 1..Len(checks') : checks'[i].generation # 0
    BY <1>a, <1>c
  <2> QED
    BY <2>1 DEF Served
<1>2. checks' = <<>> => Served' = {}
  <2>1. checks' = <<>> => 1..Len(checks') = {}
    OBVIOUS
  <2> QED
    BY <2>1 DEF Served
<1>3. ASSUME Begin, UNCHANGED checks PROVE Served' = {}
  <2>1. generation' = generations + 1 /\ checks' = checks
    BY <1>3 DEF Begin
  <2>2. \A i \in 1..Len(checks) : checks[i].generation # generations + 1
    BY <1>a, <1>b
  <2> QED
    BY <2>1, <2>2 DEF Served
<1>4. CallMoves
  BY CallFrame
<1>5. Begin => UNCHANGED checks
  <2>1. ASSUME Begin, leased /\ StartCheck /\ UNCHANGED <<generation, generations, leased>> PROVE FALSE
    BY <1>a, <2>1 DEF Begin
  <2>2. ASSUME Begin, generations' = generations PROVE FALSE
    BY <1>a, <2>2 DEF Begin
  <2> QED
    BY <1>4, <2>1, <2>2 DEF CallMoves
<1>6. ASSUME NEW i \in Served'
      PROVE  \/ \E k \in Served : checks'[i].upto = checks[k].upto
             \/ checks'[i].upto = last'
  <2>0. i \in 1..Len(checks') /\ checks'[i].generation = generation' /\ checks'[i].upto # NoCursor
    BY DEF Served
  <2>1. CASE UNCHANGED <<checks, checking, generation, generations, leased>>
    BY <2>0, <2>1 DEF Served
  <2>2. CASE leased /\ StartCheck /\ UNCHANGED <<generation, generations, leased>>
    <3>1. CASE CanCheck
      <4>1. PICK x : x = [generation |-> generation, upto |-> NoCursor]
        OBVIOUS
      <4>2. x.upto = NoCursor /\ checks' = Append(checks, x)
        BY <2>2, <3>1, <4>1 DEF StartCheck
      <4>3. /\ Len(checks') = Len(checks) + 1 /\ checks'[Len(checks) + 1] = x
            /\ \A j \in 1..Len(checks) : checks'[j] = checks[j]
            /\ \A j \in 1..Len(checks) + 1 : j \in 1..Len(checks) \/ j = Len(checks) + 1
        <5>1. x \in Calls(generations, last)
          <6>1. generation # 0
            BY <2>2 DEF TypeInv, TypeOK
          <6> QED
            BY <1>a, <4>1, <6>1 DEF Calls
        <5> QED
          BY <1>a, <4>2, <5>1, Appended
      <4>4. i \in 1..Len(checks)
        BY <2>0, <4>2, <4>3
      <4> QED
        BY <2>0, <2>2, <4>3, <4>4 DEF Served
    <3>2. CASE ~CanCheck
      BY <2>0, <2>2, <3>2 DEF StartCheck, Served
    <3> QED
      BY <3>1, <3>2
  <2>3. CASE \E k \in 1..Len(checks) :
              /\ checks[k].upto = NoCursor /\ checks' = [checks EXCEPT ![k].upto = last]
              /\ UNCHANGED <<checking, generation, generations, leased, last>>
    <3>1. PICK k \in 1..Len(checks) : checks' = [checks EXCEPT ![k].upto = last]
      BY <2>3
    <3>2. Len(checks') = Len(checks) /\ \A j \in 1..Len(checks) : j # k => checks'[j] = checks[j]
      BY <1>a, <3>1
    <3>3. checks'[k].upto = last
      <4>1. checks[k] \in Calls(generations, last)
        BY <1>a
      <4>2. checks'[k] = [checks[k] EXCEPT !.upto = last]
        BY <1>a, <3>1
      <4> QED
        BY <4>1, <4>2 DEF Calls
    <3> QED
      BY <2>0, <2>3, <3>2, <3>3 DEF Served
  <2>4. CASE \E k \in 1..Len(checks) :
              /\ checks' = RemoveAt(checks, k) /\ checking' \in {0, checking}
              /\ UNCHANGED <<generation, generations, leased>>
    <3>1. PICK k \in 1..Len(checks) : checks' = RemoveAt(checks, k)
      BY <2>4
    <3>2. PICK j \in 1..Len(checks) : checks'[i] = checks[j]
      BY <1>a, <2>0, <3>1, Removed
    <3> QED
      BY <2>0, <2>4, <3>2 DEF Served
  <2>5. CASE Begin /\ UNCHANGED checks
    BY <1>3, <2>5
  <2>6. CASE /\ leased' = FALSE /\ checking' = 0 /\ generation' = 0
             /\ UNCHANGED <<checks, generations>>
    BY <1>1, <2>6
  <2> QED
    BY <1>4, <2>1, <2>2, <2>3, <2>4, <2>5, <2>6 DEF CallMoves
<1> QED
  BY <1>1, <1>2, <1>3, <1>5, <1>6

LEMMA Losses ==
    ASSUME TypeInv, [Next]_vars, Sound'
    PROVE  Sound /\ (Cross => replays = <<>> /\ checks = <<>>)
<1>a. crossed \in BOOLEAN /\ spilled \in BOOLEAN /\ deleted \in BOOLEAN
  BY DEF TypeInv, TypeOK
<1>b. ~crossed' /\ ~spilled' /\ ~deleted'
  BY DEF Sound
<1>c. Cross => ~crossed /\ ~spilled /\ replays = <<>> /\ checks = <<>>
  <2>1. Cross => crossed' = (crossed \/ replays # <<>> \/ checks # <<>>) /\ spilled' = spilled
    BY DEF Cross
  <2> QED
    BY <1>b, <2>1, Zenon
<1>g. UNCHANGED ghosts => ~crossed /\ ~spilled
  BY <1>b DEF ghosts
<1>1. ~deleted
  <2>1. UNCHANGED deleted \/ deleted' = TRUE
    <3>1. CASE UNCHANGED <<storeVars, bookVars>>
      BY <3>1 DEF storeVars
    <3>2. CASE ReceiveSnapshot \/ ReceiveEarlyEvent \/ ReceiveEvent \/ Flush
      BY <3>2 DEF ReceiveSnapshot, ReceiveEarlyEvent, ReceiveEvent, Flush, storeVars
    <3>3. CASE (\E i \in 1..Len(replays), t \in 0..last : ReplayReturns(i, t))
               \/ (\E i \in 1..Len(checks), s \in 0..last : CheckApplies(i, s))
      BY <3>3 DEF ReplayReturns, CheckApplies, CheckAnswered
    <3>4. CASE Evict \/ Delete \/ StreamFails \/ TakeLease \/ LeaseAgain \/ DropLease \/ Reset \/ ForgetCursor
      BY <3>4 DEF Evict, Delete, StreamFails, TakeLease, LeaseAgain, DropLease, Reset, ForgetCursor, storeVars
    <3> QED
      BY <3>1, <3>2, <3>3, <3>4, BookFrame DEF BookMoves
  <2> QED
    BY <1>a, <1>b, <2>1
<1>2. UNCHANGED ghosts \/ Cross \/ ReceiveEarlyEvent
  <2>1. CASE JournalGrows \/ StreamAnswers \/ StreamBreaks \/ TransportRestarts \/ StreamStops \/ Flush
    BY <2>1 DEF JournalGrows, StreamAnswers, StreamBreaks, TransportRestarts, StreamStops, Flush, callVars
  <2>2. CASE ReceiveSnapshot \/ ReceiveEvent \/ StreamFails \/ StartReplay \/ PollProjection
    BY <2>2 DEF ReceiveSnapshot, ReceiveEvent, StreamFails, StartReplay, PollProjection, callVars
  <2>3. CASE Answer
    BY <2>3 DEF Answer, ReplayReturns, ServeCheck, CheckIgnored, CheckApplies, CheckAnswered
  <2>4. CASE Hold \/ WantLease \/ WantDrop \/ Reconnect \/ Evict \/ Delete
    BY <2>4 DEF Hold, WantLease, WantDrop, Reconnect, Evict, Delete, callVars
  <2>5. CASE TakeLease \/ LeaseAgain \/ DropLease \/ Reset
    BY <2>5 DEF TakeLease, LeaseAgain, DropLease, Reset, Release
  <2>6. CASE DropEnds \/ SubscribeThread \/ StopForRefresh \/ ForgetCursor \/ SubscribeForRefresh \/ RefreshWithoutLease
    BY <2>6 DEF DropEnds, SubscribeThread, StopForRefresh, ForgetCursor, SubscribeForRefresh,
                RefreshWithoutLease, callVars
  <2>7. CASE UNCHANGED vars
    BY <2>7 DEF vars, callVars
  <2> QED
    BY <2>1, <2>2, <2>3, <2>4, <2>5, <2>6, <2>7 DEF Next, Outside, Chain, Receive
<1>3. ReceiveEarlyEvent => ~crossed /\ ~spilled
  <2>1. ReceiveEarlyEvent => crossed' = crossed /\ spilled' = (spilled \/ Spills(pending \union {Head(wire).seq}))
    BY DEF ReceiveEarlyEvent
  <2> QED
    BY <1>a, <1>b, <2>1
<1> QED
  BY <1>1, <1>2, <1>3, <1>c, <1>g DEF Sound

HeadBounded == wire # <<>> => Head(wire).upto \in 0..last

LEMMA HeadBound == TypeInv => HeadBounded
BY Facts DEF HeadBounded

LEMMA HeadBoundNext == TypeInv' => HeadBounded'
BY HeadBound, PTL

LEMMA WaitKept ==
    ASSUME TypeInv, ChainInv, WaitInv, [Next]_vars
    PROVE  WaitInv'
<1>1. pending' \subseteq 1..last'
  BY TypeKept DEF TypeInv, TypeOK
<1>t. last' \in Nat
  BY TypeKept
<1>2. CASE Receive
  BY <1>2, Taken DEF WaitInv
<1>3. CASE ~Receive
  <2>1. pending' \subseteq pending
    <3>1. CASE UNCHANGED <<storeVars, bookVars>>
      BY <3>1 DEF bookVars
    <3>2. CASE Flush
      BY <3>2 DEF Flush, bookVars
    <3>3. CASE \E i \in 1..Len(replays), t \in 0..last : ReplayReturns(i, t)
      BY <3>3 DEF ReplayReturns
    <3>4. CASE \E i \in 1..Len(checks), s \in 0..last : CheckApplies(i, s)
      BY <3>4 DEF CheckApplies, FlushPending
    <3>5. CASE Evict \/ Delete \/ StreamFails \/ ForgetCursor
      BY <3>5 DEF Evict, Delete, StreamFails, ForgetCursor
    <3>6. CASE TakeLease \/ LeaseAgain
      BY <3>6 DEF TakeLease, LeaseAgain, Begin
    <3>7. CASE DropLease
      <4>1. pending' = {} \/ UNCHANGED bookVars
        BY <3>7 DEF DropLease, Release
      <4> QED
        BY <4>1 DEF bookVars
    <3>8. CASE Reset
      BY <3>8 DEF Reset, Release
    <3> QED
      BY <1>3, <3>1, <3>2, <3>3, <3>4, <3>5, <3>6, <3>7, <3>8, BookFrame DEF BookMoves, Receive
  <2>2. phase' = "asked" => \A p \in pending' : p <= asked'
    <3>1. CASE phase = "asked" /\ asked' = asked
      BY <2>1, <3>1 DEF WaitInv
    <3>2. CASE asked' = last'
      BY <1>1, <1>t, <3>2
    <3> QED
      BY <1>3, <3>1, <3>2, Drift
  <2>3. Fresh' => \A p \in pending' : p <= Head(wire').upto
    <3>1. CASE Fresh /\ Head(wire') = Head(wire)
      BY <2>1, <3>1 DEF WaitInv
    <3>2. CASE Fresh' /\ phase = "asked" /\ asked <= Head(wire').upto
      <4>1. \A p \in pending : p <= asked
        BY <3>2 DEF WaitInv
      <4>2. pending \subseteq Nat /\ asked \in Nat /\ Head(wire').upto \in Nat
        <5>1. TypeInv'
          BY TypeKept
        <5>2. Head(wire').upto \in 0..last'
          BY <3>2, <5>1, HeadBoundNext DEF Fresh, HeadBounded
        <5>3. last \in Nat
          BY Facts
        <5> QED
          BY <1>t, <5>2, <5>3 DEF TypeInv, TypeOK, FeedTypeOK
      <4> QED
        BY <2>1, <3>2, <4>1, <4>2
    <3> QED
      BY <1>3, <3>1, <3>2, Drift
  <2> QED
    BY <2>2, <2>3 DEF WaitInv
<1> QED
  BY <1>2, <1>3
-----------------------------------------------------------------------------
(* Coherence. *)

\* What a step keeps when it receives nothing and takes no credit that is not covered.
LEMMA StreamKept ==
    ASSUME TypeInv, ChainInv, BookInv, StreamInv, [Next]_vars, ~Receive, generations' = generations,
           latest' # NoCursor => latest # NoCursor /\ Shown \subseteq Shown',
           Served' = {} \/ Credited \subseteq Credited'
    PROVE  StreamInv'
<1>a. last' \in Nat /\ rel' \subseteq 1..last' /\ gone' = {}
  BY TypeKept DEF TypeInv, TypeOK, FeedTypeOK, WireInv
<1>b. \A r \in rel : r \in Nat
  BY Facts
<1>c. \A c \in Reach : c # NoCursor => c \in Nat
  BY Facts
<1>d. resume \in Reach /\ latest \in Reach
  BY Facts
<1>n. ~((TakeLease \/ LeaseAgain) /\ Begin)
  <2>1. generations \in Nat
    BY DEF TypeInv, TypeOK
  <2> QED
    BY <2>1 DEF Begin
<1>1. \/ Behind' \subseteq Behind /\ (Fresh' <=> Fresh) /\ (Fresh => Head(wire') = Head(wire))
      \/ Behind' = {} /\ ~Fresh'
      \/ Fresh' /\ \A r \in Behind' : r <= Head(wire').seq
      \/ ~Fresh' /\ Behind' \subseteq Below(resume) /\ TransportRestarts
  BY <1>n, Drift
<1>2. TransportRestarts /\ resume # NoCursor => latest # NoCursor /\ resume <= latest
  <2>1. TransportRestarts => subscribed
    BY DEF TransportRestarts
  <2>2. subscribed => leased
    BY DEF ChainInv, Placed
  <2> QED
    BY <2>1, <2>2 DEF BookInv
<1>3. TransportRestarts => Below(resume) \subseteq Credited
  <2>1. ASSUME TransportRestarts, NEW r \in Below(resume) PROVE r \in Below(latest) /\ latest # NoCursor
    <3>1. r \in rel /\ resume # NoCursor /\ r <= resume
      BY <2>1 DEF Below
    <3>2. latest # NoCursor /\ resume <= latest
      BY <1>2, <2>1, <3>1
    <3>3. r <= latest
      BY <1>b, <1>c, <1>d, <3>1, <3>2
    <3> QED
      BY <3>1, <3>2, <3>3 DEF Below
  <2> QED
    BY <2>1 DEF Credited
<1>4. Fresh' => \A r \in Behind' : r <= Head(wire').seq
  BY <1>1 DEF StreamInv
<1>5. ASSUME ~Fresh', latest' # NoCursor PROVE Behind' \subseteq Shown'
  <2>1. Below(resume) \subseteq Shown
    BY DEF BookInv
  <2> QED
    BY <1>1, <1>5, <2>1 DEF StreamInv
<1>6. ASSUME ~Fresh', NEW i \in Served', NEW r \in Behind' PROVE r <= checks'[i].upto \/ r \in Credited'
  <2>1. CASE \E k \in Served : checks'[i].upto = checks[k].upto
    <3>1. PICK k \in Served : checks'[i].upto = checks[k].upto
      BY <2>1
    <3>2. r <= checks[k].upto \/ r \in Credited
      BY <1>1, <1>3, <1>6 DEF StreamInv
    <3> QED
      BY <1>6, <3>1, <3>2
  <2>2. CASE checks'[i].upto = last'
    <3>1. r \in rel'
      BY <1>6 DEF Behind, Below
    <3> QED
      BY <1>a, <2>2, <3>1
  <2> QED
    BY <1>6, <2>1, <2>2, ServedMoves
<1> QED
  BY <1>4, <1>5, <1>6 DEF StreamInv

LEMMA EarlyKept ==
    ASSUME TypeInv, EarlyInv, [Next]_vars,
           \/ latest' # NoCursor \/ Served' = {} \/ pending' = {}
           \/ latest = NoCursor /\ pending' = pending
    PROVE  EarlyInv'
<1>a. last' \in Nat /\ rel' \subseteq 1..last' /\ last \in Nat /\ pending \subseteq 1..last
  BY TypeKept DEF TypeInv, TypeOK, FeedTypeOK
<1>1. ASSUME latest = NoCursor, pending' = pending, NEW i \in Served', NEW p \in pending', NEW r \in rel', r <= p
      PROVE  r <= checks'[i].upto \/ r \in pending'
  <2>1. r \in rel
    <3>1. r <= last
      BY <1>a, <1>1
    <3> QED
      BY <3>1, Later
  <2>2. CASE \E k \in Served : checks'[i].upto = checks[k].upto
    <3>1. PICK k \in Served : checks'[i].upto = checks[k].upto
      BY <2>2
    <3>2. r <= checks[k].upto \/ r \in pending
      BY <1>1, <2>1 DEF EarlyInv
    <3> QED
      BY <1>1, <3>1, <3>2
  <2>3. CASE checks'[i].upto = last'
    BY <1>a, <2>3
  <2> QED
    BY <2>2, <2>3, ServedMoves
<1> QED
  BY <1>1 DEF EarlyInv

\* Below a cursor the journal has settled.
LEMMA BelowKept ==
    ASSUME TypeInv, [Next]_vars, NEW c \in Reach
    PROVE  {r \in rel' : c # NoCursor /\ r <= c} = Below(c)
<1>1. /\ last' \in Nat /\ rel' \subseteq 1..last' /\ last \in Nat /\ rel \subseteq rel'
      /\ (c # NoCursor => c \in Nat /\ c <= last)
  BY TypeKept, Facts DEF TypeInv, TypeOK, FeedTypeOK
<1>2. ASSUME NEW r \in rel', c # NoCursor, r <= c PROVE r \in rel
  <2>1. r <= last
    BY <1>1, <1>2
  <2> QED
    BY <2>1, Later
<1> QED
  BY <1>1, <1>2 DEF Below

LEMMA QuietKept ==
    ASSUME TypeInv, ChainInv, BookInv, StreamInv, EarlyInv, [Next]_vars, ~Receive, generations' = generations,
           UNCHANGED <<latest, pending, leased>>, resume' \in {resume, NoCursor}, Shown \subseteq Shown',
           \A i \in 1..Len(replays') : latest # NoCursor /\ replays'[i] <= latest
    PROVE  BookInv' /\ StreamInv' /\ EarlyInv'
<1>a. resume \in Reach /\ latest \in Reach
  BY Facts
<1>1. Below(latest)' = Below(latest)
  <2>1. PICK c \in Reach : c = latest
    BY <1>a
  <2>2. Below(latest)' = {r \in rel' : c # NoCursor /\ r <= c}
    BY <2>1 DEF Below
  <2> QED
    BY <2>1, <2>2, BelowKept
<1>2. Below(resume)' \subseteq Below(resume)
  <2>1. CASE resume' = resume
    <3>1. PICK c \in Reach : c = resume
      BY <1>a
    <3>2. Below(resume)' = {r \in rel' : c # NoCursor /\ r <= c}
      BY <2>1, <3>1 DEF Below
    <3> QED
      BY <3>1, <3>2, BelowKept
  <2>2. CASE resume' = NoCursor
    BY <2>2 DEF Below
  <2> QED
    BY <2>1, <2>2
<1>3. BookInv'
  <2>1. Below(resume)' \subseteq Shown' /\ Below(latest)' \subseteq Shown'
    BY <1>1, <1>2 DEF BookInv
  <2>2. leased /\ resume' # NoCursor => latest # NoCursor /\ resume' <= latest
    BY DEF BookInv
  <2> QED
    BY <2>1, <2>2 DEF BookInv
<1>4. Credited' = Credited
  BY <1>1 DEF Credited
<1>5. StreamInv'
  BY <1>4, StreamKept
<1>6. EarlyInv'
  BY EarlyKept
<1> QED
  BY <1>3, <1>5, <1>6

LEMMA LostKept ==
    ASSUME TypeInv, ChainInv, BookInv, StreamInv, EarlyInv, [Next]_vars, ~Receive, generations' = generations,
           checks' = <<>>, replays' = <<>>, latest' = NoCursor,
           \/ resume' = NoCursor
           \/ resume' = resume /\ Shown \subseteq Shown' /\ ~leased'
    PROVE  BookInv' /\ StreamInv' /\ EarlyInv'
<1>1. Served' = {}
  BY ServedMoves
<1>2. StreamInv' /\ EarlyInv'
  BY <1>1, StreamKept, EarlyKept
<1>3. Below(latest)' = {}
  BY DEF Below
<1>4. Below(resume)' \subseteq Shown'
  <2>1. CASE resume' = NoCursor
    BY <2>1 DEF Below
  <2>2. CASE resume' = resume /\ Shown \subseteq Shown' /\ ~leased'
    <3>1. PICK c \in Reach : c = resume
      BY Facts
    <3>2. Below(resume)' = {r \in rel' : c # NoCursor /\ r <= c}
      BY <2>2, <3>1 DEF Below
    <3> QED
      BY <2>2, <3>1, <3>2, BelowKept DEF BookInv
  <2> QED
    BY <2>1, <2>2
<1>5. \A i \in 1..Len(replays') : FALSE
  OBVIOUS
<1> QED
  BY <1>2, <1>3, <1>4, <1>5 DEF BookInv

LEMMA BeginKept ==
    ASSUME TypeInv, ChainInv, BookInv, EarlyInv, [Next]_vars, TakeLease \/ LeaseAgain, Begin
    PROVE  BookInv' /\ StreamInv' /\ EarlyInv'
<1>a. /\ resume \in Reach /\ NoCursor \notin Int /\ generations \in Nat
      /\ \A c \in Reach : c # NoCursor => c \in Nat
  BY Facts DEF TypeInv, TypeOK
<1>b. /\ UNCHANGED <<feedVars, storeVars, resume, replays, checks>>
      /\ latest' = resume /\ pending' = {} /\ leased' = TRUE
  BY DEF TakeLease, LeaseAgain, Begin
<1>c. UNCHANGED <<rel, phase, wire, stored, batch>>
  BY <1>b DEF feedVars, storeVars
<1>1. ~leased /\ phase = "off" /\ Promised = NoCursor
  <2>0. Placed(ops, leased, subscribed, forsaken, phase)
    BY DEF ChainInv
  <2>1. CASE TakeLease
    <3>1. ops # <<>> /\ Head(ops).step = 0 /\ ~UnderWay(ops)
      BY <2>1 DEF TakeLease, Running, UnderWay
    <3>2. ~leased
      <4>1. leased => generations' = generations
        BY <2>1 DEF TakeLease
      <4>2. generations' = generations + 1
        BY DEF Begin
      <4> QED
        BY <1>a, <4>1, <4>2
    <3> QED
      BY <2>0, <3>1, <3>2 DEF Placed, Promised
  <2>2. CASE LeaseAgain
    <3>1. ops # <<>> /\ Head(ops).name = "reset" /\ Head(ops).step = 1 /\ UnderWay(ops) /\ phase = "off"
      BY <2>2 DEF LeaseAgain, Running, UnderWay, Stopped
    <3> QED
      BY <2>0, <3>1 DEF Placed, Promised
  <2> QED
    BY <2>1, <2>2
<1>2. wire' = <<>> /\ ~Fresh'
  BY <1>1, <1>c DEF TypeInv, WireInv, Fresh
<1>3. Promised' \in {NoCursor, resume}
  BY <1>1, PromiseMoves
<1>4. Behind' \subseteq Below(resume)
  <2>1. Top' \in {NoCursor, resume}
    BY <1>1, <1>2, <1>3, <1>c DEF Top
  <2> QED
    BY <1>c, <2>1 DEF Behind, Below
<1>5. Served' = {}
  BY ServedMoves
<1>6. Shown' = Shown /\ Below(resume) \subseteq Shown
  BY <1>c DEF Shown, BookInv
<1>7. StreamInv'
  BY <1>2, <1>4, <1>5, <1>6 DEF StreamInv
<1>8. EarlyInv'
  BY <1>5, EarlyKept
<1>9. BookInv'
  <2>1. Below(resume)' = Below(resume) /\ Below(latest)' = Below(resume)
    BY <1>b, <1>c DEF Below
  <2>2. \A i \in 1..Len(replays) : FALSE
    BY <1>1 DEF BookInv
  <2>3. resume' # NoCursor => latest' # NoCursor /\ resume' <= latest'
    BY <1>a, <1>b
  <2> QED
    BY <1>b, <1>6, <2>1, <2>2, <2>3 DEF BookInv
<1> QED
  BY <1>7, <1>8, <1>9

LEMMA SnapshotKept ==
    ASSUME TypeInv, ChainInv, WaitInv, BookInv, StreamInv, EarlyInv, Sound, Sound', [Next]_vars, ReceiveSnapshot
    PROVE  BookInv' /\ StreamInv' /\ EarlyInv'
<1>t. Receive
  BY DEF Receive
<1>a. /\ wire # <<>> /\ UNCHANGED <<rel, last>> /\ ~Fresh'
      /\ \A r \in Behind' : r \in Behind \/ (Head(wire).kind = "event" /\ r = Head(wire).seq)
  BY <1>t, Taken
<1>b. Head(wire).kind = "snapshot" /\ Fresh
  BY DEF ReceiveSnapshot, Fresh
<1>c. PICK s \in 0..last, u \in 0..last : s = Head(wire).seq /\ u = Head(wire).upto /\ s <= u
  BY <1>a, Facts
<1>d. /\ last \in Nat /\ NoCursor \notin Int /\ s \in Reach /\ gone = {} /\ rel \subseteq 1..last
      /\ latest \in Reach /\ pending \subseteq 1..last
      /\ \A c \in Reach : c # NoCursor => c \in Nat
  BY <1>c, Facts DEF Reach, TypeInv, TypeOK
<1>e. \A p \in pending : p <= u
  BY <1>b, <1>c DEF WaitInv
<1>f. \A r \in Behind' : r \in rel /\ r <= s
  <2>1. \A r \in Behind' : r \in Behind
    BY <1>a, <1>b
  <2> QED
    BY <1>b, <1>c, <2>1 DEF StreamInv, Behind, Below
<1>g. UNCHANGED <<replays, checks, leased>>
  BY DEF ReceiveSnapshot, leaseVars
<1>h. ~deleted
  BY DEF Sound
<1> HIDE DEF Reach
<1>1. CASE leased
  <2>1. /\ stored' = Between(0, u) /\ FlushPending(s, s)
        /\ (latest # NoCursor /\ s < latest => Cross)
    BY <1>1, <1>c, <1>h DEF ReceiveSnapshot
  <2> DEFINE E == {e \in pending : e > s}
  <2>2. E \subseteq 1..last /\ Queue(E, s, s) /\ pending' = {}
    BY <1>d, <2>1 DEF FlushPending
  <2>3. E \subseteq pending /\ \A e \in E : e > s
    OBVIOUS
  <2> HIDE DEF E
  <2>4. /\ latest' \in Reach /\ resume' \in Reach /\ batch' = batch \union E
        /\ E = {} => latest' = s /\ resume' = s
        /\ E # {} => latest' \in E /\ resume' = Advanced(s, latest')
    BY <1>d, <2>2, Queued
  <2>5. latest' \in Nat /\ resume' = latest' /\ s <= latest' /\ (latest' = s \/ latest' \in pending) /\ latest' # NoCursor
    <3>1. CASE E = {}
      BY <1>c, <1>d, <2>4, <3>1
    <3>2. CASE E # {}
      <4>1. latest' \in E /\ latest' > s /\ latest' \in 1..last /\ latest' \in pending
        BY <2>2, <2>3, <2>4, <3>2
      <4> QED
        BY <1>c, <1>d, <2>4, <3>2, <4>1 DEF Advanced
    <3> QED
      BY <3>1, <3>2
  <2>6. latest' <= u
    BY <1>c, <1>e, <2>5
  <2>7. \A r \in rel : r <= u => r \in Shown'
    <3>1. \A r \in rel : r \in Nat /\ 0 < r
      BY <1>d
    <3>2. \A r \in rel : r <= u => r \in stored'
      BY <1>d, <2>1, <3>1 DEF Between
    <3> QED
      BY <3>2 DEF Shown
  <2>8. \A r \in rel : r <= latest' => r \in Shown'
    <3>1. \A r \in rel : r \in Nat /\ (r <= latest' => r <= u)
      BY <1>c, <1>d, <2>5, <2>6
    <3> QED
      BY <2>7, <3>1
  <2>9. ASSUME NEW i \in 1..Len(replays) PROVE replays[i] <= latest'
    <3>1. latest # NoCursor /\ replays[i] <= latest /\ replays # <<>>
      BY <2>9 DEF BookInv
    <3>2. ~(s < latest)
      BY <2>1, <3>1, Losses
    <3>3. replays[i] \in Nat
      BY <1>d DEF TypeInv, BoundInv
    <3> QED
      BY <1>c, <1>d, <2>5, <3>1, <3>2, <3>3
  <2>10. BookInv'
    <3>1. Below(latest)' \subseteq Shown' /\ Below(resume)' \subseteq Shown'
      BY <1>a, <2>5, <2>8 DEF Below
    <3>2. resume' <= latest'
      BY <2>5
    <3> QED
      BY <1>1, <1>g, <2>2, <2>5, <2>9, <3>1, <3>2 DEF BookInv
  <2>11. \A r \in Behind' : r \in rel /\ r <= latest'
    <3>1. \A r \in rel : r \in Nat
      BY <1>d
    <3> QED
      BY <1>c, <1>f, <2>5, <3>1
  <2>12. \A r \in Behind' : r \in Credited'
    BY <1>a, <2>5, <2>11 DEF Credited, Below
  <2>13. StreamInv'
    BY <1>a, <2>8, <2>11, <2>12 DEF StreamInv
  <2>14. EarlyInv'
    BY <2>5 DEF EarlyInv
  <2> QED
    BY <2>10, <2>13, <2>14
<1>2. CASE ~leased
  <2>1. latest' = NoCursor /\ pending' = {} /\ resume' = NoCursor /\ Cross
    BY <1>2 DEF ReceiveSnapshot
  <2>2. replays' = <<>> /\ checks' = <<>>
    BY <1>g, <2>1, Losses
  <2>3. Served' = {}
    BY <2>2, ServedMoves
  <2>4. Below(latest)' = {} /\ Below(resume)' = {}
    BY <2>1 DEF Below
  <2>5. \A i \in 1..Len(replays') : FALSE
    BY <2>2
  <2>6. BookInv'
    BY <2>1, <2>4, <2>5 DEF BookInv
  <2>7. StreamInv' /\ EarlyInv'
    BY <1>a, <2>1, <2>3 DEF StreamInv, EarlyInv
  <2> QED
    BY <2>6, <2>7
<1> QED
  BY <1>1, <1>2

LEMMA EarlyEventKept ==
    ASSUME TypeInv, ChainInv, BookInv, StreamInv, EarlyInv, Sound, Sound', [Next]_vars, ReceiveEarlyEvent
    PROVE  BookInv' /\ StreamInv' /\ EarlyInv'
<1>t. Receive
  BY DEF Receive
<1>a. /\ wire # <<>> /\ UNCHANGED <<rel, last>> /\ ~Fresh'
      /\ \A r \in Behind' : r \in Behind \/ (Head(wire).kind = "event" /\ r = Head(wire).seq)
      /\ ~Fresh => \A r \in rel : r < Head(wire).seq => r \in Behind
  BY <1>t, Taken
<1>b. Head(wire).kind = "event" /\ ~Fresh
  BY DEF ReceiveEarlyEvent, Fresh
<1>c. PICK e \in 1..last : e = Head(wire).seq /\ e \in rel
  BY <1>a, <1>b, Facts
<1>d. /\ last \in Nat /\ NoCursor \notin Int /\ rel \subseteq 1..last /\ pending \subseteq 1..last
      /\ Cardinality(pending) <= PendingLimit /\ rel' \subseteq 1..last'
  BY TypeKept, Facts DEF TypeInv, TypeOK, FeedTypeOK
<1>e. /\ latest = NoCursor /\ latest' = NoCursor /\ pending' = Bounded(pending \union {e})
      /\ spilled' = (spilled \/ Spills(pending \union {e}))
      /\ UNCHANGED <<stored, batch, resume, leased, replays>>
  BY <1>c DEF ReceiveEarlyEvent, storeVars, leaseVars
<1>f. Shown' = Shown /\ Below(resume)' = Below(resume) /\ Below(latest)' = {}
  BY <1>a, <1>e DEF Shown, Below
<1>1. BookInv'
  BY <1>e, <1>f DEF BookInv
<1>2. ~Spills(pending \union {e})
  BY <1>e DEF Sound
<1>3. ASSUME NEW k \in Served PROVE pending' = pending \union {e}
  <2>1. Cardinality(pending \union {e}) <= PendingLimit
    <3>1. ~(Cardinality(pending \union {e}) > PendingLimit)
      BY <1>2, <1>3 DEF Spills, Served
    <3>2. PendingLimit \in Nat /\ Cardinality(pending \union {e}) \in Nat
      <4>1. IsFiniteSet(pending \union {e})
        <5>1. pending \union {e} \subseteq 1..last /\ IsFiniteSet(1..last)
          BY <1>d, FS_Interval
        <5> QED
          BY <5>1, FS_Subset
      <4> QED
        BY <4>1, FS_CardinalityType, DetailAssumption DEF DetailAssumption
    <3> QED
      BY <3>1, <3>2
  <2>2. PICK n \in Nat : n = last
    BY <1>d
  <2> QED
    BY <1>d, <1>e, <2>1, <2>2, Kept
<1>4. ASSUME NEW i \in Served', NEW r \in Behind' PROVE r <= checks'[i].upto \/ r \in Credited'
  <2>1. CASE \E k \in Served : checks'[i].upto = checks[k].upto
    <3>1. PICK k \in Served : checks'[i].upto = checks[k].upto
      BY <2>1
    <3>2. r \in Behind => r <= checks[k].upto \/ r \in pending
      BY <1>b, <1>e DEF StreamInv, Credited
    <3>3. r \in Behind \/ r = e
      BY <1>a, <1>c
    <3> QED
      BY <1>3, <1>e, <3>1, <3>2, <3>3 DEF Credited
  <2>2. CASE checks'[i].upto = last'
    <3>1. r \in rel'
      BY <1>4 DEF Behind, Below
    <3>2. last' \in Nat /\ r \in 1..last'
      BY <1>d, <1>a, <3>1
    <3> QED
      BY <2>2, <3>2
  <2> QED
    BY <2>1, <2>2, ServedMoves
<1>5. StreamInv'
  BY <1>4, <1>a, <1>e DEF StreamInv
<1>6. ASSUME NEW i \in Served', NEW p \in pending', NEW r \in rel', r <= p
      PROVE  r <= checks'[i].upto \/ r \in pending'
  <2>1. CASE \E k \in Served : checks'[i].upto = checks[k].upto
    <3>1. PICK k \in Served : checks'[i].upto = checks[k].upto
      BY <2>1
    <3>2. pending' = pending \union {e} /\ r \in rel
      BY <1>3, <1>6, <1>a
    <3>3. CASE p \in pending
      <4>1. r <= checks[k].upto \/ r \in pending
        BY <1>6, <1>e, <3>2, <3>3 DEF EarlyInv
      <4> QED
        BY <3>1, <3>2, <4>1
    <3>4. CASE p = e
      <4>1. r = e \/ r < e
        BY <1>6, <1>c, <1>d, <3>2, <3>4
      <4>2. r < e => r \in Behind
        BY <1>a, <1>b, <1>c, <3>2
      <4>3. r \in Behind => r <= checks[k].upto \/ r \in pending
        BY <1>b, <1>e DEF StreamInv, Credited
      <4> QED
        BY <3>1, <3>2, <4>1, <4>2, <4>3
    <3> QED
      BY <1>6, <3>2, <3>3, <3>4
  <2>2. CASE checks'[i].upto = last'
    BY <1>6, <1>d, <1>a, <2>2
  <2> QED
    BY <2>1, <2>2, ServedMoves
<1>7. EarlyInv'
  BY <1>6 DEF EarlyInv
<1> QED
  BY <1>1, <1>5, <1>7

\* Events that follow the credit are queued, and everything up to the last of them is shown.
LEMMA QueueCovers ==
    ASSUME TypeInv, BookInv, [Next]_vars, UNCHANGED <<rel, last, stored, leased>>,
           latest # NoCursor, pending' = pending, \A i \in 1..Len(replays') : replays'[i] <= latest,
           \A i \in 1..Len(replays') : replays'[i] \in Nat,
           NEW E, E \subseteq rel, \A e \in E : e > latest, Queue(E, latest, resume),
           \A r \in rel : \A e \in E : r <= e => r \in Shown \/ r \in E
    PROVE  /\ BookInv' /\ Shown \subseteq Shown' /\ E \subseteq Shown'
           /\ latest' \in Nat /\ latest' # NoCursor /\ latest <= latest' /\ \A e \in E : e <= latest'
<1>a. /\ last \in Nat /\ NoCursor \notin Int /\ rel \subseteq 1..last
      /\ latest \in Reach /\ resume \in Reach /\ latest \in Nat
      /\ \A c \in Reach : c # NoCursor => c \in Nat
  BY Facts
<1>b. leased /\ (resume # NoCursor => resume \in Nat /\ resume <= latest)
  BY <1>a DEF BookInv
<1> HIDE DEF Reach
<1>1. /\ batch' = batch \union E
      /\ E = {} => latest' = latest /\ resume' = resume
      /\ E # {} => /\ latest' \in E /\ \A e \in E : e <= latest'
                   /\ resume' = Advanced(resume, latest')
  <2>1. E \subseteq 1..last
    BY <1>a
  <2> QED
    BY <1>a, <2>1, Queued
<1>2. Shown \subseteq Shown' /\ E \subseteq Shown'
  BY <1>1 DEF Shown
<1>3. Below(latest) \subseteq Shown /\ Below(resume) \subseteq Shown /\ pending = {}
  BY DEF BookInv
<1>4. CASE E = {}
  <2>1. latest' = latest /\ resume' = resume
    BY <1>1, <1>4
  <2>2. Below(latest)' = Below(latest) /\ Below(resume)' = Below(resume)
    BY <2>1 DEF Below
  <2>3. BookInv'
    BY <1>2, <1>3, <2>1, <2>2 DEF BookInv
  <2> QED
    BY <1>a, <1>2, <1>4, <2>1, <2>3
<1>5. CASE E # {}
  <2>0. latest' \in E /\ \A e \in E : e <= latest'
    BY <1>1, <1>5
  <2>1. latest' \in rel /\ latest' \in Nat /\ latest' > latest
    <3>1. \A e \in E : e \in rel /\ e > latest
      OBVIOUS
    <3>2. \A e \in rel : e \in Nat
      BY <1>a
    <3> QED
      BY <2>0, <3>1, <3>2
  <2>2. resume' = latest'
    <3>1. resume = NoCursor \/ latest' > resume
      BY <1>a, <1>b, <2>1
    <3> QED
      BY <1>1, <1>5, <3>1 DEF Advanced
  <2>3. Below(latest)' \subseteq Shown' /\ Below(resume)' \subseteq Shown'
    <3>1. \A r \in rel : r <= latest' => r \in Shown'
      BY <1>2, <2>0
    <3> QED
      BY <2>2, <3>1 DEF Below
  <2>4. \A i \in 1..Len(replays') : replays'[i] <= latest'
    BY <1>a, <2>1
  <2>5. latest' # NoCursor /\ resume' <= latest' /\ latest <= latest'
    BY <1>a, <2>1, <2>2
  <2>6. BookInv'
    BY <1>b, <1>3, <2>3, <2>4, <2>5 DEF BookInv
  <2> QED
    BY <1>2, <2>0, <2>1, <2>5, <2>6
<1> QED
  BY <1>4, <1>5

LEMMA EventKept ==
    ASSUME TypeInv, ChainInv, BookInv, StreamInv, [Next]_vars, ReceiveEvent
    PROVE  BookInv' /\ StreamInv' /\ EarlyInv'
<1>t. Receive
  BY DEF Receive
<1>a. /\ wire # <<>> /\ UNCHANGED <<rel, last>> /\ ~Fresh'
      /\ \A r \in Behind' : r \in Behind \/ (Head(wire).kind = "event" /\ r = Head(wire).seq)
      /\ ~Fresh => \A r \in rel : r < Head(wire).seq => r \in Behind
  BY <1>t, Taken
<1>b. Head(wire).kind = "event" /\ ~Fresh
  BY DEF ReceiveEvent, Fresh
<1>c. PICK e \in 1..last : e = Head(wire).seq /\ e \in rel
  BY <1>a, <1>b, Facts
<1>d. /\ last \in Nat /\ rel \subseteq 1..last /\ NoCursor \notin Int
      /\ latest \in Reach /\ \A c \in Reach : c # NoCursor => c \in Nat
  BY Facts
<1>e. /\ latest # NoCursor /\ Queue({e} \ 0..latest, latest, resume)
      /\ UNCHANGED <<stored, leased, pending, replays, checks, generation>>
  BY <1>c DEF ReceiveEvent, callVars, leaseVars
<1>r. \A i \in 1..Len(replays) : replays[i] \in Nat
  BY <1>d DEF TypeInv, BoundInv
<1> DEFINE E == {e} \ 0..latest
<1>1. /\ E \subseteq rel /\ E \subseteq {e} /\ \A x \in E : x > latest
      /\ (e \in E \/ e <= latest)
  BY <1>c, <1>d, <1>e
<1>2. \A r \in Behind : r \in Shown
  BY <1>b, <1>e DEF StreamInv
<1> HIDE DEF E
<1>3. \A r \in rel : \A x \in E : r <= x => r \in Shown \/ r \in E
  <2>1. ASSUME NEW r \in rel, NEW x \in E, r <= x PROVE r \in Shown \/ r \in E
    <3>1. x = e /\ (r = e \/ r < e)
      BY <1>1, <1>c, <1>d, <2>1
    <3>2. r < e => r \in Behind
      BY <1>a, <1>b, <1>c
    <3> QED
      BY <1>2, <2>1, <3>1, <3>2
  <2> QED
    BY <2>1
<1>4. /\ BookInv' /\ Shown \subseteq Shown' /\ E \subseteq Shown'
      /\ latest' \in Nat /\ latest' # NoCursor /\ latest <= latest' /\ \A x \in E : x <= latest'
  <2>1. Queue(E, latest, resume)
    BY <1>e DEF E
  <2>2. \A i \in 1..Len(replays') : replays'[i] <= latest
    BY <1>e DEF BookInv
  <2> QED
    BY <1>a, <1>e, <1>r, <1>1, <1>3, <2>1, <2>2, QueueCovers
<1>5. ASSUME NEW r \in Behind' PROVE r \in rel' /\ r \in Shown'
  <2>1. r \in rel
    BY <1>a, <1>5 DEF Behind, Below
  <2>2. e <= latest => e \in Shown
    BY <1>c, <1>e DEF BookInv, Below
  <2>3. e \in Shown'
    BY <1>1, <1>4, <2>2
  <2> QED
    BY <1>a, <1>c, <1>2, <1>4, <2>1, <2>3
<1>6. \A r \in Below(latest) : r \in Credited'
  <2>1. \A r \in Below(latest) : r \in rel /\ r \in Nat /\ r <= latest /\ latest \in Nat
    BY <1>d DEF Below
  <2> QED
    BY <1>a, <1>4, <2>1 DEF Credited, Below
<1>7. e \in Credited'
  <2>1. e <= latest'
    BY <1>1, <1>4, <1>c, <1>d, <1>e
  <2> QED
    BY <1>a, <1>c, <1>4, <2>1 DEF Credited, Below
<1>8. ASSUME NEW i \in Served', NEW r \in Behind' PROVE r <= checks'[i].upto \/ r \in Credited'
  <2>1. i \in Served /\ checks' = checks
    BY <1>8, <1>e DEF Served
  <2>2. r \in Behind => r <= checks[i].upto \/ r \in Below(latest)
    BY <1>b, <1>e, <2>1 DEF StreamInv, Credited
  <2>3. r \in Behind \/ r = e
    BY <1>a, <1>c, <1>8
  <2> QED
    BY <1>6, <1>7, <2>1, <2>2, <2>3
<1>9. StreamInv'
  BY <1>a, <1>5, <1>8 DEF StreamInv
<1>10. EarlyInv'
  BY <1>4 DEF EarlyInv
<1> QED
  BY <1>4, <1>9, <1>10

LEMMA ReplayKept ==
    ASSUME TypeInv, ChainInv, BookInv, StreamInv, [Next]_vars,
           NEW i \in 1..Len(replays), NEW t \in 0..last, ReplayReturns(i, t)
    PROVE  BookInv' /\ StreamInv' /\ EarlyInv'
<1>d. /\ last \in Nat /\ rel \subseteq 1..last /\ gone = {} /\ NoCursor \notin Int
      /\ latest \in Reach /\ \A c \in Reach : c # NoCursor => c \in Nat
      /\ replays \in Seq(0..last)
  BY Facts DEF TypeInv, BoundInv
<1>a. /\ latest # NoCursor /\ latest \in Nat /\ replays[i] <= latest /\ replays[i] \in Nat
  BY <1>d DEF BookInv
<1>b. ReplayStart(replays[i]) = latest
  BY <1>a DEF ReplayStart
<1>c. /\ Queue(Between(latest, t), latest, resume) /\ replays' = RemoveAt(replays, i)
      /\ UNCHANGED <<feedVars, stored, pending, leased, generations, generation, checks>>
  BY <1>b DEF ReplayReturns, leaseVars
<1>e. UNCHANGED <<rel, last>>
  BY <1>c DEF feedVars
<1>r. \A j \in 1..Len(replays') : replays'[j] \in Nat /\ replays'[j] <= latest
  <2>1. ASSUME NEW j \in 1..Len(replays') PROVE replays'[j] \in Nat /\ replays'[j] <= latest
    <3>1. PICK k \in 1..Len(replays) : replays'[j] = replays[k]
      <4>1. replays \in Seq(0..last) /\ replays' = RemoveAt(replays, i)
        BY <1>c, <1>d
      <4> QED
        BY <2>1, <4>1, Removed
    <3>2. replays[k] <= latest
      BY DEF BookInv
    <3> QED
      BY <1>d, <3>1, <3>2
  <2> QED
    BY <2>1
<1> DEFINE E == Between(latest, t)
<1>1. E \subseteq rel /\ \A e \in E : e > latest
  BY <1>d DEF Between
<1>2. \A r \in rel : \A e \in E : r <= e => r \in Shown \/ r \in E
  <2>1. ASSUME NEW r \in rel, NEW e \in E, r <= e PROVE r \in Shown \/ r \in E
    <3>1. e <= t /\ e \in Nat /\ r \in Nat /\ t \in Nat
      BY <1>d DEF Between
    <3>2. CASE r <= latest
      BY <1>a, <3>2 DEF BookInv, Below
    <3>3. CASE latest < r
      BY <1>d, <2>1, <3>1, <3>3 DEF Between
    <3> QED
      BY <1>a, <3>1, <3>2, <3>3
  <2> QED
    BY <2>1
<1> HIDE DEF E
<1>3. /\ BookInv' /\ Shown \subseteq Shown'
      /\ latest' \in Nat /\ latest' # NoCursor /\ latest <= latest'
  <2>1. Queue(E, latest, resume)
    BY <1>c DEF E
  <2> QED
    BY <1>a, <1>c, <1>e, <1>r, <1>1, <1>2, <2>1, QueueCovers
<1>4. Credited \subseteq Credited'
  <2>1. \A r \in rel : r \in Nat
    BY <1>d
  <2> QED
    BY <1>a, <1>e, <1>3, <2>1 DEF Credited, Below
<1>5. ~Receive
  <2>1. wire' = wire
    BY <1>c DEF feedVars
  <2>2. Receive => wire # <<>> /\ wire' = Tail(wire)
    BY DEF Receive, ReceiveSnapshot, ReceiveEarlyEvent, ReceiveEvent, FeedReceive
  <2>3. wire \in Seq(Items)
    BY Facts
  <2> QED
    BY <2>1, <2>2, <2>3, Shorter
<1>6. StreamInv'
  BY <1>a, <1>c, <1>3, <1>4, <1>5, StreamKept
<1>7. EarlyInv'
  BY <1>3 DEF EarlyInv
<1> QED
  BY <1>3, <1>6, <1>7

LEMMA CheckKept ==
    ASSUME TypeInv, ChainInv, BookInv, StreamInv, EarlyInv, ~deleted, [Next]_vars,
           NEW i \in 1..Len(checks), NEW s \in 0..last, CheckApplies(i, s)
    PROVE  BookInv' /\ StreamInv' /\ EarlyInv'
<1>d. /\ last \in Nat /\ rel \subseteq 1..last /\ gone = {} /\ NoCursor \notin Int
      /\ latest \in Reach /\ resume \in Reach /\ s \in Reach /\ s \in Nat /\ \A c \in Reach : c # NoCursor => c \in Nat
      /\ pending \subseteq 1..last
  <2>1. last \in Nat /\ s \in Nat /\ s \in Reach
    BY Facts DEF Reach
  <2>2. pending \subseteq 1..last
    BY DEF TypeInv, TypeOK
  <2> HIDE DEF Reach
  <2> QED
    BY <2>1, <2>2, Facts
<1> HIDE DEF Reach
<1>a. /\ checks' = RemoveAt(checks, i) /\ UNCHANGED <<feedVars, replays, generation, generations, leased>>
      /\ checks[i].upto # NoCursor /\ s <= checks[i].upto
      /\ checks[i].generation = generation /\ (latest # NoCursor => s >= latest)
      /\ stored' = Between(0, checks[i].upto)
      /\ FlushPending(Advanced(latest, s), Advanced(resume, s))
  BY DEF CheckApplies, CheckAnswered, Applicable, leaseVars
<1>b. i \in Served
  BY <1>a DEF Served
<1>c. /\ checks \in Seq(Calls(generations, last)) /\ checks[i].upto \in Nat /\ generation # 0 /\ leased
  <2>1. checks \in Seq(Calls(generations, last)) /\ (leased <=> generation # 0)
    BY DEF TypeInv, TypeOK, Calls
  <2>2. checks[i] \in Calls(generations, last)
    BY <2>1
  <2>3. checks[i].generation # 0 /\ checks[i].upto \in Nat
    BY <1>a, <1>d, <2>2 DEF Calls
  <2> QED
    BY <1>a, <2>1, <2>3
<1>u. PICK u \in Nat : u = checks[i].upto /\ s <= u
  BY <1>a, <1>c
<1>e. UNCHANGED <<rel, last, phase, wire>>
  BY <1>a DEF feedVars
<1>1. Advanced(latest, s) = s
  BY <1>a, <1>d DEF Advanced
<1>2. Advanced(resume, s) = s
  <2>1. resume # NoCursor => resume \in Nat /\ resume <= s
    <3>1. ASSUME resume # NoCursor PROVE resume \in Nat /\ resume <= s
      <4>1. latest # NoCursor /\ resume <= latest
        BY <1>c, <3>1 DEF BookInv
      <4>2. resume \in Nat /\ latest \in Nat /\ latest <= s
        BY <1>a, <1>d, <3>1, <4>1
      <4> QED
        BY <1>d, <4>1, <4>2
    <3> QED
      BY <3>1
  <2>2. CASE resume = NoCursor
    BY <2>2 DEF Advanced
  <2>3. CASE resume # NoCursor
    BY <1>d, <2>1, <2>3 DEF Advanced
  <2> QED
    BY <2>2, <2>3
<1> DEFINE E == {e \in pending : e > s}
<1>3. E \subseteq 1..last /\ E \subseteq pending /\ Queue(E, s, s) /\ pending' = {} /\ \A e \in E : e > s
  BY <1>a, <1>d, <1>1, <1>2 DEF FlushPending
<1>i. \A p \in pending : p \in E \/ p <= s
  BY <1>d
<1> HIDE DEF E
<1>4. /\ batch' = batch \union E
      /\ E = {} => latest' = s /\ resume' = s
      /\ E # {} => latest' \in E /\ (\A e \in E : e <= latest') /\ resume' = Advanced(s, latest')
  BY <1>d, <1>3, Queued
<1>5. /\ latest' \in Nat /\ resume' = latest' /\ s <= latest' /\ latest' # NoCursor
      /\ latest' = s \/ latest' \in E
      /\ \A e \in E : e <= latest'
  <2>1. CASE E = {}
    BY <1>d, <1>4, <2>1
  <2>2. CASE E # {}
    <3>1. latest' \in E /\ latest' > s /\ latest' \in 1..last
      BY <1>3, <1>4, <2>2
    <3> QED
      BY <1>d, <1>4, <2>2, <3>1 DEF Advanced
  <2> QED
    BY <2>1, <2>2
<1>6. E \subseteq Shown' /\ \A r \in rel : r <= u => r \in Shown'
  <2>1. \A r \in rel : r \in Nat /\ 0 < r
    BY <1>d
  <2>2. stored' = {r \in rel : 0 < r /\ r <= u}
    BY <1>a, <1>d, <1>u DEF Between
  <2> QED
    BY <1>4, <2>1, <2>2 DEF Shown
<1>7. \A r \in pending : r \in Shown' \/ r \notin rel
  <2>1. ASSUME NEW r \in pending, r \in rel, r <= s PROVE r <= u
    BY <1>d, <1>u, <2>1
  <2> QED
    BY <1>i, <1>6, <2>1
<1>8. latest # NoCursor => latest <= s /\ pending = {}
  BY <1>a, <1>d DEF BookInv
<1>9. ASSUME NEW r \in rel, r <= latest' PROVE r \in Shown'
  <2>1. CASE r <= u
    BY <1>6, <2>1
  <2>2. CASE ~(r <= u)
    <3>1. latest' \in pending /\ latest = NoCursor
      <4>1. r \in Nat /\ latest' # s
        BY <1>5, <1>9, <1>u, <1>d, <2>2
      <4> QED
        BY <1>3, <1>5, <1>8, <4>1
    <3>2. r \in pending
      BY <1>9, <1>b, <1>u, <2>2, <3>1 DEF EarlyInv
    <3> QED
      BY <1>7, <1>9, <3>2
  <2> QED
    BY <2>1, <2>2
<1>10. BookInv'
  <2>1. Below(latest)' \subseteq Shown' /\ Below(resume)' \subseteq Shown'
    BY <1>e, <1>5, <1>9 DEF Below
  <2>2. \A j \in 1..Len(replays) : replays[j] <= latest'
    <3>1. ASSUME NEW j \in 1..Len(replays) PROVE replays[j] <= latest'
      <4>1. latest # NoCursor /\ replays[j] <= latest /\ latest <= s
        BY <1>8 DEF BookInv
      <4>2. replays[j] \in Nat /\ latest \in Nat
        BY <1>d, <4>1 DEF TypeInv, BoundInv
      <4> QED
        BY <1>5, <1>d, <4>1, <4>2
    <3> QED
      BY <3>1
  <2>3. resume' <= latest'
    BY <1>5
  <2> QED
    BY <1>a, <1>c, <1>3, <1>5, <2>1, <2>2, <2>3 DEF BookInv
<1>11. Fresh' = Fresh /\ Head(wire') = Head(wire) /\ Behind' = Behind
  <2>1. UNCHANGED feedVars /\ UNCHANGED ops
    BY <1>a DEF CheckApplies, CheckAnswered
  <2>2. Top' = Top
    BY <2>1 DEF feedVars, Top, Promised
  <2> QED
    BY <1>e, <2>2 DEF Fresh, Behind, Below, InWire
<1>12. \A r \in rel : r <= s => r \in Credited'
  BY <1>e, <1>5, <1>d DEF Credited, Below
<1>13. \A r \in Credited : r \in rel => r \in Credited' /\ r \in Shown'
  <2>1. ASSUME NEW r \in Credited, r \in rel PROVE r \in Credited' /\ r \in Shown'
    <3>1. CASE latest = NoCursor
      <4>1. r \in pending
        BY <2>1, <3>1 DEF Credited
      <4>2. r \in E => r <= latest'
        BY <1>5
      <4> QED
        BY <1>e, <1>i, <1>5, <1>7, <1>12, <2>1, <4>1, <4>2 DEF Credited, Below
    <3>2. CASE latest # NoCursor
      <4>1. r <= latest /\ latest <= s /\ r \in Nat /\ latest \in Nat
        BY <1>8, <1>d, <2>1, <3>2 DEF Credited, Below
      <4>2. r <= s /\ r <= u
        BY <1>d, <1>u, <4>1
      <4> QED
        BY <1>6, <1>12, <2>1, <4>2
    <3> QED
      BY <3>1, <3>2
  <2> QED
    BY <2>1
<1>14. ASSUME ~Fresh, NEW r \in Behind PROVE r \in Shown'
  <2>1. r \in rel /\ (r <= u \/ r \in Credited)
    BY <1>14, <1>b, <1>u DEF StreamInv, Behind, Below
  <2> QED
    BY <1>6, <1>13, <2>1
<1>15. ASSUME ~Fresh, NEW j \in Served', NEW r \in Behind PROVE r <= checks'[j].upto \/ r \in Credited'
  <2>1. r \in rel
    BY <1>15 DEF Behind, Below
  <2>2. CASE \E k \in Served : checks'[j].upto = checks[k].upto
    <3>1. PICK k \in Served : checks'[j].upto = checks[k].upto
      BY <2>2
    <3>2. r <= checks[k].upto \/ r \in Credited
      BY <1>15 DEF StreamInv
    <3> QED
      BY <1>13, <2>1, <3>1, <3>2
  <2>3. CASE checks'[j].upto = last'
    BY <1>d, <1>e, <2>1, <2>3
  <2> QED
    BY <2>2, <2>3, ServedMoves
<1>16. StreamInv'
  BY <1>5, <1>11, <1>14, <1>15 DEF StreamInv
<1>17. EarlyInv'
  BY <1>5 DEF EarlyInv
<1> QED
  BY <1>10, <1>16, <1>17

\* A step that loses nothing that a cursor, a credit or a call stands on.
Quiet ==
    /\ generations' = generations
    /\ UNCHANGED <<latest, pending, leased>>
    /\ resume' \in {resume, NoCursor}
    /\ Shown \subseteq Shown'
    /\ replays' = replays \/ (latest # NoCursor /\ replays' = Append(replays, latest))

\* A step that loses detail, cursor or credit, while no call is out.
Loss ==
    /\ generations' = generations
    /\ checks' = <<>> /\ replays' = <<>> /\ latest' = NoCursor
    /\ \/ resume' = NoCursor
       \/ resume' = resume /\ Shown \subseteq Shown' /\ ~leased'

LEMMA QuietSteps ==
    ASSUME ~deleted, [Next]_vars, ~Receive
    PROVE  \/ Quiet
           \/ Begin /\ (TakeLease \/ LeaseAgain)
           \/ \E i \in 1..Len(replays), t \in 0..last : ReplayReturns(i, t)
           \/ \E i \in 1..Len(checks), s \in 0..last : CheckApplies(i, s)
           \/ Evict \/ Delete \/ StreamFails \/ (DropLease /\ leased) \/ Reset
<1>1. CASE JournalGrows \/ StreamAnswers \/ StreamBreaks \/ TransportRestarts \/ StreamStops
  BY <1>1 DEF JournalGrows, StreamAnswers, StreamBreaks, TransportRestarts, StreamStops,
              storeVars, bookVars, callVars, leaseVars, Quiet, Shown
<1>2. CASE Flush
  BY <1>2 DEF Flush, bookVars, callVars, leaseVars, Quiet, Shown
<1>3. CASE StartReplay \/ PollProjection \/ Hold \/ WantLease \/ WantDrop \/ Reconnect
  BY <1>3 DEF StartReplay, PollProjection, Hold, WantLease, WantDrop, Reconnect,
              storeVars, bookVars, callVars, leaseVars, Quiet, Shown
<1>4. CASE \E i \in 1..Len(checks) : ServeCheck(i) \/ CheckIgnored(i)
  BY <1>4 DEF ServeCheck, CheckIgnored, CheckAnswered, storeVars, bookVars, leaseVars, Quiet, Shown
<1>5. CASE DropEnds \/ SubscribeThread \/ StopForRefresh \/ ForgetCursor \/ SubscribeForRefresh \/ RefreshWithoutLease
  BY <1>5 DEF DropEnds, SubscribeThread, StopForRefresh, ForgetCursor, SubscribeForRefresh,
              RefreshWithoutLease, storeVars, bookVars, callVars, leaseVars, Quiet, Shown
<1>6. CASE TakeLease \/ LeaseAgain
  BY <1>6 DEF TakeLease, LeaseAgain, storeVars, Quiet, Shown
<1>7. CASE DropLease /\ ~leased
  BY <1>7 DEF DropLease, bookVars, Quiet, Shown
<1>8. CASE UNCHANGED vars
  BY <1>8 DEF vars, storeVars, bookVars, callVars, leaseVars, Quiet, Shown
<1> QED
  BY <1>1, <1>2, <1>3, <1>4, <1>5, <1>6, <1>7, <1>8 DEF Next, Outside, Chain, Answer

LEMMA LossSteps ==
    ASSUME TypeInv, BookInv, [Next]_vars, Sound',
           Evict \/ StreamFails \/ (DropLease /\ leased) \/ Reset
    PROVE  Loss
<1>a. Cross => replays = <<>> /\ checks = <<>>
  BY Losses
<1>1. CASE Evict
  <2>1. /\ Cross /\ resume' = NoCursor /\ UNCHANGED <<generations, checks, replays>>
        /\ (latest' = NoCursor \/ (~leased /\ latest' = latest))
    BY <1>1 DEF Evict, Wipe
  <2>2. latest' = NoCursor
    BY <2>1 DEF BookInv
  <2> QED
    BY <1>a, <2>1, <2>2 DEF Loss
<1>2. CASE StreamFails
  BY <1>a, <1>2 DEF StreamFails, Loss
<1>3. CASE DropLease /\ leased
  <2>1. /\ Cross /\ latest' = NoCursor /\ leased' = FALSE /\ FreeOrphan(held)
        /\ UNCHANGED <<generations, checks, replays, batch>>
    BY <1>3 DEF DropLease, Release
  <2>2. resume' = NoCursor \/ (resume' = resume /\ Shown \subseteq Shown')
    BY <2>1 DEF FreeOrphan, Wipe, Shown
  <2> QED
    BY <1>a, <2>1, <2>2 DEF Loss
<1>4. CASE Reset
  <2>1. /\ Cross /\ latest' = NoCursor /\ leased' = FALSE /\ FreeOrphan(~leased \/ held \/ wanted)
        /\ UNCHANGED <<generations, checks, replays, batch>>
    BY <1>4 DEF Reset, Release
  <2>2. resume' = NoCursor \/ (resume' = resume /\ Shown \subseteq Shown')
    BY <2>1 DEF FreeOrphan, Wipe, Shown
  <2> QED
    BY <1>a, <2>1, <2>2 DEF Loss
<1> QED
  BY <1>1, <1>2, <1>3, <1>4

LEMMA CoherenceKept ==
    ASSUME TypeInv, ChainInv, CoherenceInv, [Next]_vars
    PROVE  CoherenceInv'
<1>1. WaitInv'
  BY WaitKept DEF CoherenceInv
<1>2. ASSUME Sound' PROVE BookInv' /\ StreamInv' /\ EarlyInv'
  <2>a. Sound /\ ~deleted /\ ~deleted'
    BY <1>2, Losses DEF Sound
  <2>b. WaitInv /\ BookInv /\ StreamInv /\ EarlyInv
    BY <2>a DEF CoherenceInv
  <2>1. CASE Receive
    <3>1. CASE ReceiveSnapshot
      BY <1>2, <2>a, <2>b, <3>1, SnapshotKept
    <3>2. CASE ReceiveEarlyEvent
      BY <1>2, <2>a, <2>b, <3>2, EarlyEventKept
    <3>3. CASE ReceiveEvent
      BY <2>b, <3>3, EventKept
    <3> QED
      BY <2>1, <3>1, <3>2, <3>3 DEF Receive
  <2>2. CASE ~Receive /\ Quiet
    <3>1. \A i \in 1..Len(replays') : latest # NoCursor /\ replays'[i] <= latest
      <4>1. \A i \in 1..Len(replays) : latest # NoCursor /\ replays[i] <= latest
        BY <2>b DEF BookInv
      <4>2. CASE replays' = replays
        BY <4>1, <4>2
      <4>3. CASE latest # NoCursor /\ replays' = Append(replays, latest)
        <5>1. replays \in Seq(0..last) /\ latest \in Reach /\ last \in Nat
          BY Facts DEF TypeInv, BoundInv
        <5>2. latest \in 0..last
          BY <4>3, <5>1 DEF Reach
        <5>3. \A i \in 1..Len(replays') : replays'[i] = latest \/ (i \in 1..Len(replays) /\ replays'[i] = replays[i])
          BY <4>3, <5>1, <5>2
        <5>4. latest <= latest
          BY <5>1, <5>2
        <5> QED
          BY <4>1, <4>3, <5>3, <5>4
      <4> QED
        BY <2>2, <4>2, <4>3 DEF Quiet
    <3> QED
      BY <2>b, <2>2, <3>1, QuietKept DEF Quiet
  <2>3. CASE ~Receive /\ Begin /\ (TakeLease \/ LeaseAgain)
    BY <2>b, <2>3, BeginKept
  <2>4. CASE \E i \in 1..Len(replays), t \in 0..last : ReplayReturns(i, t)
    BY <2>b, <2>4, ReplayKept
  <2>5. CASE \E i \in 1..Len(checks), s \in 0..last : CheckApplies(i, s)
    BY <2>a, <2>b, <2>5, CheckKept
  <2>6. CASE ~Receive /\ (Evict \/ StreamFails \/ (DropLease /\ leased) \/ Reset)
    <3>1. Loss
      BY <1>2, <2>b, <2>6, LossSteps
    <3> QED
      BY <2>b, <2>6, <3>1, LostKept DEF Loss
  <2>7. ~Delete
    BY <2>a DEF Delete
  <2> QED
    BY <2>a, <2>1, <2>2, <2>3, <2>4, <2>5, <2>6, <2>7, QuietSteps
<1> QED
  BY <1>1, <1>2 DEF CoherenceInv

LEMMA CoherenceInit == Init => CoherenceInv
<1> SUFFICES ASSUME Init PROVE CoherenceInv
  OBVIOUS
<1>1. WaitInv
  BY DEF Init, FeedInit, WaitInv, Fresh
<1>2. \A r : r \notin Below(latest) /\ r \notin Below(resume)
  BY DEF Init, Below
<1>3. BookInv
  BY <1>2 DEF Init, BookInv
<1>4. Served = {} /\ Behind = {} /\ ~Fresh
  BY DEF Init, FeedInit, Served, Behind, Below, Fresh
<1>5. StreamInv /\ EarlyInv
  BY <1>4 DEF StreamInv, EarlyInv
<1> QED
  BY <1>1, <1>3, <1>5 DEF CoherenceInv

LEMMA Coherent == Spec => [](TypeInv /\ CoherenceInv)
<1>1. TypeInv /\ ChainInv /\ CoherenceInv /\ [Next]_vars => CoherenceInv'
  BY CoherenceKept
<1>2. Init => CoherenceInv
  BY CoherenceInit
<1>3. Spec => []TypeInv
  BY TypeHolds
<1>4. TypeInv /\ ChainInv /\ [Next]_vars => ChainInv'
  BY ChainKept
<1>5. Init => ChainInv
  BY ChainInit
<1> QED
  BY <1>1, <1>2, <1>3, <1>4, <1>5, PTL DEF Spec

LEMMA Covered ==
    ASSUME TypeInv, CoherenceInv, NEW c \in {resume, latest}
    PROVE  crossed \/ spilled \/ deleted \/ Covers(c)
<1> SUFFICES ASSUME Sound PROVE Covers(c)
  BY DEF Sound
<1>1. Below(c) \subseteq Shown
  BY DEF CoherenceInv, BookInv
<1> QED
  BY <1>1 DEF Covers, Between, Below

(* The resume cursor never claims more than the cached detail shows, in every
   behaviour of the client: whatever streams break, leases come and go, evictions,
   resets and answers out of order do (threadDetailResumeCursors.ts:8-15). *)
THEOREM CursorCoherent == Spec => []CursorCoherentUnlessCrossed
<1>1. TypeInv /\ CoherenceInv => CursorCoherentUnlessCrossed
  BY Covered DEF CursorCoherentUnlessCrossed
<1> QED
  BY <1>1, Coherent, PTL

(* The credit by which the router drops an event on sight never covers an event
   the detail lacks (onThreadEvent in apps/web/src/routes/__root.tsx). *)
THEOREM CreditCoherent == Spec => []CreditCoherentUnlessCrossed
<1>1. TypeInv /\ CoherenceInv => CreditCoherentUnlessCrossed
  BY Covered DEF CreditCoherentUnlessCrossed
<1> QED
  BY <1>1, Coherent, PTL
=============================================================================
