-------------------------- MODULE EngineFeedProofs --------------------------
(***************************************************************************)
(* Theorems about what the orchestration engine shows of its log: the live *)
(* feed and the read model commands are decided on.  Both follow the log   *)
(* through deadlines, defects, refreshes and crashes; what the worker has  *)
(* yet to publish or to fold starts behind the sequence it read when it    *)
(* took its command.  One fault undoes this: the re-read of the log on the *)
(* error path fails.  The theorems say so (ReadsWork).                     *)
(***************************************************************************)
EXTENDS OrchestrationEngineProofs

FaultsInv == \A f \in Faults : faults[f] <= Budget[f]

\* The log could be re-read on every error path so far.
ReadsWork == faults["reconcile"] = Budget["reconcile"]

\* A feed f since sequence b has everything up to m; it has it in order.
Covered(f, b, m) == \A s \in (b + 1)..m : \E i \in 1..Len(f) : f[i] = s
NoGap(f, b) ==
    \A i \in 1..Len(f) : \A s \in (b + 1)..(f[i] - 1) : \E j \in 1..(i - 1) : f[j] = s

\* How far the feed is at each step of the worker.
PlaceInv ==
    /\ pc \notin {"assign", "project", "publish", "reconcile"} =>
        Covered(feed, bootSeq, Len(log))
    /\ pc \in {"assign", "project", "publish", "reply"} =>
        start < first /\ Covered(feed, bootSeq, first - 1)
    /\ pc = "publish" => Covered(feed, bootSeq, next - 1)
    /\ pc = "reconcile" => Covered(feed, bootSeq, start)

FeedInv == NoGap(feed, bootSeq) /\ AcceptedIsPublished /\ PlaceInv

\* How far the read model is.
ModelInv ==
    /\ pc = "assign" => 1..(first - 1) \subseteq model
    /\ pc = "reconcile" => 1..start \subseteq model
    /\ pc \notin {"assign", "reconcile"} => model = Seqs

ShownInv == ReadsWork => FeedInv /\ ModelInv

-----------------------------------------------------------------------------
(* Sequences published one run after the other. *)

\* A feed that covers what is before a run covers the run once it is published.
LEMMA RunAppended ==
    ASSUME NEW f \in Seq(Nat), NEW b \in Nat, NEW lo \in Nat, NEW hi \in Nat,
           lo >= 1, lo <= hi + 1, Covered(f, b, lo - 1), NoGap(f, b)
    PROVE  LET g == f \o [i \in 1..(hi - lo + 1) |-> lo + i - 1]
           IN  /\ g \in Seq(Nat) /\ Len(f) <= Len(g)
               /\ \A i \in 1..Len(f) : g[i] = f[i]
               /\ NoGap(g, b) /\ Covered(g, b, hi)
<1> DEFINE r == [i \in 1..(hi - lo + 1) |-> lo + i - 1]
           g == f \o r
           n == Len(f)
           m == hi - lo + 1
<1>1. n \in Nat /\ m \in Nat
  OBVIOUS
<1>2. r \in [1..m -> Nat]
  OBVIOUS
<1>3. r \in Seq(Nat) /\ Len(r) = m
  BY <1>1, <1>2
<1>4. /\ g \in Seq(Nat) /\ Len(g) = n + m
      /\ \A i \in 1..n : g[i] = f[i]
      /\ \A i \in 1..m : g[n + i] = lo + i - 1
  <2>1. g \in Seq(Nat) /\ Len(g) = n + m
        /\ \A i \in 1..(n + m) : g[i] = IF i <= n THEN f[i] ELSE r[i - n]
    BY <1>3, ConcatProperties
  <2>2. \A i \in 1..m : n + i \in 1..(n + m) /\ ~(n + i <= n) /\ (n + i) - n = i
    BY <1>1
  <2>3. \A i \in 1..n : i \in 1..(n + m) /\ i <= n
    BY <1>1
  <2> QED
    BY <2>1, <2>2, <2>3
<1> HIDE DEF g, r
<1>5. /\ \A k \in 1..m : n + k \in 1..Len(g)
      /\ \A i \in 1..n : i \in 1..Len(g)
  BY <1>1, <1>4
<1> HIDE DEF n, m
<1>6. Covered(g, b, hi)
  <2> SUFFICES ASSUME NEW s \in (b + 1)..hi
               PROVE  \E i \in 1..Len(g) : g[i] = s
    BY DEF Covered
  <2>1. CASE s <= lo - 1
    <3>1. PICK i \in 1..n : f[i] = s
      BY <2>1 DEF Covered, n
    <3> QED
      BY <1>4, <1>5, <3>1
  <2>2. CASE s > lo - 1
    <3>1. s - lo + 1 \in 1..m /\ lo + (s - lo + 1) - 1 = s
      BY <2>2 DEF m
    <3> QED
      BY <1>4, <1>5, <3>1
  <2> QED
    BY <2>1, <2>2
<1>7. NoGap(g, b)
  <2> SUFFICES ASSUME NEW i \in 1..Len(g), NEW s \in (b + 1)..(g[i] - 1)
               PROVE  \E j \in 1..(i - 1) : g[j] = s
    BY DEF NoGap
  <2>1. CASE i <= n
    <3>1. i \in 1..n /\ g[i] = f[i]
      BY <1>1, <1>4, <2>1
    <3>2. PICK j \in 1..(i - 1) : f[j] = s
      BY <3>1 DEF NoGap, n
    <3>3. j \in 1..n
      BY <1>1, <3>1, <3>2
    <3> QED
      BY <1>4, <3>2, <3>3
  <2>2. CASE i > n
    <3> DEFINE k == i - n
    <3>1. k \in 1..m /\ n + k = i
      BY <1>1, <1>4, <2>2
    <3>2. g[i] = lo + k - 1
      BY <1>4, <3>1
    <3>3. CASE s <= lo - 1
      <4>1. PICK j \in 1..n : f[j] = s
        BY <3>3 DEF Covered, n
      <4>2. j \in 1..(i - 1)
        BY <1>1, <2>2, <4>1
      <4> QED
        BY <1>4, <4>1, <4>2
    <3>4. CASE s > lo - 1
      <4>1. /\ s - lo + 1 \in 1..m /\ lo + (s - lo + 1) - 1 = s
            /\ n + (s - lo + 1) \in 1..(i - 1)
        BY <1>1, <3>1, <3>2, <3>4 DEF m
      <4> QED
        BY <1>4, <4>1
    <3> QED
      BY <3>3, <3>4
  <2> QED
    BY <1>1, <1>4, <2>1, <2>2
<1> QED
  BY <1>1, <1>4, <1>6, <1>7 DEF g, r, n

-----------------------------------------------------------------------------
(* Faults are taken from a budget. *)

\* No step gives a fault back: what no step has spent yet was never spent.
LEMMA FaultsFall ==
    ASSUME MemoryType, [Next]_vars
    PROVE  \A f \in Faults : faults'[f] <= faults[f]
<1>a. \A f \in Faults : faults[f] \in Nat
  BY DEF MemoryType
<1>1. ASSUME NEW g \in Faults, Strike(g)
      PROVE  \A f \in Faults : faults'[f] <= faults[f]
  <2>1. faults' = [faults EXCEPT ![g] = faults[g] - 1]
    BY <1>1 DEF Strike
  <2>2. \A f \in Faults : faults'[f] = IF f = g THEN faults[g] - 1 ELSE faults[f]
    BY <2>1 DEF MemoryType
  <2> QED
    BY <1>a, <2>2
<1>2. ASSUME UNCHANGED faults
      PROVE  \A f \in Faults : faults'[f] <= faults[f]
  BY <1>a, <1>2
<1>3. (\E g \in Faults : Strike(g)) \/ UNCHANGED faults
  BY DEF vars, Faults, Next, ClientStep, WorkerStep, FaultStep, CatchUpStep,
         ControlStep, AllQuiet, Dispatch, CallerReceives, CallerTimesOut,
         TakeToken, TakeEnvelope, BuildThrows, StartCommand, LookUpReceipt, Commit,
         DecisionRejects, TransactionFails, AssignReadModel, ProjectDeferred,
         DeferredDone, PublishNext, ReplyAccepted, Finish, DeadlineStrikes,
         SectionDies, CutShort, Reconcile, ReconcileFails, ResolveFromReceipt,
         ResolveRejected, ResolveOther, CatchUpCheck, CatchUpClear, CatchUpEnd,
         RefreshCommandReadModel, RepairState, Quiesce, Stop, WorkerExits,
         StopCompletes, CrashAndRestart
<1> QED
  BY <1>1, <1>2, <1>3

LEMMA FaultsStep ==
    ASSUME MemoryType, MemoryType', FaultsInv, [Next]_vars
    PROVE  FaultsInv' /\ \A f \in Faults : faults'[f] = Budget[f] => faults[f] = Budget[f]
<1>1. ASSUME NEW f \in Faults
      PROVE  /\ faults[f] \in Nat /\ faults'[f] \in Nat /\ Budget[f] \in Nat
             /\ faults'[f] <= faults[f] /\ faults[f] <= Budget[f]
  BY FaultsFall, BoundAssumption DEF MemoryType, FaultsInv, BoundAssumption
<1>2. ASSUME NEW f \in Faults
      PROVE  /\ faults'[f] <= Budget[f]
             /\ faults'[f] = Budget[f] => faults[f] = Budget[f]
  BY <1>1
<1> QED
  BY <1>2 DEF FaultsInv

\* A fault that strikes is no longer unspent.
LEMMA Spent ==
    ASSUME MemoryType, FaultsInv, NEW f \in Faults, Strike(f)
    PROVE  faults'[f] # Budget[f]
<1>1. faults[f] \in Nat /\ Budget[f] \in Nat /\ faults[f] <= Budget[f]
  BY BoundAssumption DEF MemoryType, FaultsInv, BoundAssumption
<1>2. faults'[f] = faults[f] - 1
  BY DEF Strike, MemoryType
<1> QED
  BY <1>1, <1>2

-----------------------------------------------------------------------------
(* The feed. *)

LEMMA CoveredBefore ==
    ASSUME NEW f, NEW b \in Nat, NEW m \in Nat, NEW k \in Int, k <= m, Covered(f, b, m)
    PROVE  Covered(f, b, k)
  BY DEF Covered

\* Publishing a run behind what is covered leaves no gap.
LEMMA RunPublished ==
    ASSUME feed \in Seq(Nat), bootSeq \in Nat, NEW lo \in Nat, NEW hi \in Nat,
           lo >= 1, lo <= hi + 1, Covered(feed, bootSeq, lo - 1), NoGap(feed, bootSeq),
           Publish(lo, hi)
    PROVE  /\ Len(feed) <= Len(feed') /\ \A i \in 1..Len(feed) : feed'[i] = feed[i]
           /\ NoGap(feed', bootSeq) /\ Covered(feed', bootSeq, hi)
  BY RunAppended DEF Publish

\* Replies stay true to the feed: it only grows, and a new one is of the log it covers.
LEMMA PublishedKept ==
    ASSUME LogType, AcceptedIsPublished, bootSeq \in Nat, bootSeq' = bootSeq,
           feed \in Seq(Nat), feed' \in Seq(Nat), Len(feed) <= Len(feed'),
           \A i \in 1..Len(feed) : feed'[i] = feed[i],
           \A e \in Envelope : result'[e].kind = "ok" =>
               \/ result'[e] = result[e]
               \/ /\ result'[e].seq \in Seqs
                  /\ Covered(feed, bootSeq, Len(log))
    PROVE  AcceptedIsPublished'
<1> SUFFICES ASSUME NEW e \in Envelope, result'[e].kind = "ok", result'[e].seq > bootSeq
             PROVE  \E i \in 1..Len(feed') : feed'[i] = result'[e].seq
  BY DEF AcceptedIsPublished
<1>1. \E i \in 1..Len(feed) : feed[i] = result'[e].seq
  <2>1. CASE result'[e] = result[e]
    BY <2>1 DEF AcceptedIsPublished
  <2>2. CASE result'[e].seq \in Seqs /\ Covered(feed, bootSeq, Len(log))
    <3>1. result'[e].seq \in (bootSeq + 1)..Len(log)
      BY <2>2 DEF Seqs, LogType
    <3> QED
      BY <2>2, <3>1 DEF Covered
  <2> QED
    BY <2>1, <2>2
<1> QED
  BY <1>1

\* A stored outcome that is ok is of an event in the log.
LEMMA StoredInLog ==
    ASSUME LogType, ReceiptsMatchLog, NEW e \in Envelope, HasReceipt(e),
           StoredOutcome(e).kind = "ok"
    PROVE  StoredOutcome(e).seq \in Seqs
<1>1. Command[e] \in CommandId
  BY EnvelopeAssumption DEF EnvelopeAssumption
<1>2. receipts[Command[e]].status = "accepted"
      /\ StoredOutcome(e) = Ok(receipts[Command[e]].seq)
  BY DEF StoredOutcome, Fail
<1> QED
  BY <1>1, <1>2 DEF ReceiptsMatchLog, HasReceipt, Ok

LEMMA FeedStep ==
    ASSUME IndInv, IndInv', FaultsInv, ReadsWork', FeedInv, [Next]_vars
    PROVE  FeedInv'
<1> USE DEF FeedInv, Goto, LockedSteps, TimedSteps
<1>a. /\ LogType /\ ReceiptsMatchLog /\ CallType /\ AcceptedIsCommitted
      /\ Len(log) \in Nat /\ bootSeq \in Nat /\ feed \in Seq(Nat) /\ feed' \in Seq(Nat)
      /\ start \in 0..Len(log) /\ result \in [Envelope -> Outcomes]
  <2>1. Seq(Seqs) \subseteq Seq(Nat) /\ Seq(Seqs') \subseteq Seq(Nat)
    BY SeqMonotonic DEF Seqs
  <2>2. LogType /\ ReceiptsMatchLog /\ CallType /\ AcceptedIsCommitted /\ MemoryType /\ MemoryType' /\ WorkerType
    BY DEF IndInv, ViewInv, CallInv
  <2>3. feed \in Seq(Nat) /\ feed' \in Seq(Nat) /\ bootSeq \in Nat
    BY <2>1, <2>2 DEF MemoryType, LogType
  <2>4. Len(log) \in Nat /\ start \in 0..Len(log) /\ result \in [Envelope -> Outcomes]
    BY <2>2 DEF LogType, WorkerType, MemoryType, CallType
  <2> QED
    BY <2>2, <2>3, <2>4
<1>b. Holding => current \in Envelope
  BY DEF IndInv, JobInv
<1>c. pc \in {"assign", "project", "publish", "reply"} =>
        /\ first \in Seqs /\ next \in 1..(Len(log) + 1)
        /\ pc = "publish" => next \in Seqs
  BY DEF IndInv, JobInv
<1>g. pc \notin {"assign", "project", "publish", "reconcile"} => Covered(feed, bootSeq, Len(log))
  BY DEF PlaceInv
\* Nothing is published and nobody is told.
<1>k. ASSUME UNCHANGED bus, PlaceInv',
             \A e \in Envelope : result'[e].kind = "ok" =>
                 \/ result'[e] = result[e]
                 \/ result'[e].seq \in Seqs /\ Covered(feed, bootSeq, Len(log))
      PROVE  FeedInv'
  BY <1>a, <1>k, PublishedKept DEF bus
<1>m. ASSUME UNCHANGED <<log, bus, pc, start, first, next>>
      PROVE  PlaceInv'
  BY <1>m DEF PlaceInv, bus
\* A reply to the current call.
<1>r. ASSUME Holding, NEW o \in Outcomes, Reply(o),
             o.kind = "ok" => o.seq \in Seqs /\ Covered(feed, bootSeq, Len(log))
      PROVE  \A e \in Envelope : result'[e].kind = "ok" =>
                 \/ result'[e] = result[e]
                 \/ result'[e].seq \in Seqs /\ Covered(feed, bootSeq, Len(log))
  BY <1>a, <1>b, <1>r DEF Reply
<1>f. \A kind : Fail(kind).kind = kind
  BY DEF Fail
\* The section is cut short: what is covered reaches up to the start.
<1>x. ASSUME pc \in TimedSteps \cup {"lock"}, pc' = "reconcile", UNCHANGED <<log, bus, start>>
      PROVE  PlaceInv'
  <2>1. Covered(feed, bootSeq, start)
    <3>1. CASE pc \in {"lock", "receipt", "decide"}
      BY <1>a, <1>g, <3>1, CoveredBefore
    <3>2. CASE pc \in {"assign", "project", "publish", "reply"}
      <4>1. Covered(feed, bootSeq, first - 1) /\ start <= first - 1 /\ first - 1 \in Nat
        BY <1>a, <1>c, <3>2 DEF PlaceInv, Seqs
      <4> QED
        BY <1>a, <4>1, CoveredBefore
    <3> QED
      BY <1>x, <3>1, <3>2
  <2> QED
    BY <1>x, <2>1 DEF PlaceInv, bus
\* The log is covered and stays so.
<1>y. ASSUME Covered(feed, bootSeq, Len(log)), UNCHANGED <<log, bus>>,
             pc' \notin {"assign", "project", "publish", "reply", "reconcile"}
      PROVE  PlaceInv'
  BY <1>y DEF PlaceInv, bus
<1>1. ASSUME NEW e \in Envelope, ClientStep(e)
      PROVE  FeedInv'
  BY <1>1, <1>k, <1>m
     DEF ClientStep, Dispatch, CallerReceives, CallerTimesOut, job, durable
<1>2. CASE TakeToken \/ TakeEnvelope \/ Finish \/ WorkerExits
  BY <1>2, <1>g, <1>k, <1>y
     DEF TakeToken, TakeEnvelope, Finish, WorkerExits, durable, calls
<1>3. CASE BuildThrows
  <2>1. Fail("internal") \in Outcomes
    BY DEF Fail, Outcomes
  <2> QED
    BY <1>3, <1>f, <1>g, <1>k, <1>r, <1>y, <2>1 DEF BuildThrows, durable, Holding
<1>4. CASE StartCommand
  BY <1>4, <1>g, <1>k, <1>x, <1>y DEF StartCommand, FailWith, durable
<1>5. CASE LookUpReceipt
  <2>1. CASE HasReceipt(current) /\ Reply(StoredOutcome(current)) /\ pc' = "finish"
    <3>1. current \in Envelope
      BY <1>5, <1>b DEF LookUpReceipt, Holding
    <3>2. StoredOutcome(current) \in Outcomes
      BY <1>a, <2>1, <3>1, StoredIsJustified
    <3>3. StoredOutcome(current).kind = "ok" => StoredOutcome(current).seq \in Seqs
      BY <1>a, <2>1, <3>1, StoredInLog
    <3> QED
      BY <1>5, <1>g, <1>k, <1>r, <1>y, <2>1, <3>2, <3>3 DEF LookUpReceipt, durable, Holding
  <2>2. CASE pc' \in {"reconcile", "decide"} /\ result' = result
    BY <1>5, <1>g, <1>k, <1>x, <1>y, <2>2 DEF LookUpReceipt, durable, job
  <2> QED
    BY <1>5, <2>1, <2>2 DEF LookUpReceipt, FailWith
<1>6. ASSUME NEW n \in 1..MaxEvents, Commit(n)
      PROVE  FeedInv'
  <2>1. /\ first' = Len(log) + 1 /\ pc' = "assign" /\ UNCHANGED <<bus, start, result>>
        /\ Covered(feed, bootSeq, Len(log))
    BY <1>6, <1>g DEF Commit, calls
  <2>2. PlaceInv'
    BY <1>a, <2>1 DEF PlaceInv, bus
  <2> QED
    BY <1>k, <2>1, <2>2
<1>7. CASE DecisionRejects \/ TransactionFails \/ DeadlineStrikes \/ SectionDies
  BY <1>7, <1>k, <1>x
     DEF DecisionRejects, TransactionFails, DeadlineStrikes, SectionDies, CutShort,
         FailWith, durable, calls
<1>8. CASE AssignReadModel \/ ProjectDeferred
  <2>1. PlaceInv'
    BY <1>8 DEF AssignReadModel, ProjectDeferred, PlaceInv, durable, bus, job
  <2> QED
    BY <1>8, <1>k, <2>1 DEF AssignReadModel, ProjectDeferred, calls
<1>9. CASE DeferredDone
  <2>1. PlaceInv'
    BY <1>9 DEF DeferredDone, PlaceInv, durable, bus
  <2> QED
    BY <1>9, <1>k, <2>1 DEF DeferredDone, calls
<1>10. CASE PublishNext
  <2>1. /\ pc = "publish" /\ next \in Seqs /\ UNCHANGED <<log, bootSeq, start, first, result>>
        /\ next' = next + 1 /\ pc' = IF next < Len(log) THEN "publish" ELSE "reply"
        /\ Publish(next, next)
    BY <1>10, <1>c DEF PublishNext, durable, calls
  <2>2. next \in Nat /\ next >= 1 /\ next <= Len(log)
    BY <1>a, <2>1 DEF Seqs
  <2>3. /\ Len(feed) <= Len(feed') /\ \A i \in 1..Len(feed) : feed'[i] = feed[i]
        /\ NoGap(feed', bootSeq) /\ Covered(feed', bootSeq, next)
    BY <1>a, <2>1, <2>2, RunPublished DEF PlaceInv
  <2>4. first \in Seqs /\ start < first /\ Covered(feed, bootSeq, first - 1)
    BY <1>c, <2>1 DEF PlaceInv
  <2>5. Covered(feed', bootSeq, first - 1)
    <3>1. \A t \in (bootSeq + 1)..(first - 1) : \E i \in 1..Len(feed) : feed[i] = t
      BY <2>4 DEF Covered
    <3>2. \A i \in 1..Len(feed) : i \in 1..Len(feed')
      BY <1>a, <2>3
    <3> QED
      BY <2>3, <3>1, <3>2 DEF Covered
  <2>6. PlaceInv'
    <3>1. next' - 1 = next /\ (pc' = "reply" => next = Len(log))
      BY <1>a, <2>1, <2>2
    <3> QED
      BY <2>1, <2>3, <2>4, <2>5, <3>1 DEF PlaceInv
  <2>7. AcceptedIsPublished'
    BY <1>a, <2>1, <2>3, PublishedKept
  <2> QED
    BY <2>1, <2>3, <2>6, <2>7
<1>11. CASE ReplyAccepted
  <2>1. Ok(Len(log)) \in Outcomes /\ Ok(Len(log)).seq = Len(log)
    BY <1>a DEF Ok, Outcomes
  <2>2. Len(log) \in Seqs
    BY <1>11, <1>a, <1>c DEF ReplyAccepted, Seqs
  <2> QED
    BY <1>11, <1>g, <1>k, <1>r, <1>y, <2>1, <2>2 DEF ReplyAccepted, durable, Holding
<1>12. CASE Reconcile
  <2>1. /\ pc = "reconcile" /\ pc' = "resolve" /\ UNCHANGED <<log, bootSeq, result>>
        /\ Publish(start + 1, Len(log))
    BY <1>12 DEF Reconcile, durable, calls
  <2>2. /\ start + 1 \in Nat /\ start + 1 >= 1 /\ start + 1 <= Len(log) + 1
        /\ start + 1 - 1 = start
    BY <1>a
  <2>3. /\ Len(feed) <= Len(feed') /\ \A i \in 1..Len(feed) : feed'[i] = feed[i]
        /\ NoGap(feed', bootSeq) /\ Covered(feed', bootSeq, Len(log))
    BY <1>a, <2>1, <2>2, RunPublished DEF PlaceInv
  <2>4. PlaceInv'
    BY <2>1, <2>3 DEF PlaceInv
  <2>5. AcceptedIsPublished'
    BY <1>a, <2>1, <2>3, PublishedKept
  <2> QED
    BY <2>1, <2>3, <2>4, <2>5
<1>13. CASE ReconcileFails
  BY <1>13, Spent DEF ReconcileFails, ReadsWork, Faults, IndInv, ViewInv
<1>14. CASE ResolveFromReceipt \/ ResolveRejected \/ ResolveOther
  <2>1. PICK o \in Outcomes : Reply(o) /\ (o.kind = "ok" => o.seq \in Seqs)
    <3>1. current \in Envelope
      BY <1>14, <1>b DEF ResolveFromReceipt, ResolveRejected, ResolveOther, Holding
    <3>2. UnresolvedReply \in Outcomes /\ UnresolvedReply.kind # "ok"
      BY DEF UnresolvedReply, Fail, Outcomes
    <3>3. HasReceipt(current) =>
            /\ StoredOutcome(current) \in Outcomes
            /\ StoredOutcome(current).kind = "ok" => StoredOutcome(current).seq \in Seqs
      BY <1>a, <3>1, StoredIsJustified, StoredInLog
    <3> QED
      BY <1>14, <3>2, <3>3 DEF ResolveFromReceipt, ResolveRejected, ResolveOther
  <2>2. pc = "resolve" /\ pc' = "finish" /\ UNCHANGED <<log, bus>>
    BY <1>14 DEF ResolveFromReceipt, ResolveRejected, ResolveOther, durable
  <2> QED
    BY <1>g, <1>k, <1>r, <1>y, <2>1, <2>2 DEF Holding
<1>15. CASE CatchUpStep \/ ControlStep
  BY <1>15, <1>k, <1>m
     DEF CatchUpStep, CatchUpCheck, CatchUpClear, CatchUpEnd, ControlStep,
         Quiesce, Stop, StopCompletes, RefreshCommandReadModel, RepairState,
         durable, job, calls
<1>16. CASE CrashAndRestart
  <2>1. /\ feed' = << >> /\ bootSeq' = Len(log) /\ log' = log /\ pc' = "take"
        /\ result' = result
    BY <1>16 DEF CrashAndRestart, durable
  <2>2. NoGap(feed', bootSeq') /\ PlaceInv'
    BY <1>a, <2>1 DEF NoGap, PlaceInv, Covered
  <2>3. \A e \in Envelope : result[e].kind = "ok" => result[e].seq \in Seqs
    BY <1>a, EnvelopeAssumption
       DEF AcceptedIsCommitted, Justified, Vouches, ReceiptsMatchLog, EnvelopeAssumption
  <2>4. AcceptedIsPublished'
    BY <1>a, <2>1, <2>3 DEF AcceptedIsPublished, Seqs
  <2> QED
    BY <2>2, <2>4
<1>17. CASE UNCHANGED vars
  BY <1>17, <1>k, <1>m DEF vars, durable, job, calls
<1> QED
  BY <1>1, <1>2, <1>3, <1>4, <1>5, <1>6, <1>7, <1>8, <1>9, <1>10, <1>11, <1>12,
     <1>13, <1>14, <1>15, <1>16, <1>17
     DEF Next, WorkerStep, FaultStep, AllQuiet

-----------------------------------------------------------------------------
(* The read model. *)

LEMMA ModelStep ==
    ASSUME IndInv, IndInv', FaultsInv, ReadsWork', FeedInv, ModelInv, [Next]_vars
    PROVE  ModelInv'
<1> USE DEF Goto, LockedSteps, TimedSteps
<1>a. /\ Len(log) \in Nat /\ log \in Seq(Envelope) /\ start \in 0..Len(log)
      /\ model \subseteq Seqs
  BY DEF IndInv, LogType, WorkerType, ViewInv, MemoryType
<1>c. pc \in {"assign", "project", "publish", "reply"} => first \in Seqs /\ start < first
  BY DEF IndInv, JobInv, FeedInv, PlaceInv
<1>k. ASSUME UNCHANGED <<log, model, pc, start, first>>
      PROVE  ModelInv'
  BY <1>k DEF ModelInv, Seqs
<1>y. ASSUME model = Seqs, UNCHANGED <<log, model>>, pc' \notin {"assign", "reconcile"}
      PROVE  ModelInv'
  BY <1>y DEF ModelInv, Seqs
<1>x. ASSUME pc \in TimedSteps \cup {"lock"}, pc' = "reconcile", UNCHANGED <<model, start>>
      PROVE  ModelInv'
  <2>1. 1..start \subseteq model
    <3>1. CASE pc = "assign"
      BY <1>a, <1>c, <3>1 DEF ModelInv, Seqs
    <3>2. CASE pc # "assign"
      BY <1>a, <1>x, <3>2 DEF ModelInv, Seqs
    <3> QED
      BY <3>1, <3>2
  <2> QED
    BY <1>x, <2>1 DEF ModelInv
<1>l. ASSUME model' = Seqs, log' = log, pc' \notin {"assign", "reconcile"}
      PROVE  ModelInv'
  BY <1>l DEF ModelInv, Seqs
<1>1. ASSUME NEW e \in Envelope, ClientStep(e)
      PROVE  ModelInv'
  BY <1>1, <1>k
     DEF ClientStep, Dispatch, CallerReceives, CallerTimesOut, job, durable, readModel
<1>2. CASE TakeToken \/ TakeEnvelope \/ BuildThrows \/ Finish \/ WorkerExits
  BY <1>2, <1>y
     DEF TakeToken, TakeEnvelope, BuildThrows, Finish, WorkerExits, durable, readModel,
         ModelInv
<1>3. CASE StartCommand \/ LookUpReceipt
  BY <1>3, <1>x, <1>y
     DEF StartCommand, LookUpReceipt, FailWith, durable, readModel, ModelInv
<1>4. ASSUME NEW n \in 1..MaxEvents, Commit(n)
      PROVE  ModelInv'
  <2>1. first' = Len(log) + 1 /\ pc' = "assign" /\ model' = model /\ model = Seqs
    BY <1>4 DEF Commit, readModel, ModelInv
  <2>2. 1..(first' - 1) \subseteq model'
    BY <1>a, <2>1 DEF Seqs
  <2> QED
    BY <2>1, <2>2 DEF ModelInv
<1>5. CASE DecisionRejects \/ TransactionFails \/ DeadlineStrikes \/ SectionDies
  BY <1>5, <1>x
     DEF DecisionRejects, TransactionFails, DeadlineStrikes, SectionDies, CutShort,
         FailWith, readModel
<1>6. CASE AssignReadModel
  <2>1. /\ 1..(first - 1) \subseteq model /\ model' = model \cup first..Len(log)
        /\ log' = log /\ pc' = "project" /\ first \in Seqs
    BY <1>6, <1>c DEF AssignReadModel, ModelInv, durable
  <2>2. model' = Seqs
    <3>1. \A i \in Seqs : i \in 1..(first - 1) \/ i \in first..Len(log)
      BY <1>a, <2>1 DEF Seqs
    <3>2. first..Len(log) \subseteq Seqs
      BY <1>a, <2>1 DEF Seqs
    <3> QED
      BY <1>a, <2>1, <3>1, <3>2
  <2> QED
    BY <1>l, <2>1, <2>2
<1>7. CASE ProjectDeferred \/ DeferredDone \/ PublishNext \/ ReplyAccepted
  BY <1>7, <1>y
     DEF ProjectDeferred, DeferredDone, PublishNext, ReplyAccepted, durable, readModel,
         ModelInv
<1>8. CASE Reconcile
  <2>1. /\ 1..start \subseteq model /\ model' = model \cup (start + 1)..Len(log)
        /\ log' = log /\ pc' = "resolve"
    BY <1>8 DEF Reconcile, ModelInv, durable
  <2>2. model' = Seqs
    <3>1. \A i \in Seqs : i \in 1..start \/ i \in (start + 1)..Len(log)
      BY <1>a DEF Seqs
    <3>2. (start + 1)..Len(log) \subseteq Seqs
      BY <1>a DEF Seqs
    <3> QED
      BY <1>a, <2>1, <3>1, <3>2
  <2> QED
    BY <1>l, <2>1, <2>2
<1>9. CASE ReconcileFails
  BY <1>9, Spent DEF ReconcileFails, ReadsWork, Faults, IndInv, ViewInv
<1>10. CASE ResolveFromReceipt \/ ResolveRejected \/ ResolveOther
  BY <1>10, <1>y
     DEF ResolveFromReceipt, ResolveRejected, ResolveOther, durable, readModel, ModelInv
<1>11. CASE CatchUpStep \/ Quiesce \/ Stop \/ StopCompletes
  BY <1>11, <1>k
     DEF CatchUpStep, CatchUpCheck, CatchUpClear, CatchUpEnd, Quiesce, Stop,
         StopCompletes, durable, job, readModel
<1>12. CASE RefreshCommandReadModel \/ RepairState
  <2>1. /\ pc \notin {"assign", "reconcile"} /\ UNCHANGED <<log, pc>>
        /\ model' \in {model, Seqs}
    BY <1>12 DEF RefreshCommandReadModel, RepairState, LoadReadModel, LockFree, durable,
       readModel
  <2> QED
    BY <1>l, <2>1 DEF ModelInv
<1>13. CASE CrashAndRestart
  BY <1>13, <1>l DEF CrashAndRestart, LoadReadModel, durable
<1>14. CASE UNCHANGED vars
  BY <1>14, <1>k DEF vars, durable, job, readModel
<1> QED
  BY <1>1, <1>2, <1>3, <1>4, <1>5, <1>6, <1>7, <1>8, <1>9, <1>10, <1>11, <1>12,
     <1>13, <1>14
     DEF Next, WorkerStep, FaultStep, ControlStep, AllQuiet

-----------------------------------------------------------------------------
(* Theorems. *)

\* What is shown of the log is inductive beside what IndInv says of the engine.
LEMMA ShownInvariance == Spec => [](IndInv /\ FaultsInv /\ ShownInv)
<1>1. Init => FaultsInv /\ ShownInv
  <2> SUFFICES ASSUME Init PROVE FaultsInv /\ FeedInv /\ ModelInv
    BY DEF ShownInv
  <2>1. FaultsInv
    BY BoundAssumption DEF Init, FaultsInv, BoundAssumption
  <2>2. FeedInv
    BY DEF Init, FeedInv, PlaceInv, NoGap, Covered, AcceptedIsPublished, Pending, Fail
  <2>3. ModelInv
    BY DEF Init, ModelInv, Seqs
  <2> QED
    BY <2>1, <2>2, <2>3
<1>2. IndInv /\ IndInv' /\ FaultsInv /\ ShownInv /\ [Next]_vars => FaultsInv' /\ ShownInv'
  <2> SUFFICES ASSUME IndInv, IndInv', FaultsInv, ShownInv, [Next]_vars
               PROVE  FaultsInv' /\ ShownInv'
    OBVIOUS
  <2>1. FaultsInv' /\ (ReadsWork' => ReadsWork)
    BY FaultsStep DEF IndInv, ViewInv, ReadsWork, Faults
  <2>2. ASSUME ReadsWork' PROVE FeedInv' /\ ModelInv'
    BY <2>1, <2>2, FeedStep, ModelStep DEF ShownInv
  <2> QED
    BY <2>1, <2>2 DEF ShownInv
<1> QED
  BY <1>1, <1>2, Invariance, PTL DEF Spec

\* Live consumers see the log without a gap, as long as the log could be re-read on
\* the error path: no deadline, defect, refresh or crash opens one.
THEOREM FeedWithoutGap == Spec => [](ReadsWork => FeedHasNoGap)
<1>1. ShownInv => (ReadsWork => FeedHasNoGap)
  BY DEF ShownInv, FeedInv, NoGap, FeedHasNoGap
<1> QED
  BY <1>1, ShownInvariance, PTL

\* When the lock is free, every event committed since boot has been published.
THEOREM FeedNeverBehind == Spec => [](ReadsWork => FeedCaughtUp)
<1>1. ShownInv => (ReadsWork => FeedCaughtUp)
  BY DEF ShownInv, FeedInv, PlaceInv, Covered, FeedCaughtUp, LockFree, LockedSteps, TimedSteps
<1> QED
  BY <1>1, ShownInvariance, PTL

\* A caller who was told that a command is accepted can count on its events having
\* been sent to live consumers, retries after a deadline included.
THEOREM ToldIsShown == Spec => [](ReadsWork => AcceptedIsPublished)
<1>1. ShownInv => (ReadsWork => AcceptedIsPublished)
  BY DEF ShownInv, FeedInv
<1> QED
  BY <1>1, ShownInvariance, PTL

\* A command is decided on a read model of the whole log, and its id has no receipt.
THEOREM DecidedOnAll == Spec => [](ReadsWork => DecidesOnWholeLog)
<1>1. IndInv /\ ShownInv => (ReadsWork => DecidesOnWholeLog)
  BY DEF IndInv, JobInv, ShownInv, ModelInv, DecidesOnWholeLog
<1> QED
  BY <1>1, ShownInvariance, PTL
=============================================================================
