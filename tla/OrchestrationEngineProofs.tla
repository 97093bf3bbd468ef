--------------------- MODULE OrchestrationEngineProofs ---------------------
(***************************************************************************)
(* Theorems about the orchestration engine, for every value of its         *)
(* constants.  Admission (queues, counts, reserve) is inductive alone; log *)
(* and receipts need JobInv, what the worker knows of its own commit until *)
(* it has replied; replies need the receipts to be kept; together they     *)
(* make the inductive invariant IndInv, and the refinement of              *)
(* OrchestrationLog rests on it.                                           *)
(***************************************************************************)
EXTENDS OrchestrationEngine, SequenceTheorems, TLAPS

\* Appending a block of n events to the log keeps the past and ends in the block.
LEMMA BlockAppended ==
    ASSUME NEW S, NEW s \in Seq(S), NEW x \in S, NEW n \in Nat
    PROVE  LET t == s \o [i \in 1..n |-> x]
           IN  /\ t \in Seq(S)
               /\ Len(t) = Len(s) + n
               /\ \A i \in 1..Len(s) : t[i] = s[i]
               /\ \A i \in (Len(s) + 1)..(Len(s) + n) : t[i] = x
<1> DEFINE b == [i \in 1..n |-> x]
<1>1. b \in Seq(S) /\ Len(b) = n
  OBVIOUS
<1> QED
  BY <1>1, ConcatProperties

\* A run of consecutive sequences is a sequence of them (publishCommittedEvent).
LEMMA RunOfSequences ==
    ASSUME NEW lo \in Nat, NEW hi \in Nat, NEW m \in Nat,
           lo >= 1, lo <= hi + 1, hi <= m
    PROVE  LET r == [i \in 1..(hi - lo + 1) |-> lo + i - 1]
           IN  r \in Seq(1..m) /\ Len(r) = hi - lo + 1
<1> DEFINE r == [i \in 1..(hi - lo + 1) |-> lo + i - 1]
<1>1. hi - lo + 1 \in Nat
  OBVIOUS
<1>2. r \in [1..(hi - lo + 1) -> 1..m]
  OBVIOUS
<1>3. r \in Seq(1..m)
  BY <1>1, <1>2
<1> QED
  BY <1>1, <1>3

\* Admitting an envelope adds one to its lane and to the total (tryAdmit).
LEMMA EnqueueCounts ==
    ASSUME QueueType, NEW e \in Envelope,
           lanes' = [lanes EXCEPT ![Lane[e]] = Append(@, e)]
    PROVE  /\ lanes' \in [Lanes -> Seq(Envelope)]
           /\ Queued' = Queued + 1
           /\ NewWork' = NewWork + (IF Lane[e] = "control" THEN 0 ELSE 1)
<1> DEFINE k == Lane[e]
<1>1. k \in Lanes
  BY EnvelopeAssumption DEF EnvelopeAssumption
<1>2. lanes \in [Lanes -> Seq(Envelope)] /\ lanes' = [lanes EXCEPT ![k] = Append(@, e)]
  BY DEF QueueType
<1> HIDE DEF k
<1>3. CASE k = "control"
  BY <1>2, <1>3 DEF Queued, NewWork, Lanes, k
<1>4. CASE k = "user"
  BY <1>2, <1>4 DEF Queued, NewWork, Lanes, k
<1>5. CASE k = "normal"
  BY <1>2, <1>5 DEF Queued, NewWork, Lanes, k
<1> QED
  BY <1>1, <1>3, <1>4, <1>5 DEF Lanes

\* Taking the head of the lane chosen by priority removes one (takeNext).
LEMMA DequeueCounts ==
    ASSUME QueueType, NEW k \in Lanes, lanes[k] # << >>,
           lanes' = [lanes EXCEPT ![k] = Tail(@)]
    PROVE  /\ lanes' \in [Lanes -> Seq(Envelope)]
           /\ Queued' = Queued - 1
           /\ NewWork' = NewWork - (IF k = "control" THEN 0 ELSE 1)
           /\ Head(lanes[k]) \in Envelope
<1>1. lanes \in [Lanes -> Seq(Envelope)]
  BY DEF QueueType
<1>2. /\ Tail(lanes[k]) \in Seq(Envelope)
      /\ Len(Tail(lanes[k])) = Len(lanes[k]) - 1
      /\ Head(lanes[k]) \in Envelope
  BY <1>1, HeadTailProperties
<1>3. CASE k = "control"
  BY <1>1, <1>2, <1>3 DEF Queued, NewWork, Lanes
<1>4. CASE k = "user"
  BY <1>1, <1>2, <1>4 DEF Queued, NewWork, Lanes
<1>5. CASE k = "normal"
  BY <1>1, <1>2, <1>5 DEF Queued, NewWork, Lanes
<1> QED
  BY <1>3, <1>4, <1>5 DEF Lanes

AdmissionInv == QueueType /\ AdmissionAccounting /\ ReserveKept

\* No step loses count of an envelope or lets new work into the reserve.
THEOREM AdmissionStep == AdmissionInv /\ [Next]_vars => AdmissionInv'
<1> SUFFICES ASSUME AdmissionInv, [Next]_vars PROVE AdmissionInv'
  OBVIOUS
<1> USE DEF AdmissionInv, AdmissionAccounting, ReserveKept, Holding, Goto
<1>a. /\ lanes \in [Lanes -> Seq(Envelope)]
      /\ Queued \in Nat /\ NewWork \in Nat /\ NewWork <= Queued
      /\ wake \in Nat /\ outstanding \in Nat
      /\ phase \in {"running", "quiescing", "draining", "stopped"}
  BY DEF QueueType, Queued, NewWork, Lanes
<1>c. lanes' = lanes => Queued' = Queued /\ NewWork' = NewWork
  BY DEF Queued, NewWork
<1>b. Capacity \in Nat /\ Reserve \in Nat /\ Reserve < Capacity
  BY CapacityAssumption DEF CapacityAssumption
<1>1. ASSUME NEW e \in Envelope, Dispatch(e)
      PROVE  AdmissionInv'
  <2>1. CASE UNCHANGED <<lanes, wake, outstanding>>
    BY <1>1, <1>a, <1>c, <2>1 DEF Dispatch, QueueType
  <2>2. CASE Admit(e) /\ Queued < AdmissionLimit(e)
    <3>1. /\ lanes' \in [Lanes -> Seq(Envelope)]
          /\ Queued' = Queued + 1
          /\ NewWork' = NewWork + (IF Lane[e] = "control" THEN 0 ELSE 1)
      BY <2>2, EnqueueCounts DEF Admit
    <3>2. wake' = wake + 1 /\ outstanding' = outstanding + 1
          /\ phase' = phase /\ pc' = pc
      BY <1>1, <2>2 DEF Dispatch, Admit
    <3>3. QueueType' /\ AdmissionAccounting'
      BY <1>a, <3>1, <3>2 DEF QueueType
    <3>4. ReserveKept'
      BY <1>a, <1>b, <2>2, <3>1 DEF AdmissionLimit
    <3> QED
      BY <3>3, <3>4
  <2> QED
    BY <1>1, <2>1, <2>2 DEF Dispatch, Refuse
<1>2. CASE TakeToken
  BY <1>2, <1>a, <1>c DEF TakeToken, QueueType
<1>3. CASE TakeEnvelope
  <2>1. NextLane \in Lanes
    BY DEF NextLane, Lanes
  <2>2. lanes[NextLane] # << >> /\ lanes' = [lanes EXCEPT ![NextLane] = Tail(@)]
    BY <1>3 DEF TakeEnvelope
  <2>3. /\ lanes' \in [Lanes -> Seq(Envelope)]
        /\ Queued' = Queued - 1
        /\ NewWork' = NewWork - (IF NextLane = "control" THEN 0 ELSE 1)
    BY <2>1, <2>2, DequeueCounts
  <2>4. /\ pc = "poll" /\ pc' = "lock"
        /\ UNCHANGED <<wake, phase, outstanding>>
    BY <1>3 DEF TakeEnvelope
  <2>5. QueueType' /\ AdmissionAccounting'
    BY <1>a, <2>3, <2>4 DEF QueueType
  <2>6. ReserveKept'
    BY <1>a, <1>b, <2>3
  <2> QED
    BY <2>5, <2>6
<1>4. CASE Finish
  BY <1>4, <1>a, <1>c DEF Finish, queues, QueueType
<1>5. CASE CrashAndRestart
  BY <1>5, <1>b DEF CrashAndRestart, QueueType, Queued, NewWork, Lanes
<1>6. ASSUME UNCHANGED <<lanes, wake, outstanding>>,
             phase' \in {"running", "quiescing", "draining", "stopped"},
             \/ pc' = pc
             \/ pc \notin {"take", "poll", "exited"} /\ pc' \notin {"take", "poll", "exited"}
             \/ pc = "take" /\ pc' = "exited"
      PROVE  AdmissionInv'
  BY <1>a, <1>c, <1>6 DEF QueueType
<1>7. ASSUME NEW e \in Envelope, CallerReceives(e) \/ CallerTimesOut(e)
      PROVE  AdmissionInv'
  BY <1>6, <1>7, <1>a DEF CallerReceives, CallerTimesOut, queues
<1>8. CASE BuildThrows \/ StartCommand \/ LookUpReceipt
  BY <1>6, <1>8, <1>a
     DEF BuildThrows, StartCommand, LookUpReceipt, FailWith, queues
<1>9. ASSUME NEW n \in 1..MaxEvents, Commit(n)
      PROVE  AdmissionInv'
  BY <1>6, <1>9, <1>a DEF Commit, queues
<1>10. CASE DecisionRejects \/ TransactionFails \/ AssignReadModel
  BY <1>6, <1>10, <1>a
     DEF DecisionRejects, TransactionFails, AssignReadModel, FailWith, queues
<1>11. CASE ProjectDeferred \/ DeferredDone \/ PublishNext \/ ReplyAccepted
  BY <1>6, <1>11, <1>a
     DEF ProjectDeferred, DeferredDone, PublishNext, ReplyAccepted, queues
<1>12. CASE DeadlineStrikes \/ SectionDies
  BY <1>6, <1>12, <1>a
     DEF DeadlineStrikes, SectionDies, CutShort, TimedSteps, FailWith, queues
<1>13. CASE Reconcile \/ ReconcileFails
  BY <1>6, <1>13, <1>a DEF Reconcile, ReconcileFails, queues
<1>14. CASE ResolveFromReceipt \/ ResolveRejected \/ ResolveOther
  BY <1>6, <1>14, <1>a
     DEF ResolveFromReceipt, ResolveRejected, ResolveOther, queues
<1>15. CASE CatchUpStep
  BY <1>6, <1>15, <1>a
     DEF CatchUpStep, CatchUpCheck, CatchUpClear, CatchUpEnd, queues
<1>16. CASE RefreshCommandReadModel \/ RepairState
  BY <1>6, <1>16, <1>a DEF RefreshCommandReadModel, RepairState, queues
<1>17. CASE Quiesce \/ Stop \/ WorkerExits \/ StopCompletes
  BY <1>6, <1>17, <1>a DEF Quiesce, Stop, WorkerExits, StopCompletes, queues
<1>18. CASE UNCHANGED vars
  BY <1>6, <1>18, <1>a DEF vars, queues
<1> QED
  BY <1>1, <1>2, <1>3, <1>4, <1>5, <1>7, <1>8, <1>9, <1>10, <1>11, <1>12,
     <1>13, <1>14, <1>15, <1>16, <1>17, <1>18
     DEF Next, ClientStep, WorkerStep, FaultStep, ControlStep, AllQuiet

JobInv ==
    /\ Holding => current \in Envelope
    /\ pc = "decide" => ~HasReceipt(current)
    /\ pc \in {"assign", "project", "publish", "reply"} =>
          /\ first \in Seqs
          /\ next \in 1..(Len(log) + 1)
          /\ receipts[Command[current]] = Accepted(current, Len(log))
    /\ pc = "publish" => next \in Seqs

\* A step that leaves the database alone keeps log and receipts in agreement.
LEMMA QuietHistory ==
    ASSUME LogType, ReceiptsMatchLog, UNCHANGED durable
    PROVE  LogType' /\ ReceiptsMatchLog'
BY DEF LogType, ReceiptsMatchLog, durable, Seqs

\* The commit transaction writes a block of events and the receipt that ends it.
LEMMA CommitHistory ==
    ASSUME LogType, ReceiptsMatchLog, JobInv, NEW n \in 1..MaxEvents, Commit(n)
    PROVE  LogType' /\ ReceiptsMatchLog'
<1> DEFINE c == Command[current]
<1>1. current \in Envelope /\ c \in CommandId /\ n \in Nat /\ n > 0
  BY EnvelopeAssumption, BoundAssumption
     DEF EnvelopeAssumption, BoundAssumption, Commit, JobInv, Holding
<1>2. log \in Seq(Envelope) /\ Len(log) \in Nat
  BY DEF LogType
<1>3. /\ log' \in Seq(Envelope)
      /\ Len(log') = Len(log) + n
      /\ \A i \in 1..Len(log) : log'[i] = log[i]
      /\ \A i \in (Len(log) + 1)..(Len(log) + n) : log'[i] = current
  BY <1>1, <1>2, BlockAppended DEF Commit
<1>4. receipts[c] = NoReceipt
      /\ receipts' = [receipts EXCEPT ![c] = Accepted(current, Len(log) + n)]
  BY DEF Commit, HasReceipt
<1>5. LogType'
  BY <1>1, <1>2, <1>3, <1>4 DEF LogType, Accepted
<1>6. receipts'[c] # NoReceipt
  BY <1>1, <1>2, <1>4, NoReceiptAssumption DEF NoReceiptAssumption, LogType, Accepted
<1>7. \A d \in CommandId :
         (receipts'[d] # NoReceipt /\ receipts'[d].status = "accepted") =>
            /\ receipts'[d].seq \in Seqs'
            /\ log'[receipts'[d].seq] = receipts'[d].by
  <2> TAKE d \in CommandId
  <2>1. CASE d = c
    BY <1>1, <1>2, <1>3, <1>4, <2>1 DEF Seqs, LogType, Accepted
  <2>2. CASE d # c
    <3>1. receipts'[d] = receipts[d]
      BY <1>4, <2>2 DEF LogType
    <3> QED
      BY <1>1, <1>2, <1>3, <3>1 DEF ReceiptsMatchLog, Seqs
  <2> QED
    BY <2>1, <2>2
<1>8. \A i \in Seqs' :
         /\ receipts'[Command[log'[i]]] # NoReceipt
         /\ receipts'[Command[log'[i]]].status = "accepted"
         /\ receipts'[Command[log'[i]]].by = log'[i]
         /\ i <= receipts'[Command[log'[i]]].seq
         /\ \A j \in i..receipts'[Command[log'[i]]].seq : log'[j] = log'[i]
  <2> TAKE i \in Seqs'
  <2>1. CASE i > Len(log)
    BY <1>1, <1>2, <1>3, <1>4, <1>6, <2>1 DEF Seqs, LogType, Accepted
  <2>2. CASE i <= Len(log)
    <3> DEFINE d == Command[log[i]]
    <3>1. i \in Seqs /\ log'[i] = log[i] /\ log[i] \in Envelope /\ d \in CommandId
      BY <1>2, <1>3, <2>2, EnvelopeAssumption DEF Seqs, EnvelopeAssumption
    <3>2. /\ receipts[d] # NoReceipt
          /\ receipts[d].status = "accepted"
          /\ receipts[d].by = log[i]
          /\ receipts[d].seq \in Seqs
          /\ i <= receipts[d].seq
          /\ \A j \in i..receipts[d].seq : log[j] = log[i]
      BY <3>1 DEF ReceiptsMatchLog
    <3>3. receipts'[d] = receipts[d]
      BY <1>4, <3>1, <3>2 DEF LogType
    <3>4. \A j \in i..receipts[d].seq : log'[j] = log[j]
      BY <1>2, <1>3, <3>1, <3>2 DEF Seqs
    <3> QED
      BY <3>1, <3>2, <3>3, <3>4
  <2> QED
    BY <1>2, <1>3, <2>1, <2>2 DEF Seqs
<1> QED
  BY <1>5, <1>7, <1>8 DEF ReceiptsMatchLog

\* A rejection is stored for an undecided id only, so no event contradicts it.
LEMMA RejectHistory ==
    ASSUME LogType, ReceiptsMatchLog, JobInv, MemoryType, ResolveRejected
    PROVE  LogType' /\ ReceiptsMatchLog'
<1> DEFINE c == Command[current]
<1>1. CASE receipts' = receipts
  BY <1>1, QuietHistory DEF ResolveRejected, durable
<1>2. CASE /\ receipts[c] = NoReceipt
           /\ receipts' = [receipts EXCEPT ![c] = Rejected(current, modelSeq)]
  <2>1. current \in Envelope /\ c \in CommandId /\ log' = log
    BY EnvelopeAssumption DEF EnvelopeAssumption, ResolveRejected, JobInv, Holding
  <2>2. modelSeq \in Nat
    BY DEF LogType, MemoryType
  <2>3. LogType'
    BY <1>2, <2>1, <2>2 DEF LogType, Rejected
  <2>4. receipts'[c].status = "rejected"
    BY <1>2, <2>1 DEF LogType, Rejected
  <2>5. \A d \in CommandId : d # c => receipts'[d] = receipts[d]
    BY <1>2 DEF LogType
  <2>6. \A i \in Seqs : log[i] \in Envelope /\ Command[log[i]] \in CommandId
    BY EnvelopeAssumption DEF EnvelopeAssumption, LogType, Seqs
  <2>7. \A i \in Seqs : Command[log[i]] # c
    BY <1>2, <2>6 DEF ReceiptsMatchLog
  <2> QED
    BY <2>1, <2>3, <2>4, <2>5, <2>6, <2>7 DEF ReceiptsMatchLog, Seqs
<1> QED
  BY <1>1, <1>2 DEF ResolveRejected, HasReceipt

\* Every step keeps the receipts in agreement with the log.
LEMMA HistoryStep ==
    ASSUME LogType, ReceiptsMatchLog, JobInv, MemoryType, [Next]_vars
    PROVE  LogType' /\ ReceiptsMatchLog'
<1>1. ASSUME NEW e \in Envelope, ClientStep(e)
      PROVE  UNCHANGED durable
  BY <1>1 DEF ClientStep, Dispatch, CallerReceives, CallerTimesOut
<1>2. CASE TakeToken \/ TakeEnvelope \/ BuildThrows \/ StartCommand \/ LookUpReceipt
  BY <1>2, QuietHistory
     DEF TakeToken, TakeEnvelope, BuildThrows, StartCommand, LookUpReceipt
<1>3. ASSUME NEW n \in 1..MaxEvents, Commit(n)
      PROVE  LogType' /\ ReceiptsMatchLog'
  BY <1>3, CommitHistory
<1>4. CASE DecisionRejects \/ TransactionFails \/ AssignReadModel
  BY <1>4, QuietHistory DEF DecisionRejects, TransactionFails, AssignReadModel
<1>5. CASE ProjectDeferred \/ DeferredDone \/ PublishNext \/ ReplyAccepted \/ Finish
  BY <1>5, QuietHistory
     DEF ProjectDeferred, DeferredDone, PublishNext, ReplyAccepted, Finish
<1>6. CASE DeadlineStrikes \/ SectionDies \/ Reconcile \/ ReconcileFails
  BY <1>6, QuietHistory
     DEF DeadlineStrikes, SectionDies, CutShort, Reconcile, ReconcileFails
<1>7. CASE ResolveFromReceipt \/ ResolveOther
  BY <1>7, QuietHistory DEF ResolveFromReceipt, ResolveOther
<1>8. CASE ResolveRejected
  BY <1>8, RejectHistory
<1>9. CASE CatchUpStep \/ ControlStep \/ WorkerExits \/ CrashAndRestart
  BY <1>9, QuietHistory
     DEF CatchUpStep, CatchUpCheck, CatchUpClear, CatchUpEnd, ControlStep,
         Quiesce, Stop, StopCompletes, RefreshCommandReadModel, RepairState,
         WorkerExits, CrashAndRestart
<1>10. CASE UNCHANGED vars
  BY <1>10, QuietHistory DEF vars
<1> QED
  BY <1>1, <1>2, <1>3, <1>4, <1>5, <1>6, <1>7, <1>8, <1>9, <1>10, QuietHistory
     DEF Next, WorkerStep, FaultStep, AllQuiet

\* Every step keeps the worker's job consistent with the log: after the commit,
\* the log ends with the worker's own events and the receipt says so.
LEMMA JobStep ==
    ASSUME LogType, MemoryType, WorkerType, CallType, QueueType,
           ReceiptsMatchLog, JobInv, [Next]_vars
    PROVE  WorkerType' /\ JobInv'
<1> USE DEF WorkerType, JobInv, Holding, Goto, LockedSteps, TimedSteps, HasReceipt
<1>a. log \in Seq(Envelope) /\ Len(log) \in Nat
  BY DEF LogType
<1>1. ASSUME UNCHANGED <<durable, pc, job>>
      PROVE  WorkerType' /\ JobInv'
  BY <1>1 DEF durable, job, Seqs
<1>2. ASSUME NEW e \in Envelope, ClientStep(e)
      PROVE  WorkerType' /\ JobInv'
  BY <1>1, <1>2 DEF ClientStep, Dispatch, CallerReceives, CallerTimesOut
<1>3. CASE CatchUpStep \/ ControlStep
  BY <1>1, <1>3
     DEF CatchUpStep, CatchUpCheck, CatchUpClear, CatchUpEnd, ControlStep,
         Quiesce, Stop, StopCompletes, RefreshCommandReadModel, RepairState
<1>4. CASE TakeToken \/ WorkerExits
  BY <1>4 DEF TakeToken, WorkerExits, durable, job
<1>5. CASE TakeEnvelope
  <2>1. Head(lanes[NextLane]) \in Envelope
    BY <1>5, HeadTailProperties DEF TakeEnvelope, QueueType, NextLane, Lanes
  <2> QED
    BY <1>a, <1>5, <2>1 DEF TakeEnvelope, MemoryType, durable
<1>6. CASE BuildThrows \/ StartCommand \/ LookUpReceipt
  BY <1>6 DEF BuildThrows, StartCommand, LookUpReceipt, FailWith, durable, job
<1>7. ASSUME NEW n \in 1..MaxEvents, Commit(n)
      PROVE  WorkerType' /\ JobInv'
  <2>1. /\ current \in Envelope /\ Command[current] \in CommandId
        /\ n \in Nat /\ n > 0
    BY <1>7, EnvelopeAssumption, BoundAssumption
       DEF EnvelopeAssumption, BoundAssumption, Commit
  <2>2. Len(log') = Len(log) + n
    BY <1>7, <1>a, <2>1, BlockAppended DEF Commit
  <2> QED
    BY <1>7, <1>a, <2>1, <2>2 DEF Commit, Seqs, LogType
<1>8. CASE DecisionRejects \/ TransactionFails
  BY <1>8 DEF DecisionRejects, TransactionFails, FailWith, durable
<1>9. CASE AssignReadModel \/ ReplyAccepted \/ Finish
  BY <1>9 DEF AssignReadModel, ReplyAccepted, Finish, durable, job, Seqs
<1>10. CASE ProjectDeferred \/ DeferredDone
  BY <1>10, <1>a DEF ProjectDeferred, DeferredDone, durable, Seqs
<1>16. CASE PublishNext
  BY <1>16, <1>a DEF PublishNext, durable, Seqs
<1>11. CASE DeadlineStrikes \/ SectionDies
  BY <1>11 DEF DeadlineStrikes, SectionDies, CutShort, FailWith, durable
<1>12. CASE Reconcile \/ ReconcileFails
  BY <1>12 DEF Reconcile, ReconcileFails, durable, job
<1>13. CASE ResolveFromReceipt \/ ResolveRejected \/ ResolveOther
  BY <1>13 DEF ResolveFromReceipt, ResolveRejected, ResolveOther, durable, job
<1>14. CASE CrashAndRestart
  <2>1. /\ log' = log /\ pc' = "take" /\ current' = NoEnvelope
        /\ start' = 0 /\ spent' = FALSE /\ first' = 0 /\ next' = 0
        /\ failure' = "none"
    BY <1>14 DEF CrashAndRestart, durable
  <2>2. WorkerType'
    <3>1. start' \in 0..Len(log)' /\ first' \in Nat /\ next' \in Nat
      BY <1>a, <2>1
    <3>2. spent' \in BOOLEAN
      BY <2>1
    <3> QED
      BY <2>1, <3>1, <3>2
  <2>3. JobInv'
    BY <2>1
  <2> QED
    BY <2>2, <2>3
<1>15. CASE UNCHANGED vars
  BY <1>1, <1>15 DEF vars
<1> QED
  BY <1>1, <1>2, <1>3, <1>4, <1>5, <1>6, <1>7, <1>8, <1>9, <1>10, <1>11, <1>12,
     <1>13, <1>14, <1>15, <1>16
     DEF Next, WorkerStep, FaultStep, AllQuiet

\* What a step does to the receipts: it may only bind an id that was unbound.
ReceiptsKept ==
    \A c \in CommandId : receipts[c] # NoReceipt => receipts'[c] = receipts[c]

\* No step rebinds a command id that a receipt has bound.
LEMMA KeptStep == ASSUME LogType, [Next]_vars PROVE ReceiptsKept
<1> USE DEF ReceiptsKept
<1>1. ASSUME UNCHANGED receipts PROVE ReceiptsKept
  BY <1>1
<1>2. ASSUME NEW e \in Envelope, ClientStep(e)
      PROVE  ReceiptsKept
  BY <1>2 DEF ClientStep, Dispatch, CallerReceives, CallerTimesOut, durable
<1>3. CASE TakeToken \/ TakeEnvelope \/ BuildThrows \/ StartCommand \/ LookUpReceipt
  BY <1>3
     DEF TakeToken, TakeEnvelope, BuildThrows, StartCommand, LookUpReceipt, durable
<1>4. ASSUME NEW n \in 1..MaxEvents, Commit(n)
      PROVE  ReceiptsKept
  BY <1>4 DEF Commit, HasReceipt, LogType
<1>5. CASE DecisionRejects \/ TransactionFails \/ AssignReadModel
  BY <1>5 DEF DecisionRejects, TransactionFails, AssignReadModel, durable
<1>6. CASE ProjectDeferred \/ DeferredDone \/ PublishNext \/ ReplyAccepted \/ Finish
  BY <1>6
     DEF ProjectDeferred, DeferredDone, PublishNext, ReplyAccepted, Finish, durable
<1>7. CASE DeadlineStrikes \/ SectionDies \/ Reconcile \/ ReconcileFails
  BY <1>7
     DEF DeadlineStrikes, SectionDies, CutShort, Reconcile, ReconcileFails, durable
<1>8. CASE ResolveFromReceipt \/ ResolveOther
  BY <1>8 DEF ResolveFromReceipt, ResolveOther, durable
<1>9. CASE ResolveRejected
  BY <1>9 DEF ResolveRejected, HasReceipt, LogType
<1>10. CASE CatchUpStep \/ ControlStep \/ WorkerExits \/ CrashAndRestart
  BY <1>10
     DEF CatchUpStep, CatchUpCheck, CatchUpClear, CatchUpEnd, ControlStep,
         Quiesce, Stop, StopCompletes, RefreshCommandReadModel, RepairState,
         WorkerExits, CrashAndRestart, durable
<1>11. CASE UNCHANGED vars
  BY <1>11 DEF vars, durable
<1> QED
  BY <1>2, <1>3, <1>4, <1>5, <1>6, <1>7, <1>8, <1>9, <1>10, <1>11
     DEF Next, WorkerStep, FaultStep, AllQuiet

\* A call not made yet has returned nothing.
NothingEarly == \A e \in Envelope : exec[e] = "none" => answer[e] = Pending

CallInv == CallType /\ AcceptedIsCommitted /\ NothingEarly

\* What a stored receipt says to a retry is vouched for by that receipt.
LEMMA StoredIsJustified ==
    ASSUME LogType, NEW e \in Envelope, HasReceipt(e)
    PROVE  StoredOutcome(e) \in Outcomes /\ Justified(e, StoredOutcome(e))
<1>1. Command[e] \in CommandId
  BY EnvelopeAssumption DEF EnvelopeAssumption
<1>2. receipts[Command[e]] \in
         [status : {"accepted", "rejected"}, seq : Nat, by : Envelope]
  BY <1>1 DEF LogType, HasReceipt
<1> QED
  BY <1>2 DEF StoredOutcome, Justified, Vouches, HasReceipt, Outcomes, Ok, Fail

\* A reply once vouched for stays vouched for while receipts are kept.
LEMMA JustifiedKept ==
    ASSUME ReceiptsKept, NEW e \in Envelope, NEW o, Justified(e, o)
    PROVE  o.kind = "ok" => Vouches(receipts'[Command[e]], e, o)
BY EnvelopeAssumption DEF EnvelopeAssumption, ReceiptsKept, Justified, Vouches

\* A reply that is vouched for, given to the current call, keeps replies true.
LEMMA ReplyStep ==
    ASSUME CallInv, ReceiptsKept, NEW c \in Envelope, NEW o \in Outcomes,
           o.kind = "ok" => Vouches(receipts'[Command[c]], c, o),
           result' = [result EXCEPT ![c] = o],
           UNCHANGED <<exec, answer>>
    PROVE  CallInv'
<1> USE DEF CallInv, CallType, AcceptedIsCommitted, NothingEarly
<1>1. CallType'
  OBVIOUS
<1>2. ASSUME NEW e \in Envelope
      PROVE  Justified(e, result[e])' /\ Justified(e, answer[e])'
  <2>1. result'[e] = IF e = c THEN o ELSE result[e]
    OBVIOUS
  <2>2. Justified(e, answer[e])'
    BY JustifiedKept DEF Justified
  <2>3. CASE e = c
    BY <2>1, <2>2, <2>3 DEF Justified
  <2>4. CASE e # c
    BY <2>1, <2>2, <2>4, JustifiedKept DEF Justified
  <2> QED
    BY <2>3, <2>4
<1> QED
  BY <1>1, <1>2

\* A step that touches no call keeps replies true.
LEMMA QuietCalls ==
    ASSUME CallInv, ReceiptsKept,
           exec' \in [Envelope -> {"none", "queued", "in-flight", "abandoned", "closed"}],
           result' = result,
           answer' \in [Envelope -> Outcomes],
           \A e \in Envelope : \/ answer'[e] = answer[e]
                               \/ answer'[e] = result[e]
                               \/ answer'[e].kind # "ok",
           \A e \in Envelope :
               exec'[e] = "none" => exec[e] = "none" /\ answer'[e] = answer[e]
    PROVE  CallInv'
<1> USE DEF CallInv, CallType, AcceptedIsCommitted, NothingEarly
<1>1. ASSUME NEW e \in Envelope
      PROVE  Justified(e, result[e])' /\ Justified(e, answer[e])'
  BY JustifiedKept DEF Justified
<1> QED
  BY <1>1

\* Every step keeps every reply true: ok is only ever said of a durable commit.
LEMMA CallStep ==
    ASSUME LogType, WorkerType, JobInv, CallInv, [Next]_vars
    PROVE  CallInv'
<1>a. ReceiptsKept
  BY KeptStep
<1>b. CallType
  BY DEF CallInv
<1>c. Holding => current \in Envelope
  BY DEF JobInv
<1>1. ASSUME UNCHANGED calls PROVE CallInv'
  BY <1>1, <1>a, <1>b, QuietCalls DEF calls, CallType
<1>2. ASSUME NEW kind \in {"internal", "timeout", "rejected", "previously-rejected"},
             Holding, Reply(Fail(kind)), UNCHANGED <<exec, answer>>
      PROVE  CallInv'
  <2>1. Fail(kind) \in Outcomes /\ Fail(kind).kind # "ok"
    BY <1>2 DEF Fail, Outcomes
  <2> QED
    BY <1>2, <1>a, <1>c, <2>1, ReplyStep DEF Reply
<1>3. ASSUME Holding, HasReceipt(current), Reply(StoredOutcome(current)),
             UNCHANGED <<receipts, exec, answer>>
      PROVE  CallInv'
  <2>1. PICK c \in Envelope : c = current
    BY <1>3, <1>c
  <2>2. PICK o \in Outcomes : o = StoredOutcome(current)
    BY <1>3, <2>1, StoredIsJustified
  <2>3. Justified(c, o)
    BY <1>3, <2>1, <2>2, StoredIsJustified
  <2>4. o.kind = "ok" => Vouches(receipts'[Command[c]], c, o)
    BY <1>3, <2>3 DEF Justified
  <2> QED
    BY <1>3, <1>a, <2>1, <2>2, <2>4, ReplyStep DEF Reply
<1>4. ASSUME NEW e \in Envelope, Dispatch(e)
      PROVE  CallInv'
  <2>1. Fail("stopped") \in Outcomes /\ Fail("overloaded") \in Outcomes
    BY DEF Fail, Outcomes
  <2>2. Fail("stopped").kind # "ok" /\ Fail("overloaded").kind # "ok"
    BY DEF Fail
  <2> QED
    BY <1>4, <1>a, <1>b, <2>1, <2>2, QuietCalls
       DEF Dispatch, Refuse, Admit, CallType
<1>5. ASSUME NEW e \in Envelope, CallerReceives(e)
      PROVE  CallInv'
  BY <1>5, <1>a, <1>b, QuietCalls DEF CallerReceives, CallType
<1>6. ASSUME NEW e \in Envelope, CallerTimesOut(e)
      PROVE  CallInv'
  BY <1>6, <1>a, <1>b, QuietCalls DEF CallerTimesOut, CallType, Fail, Outcomes
<1> USE DEF Holding, LockedSteps, TimedSteps
<1>7. CASE TakeToken \/ TakeEnvelope \/ Finish \/ WorkerExits
  BY <1>1, <1>7 DEF TakeToken, TakeEnvelope, Finish, WorkerExits
<1>8. CASE BuildThrows
  BY <1>2, <1>8 DEF BuildThrows
<1>9. CASE StartCommand
  BY <1>9, <1>a, <1>b, <1>c, QuietCalls DEF StartCommand, CallType
<1>10. CASE LookUpReceipt
  BY <1>1, <1>3, <1>10 DEF LookUpReceipt, durable, calls
<1>11. ASSUME NEW n \in 1..MaxEvents, Commit(n)
       PROVE  CallInv'
  BY <1>1, <1>11 DEF Commit
<1>12. CASE DecisionRejects \/ TransactionFails \/ AssignReadModel
  BY <1>1, <1>12 DEF DecisionRejects, TransactionFails, AssignReadModel
<1>13. CASE ProjectDeferred \/ DeferredDone \/ PublishNext
  BY <1>1, <1>13 DEF ProjectDeferred, DeferredDone, PublishNext
<1>14. CASE ReplyAccepted
  <2>1. PICK c \in Envelope : c = current
    BY <1>14, <1>c DEF ReplyAccepted
  <2>2. receipts'[Command[c]] = Accepted(c, Len(log))
    BY <1>14, <2>1 DEF ReplyAccepted, JobInv, durable
  <2>3. Ok(Len(log)) \in Outcomes
    BY DEF LogType, Ok, Outcomes
  <2>4. Vouches(receipts'[Command[c]], c, Ok(Len(log)))
    <3>1. Accepted(c, Len(log)) # NoReceipt
      BY NoReceiptAssumption DEF NoReceiptAssumption, Accepted, LogType
    <3> QED
      BY <2>2, <3>1 DEF Vouches, Accepted, Ok
  <2> QED
    BY <1>14, <1>a, <2>1, <2>3, <2>4, ReplyStep DEF ReplyAccepted, Reply
<1>15. CASE DeadlineStrikes \/ SectionDies \/ Reconcile \/ ReconcileFails
  BY <1>1, <1>15
     DEF DeadlineStrikes, SectionDies, CutShort, Reconcile, ReconcileFails
<1>16. CASE ResolveFromReceipt
  BY <1>2, <1>3, <1>16 DEF ResolveFromReceipt, UnresolvedReply, durable
<1>17. CASE ResolveRejected
  BY <1>2, <1>17 DEF ResolveRejected, UnresolvedReply
<1>18. CASE ResolveOther
  BY <1>2, <1>18 DEF ResolveOther, UnresolvedReply
<1>19. CASE CatchUpStep \/ ControlStep
  BY <1>1, <1>19
     DEF CatchUpStep, CatchUpCheck, CatchUpClear, CatchUpEnd, ControlStep,
         Quiesce, Stop, StopCompletes, RefreshCommandReadModel, RepairState
<1>20. CASE CrashAndRestart
  BY <1>20, <1>a, <1>b, QuietCalls DEF CrashAndRestart, CallType, Fail, Outcomes
<1>21. CASE UNCHANGED vars
  BY <1>1, <1>21 DEF vars
<1> QED
  BY <1>4, <1>5, <1>6, <1>7, <1>8, <1>9, <1>10, <1>11, <1>12, <1>13, <1>14,
     <1>15, <1>16, <1>17, <1>18, <1>19, <1>20, <1>21
     DEF Next, ClientStep, WorkerStep, FaultStep, AllQuiet

\* What the engine remembers, in the database and in memory, about the log.
ViewInv == ShellType /\ MemoryType

\* A step that leaves cursors, read model and bus alone keeps their bounds.
LEMMA QuietView ==
    ASSUME ViewInv, LogType, log' = log,
           UNCHANGED <<shell, readModel, bus>>,
           faults' \in [Faults -> Nat],
           dirty' \in BOOLEAN,
           catchUp' \in {"off", "check", "clear", "end"}
    PROVE  ViewInv'
BY DEF ViewInv, ShellType, MemoryType, shell, readModel, bus, Seqs

\* A fault that strikes takes one from its budget.
LEMMA StrikeType ==
    ASSUME NEW f \in Faults, faults \in [Faults -> Nat], Strike(f)
    PROVE  faults' \in [Faults -> Nat]
BY DEF Strike

\* Publishing a run of the log puts sequences of the log on the feed.
LEMMA PublishType ==
    ASSUME LogType, feed \in Seq(Seqs), log' = log,
           NEW lo \in Nat, lo >= 1, lo <= Len(log) + 1,
           NEW hi \in Nat, lo <= hi + 1, hi <= Len(log), Publish(lo, hi)
    PROVE  feed' \in Seq(Seqs')
<1> DEFINE m == Len(log)
           run == [i \in 1..(hi - lo + 1) |-> lo + i - 1]
<1>1. m \in Nat
  BY DEF LogType
<1>2. run \in Seq(Seqs)
  BY <1>1, RunOfSequences DEF Seqs
<1>3. feed \o run \in Seq(Seqs)
  BY <1>2, ConcatProperties
<1> QED
  BY <1>3 DEF Publish, Seqs

\* A bootstrap moves the deferred projector's cursor within the log.
LEMMA BootstrapType ==
    ASSUME LogType, ShellType, log' = log,
           NEW k \in shellCursor..Len(log), BootstrapThrough(k)
    PROVE  ShellType'
BY DEF LogType, ShellType, BootstrapThrough, Seqs

\* No cursor, read model or published event ever runs ahead of the log.
LEMMA ViewStep ==
    ASSUME LogType, LogType', WorkerType, JobInv, ViewInv, [Next]_vars
    PROVE  ViewInv'
<1>a. Len(log) \in Nat /\ log \in Seq(Envelope)
  BY DEF LogType
<1>b. /\ faults \in [Faults -> Nat] /\ dirty \in BOOLEAN
      /\ catchUp \in {"off", "check", "clear", "end"}
  BY DEF ViewInv, MemoryType
<1>c. \A f \in Faults : Strike(f) => faults' \in [Faults -> Nat]
  BY <1>b, StrikeType
<1> USE DEF Faults
<1>1. ASSUME UNCHANGED <<durable, shell, readModel, bus, deferred>>,
             faults' \in [Faults -> Nat]
      PROVE  ViewInv'
  BY <1>1, <1>b, QuietView DEF durable, deferred
<1>2. ASSUME NEW e \in Envelope, ClientStep(e)
      PROVE  ViewInv'
  BY <1>1, <1>2, <1>b, <1>c
     DEF ClientStep, Dispatch, CallerReceives, CallerTimesOut
<1>3. CASE TakeToken \/ TakeEnvelope \/ BuildThrows \/ StartCommand \/ LookUpReceipt
  BY <1>1, <1>3, <1>b, <1>c
     DEF TakeToken, TakeEnvelope, BuildThrows, StartCommand, LookUpReceipt
<1>4. ASSUME NEW n \in 1..MaxEvents, Commit(n)
      PROVE  ViewInv'
  <2>1. Len(log') >= Len(log) /\ Len(log') \in Nat
    <3>1. current \in Envelope /\ n \in Nat
      BY <1>4, BoundAssumption DEF Commit, JobInv, Holding, BoundAssumption
    <3> QED
      BY <1>4, <1>a, <3>1, BlockAppended DEF Commit
  <2>2. Seqs \subseteq Seqs'
    BY <1>a, <2>1 DEF Seqs
  <2>3. feed \in Seq(Seqs)'
    BY <2>2, SeqMonotonic DEF ViewInv, MemoryType
  <2> QED
    <3>1. UNCHANGED <<shell, readModel, bus, deferred, faults>>
      BY <1>4 DEF Commit
    <3>2. ShellType'
      BY <1>a, <2>1, <2>2, <3>1 DEF ViewInv, ShellType, shell
    <3>3. /\ model' \subseteq Seqs' /\ modelSeq' \in 0..Len(log') /\ bootSeq' \in 0..Len(log')
      BY <1>a, <2>1, <2>2, <3>1 DEF ViewInv, MemoryType, readModel, bus
    <3>4. feed' \in Seq(Seqs)'
      BY <2>3, <3>1 DEF bus
    <3> QED
      BY <1>b, <3>1, <3>2, <3>3, <3>4 DEF ViewInv, MemoryType, deferred
<1>5. CASE DecisionRejects \/ TransactionFails
  BY <1>1, <1>5, <1>b, <1>c DEF DecisionRejects, TransactionFails
<1>6. CASE AssignReadModel
  <2>1. first \in Seqs /\ log' = log /\ Seqs' = Seqs
    BY <1>6 DEF AssignReadModel, JobInv, durable, Seqs
  <2>2. first..Len(log) \subseteq Seqs
    BY <1>a, <2>1 DEF Seqs
  <2>3. model' \subseteq Seqs' /\ modelSeq' \in 0..Len(log')
    BY <1>6, <1>a, <2>1, <2>2 DEF AssignReadModel, ViewInv, MemoryType
  <2>4. ShellType' /\ UNCHANGED <<bus, deferred, faults>>
    BY <1>6, <2>1 DEF AssignReadModel, ViewInv, ShellType, shell
  <2> QED
    BY <2>1, <2>3, <2>4 DEF ViewInv, MemoryType, bus, deferred
<1>7. CASE ProjectDeferred
  <2>1. faults' \in [Faults -> Nat]
    BY <1>7, <1>b, <1>c DEF ProjectDeferred
  <2>2. dirty' \in BOOLEAN /\ catchUp' \in {"off", "check", "clear", "end"}
    BY <1>7, <1>b DEF ProjectDeferred, Schedule, deferred
  <2>3. next \in Seqs
    BY <1>7, <1>a DEF ProjectDeferred, JobInv, Seqs
  <2>4. ShellType'
    <3>1. log' = log /\ Seqs' = Seqs
      BY <1>7 DEF ProjectDeferred, durable, Seqs
    <3>2. CASE UNCHANGED shell
      BY <3>1, <3>2 DEF ViewInv, ShellType, shell
    <3>3. CASE shellSeen' = shellSeen \cup {next} /\ shellCursor' = next
      <4>1. next \in 0..Len(log)
        BY <1>a, <2>3 DEF Seqs
      <4> QED
        BY <2>3, <3>1, <3>3, <4>1 DEF ViewInv, ShellType
    <3> QED
      BY <1>7, <3>2, <3>3 DEF ProjectDeferred
  <2> QED
    BY <1>7, <2>1, <2>2, <2>4
       DEF ProjectDeferred, ViewInv, MemoryType, durable, readModel, bus, Seqs
<1>8. CASE DeferredDone \/ ReplyAccepted \/ Finish \/ WorkerExits
  BY <1>1, <1>8, <1>b DEF DeferredDone, ReplyAccepted, Finish, WorkerExits
<1>9. CASE PublishNext
  <2>1. next \in Seqs /\ log' = log
    BY <1>9 DEF PublishNext, JobInv, durable
  <2>2. feed' \in Seq(Seqs')
    <3>1. next \in Nat /\ next >= 1 /\ next <= Len(log) + 1 /\ next <= next + 1 /\ next <= Len(log)
      BY <1>a, <2>1 DEF Seqs
    <3>2. Publish(next, next) /\ feed \in Seq(Seqs)
      BY <1>9 DEF PublishNext, ViewInv, MemoryType
    <3> QED
      BY <1>a, <2>1, <3>1, <3>2, PublishType
  <2> QED
    BY <1>9, <2>1, <2>2
       DEF PublishNext, ViewInv, ShellType, MemoryType, shell, readModel,
           deferred, Seqs
<1>10. CASE DeadlineStrikes \/ SectionDies \/ ReconcileFails
  BY <1>1, <1>10, <1>c DEF DeadlineStrikes, SectionDies, CutShort, ReconcileFails
<1>11. CASE Reconcile
  <2>1. start \in 0..Len(log) /\ log' = log
    BY <1>11 DEF Reconcile, WorkerType, durable
  <2>2. feed' \in Seq(Seqs')
    <3>1. /\ start + 1 \in Nat /\ start + 1 >= 1
          /\ start + 1 <= Len(log) + 1 /\ Len(log) <= Len(log)
      BY <1>a, <2>1
    <3>2. feed \in Seq(Seqs) /\ Publish(start + 1, Len(log))
      BY <1>11 DEF Reconcile, ViewInv, MemoryType
    <3> QED
      BY <1>a, <2>1, <3>1, <3>2, PublishType
  <2>3. model' \subseteq Seqs' /\ modelSeq' \in 0..Len(log')
    <3>1. (start + 1)..Len(log) \subseteq Seqs /\ Seqs' = Seqs
      BY <1>a, <2>1 DEF Seqs
    <3> QED
      BY <1>11, <1>a, <2>1, <3>1 DEF Reconcile, ViewInv, MemoryType
  <2> QED
    BY <1>11, <2>1, <2>2, <2>3
       DEF Reconcile, ViewInv, ShellType, MemoryType, shell, deferred, Seqs
<1>12. CASE ResolveFromReceipt \/ ResolveRejected \/ ResolveOther
  <2>1. log' = log /\ faults' \in [Faults -> Nat]
    BY <1>12, <1>b, <1>c
       DEF ResolveFromReceipt, ResolveRejected, ResolveOther, durable
  <2> QED
    BY <1>12, <1>b, <2>1, QuietView
       DEF ResolveFromReceipt, ResolveRejected, ResolveOther, deferred
<1>13. CASE CatchUpStep
  <2>1. /\ log' = log /\ UNCHANGED <<readModel, bus>>
        /\ faults' \in [Faults -> Nat]
        /\ dirty' \in BOOLEAN /\ catchUp' \in {"off", "check", "clear", "end"}
    BY <1>13, <1>b, <1>c
       DEF CatchUpStep, CatchUpCheck, CatchUpClear, CatchUpEnd, durable
  <2>2. ShellType'
    <3>1. Len(log) \in shellCursor..Len(log)
      BY <1>a DEF ViewInv, ShellType
    <3>2. UNCHANGED shell => ShellType'
      BY <2>1 DEF ViewInv, ShellType, shell, Seqs
    <3> QED
      BY <1>13, <2>1, <3>1, <3>2, BootstrapType
         DEF CatchUpStep, CatchUpCheck, CatchUpClear, CatchUpEnd, ViewInv
  <2> QED
    BY <2>1, <2>2 DEF ViewInv, MemoryType, readModel, bus, Seqs
<1>14. CASE RefreshCommandReadModel \/ RepairState \/ CrashAndRestart
  <2>1. log' = log /\ faults' \in [Faults -> Nat] /\ deferred' \in
           BOOLEAN \X {"off", "check", "clear", "end"}
    BY <1>14, <1>b, <1>c
       DEF RefreshCommandReadModel, RepairState, CrashAndRestart, durable, deferred
  <2>2. ShellType'
    <3>1. Len(log) \in shellCursor..Len(log)
      BY <1>a DEF ViewInv, ShellType
    <3>2. UNCHANGED shell => ShellType'
      BY <2>1 DEF ViewInv, ShellType, shell, Seqs
    <3>a. /\ ShellType /\ Len(log) \in Nat
          /\ log' = log
      BY <1>a, <1>b, <2>1 DEF ViewInv, LogType
    <3>3. ASSUME shellCursor' = shellCursor, NEW k \in shellCursor..Len(log),
                 shellSeen' = shellSeen \cup (shellCursor + 1)..k
          PROVE  ShellType'
      BY <3>3, <3>a DEF ShellType, Seqs
    <3>4. BootstrapThrough(Len(log)) => ShellType'
      BY <1>a, <1>b, <2>1, <3>1, BootstrapType DEF ViewInv
    <3>5. CASE RefreshCommandReadModel
      BY <3>2, <3>5 DEF RefreshCommandReadModel
    <3>6. CASE CrashAndRestart
      BY <3>4, <3>6 DEF CrashAndRestart
    <3>7. CASE RepairState
      BY <3>3, <3>4, <3>7 DEF RepairState
    <3> QED
      BY <1>14, <3>5, <3>6, <3>7
  <2>3. model' \subseteq Seqs' /\ modelSeq' \in 0..Len(log')
    BY <1>14, <2>1, <2>2
       DEF RefreshCommandReadModel, RepairState, CrashAndRestart, LoadReadModel,
           ViewInv, ShellType, MemoryType, readModel, Seqs
  <2>4. feed' \in Seq(Seqs') /\ bootSeq' \in 0..Len(log')
    <3>1. Seqs' = Seqs /\ Len(log) \in 0..Len(log)
      BY <1>a, <2>1 DEF Seqs
    <3>2. << >> \in Seq(Seqs)
      BY EmptySeq
    <3>3. UNCHANGED bus \/ (feed' = << >> /\ bootSeq' = Len(log))
      BY <1>14 DEF RefreshCommandReadModel, RepairState, CrashAndRestart
    <3> QED
      BY <2>1, <3>1, <3>2, <3>3 DEF ViewInv, MemoryType, bus
  <2> QED
    BY <2>1, <2>2, <2>3, <2>4 DEF ViewInv, MemoryType, deferred
<1>15. CASE Quiesce \/ Stop \/ StopCompletes
  BY <1>1, <1>15, <1>b DEF Quiesce, Stop, StopCompletes
<1>16. CASE UNCHANGED vars
  BY <1>1, <1>16, <1>b DEF vars
<1> QED
  BY <1>2, <1>3, <1>4, <1>5, <1>6, <1>7, <1>8, <1>9, <1>10, <1>11, <1>12, <1>13,
     <1>14, <1>15, <1>16
     DEF Next, WorkerStep, FaultStep, ControlStep, AllQuiet

IndInv ==
    /\ LogType /\ ReceiptsMatchLog
    /\ WorkerType /\ JobInv
    /\ CallInv /\ ViewInv /\ AdmissionInv

\* The inductive invariant holds initially.
LEMMA InitInd == Init => IndInv
<1> SUFFICES ASSUME Init PROVE IndInv
  OBVIOUS
<1> USE DEF Init
<1>1. LogType /\ ViewInv
  <2>1. spent \in BOOLEAN /\ dirty \in BOOLEAN
    OBVIOUS
  <2>2. log \in Seq(Envelope) /\ feed \in Seq(Seqs) /\ Len(log) = 0
    OBVIOUS
  <2>3. LogType /\ ShellType
    BY <2>2 DEF LogType, ShellType
  <2> QED
    BY <2>1, <2>2, <2>3, BoundAssumption DEF ViewInv, MemoryType, BoundAssumption
<1>2. ReceiptsMatchLog
  BY DEF ReceiptsMatchLog, Seqs
<1>3. WorkerType /\ JobInv
  <2>1. spent \in BOOLEAN
    OBVIOUS
  <2>2. start \in 0..Len(log)
    OBVIOUS
  <2> QED
    BY <2>1, <2>2 DEF WorkerType, JobInv, Holding, LockedSteps, TimedSteps
<1>4. CallInv
  BY DEF CallInv, CallType, AcceptedIsCommitted, NothingEarly, Justified, Pending,
         Fail, Outcomes
<1>5. Queued = 0 /\ NewWork = 0 /\ QueueType
  BY DEF QueueType, Queued, NewWork, Lanes
<1>6. AdmissionInv
  BY <1>5, CapacityAssumption
     DEF AdmissionInv, AdmissionAccounting, ReserveKept, Holding, CapacityAssumption
<1> QED
  BY <1>1, <1>2, <1>3, <1>4, <1>6 DEF IndInv

\* The inductive invariant is kept by every step.
LEMMA StepInd == IndInv /\ [Next]_vars => IndInv'
<1> SUFFICES ASSUME IndInv, [Next]_vars PROVE IndInv'
  OBVIOUS
<1> USE DEF IndInv
<1>1. LogType' /\ ReceiptsMatchLog'
  BY HistoryStep DEF ViewInv
<1>2. WorkerType' /\ JobInv'
  BY JobStep DEF ViewInv, CallInv, AdmissionInv
<1>3. CallInv'
  BY CallStep
<1>4. ViewInv'
  BY <1>1, ViewStep
<1>5. AdmissionInv'
  BY AdmissionStep
<1> QED
  BY <1>1, <1>2, <1>3, <1>4, <1>5

\* The inductive invariant holds in every reachable state, for any number of
\* clients, any capacity, reserve and fault budget.
THEOREM Invariance == Spec => []IndInv
<1> QED
  BY InitInd, StepInd, PTL DEF Spec

\* Type correctness: cursors, the read model and the feed stay within the log.
THEOREM TypeCorrect == Spec => []TypeOK
<1>1. IndInv => TypeOK
  BY DEF IndInv, TypeOK, CallInv, ViewInv, AdmissionInv
<1> QED
  BY <1>1, Invariance, PTL

\* The queue, wake-token and outstanding counts always agree, so that the last
\* lane's blocking take never blocks and stop waits for exactly what is pending.
THEOREM AccountingCorrect == Spec => []AdmissionAccounting
<1>1. IndInv => AdmissionAccounting
  BY DEF IndInv, AdmissionInv
<1> QED
  BY <1>1, Invariance, PTL

\* New work never takes the places reserved for commands that settle work.
THEOREM ReserveCorrect == Spec => []ReserveKept
<1>1. IndInv => ReserveKept
  BY DEF IndInv, AdmissionInv
<1> QED
  BY <1>1, Invariance, PTL

\* A command id is decided once, and its accepted receipt ends its own events.
THEOREM DecidedOnce == Spec => []ReceiptsMatchLog
<1>1. IndInv => ReceiptsMatchLog
  BY DEF IndInv
<1> QED
  BY <1>1, Invariance, PTL

\* A caller told a sequence is told that of a durable commit of its command.
THEOREM RepliesAreTrue == Spec => []AcceptedIsCommitted
<1>1. IndInv => AcceptedIsCommitted
  BY DEF IndInv, CallInv
<1> QED
  BY <1>1, Invariance, PTL

\* No step changes the past of the log.
LEMMA LogGrows ==
    ASSUME IndInv, [Next]_vars
    PROVE  SubSeq(log', 1, Len(log)) = log
<1>1. log \in Seq(Envelope) /\ log' \in Seq(Envelope)
  BY StepInd DEF IndInv, LogType
<1>2. Len(log) <= Len(log') /\ \A i \in 1..Len(log) : log'[i] = log[i]
  <2>1. ASSUME NEW n \in 1..MaxEvents, Commit(n)
        PROVE  Len(log) <= Len(log') /\ \A i \in 1..Len(log) : log'[i] = log[i]
    <3>1. current \in Envelope /\ n \in Nat
      BY <2>1, BoundAssumption
         DEF Commit, IndInv, JobInv, Holding, BoundAssumption
    <3> QED
      BY <1>1, <2>1, <3>1, BlockAppended DEF Commit
  <2>2. CASE log' = log
    BY <1>1, <2>2
  <2>3. (\E n \in 1..MaxEvents : Commit(n)) \/ log' = log
    BY DEF vars, durable, Next, ClientStep, WorkerStep, FaultStep, CatchUpStep,
           ControlStep, AllQuiet, Dispatch, CallerReceives, CallerTimesOut,
           TakeToken, TakeEnvelope, BuildThrows, StartCommand, LookUpReceipt,
           DecisionRejects, TransactionFails, AssignReadModel, ProjectDeferred,
           DeferredDone, PublishNext, ReplyAccepted, Finish, DeadlineStrikes,
           SectionDies, CutShort, Reconcile, ReconcileFails, ResolveFromReceipt,
           ResolveRejected, ResolveOther, CatchUpCheck, CatchUpClear, CatchUpEnd,
           RefreshCommandReadModel, RepairState, Quiesce, Stop, WorkerExits,
           StopCompletes, CrashAndRestart
  <2> QED
    BY <2>1, <2>2, <2>3
<1>3. /\ SubSeq(log', 1, Len(log)) \in Seq(Envelope)
      /\ Len(SubSeq(log', 1, Len(log))) = Len(log)
      /\ \A i \in 1..Len(log) : SubSeq(log', 1, Len(log))[i] = log[i]
  BY <1>1, <1>2
<1> QED
  BY <1>1, <1>3, SeqEqual

\* Receipts and the past of the log are final, across retries and crashes.
THEOREM HistoryCorrect == Spec => HistoryIsFinal
<1>1. ASSUME IndInv, [Next]_vars
      PROVE  /\ \A c \in CommandId :
                   receipts[c] # NoReceipt => receipts'[c] = receipts[c]
             /\ SubSeq(log', 1, Len(log)) = log
  BY <1>1, KeptStep, LogGrows DEF IndInv, ReceiptsKept
<1> QED
  BY <1>1, Invariance, PTL DEF Spec, HistoryIsFinal

\* A call whose answer did not become ok adds nothing to what clients were told.
LEMMA ToldUnchanged ==
    ASSUME CallType, \A e \in Envelope :
               answer'[e] = answer[e] \/ (answer[e].kind # "ok" /\ answer'[e].kind # "ok")
    PROVE  Told' = Told
BY DEF Told

\* The engine starts where the promise starts.
LEMMA RefinementInit == Init => Log!Init
<1> SUFFICES ASSUME Init PROVE Log!Init
  OBVIOUS
<1>1. Told = {}
  BY DEF Init, Told, Pending, Fail
<1> QED
  BY <1>1 DEF Init, Log!Init

\* Every step of the engine is a step the promise allows, or invisible to it.
LEMMA RefinementStep ==
    ASSUME IndInv, [Next]_vars
    PROVE  [Log!Next]_(Log!vars)
<1>a. CallType /\ LogType
  BY DEF IndInv, CallInv
<1>b. Len(log) \in Nat
  BY DEF IndInv, LogType
<1>0. ASSUME UNCHANGED <<log, receipts, answer>>
      PROVE  UNCHANGED Log!vars
  BY <1>0 DEF Told, Log!vars
<1>1. ASSUME NEW e \in Envelope, Dispatch(e)
      PROVE  UNCHANGED Log!vars
  <2>1. \A d \in Envelope : \/ answer'[d] = answer[d]
                            \/ answer[d].kind # "ok" /\ answer'[d].kind # "ok"
    BY <1>1, <1>a
       DEF Dispatch, Refuse, Admit, CallType, IndInv, CallInv, NothingEarly,
           Pending, Fail
  <2> QED
    BY <1>1, <1>a, <2>1, ToldUnchanged DEF Dispatch, durable, Log!vars
<1>2. ASSUME NEW e \in Envelope, CallerReceives(e)
      PROVE  [Log!Next]_(Log!vars)
  <2> DEFINE c == Command[e]
  <2>1. /\ answer[e] = Pending
        /\ answer' = [answer EXCEPT ![e] = result[e]]
        /\ UNCHANGED <<log, receipts>>
    BY <1>2 DEF CallerReceives, durable
  <2>2. CASE result[e].kind # "ok"
    <3>1. \A d \in Envelope : \/ answer'[d] = answer[d]
                              \/ answer[d].kind # "ok" /\ answer'[d].kind # "ok"
      BY <1>a, <2>1, <2>2 DEF CallType, Pending, Fail
    <3> QED
      BY <1>a, <2>1, <3>1, ToldUnchanged DEF Log!vars
  <2>3. CASE result[e].kind = "ok"
    <3>1. /\ c \in CommandId
          /\ receipts[c] # NoReceipt
          /\ receipts[c].status = "accepted"
          /\ receipts[c].seq = result[e].seq
      BY <2>3, EnvelopeAssumption
         DEF EnvelopeAssumption, IndInv, CallInv, AcceptedIsCommitted, Justified,
             Vouches
    <3>2. answer[e].kind # "ok" /\ answer'[e] = result[e]
          /\ \A d \in Envelope : d # e => answer'[d] = answer[d]
      BY <1>a, <2>1 DEF CallType, Pending, Fail
    <3>3. Told' = Told \cup {<<c, receipts[c].seq>>}
      BY <2>3, <3>1, <3>2 DEF Told
    <3>4. Log!Tell(c)
      BY <2>1, <3>1, <3>3 DEF Log!Tell
    <3> QED
      BY <3>1, <3>4 DEF Log!Next
  <2> QED
    BY <2>2, <2>3
<1>3. ASSUME NEW e \in Envelope, CallerTimesOut(e)
      PROVE  UNCHANGED Log!vars
  <2>1. \A d \in Envelope : \/ answer'[d] = answer[d]
                            \/ answer[d].kind # "ok" /\ answer'[d].kind # "ok"
    BY <1>3, <1>a DEF CallerTimesOut, CallType, Pending, Fail
  <2> QED
    BY <1>3, <1>a, <2>1, ToldUnchanged DEF CallerTimesOut, durable, Log!vars
<1>4. CASE TakeToken \/ TakeEnvelope \/ BuildThrows \/ StartCommand \/ LookUpReceipt
  BY <1>0, <1>4
     DEF TakeToken, TakeEnvelope, BuildThrows, StartCommand, LookUpReceipt,
         durable, calls
<1>5. ASSUME NEW n \in 1..MaxEvents, Commit(n)
      PROVE  Log!Next
  <2>1. current \in Envelope
    BY <1>5 DEF Commit, IndInv, JobInv, Holding
  <2>2. Told' = Told
    BY <1>5 DEF Commit, calls, Told
  <2>3. Log!Commit(current, n)
    BY <1>5, <2>2
       DEF Commit, HasReceipt, Accepted, Log!Commit, Log!Undecided, Log!Accepted
  <2> QED
    BY <2>1, <2>3 DEF Log!Next
<1>6. CASE DecisionRejects \/ TransactionFails \/ AssignReadModel
  BY <1>0, <1>6 DEF DecisionRejects, TransactionFails, AssignReadModel, durable, calls
<1>7. CASE ProjectDeferred \/ DeferredDone \/ PublishNext \/ ReplyAccepted \/ Finish
  BY <1>0, <1>7
     DEF ProjectDeferred, DeferredDone, PublishNext, ReplyAccepted, Finish,
         durable, calls
<1>8. CASE DeadlineStrikes \/ SectionDies \/ Reconcile \/ ReconcileFails
  BY <1>0, <1>8
     DEF DeadlineStrikes, SectionDies, CutShort, Reconcile, ReconcileFails,
         durable, calls
<1>9. CASE ResolveFromReceipt \/ ResolveOther
  BY <1>0, <1>9 DEF ResolveFromReceipt, ResolveOther, durable
<1>10. CASE ResolveRejected
  <2>1. CASE UNCHANGED receipts
    BY <1>0, <1>10, <2>1 DEF ResolveRejected
  <2>2. CASE /\ ~HasReceipt(current)
             /\ receipts' = [receipts EXCEPT
                               ![Command[current]] = Rejected(current, modelSeq)]
    <3>1. current \in Envelope /\ modelSeq \in 0..Len(log)
      BY <1>10 DEF ResolveRejected, IndInv, JobInv, Holding, ViewInv, MemoryType
    <3>2. Told' = Told /\ log' = log
      BY <1>10 DEF ResolveRejected, Told
    <3>3. Log!Reject(current)
      BY <2>2, <3>1, <3>2
         DEF HasReceipt, Rejected, Log!Reject, Log!Undecided, Log!Rejected
    <3> QED
      BY <3>1, <3>3 DEF Log!Next
  <2> QED
    BY <1>10, <2>1, <2>2 DEF ResolveRejected
<1>11. CASE CatchUpStep \/ ControlStep \/ WorkerExits
  BY <1>0, <1>11
     DEF CatchUpStep, CatchUpCheck, CatchUpClear, CatchUpEnd, ControlStep,
         Quiesce, Stop, StopCompletes, RefreshCommandReadModel, RepairState,
         WorkerExits, durable, calls
<1>12. CASE CrashAndRestart
  <2>1. \A d \in Envelope : \/ answer'[d] = answer[d]
                            \/ answer[d].kind # "ok" /\ answer'[d].kind # "ok"
    BY <1>12, <1>a DEF CrashAndRestart, CallType, Pending, Fail
  <2> QED
    BY <1>12, <1>a, <2>1, ToldUnchanged DEF CrashAndRestart, durable, Log!vars
<1>13. CASE UNCHANGED vars
  BY <1>0, <1>13 DEF vars, durable, calls
<1> QED
  BY <1>1, <1>2, <1>3, <1>4, <1>5, <1>6, <1>7, <1>8, <1>9, <1>10, <1>11, <1>12,
     <1>13
     DEF Next, ClientStep, WorkerStep, FaultStep, AllQuiet

\* The engine implements the promise of OrchestrationLog.
THEOREM EngineImplementsLog == Spec => ImplementsLog
<1>1. Init => Log!Init
  BY RefinementInit
<1>2. IndInv /\ [Next]_vars => [Log!Next]_(Log!vars)
  BY RefinementStep
<1> QED
  BY <1>1, <1>2, Invariance, PTL DEF Spec, ImplementsLog, Log!Spec
=============================================================================
