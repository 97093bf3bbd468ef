-------------------------- MODULE EngineCallProofs --------------------------
(***************************************************************************)
(* Theorems about what the orchestration engine owes its callers: an error *)
(* means that nothing was written, and stop leaves no admitted call        *)
(* without its result.  Both need to know where each call is: in one place *)
(* of one lane, in the worker's hands, or answered; and whose events the   *)
(* log holds at each step of the error path.                               *)
(***************************************************************************)
EXTENDS EngineFeedProofs

\* The envelope e is somewhere in the lanes q.
Waits(q, e) == \E l \in Lanes : \E i \in 1..Len(q[l]) : q[l][i] = e

\* Each envelope waits in its own lane, and once.
Sorted(q) ==
    \A l \in Lanes : \A i, j \in 1..Len(q[l]) :
        /\ Lane[q[l][i]] = l
        /\ q[l][i] = q[l][j] => i = j

\* The call was admitted, is not abandoned and has no result yet.
Owed(e) == exec[e] \in {"queued", "in-flight"} /\ result[e] = Pending

InHand(e) == current = e /\ pc \in LockedSteps \cup {"lock"}

\* Whoever is owed a result has not been answered, and waits in a lane or is in
\* the worker's hands.
OwedInv ==
    \A e \in Envelope :
        /\ Waits(lanes, e) => exec[e] \in {"queued", "abandoned"} /\ result[e] = Pending
        /\ exec[e] = "none" => result[e] = Pending
        /\ Owed(e) => answer[e] = Pending /\ (Waits(lanes, e) \/ InHand(e))

HandInv ==
    /\ pc = "lock" =>
        /\ ~Waits(lanes, current)
        /\ exec[current] \in {"queued", "abandoned"}
        /\ result[current] = Pending
    /\ pc \in LockedSteps => exec[current] = "in-flight" /\ result[current] = Pending
    /\ phase = "stopped" => pc = "exited" /\ outstanding = 0

ServiceInv == Sorted(lanes) /\ OwedInv /\ HandInv

\* The call e has an event in the log f.
Wrote(f, e) == \E i \in 1..Len(f) : f[i] = e

\* An error before the commit is of a call that wrote nothing; after it, only the
\* deadline and a defect are possible, and they look the receipt up.
WriterInv ==
    /\ \A e \in Envelope : Wrote(log, e) => exec[e] \in {"in-flight", "closed"}
    /\ pc \in {"receipt", "decide"} => ~Wrote(log, current)
    /\ pc \in {"reconcile", "resolve"} /\ failure \notin {"timeout", "defect"} =>
        ~Wrote(log, current)

\* The receipt could be read and written on every error path so far.
LookupsWork == faults["receipt"] = Budget["receipt"]

VerdictInv ==
    LookupsWork =>
        \A e \in Envelope : Wrote(log, e) =>
            /\ result[e].kind \in {"none", "ok"}
            /\ answer[e].kind \in {"none", "ok", "lost"}

WroteInv == WriterInv /\ VerdictInv

-----------------------------------------------------------------------------
(* Lanes. *)

\* An admitted envelope is added to those that wait.
LEMMA Enqueued ==
    ASSUME NEW q \in [Lanes -> Seq(Envelope)], NEW e \in Envelope,
           Sorted(q), ~Waits(q, e)
    PROVE  LET r == [q EXCEPT ![Lane[e]] = Append(@, e)]
           IN  /\ Sorted(r)
               /\ \A d \in Envelope : Waits(r, d) <=> (Waits(q, d) \/ d = e)
<1> DEFINE k == Lane[e]
           r == [q EXCEPT ![k] = Append(@, e)]
           n == Len(q[k])
<1>1. k \in Lanes /\ q[k] \in Seq(Envelope) /\ n \in Nat
  BY EnvelopeAssumption DEF EnvelopeAssumption
<1>2. /\ Len(r[k]) = n + 1 /\ r[k][n + 1] = e
      /\ \A i \in 1..n : r[k][i] = q[k][i]
      /\ \A l \in Lanes : l # k => r[l] = q[l]
  BY <1>1
<1>3. \A i \in 1..(n + 1) : i \in 1..n \/ i = n + 1
  BY <1>1
<1>4. \A i \in 1..n : i \in 1..(n + 1) /\ i # n + 1
  BY <1>1
<1>5. n + 1 \in 1..(n + 1)
  BY <1>1
<1>6. \A i \in 1..n : Lane[q[k][i]] = k /\ q[k][i] # e
  BY <1>1 DEF Sorted, Waits
<1> HIDE DEF r
<1>7. Sorted(r)
  <2> SUFFICES ASSUME NEW l \in Lanes, NEW i \in 1..Len(r[l]), NEW j \in 1..Len(r[l])
               PROVE  Lane[r[l][i]] = l /\ (r[l][i] = r[l][j] => i = j)
    BY DEF Sorted
  <2>1. CASE l # k
    BY <1>2, <2>1 DEF Sorted
  <2>2. CASE l = k
    <3>1. (i \in 1..n \/ i = n + 1) /\ (j \in 1..n \/ j = n + 1)
      BY <1>2, <1>3, <2>2
    <3> HIDE DEF n, k
    <3>2. i \in 1..n /\ j \in 1..n => (q[k][i] = q[k][j] => i = j)
      BY <1>1 DEF Sorted, n
    <3> QED
      BY <1>2, <1>6, <2>2, <3>1, <3>2 DEF k
  <2> QED
    BY <2>1, <2>2
<1>8. \A d \in Envelope : Waits(r, d) <=> (Waits(q, d) \/ d = e)
  <2> SUFFICES ASSUME NEW d \in Envelope
               PROVE  Waits(r, d) <=> (Waits(q, d) \/ d = e)
    OBVIOUS
  <2>1. ASSUME Waits(r, d) PROVE Waits(q, d) \/ d = e
    <3>1. PICK l \in Lanes : \E i \in 1..Len(r[l]) : r[l][i] = d
      BY <2>1 DEF Waits
    <3> QED
      BY <1>2, <1>3, <3>1 DEF Waits
  <2>2. ASSUME Waits(q, d) PROVE Waits(r, d)
    <3>1. PICK l \in Lanes : \E i \in 1..Len(q[l]) : q[l][i] = d
      BY <2>2 DEF Waits
    <3> QED
      BY <1>2, <1>4, <3>1 DEF Waits
  <2>3. Waits(r, e)
    BY <1>1, <1>2, <1>5 DEF Waits
  <2> QED
    BY <2>1, <2>2, <2>3
<1> QED
  BY <1>7, <1>8 DEF r

\* An envelope taken from its lane waits no more.
LEMMA Dequeued ==
    ASSUME NEW q \in [Lanes -> Seq(Envelope)], NEW k \in Lanes, q[k] # << >>, Sorted(q)
    PROVE  LET r == [q EXCEPT ![k] = Tail(@)]
           IN  /\ Sorted(r)
               /\ Waits(q, Head(q[k]))
               /\ \A d \in Envelope : Waits(r, d) <=> (Waits(q, d) /\ d # Head(q[k]))
<1> DEFINE r == [q EXCEPT ![k] = Tail(@)]
           n == Len(q[k])
           h == Head(q[k])
<1>1. /\ q[k] \in Seq(Envelope) /\ n \in Nat /\ n >= 1 /\ h = q[k][1]
      /\ Len(r[k]) = n - 1
      /\ \A i \in 1..(n - 1) : r[k][i] = q[k][i + 1]
      /\ \A l \in Lanes : l # k => r[l] = q[l]
  OBVIOUS
<1>2. /\ \A i \in 1..(n - 1) : i + 1 \in 1..n /\ i + 1 # 1
      /\ \A i \in 1..n : i = 1 \/ (i - 1 \in 1..(n - 1) /\ (i - 1) + 1 = i)
      /\ \A i, j \in 1..(n - 1) : i + 1 = j + 1 => i = j
      /\ 1 \in 1..n
  BY <1>1
<1>3. /\ \A i \in 1..n : Lane[q[k][i]] = k
      /\ \A i, j \in 1..n : q[k][i] = q[k][j] => i = j
  BY DEF Sorted
<1>4. Lane[h] = k /\ Waits(q, h)
  BY <1>1, <1>2, <1>3 DEF Waits
<1> HIDE DEF r, n, h
<1>5. Sorted(r)
  <2> SUFFICES ASSUME NEW l \in Lanes, NEW i \in 1..Len(r[l]), NEW j \in 1..Len(r[l])
               PROVE  Lane[r[l][i]] = l /\ (r[l][i] = r[l][j] => i = j)
    BY DEF Sorted
  <2>1. CASE l # k
    BY <1>1, <2>1 DEF Sorted
  <2>2. CASE l = k
    <3>1. i \in 1..(n - 1) /\ j \in 1..(n - 1)
      BY <1>1, <2>2
    <3>2. /\ i + 1 \in 1..n /\ j + 1 \in 1..n
          /\ r[l][i] = q[k][i + 1] /\ r[l][j] = q[k][j + 1]
      BY <1>1, <1>2, <2>2, <3>1
    <3> QED
      BY <1>2, <1>3, <2>2, <3>1, <3>2
  <2> QED
    BY <2>1, <2>2
<1>6. ASSUME NEW d \in Envelope, Waits(r, d) PROVE Waits(q, d) /\ d # h
  <2>1. PICK l \in Lanes : \E i \in 1..Len(r[l]) : r[l][i] = d
    BY <1>6 DEF Waits
  <2>2. CASE l = k
    <3>1. PICK i \in 1..(n - 1) : q[k][i + 1] = d
      BY <1>1, <2>1, <2>2
    <3>2. i + 1 \in 1..n /\ i + 1 # 1
      BY <1>2
    <3> QED
      BY <1>1, <1>2, <1>3, <3>1, <3>2 DEF Waits, n
  <2>3. CASE l # k
    BY <1>1, <1>4, <2>1, <2>3 DEF Waits, Sorted
  <2> QED
    BY <2>2, <2>3
<1>7. ASSUME NEW d \in Envelope, Waits(q, d), d # h PROVE Waits(r, d)
  <2>1. PICK l \in Lanes : \E i \in 1..Len(q[l]) : q[l][i] = d
    BY <1>7 DEF Waits
  <2>2. CASE l = k
    <3>1. PICK i \in 1..n : q[k][i] = d
      BY <2>1, <2>2 DEF n
    <3>2. i - 1 \in 1..(n - 1) /\ (i - 1) + 1 = i
      BY <1>1, <1>2, <1>7, <3>1
    <3>3. r[k][i - 1] = d
      BY <1>1, <3>1, <3>2
    <3> QED
      BY <1>1, <3>2, <3>3 DEF Waits
  <2>3. CASE l # k
    BY <1>1, <2>1, <2>3 DEF Waits
  <2> QED
    BY <2>2, <2>3
<1> QED
  BY <1>4, <1>5, <1>6, <1>7 DEF r, h

-----------------------------------------------------------------------------
(* Where each call is. *)

\* A call given its result is no longer in the worker's hands.
LEMMA Replied ==
    ASSUME CallType, ServiceInv, current \in Envelope,
           pc \in LockedSteps \cup {"lock"},
           NEW o, o # Pending, result' = [result EXCEPT ![current] = o],
           pc' = "finish", UNCHANGED <<lanes, exec, answer, phase>>
    PROVE  ServiceInv'
<1> USE DEF LockedSteps, TimedSteps
<1>1. exec[current] # "none" /\ ~Waits(lanes, current)
  BY DEF ServiceInv, HandInv, OwedInv
<1>2. \A e \in Envelope : result'[e] = IF e = current THEN o ELSE result[e]
  BY DEF CallType
<1>3. OwedInv'
  BY <1>1, <1>2 DEF ServiceInv, OwedInv, Owed, InHand
<1>4. phase' # "stopped"
  BY DEF ServiceInv, HandInv
<1> QED
  BY <1>3, <1>4 DEF ServiceInv, HandInv

\* A step of the worker inside the lock, without a reply.
LEMMA Working ==
    ASSUME ServiceInv, pc \in LockedSteps, pc' \in LockedSteps,
           UNCHANGED <<lanes, phase, calls, current>>
    PROVE  ServiceInv'
<1> USE DEF LockedSteps, TimedSteps
<1>1. phase' # "stopped"
  BY DEF ServiceInv, HandInv
<1> QED
  BY <1>1 DEF ServiceInv, OwedInv, HandInv, Owed, InHand, calls

\* A reply is not the mark of a missing reply.
LEMMA RepliesExist ==
    ASSUME NEW e, NEW n
    PROVE  Ok(n) # Pending /\ StoredOutcome(e) # Pending /\ UnresolvedReply # Pending
BY DEF Ok, Fail, Pending, StoredOutcome, UnresolvedReply

LEMMA DispatchService ==
    ASSUME IndInv, ServiceInv, NEW e \in Envelope, Dispatch(e)
    PROVE  ServiceInv'
<1>a. /\ exec \in [Envelope -> {"none", "queued", "in-flight", "abandoned", "closed"}]
      /\ answer \in [Envelope -> Outcomes] /\ lanes \in [Lanes -> Seq(Envelope)]
  BY DEF IndInv, CallInv, CallType, AdmissionInv, QueueType
<1>b. exec[e] = "none" /\ ~Waits(lanes, e) /\ result[e] = Pending
  BY DEF Dispatch, ServiceInv, OwedInv
<1>c. UNCHANGED <<result, pc, current, phase>>
  BY DEF Dispatch, job
<1>d. answer[e] = Pending
  BY <1>b DEF IndInv, CallInv, NothingEarly
<1>e. pc \in LockedSteps \cup {"lock"} => current # e
  BY <1>b DEF ServiceInv, HandInv, LockedSteps, TimedSteps
<1>1. ASSUME NEW kind, Refuse(e, kind) PROVE ServiceInv'
  <2>1. \A d \in Envelope : /\ exec'[d] = IF d = e THEN "closed" ELSE exec[d]
                            /\ d # e => answer'[d] = answer[d]
    BY <1>a, <1>1 DEF Refuse
  <2>2. lanes' = lanes /\ outstanding' = outstanding
    BY <1>1 DEF Refuse
  <2>3. OwedInv'
    BY <1>b, <1>c, <2>1, <2>2 DEF ServiceInv, OwedInv, Owed, InHand
  <2>4. HandInv'
    BY <1>a, <1>b, <1>c, <1>e, <1>1, <2>2 DEF ServiceInv, HandInv, Refuse, LockedSteps, TimedSteps
  <2> QED
    BY <2>2, <2>3, <2>4 DEF ServiceInv
<1>2. CASE ~Refusing(e) /\ Admit(e)
  <2>1. \A d \in Envelope : exec'[d] = IF d = e THEN "queued" ELSE exec[d]
    BY <1>a, <1>2 DEF Admit
  <2>2. /\ Sorted(lanes')
        /\ \A d \in Envelope : Waits(lanes', d) <=> (Waits(lanes, d) \/ d = e)
    BY <1>a, <1>b, <1>2, Enqueued DEF ServiceInv, Admit
  <2>3. answer' = answer /\ phase' # "stopped"
    BY <1>2, <1>c DEF Admit, Refusing
  <2>4. OwedInv'
    BY <1>b, <1>c, <1>d, <2>1, <2>2, <2>3 DEF ServiceInv, OwedInv, Owed, InHand
  <2>5. pc \in LockedSteps \cup {"lock"} => current \in Envelope
    BY DEF IndInv, JobInv, Holding, LockedSteps, TimedSteps
  <2>6. HandInv'
    BY <1>c, <1>e, <2>1, <2>2, <2>3, <2>5
       DEF ServiceInv, HandInv, LockedSteps, TimedSteps
  <2> QED
    BY <2>2, <2>4, <2>6 DEF ServiceInv
<1> QED
  BY <1>1, <1>2 DEF Dispatch

LEMMA CallerService ==
    ASSUME IndInv, ServiceInv, NEW e \in Envelope, CallerReceives(e) \/ CallerTimesOut(e)
    PROVE  ServiceInv'
<1>a. /\ exec \in [Envelope -> {"none", "queued", "in-flight", "abandoned", "closed"}]
      /\ answer \in [Envelope -> Outcomes]
  BY DEF IndInv, CallInv, CallType
<1>b. UNCHANGED <<result, pc, current, phase, lanes, outstanding>>
  BY DEF CallerReceives, CallerTimesOut, job, queues
<1>1. \A d \in Envelope : d # e => answer'[d] = answer[d] /\ exec'[d] = exec[d]
  BY <1>a DEF CallerReceives, CallerTimesOut
<1>2. \/ result[e] # Pending /\ exec' = exec
      \/ exec[e] = "queued" /\ exec'[e] = "abandoned" /\ result[e] = Pending
  BY <1>a DEF CallerReceives, CallerTimesOut
<1>3. OwedInv'
  BY <1>b, <1>1, <1>2 DEF ServiceInv, OwedInv, Owed, InHand
<1>4. HandInv'
  <2>1. pc \in LockedSteps \cup {"lock"} => current \in Envelope
    BY DEF IndInv, JobInv, Holding, LockedSteps, TimedSteps
  <2> QED
    BY <1>b, <1>1, <1>2, <2>1 DEF ServiceInv, HandInv, LockedSteps, TimedSteps
<1> QED
  BY <1>b, <1>3, <1>4 DEF ServiceInv

LEMMA TakeService ==
    ASSUME IndInv, ServiceInv, TakeEnvelope
    PROVE  ServiceInv'
<1> DEFINE k == NextLane
<1>a. lanes \in [Lanes -> Seq(Envelope)] /\ k \in Lanes /\ lanes[k] # << >>
  BY DEF IndInv, AdmissionInv, QueueType, TakeEnvelope, NextLane, Lanes
<1>b. /\ current' = Head(lanes[k]) /\ lanes' = [lanes EXCEPT ![k] = Tail(@)]
      /\ UNCHANGED <<exec, result, answer, phase>>
      /\ pc = "poll" /\ pc' = "lock"
  BY DEF TakeEnvelope, calls, Goto
<1> HIDE DEF k
<1>1. /\ Sorted(lanes') /\ Waits(lanes, current')
      /\ \A d \in Envelope : Waits(lanes', d) <=> (Waits(lanes, d) /\ d # current')
  BY <1>a, <1>b, Dequeued DEF ServiceInv
<1>2. current' \in Envelope
  BY <1>a, <1>b
<1>3. phase' # "stopped" /\ \A e \in Envelope : ~InHand(e)
  BY <1>b DEF ServiceInv, HandInv, InHand, LockedSteps, TimedSteps
<1>4. OwedInv'
  BY <1>b, <1>1, <1>2, <1>3 DEF ServiceInv, OwedInv, Owed, InHand
<1>5. HandInv'
  BY <1>b, <1>1, <1>2, <1>3 DEF ServiceInv, OwedInv, HandInv, LockedSteps, TimedSteps
<1> QED
  BY <1>1, <1>4, <1>5 DEF ServiceInv

LEMMA StartService ==
    ASSUME IndInv, ServiceInv, StartCommand
    PROVE  ServiceInv'
<1> USE DEF LockedSteps, TimedSteps
<1>a. /\ exec \in [Envelope -> {"none", "queued", "in-flight", "abandoned", "closed"}]
      /\ current \in Envelope
  BY DEF IndInv, CallInv, CallType, JobInv, Holding, StartCommand
<1>b. /\ UNCHANGED <<result, answer, phase, lanes, current>> /\ pc = "lock"
      /\ phase # "stopped"
  BY DEF StartCommand, queues, ServiceInv, HandInv
<1>1. CASE exec[current] = "abandoned"
  BY <1>b, <1>1
     DEF StartCommand, Goto, ServiceInv, OwedInv, HandInv, Owed, InHand
<1>2. CASE exec[current] = "queued"
  <2>1. /\ \A e \in Envelope : exec'[e] = IF e = current THEN "in-flight" ELSE exec[e]
        /\ pc' \in {"receipt", "reconcile"}
    BY <1>a, <1>2 DEF StartCommand, Goto, FailWith
  <2>2. ~Waits(lanes, current) /\ result[current] = Pending
    BY <1>b DEF ServiceInv, HandInv
  <2>3. OwedInv'
    BY <1>a, <1>b, <1>2, <2>1, <2>2 DEF ServiceInv, OwedInv, Owed, InHand
  <2> QED
    BY <1>a, <1>b, <2>1, <2>2, <2>3 DEF ServiceInv, HandInv
<1> QED
  BY <1>1, <1>2 DEF StartCommand

LEMMA CrashService ==
    ASSUME IndInv, ServiceInv, CrashAndRestart
    PROVE  ServiceInv'
<1>1. /\ lanes' = [l \in Lanes |-> << >>] /\ result' = result
      /\ exec' = [e \in Envelope |-> IF exec[e] = "none" THEN "none" ELSE "closed"]
      /\ pc' = "take" /\ phase' = "running"
  BY DEF CrashAndRestart
<1>2. Sorted(lanes') /\ \A e \in Envelope : ~Waits(lanes', e)
  BY <1>1 DEF Sorted, Waits
<1> QED
  BY <1>1, <1>2
     DEF ServiceInv, OwedInv, HandInv, Owed, InHand, LockedSteps, TimedSteps

\* No step loses a call or answers it twice.
LEMMA ServiceStep ==
    ASSUME IndInv, ServiceInv, [Next]_vars
    PROVE  ServiceInv'
<1> USE DEF LockedSteps, TimedSteps, Goto
<1>a. CallType /\ WorkerType
  BY DEF IndInv, CallInv
<1>b. Holding => current \in Envelope
  BY DEF IndInv, JobInv
<1>k. ASSUME UNCHANGED <<lanes, calls, phase, pc, current, outstanding>>
      PROVE  ServiceInv'
  BY <1>k DEF ServiceInv, OwedInv, HandInv, Owed, InHand, calls
<1>r. ASSUME pc \in LockedSteps \cup {"lock"}, pc' = "finish",
             NEW o, o # Pending, Reply(o), UNCHANGED <<queues, exec, answer>>
      PROVE  ServiceInv'
  BY <1>a, <1>b, <1>r, Replied DEF Reply, queues, Holding
<1>1. ASSUME NEW e \in Envelope, ClientStep(e) PROVE ServiceInv'
  BY <1>1, DispatchService, CallerService DEF ClientStep
<1>2. CASE TakeToken \/ WorkerExits
  BY <1>2
     DEF TakeToken, WorkerExits, ServiceInv, OwedInv, HandInv, Owed, InHand, calls, job,
         queues
<1>3. CASE TakeEnvelope
  BY <1>3, TakeService
<1>4. CASE StartCommand
  BY <1>4, StartService
<1>5. CASE BuildThrows
  <2>1. Fail("internal") # Pending
    BY DEF Fail, Pending
  <2> QED
    BY <1>5, <1>r, <2>1 DEF BuildThrows
<1>6. CASE LookUpReceipt
  <2>1. CASE pc' = "finish"
    <3>1. Reply(StoredOutcome(current)) /\ UNCHANGED <<queues, exec, answer>> /\ pc = "receipt"
      BY <1>6, <2>1 DEF LookUpReceipt, FailWith
    <3> QED
      BY <1>r, <2>1, <3>1, RepliesExist
  <2>2. CASE pc' # "finish"
    BY <1>6, <2>2, Working DEF LookUpReceipt, FailWith, queues, calls
  <2> QED
    BY <2>1, <2>2
<1>7. ASSUME NEW n \in 1..MaxEvents, Commit(n) PROVE ServiceInv'
  BY <1>7, Working DEF Commit, queues
<1>8. CASE \/ DecisionRejects \/ TransactionFails \/ DeadlineStrikes \/ SectionDies
           \/ AssignReadModel \/ ProjectDeferred \/ DeferredDone
  BY <1>8, Working
     DEF DecisionRejects, TransactionFails, DeadlineStrikes, SectionDies, CutShort,
         FailWith, AssignReadModel, ProjectDeferred, DeferredDone, queues, job
<1>9. CASE PublishNext \/ Reconcile \/ ReconcileFails
  BY <1>9, Working DEF PublishNext, Reconcile, ReconcileFails, queues, job
<1>10. CASE ReplyAccepted
  BY <1>10, <1>r, RepliesExist DEF ReplyAccepted
<1>11. CASE ResolveFromReceipt \/ ResolveRejected \/ ResolveOther
  <2>1. /\ Reply(StoredOutcome(current)) \/ Reply(UnresolvedReply)
        /\ UNCHANGED <<queues, exec, answer>> /\ pc = "resolve" /\ pc' = "finish"
    BY <1>11 DEF ResolveFromReceipt, ResolveRejected, ResolveOther
  <2> QED
    BY <1>r, <2>1, RepliesExist
<1>12. CASE Finish
  BY <1>12
     DEF Finish, ServiceInv, OwedInv, HandInv, Owed, InHand, calls, queues
<1>13. CASE CatchUpStep \/ RefreshCommandReadModel \/ RepairState
  BY <1>13, <1>k
     DEF CatchUpStep, CatchUpCheck, CatchUpClear, CatchUpEnd, RefreshCommandReadModel,
         RepairState, queues, job
<1>14. CASE Quiesce \/ Stop \/ StopCompletes
  BY <1>14
     DEF Quiesce, Stop, StopCompletes, ServiceInv, OwedInv, HandInv, Owed, InHand, calls,
         job
<1>15. CASE CrashAndRestart
  BY <1>15, CrashService
<1>16. CASE UNCHANGED vars
  BY <1>16, <1>k DEF vars, queues, job
<1> QED
  BY <1>1, <1>2, <1>3, <1>4, <1>5, <1>6, <1>7, <1>8, <1>9, <1>10, <1>11, <1>12,
     <1>13, <1>14, <1>15, <1>16
     DEF Next, WorkerStep, FaultStep, ControlStep, AllQuiet

-----------------------------------------------------------------------------
(* Whose events the log holds. *)

\* The receipt of a call that wrote says so.
LEMMA WriterIsTold ==
    ASSUME LogType, ReceiptsMatchLog, NEW e \in Envelope, Wrote(log, e)
    PROVE  HasReceipt(e) /\ StoredOutcome(e).kind = "ok"
<1>1. PICK i \in Seqs : log[i] = e
  BY DEF Wrote, Seqs
<1>2. /\ receipts[Command[e]] # NoReceipt
      /\ receipts[Command[e]].status = "accepted"
      /\ receipts[Command[e]].by = e
  BY <1>1 DEF ReceiptsMatchLog
<1> QED
  BY <1>2 DEF HasReceipt, StoredOutcome, Ok

\* A block of events of one call is of that call.
LEMMA BlockWrites ==
    ASSUME NEW f \in Seq(Envelope), NEW c \in Envelope, NEW n \in Nat
    PROVE  \A e \in Envelope : Wrote(f \o [i \in 1..n |-> c], e) => Wrote(f, e) \/ e = c
<1> DEFINE g == f \o [i \in 1..n |-> c]
           m == Len(f)
<1>1. /\ m \in Nat /\ Len(g) = m + n
      /\ \A i \in 1..m : g[i] = f[i]
      /\ \A i \in (m + 1)..(m + n) : g[i] = c
  BY BlockAppended
<1>2. \A i \in 1..(m + n) : i \in 1..m \/ i \in (m + 1)..(m + n)
  BY <1>1
<1> HIDE DEF g
<1>3. \A e \in Envelope : Wrote(g, e) => Wrote(f, e) \/ e = c
  BY <1>1, <1>2 DEF Wrote
<1> QED
  BY <1>3 DEF g

\* No step lets a call that wrote be told otherwise.
LEMMA WriterStep ==
    ASSUME IndInv, ServiceInv, WriterInv, [Next]_vars
    PROVE  WriterInv'
<1> USE DEF LockedSteps, TimedSteps, Goto
<1>a. /\ exec \in [Envelope -> {"none", "queued", "in-flight", "abandoned", "closed"}]
      /\ log \in Seq(Envelope) /\ Len(log) \in Nat
  BY DEF IndInv, CallInv, CallType, LogType
<1>b. Holding => current \in Envelope
  BY DEF IndInv, JobInv
<1>k. ASSUME UNCHANGED <<log, exec, pc, current, failure>>
      PROVE  WriterInv'
  BY <1>k DEF WriterInv
<1>x. ASSUME UNCHANGED <<log, exec, current>>, pc' \notin {"receipt", "reconcile", "resolve"},
             pc' = "decide" => pc = "receipt"
      PROVE  WriterInv'
  BY <1>x DEF WriterInv
<1>1. ASSUME NEW e \in Envelope, ClientStep(e) PROVE WriterInv'
  <2>1. \A d \in Envelope : exec[d] \in {"in-flight", "closed"} => exec'[d] = exec[d]
    BY <1>a, <1>1
       DEF ClientStep, Dispatch, Refuse, Admit, CallerReceives, CallerTimesOut
  <2>2. UNCHANGED <<log, pc, current, failure>>
    BY <1>1 DEF ClientStep, Dispatch, CallerReceives, CallerTimesOut, durable, job
  <2> QED
    BY <2>1, <2>2 DEF WriterInv
<1>2. CASE TakeToken \/ WorkerExits \/ BuildThrows \/ ReplyAccepted
  BY <1>2, <1>x DEF TakeToken, WorkerExits, BuildThrows, ReplyAccepted, durable, calls, job
<1>3. CASE TakeEnvelope \/ Finish
  BY <1>3 DEF TakeEnvelope, Finish, WriterInv, durable, calls
<1>4. CASE StartCommand
  <2>1. /\ current \in Envelope /\ UNCHANGED <<log, current>>
        /\ \/ exec[current] = "abandoned" /\ exec' = exec /\ pc' = "finish"
           \/ /\ exec[current] = "queued" /\ exec' = [exec EXCEPT ![current] = "in-flight"]
              /\ pc' = "receipt" \/ (pc' = "reconcile" /\ failure' = "timeout")
    BY <1>b, <1>4 DEF StartCommand, Holding, FailWith, durable
  <2> QED
    BY <1>a, <2>1 DEF WriterInv
<1>5. CASE LookUpReceipt \/ DecisionRejects \/ TransactionFails
  BY <1>5
     DEF LookUpReceipt, DecisionRejects, TransactionFails, FailWith, WriterInv, durable, calls
<1>6. ASSUME NEW n \in 1..MaxEvents, Commit(n) PROVE WriterInv'
  <2>1. /\ current \in Envelope /\ exec[current] = "in-flight"
        /\ exec' = exec /\ pc' = "assign"
        /\ log' = log \o [i \in 1..n |-> current]
    BY <1>b, <1>6 DEF Commit, Holding, calls, ServiceInv, HandInv
  <2>2. \A e \in Envelope : Wrote(log', e) => Wrote(log, e) \/ e = current
    BY <1>a, <2>1, BlockWrites
  <2> QED
    BY <2>1, <2>2 DEF WriterInv
<1>7. CASE DeadlineStrikes \/ SectionDies
  BY <1>7 DEF DeadlineStrikes, SectionDies, CutShort, FailWith, WriterInv, durable, calls
<1>8. CASE AssignReadModel \/ ProjectDeferred \/ DeferredDone \/ PublishNext
  BY <1>8, <1>x
     DEF AssignReadModel, ProjectDeferred, DeferredDone, PublishNext, durable, calls, job
<1>9. CASE Reconcile \/ ReconcileFails
  BY <1>9 DEF Reconcile, ReconcileFails, WriterInv, durable, calls, job
<1>10. CASE ResolveFromReceipt \/ ResolveRejected \/ ResolveOther
  BY <1>10, <1>x
     DEF ResolveFromReceipt, ResolveRejected, ResolveOther, durable, job
<1>11. CASE CatchUpStep \/ ControlStep
  BY <1>11, <1>k
     DEF CatchUpStep, CatchUpCheck, CatchUpClear, CatchUpEnd, ControlStep, Quiesce, Stop,
         StopCompletes, RefreshCommandReadModel, RepairState, durable, calls, job
<1>12. CASE CrashAndRestart
  BY <1>12 DEF CrashAndRestart, WriterInv, durable
<1>13. CASE UNCHANGED vars
  BY <1>13, <1>k DEF vars, durable, calls, job
<1> QED
  BY <1>1, <1>2, <1>3, <1>4, <1>5, <1>6, <1>7, <1>8, <1>9, <1>10, <1>11, <1>12, <1>13
     DEF Next, WorkerStep, FaultStep, AllQuiet

\* As long as receipts can be read and written, a call that wrote is told so.
LEMMA VerdictStep ==
    ASSUME IndInv, FaultsInv, ServiceInv, WriterInv, VerdictInv, LookupsWork, LookupsWork',
           [Next]_vars
    PROVE  VerdictInv'
<1> USE DEF LockedSteps, TimedSteps, Goto
<1>a. /\ exec \in [Envelope -> {"none", "queued", "in-flight", "abandoned", "closed"}]
      /\ result \in [Envelope -> Outcomes] /\ answer \in [Envelope -> Outcomes]
      /\ log \in Seq(Envelope) /\ Len(log) \in Nat
  BY DEF IndInv, CallInv, CallType, LogType
<1>b. Holding => current \in Envelope
  BY DEF IndInv, JobInv
<1>c. \A e \in Envelope : Wrote(log, e) =>
        /\ result[e].kind \in {"none", "ok"}
        /\ answer[e].kind \in {"none", "ok", "lost"}
  BY DEF VerdictInv
<1>k. ASSUME UNCHANGED <<log, result, answer>>
      PROVE  VerdictInv'
  BY <1>c, <1>k DEF VerdictInv
<1>r. ASSUME pc \in LockedSteps \cup {"lock"}, NEW o, Reply(o),
             Wrote(log, current) => o.kind = "ok", UNCHANGED <<log, answer>>
      PROVE  VerdictInv'
  <2>1. current \in Envelope
    BY <1>b, <1>r DEF Holding
  <2> QED
    BY <1>a, <1>c, <1>r, <2>1 DEF VerdictInv, Reply
<1>w. WriterInv
  OBVIOUS
<1>1. ASSUME NEW e \in Envelope, ClientStep(e) PROVE VerdictInv'
  <2>1. CASE Dispatch(e) \/ CallerTimesOut(e)
    <3>1. ~Wrote(log, e)
      BY <1>w, <2>1 DEF Dispatch, CallerTimesOut, WriterInv
    <3>2. /\ UNCHANGED <<log, result>>
          /\ \A d \in Envelope : d # e => answer'[d] = answer[d]
      BY <1>a, <2>1 DEF Dispatch, Refuse, Admit, CallerTimesOut, durable
    <3> QED
      BY <1>c, <3>1, <3>2 DEF VerdictInv
  <2>2. CASE CallerReceives(e)
    <3>1. /\ UNCHANGED <<log, result>>
          /\ answer' = [answer EXCEPT ![e] = result[e]]
      BY <2>2 DEF CallerReceives, durable
    <3> QED
      BY <1>a, <1>c, <3>1 DEF VerdictInv
  <2> QED
    BY <1>1, <2>1, <2>2 DEF ClientStep
<1>2. CASE \/ TakeToken \/ WorkerExits \/ TakeEnvelope \/ Finish \/ StartCommand
           \/ DecisionRejects \/ TransactionFails \/ DeadlineStrikes \/ SectionDies
  BY <1>2, <1>k
     DEF TakeToken, WorkerExits, TakeEnvelope, Finish, StartCommand, DecisionRejects,
         TransactionFails, DeadlineStrikes, SectionDies, CutShort, durable, calls
<1>3. CASE \/ AssignReadModel \/ ProjectDeferred \/ DeferredDone \/ PublishNext
           \/ Reconcile \/ ReconcileFails
  BY <1>3, <1>k
     DEF AssignReadModel, ProjectDeferred, DeferredDone, PublishNext, Reconcile,
         ReconcileFails, durable, calls
<1>4. CASE CatchUpStep \/ ControlStep \/ UNCHANGED vars
  BY <1>4, <1>k
     DEF CatchUpStep, CatchUpCheck, CatchUpClear, CatchUpEnd, ControlStep, Quiesce, Stop,
         StopCompletes, RefreshCommandReadModel, RepairState, durable, calls, vars
<1>5. CASE BuildThrows
  <2>1. current \in Envelope /\ ~Wrote(log, current)
    BY <1>b, <1>w, <1>5 DEF BuildThrows, Holding, WriterInv, ServiceInv, HandInv
  <2> QED
    BY <1>5, <1>r, <2>1 DEF BuildThrows, durable
<1>6. CASE LookUpReceipt
  <2>1. CASE UNCHANGED result
    BY <1>6, <1>k, <2>1 DEF LookUpReceipt, durable
  <2>2. CASE Reply(StoredOutcome(current))
    <3>1. ~Wrote(log, current)
      BY <1>w, <1>6 DEF LookUpReceipt, WriterInv
    <3> QED
      BY <1>6, <1>r, <2>2, <3>1 DEF LookUpReceipt, durable
  <2> QED
    BY <1>6, <2>1, <2>2 DEF LookUpReceipt
<1>7. ASSUME NEW n \in 1..MaxEvents, Commit(n) PROVE VerdictInv'
  <2>1. /\ current \in Envelope /\ exec[current] = "in-flight" /\ result[current] = Pending
        /\ UNCHANGED <<result, answer>>
        /\ log' = log \o [i \in 1..n |-> current]
    BY <1>b, <1>7 DEF Commit, Holding, calls, ServiceInv, HandInv
  <2>2. \A e \in Envelope : Wrote(log', e) => Wrote(log, e) \/ e = current
    BY <1>a, <2>1, BlockWrites
  <2>3. answer[current] = Pending
    BY <2>1 DEF ServiceInv, OwedInv, Owed
  <2> QED
    BY <1>c, <2>1, <2>2, <2>3 DEF VerdictInv, Pending, Fail
<1>8. CASE ReplyAccepted
  BY <1>8, <1>r DEF ReplyAccepted, Ok, durable
<1>9. CASE ResolveFromReceipt
  <2>1. ~Strike("receipt")
    BY Spent DEF LookupsWork, Faults, IndInv, ViewInv
  <2>2. LogType /\ ReceiptsMatchLog /\ current \in Envelope
    BY <1>b, <1>9 DEF ResolveFromReceipt, Holding, IndInv
  <2>3. /\ UNCHANGED <<log, answer>> /\ pc = "resolve"
        /\ \/ Reply(StoredOutcome(current))
           \/ ~HasReceipt(current) /\ Reply(UnresolvedReply)
    BY <1>9, <2>1 DEF ResolveFromReceipt, durable
  <2> QED
    BY <1>r, <2>2, <2>3, WriterIsTold
<1>10. CASE ResolveRejected \/ ResolveOther
  <2>1. /\ UNCHANGED <<log, answer>> /\ pc = "resolve" /\ Reply(UnresolvedReply)
        /\ failure \notin {"timeout", "defect"}
    BY <1>10 DEF ResolveRejected, ResolveOther, durable
  <2>2. ~Wrote(log, current)
    BY <1>w, <2>1 DEF WriterInv
  <2> QED
    BY <1>r, <2>1, <2>2
<1>11. CASE CrashAndRestart
  <2>1. /\ UNCHANGED <<log, result>>
        /\ \A e \in Envelope : answer'[e] = answer[e] \/ answer'[e] = Fail("lost")
    BY <1>11 DEF CrashAndRestart, durable
  <2> QED
    BY <1>c, <2>1 DEF VerdictInv, Fail
<1> QED
  BY <1>1, <1>2, <1>3, <1>4, <1>5, <1>6, <1>7, <1>8, <1>9, <1>10, <1>11
     DEF Next, WorkerStep, FaultStep, AllQuiet

-----------------------------------------------------------------------------
(* Theorems. *)

LEMMA CallInvariance == Spec => [](IndInv /\ FaultsInv /\ ServiceInv /\ WroteInv)
<1>1. Init => ServiceInv /\ WroteInv
  <2> SUFFICES ASSUME Init PROVE ServiceInv /\ WroteInv
    OBVIOUS
  <2>1. Sorted(lanes) /\ \A e : ~Waits(lanes, e) /\ ~Wrote(log, e)
    BY DEF Init, Sorted, Waits, Wrote
  <2>2. OwedInv /\ HandInv
    BY <2>1 DEF Init, OwedInv, HandInv, Owed, InHand, LockedSteps, TimedSteps
  <2> QED
    BY <2>1, <2>2 DEF Init, ServiceInv, WroteInv, WriterInv, VerdictInv
<1>2. IndInv /\ IndInv' /\ FaultsInv /\ ServiceInv /\ WroteInv /\ [Next]_vars
        => ServiceInv' /\ WroteInv'
  <2> SUFFICES ASSUME IndInv, IndInv', FaultsInv, ServiceInv, WroteInv, [Next]_vars
               PROVE  ServiceInv' /\ WroteInv'
    OBVIOUS
  <2>1. LookupsWork' => LookupsWork
    BY FaultsStep DEF IndInv, ViewInv, LookupsWork, Faults
  <2>2. ServiceInv' /\ WriterInv'
    BY ServiceStep, WriterStep DEF WroteInv
  <2>3. VerdictInv'
    <3>1. CASE LookupsWork'
      BY <2>1, <3>1, VerdictStep DEF WroteInv
    <3>2. CASE ~LookupsWork'
      BY <3>2 DEF VerdictInv
    <3> QED
      BY <3>1, <3>2
  <2> QED
    BY <2>2, <2>3 DEF WroteInv
<1>3. Spec => [](IndInv /\ FaultsInv)
  BY ShownInvariance, PTL
<1> QED
  BY <1>1, <1>2, <1>3, PTL DEF Spec

\* A call that was told of an error, by its own timer or by the engine, has no
\* event in the log and will have none, as long as no receipt lookup failed.
THEOREM ErrorsAreTrue == Spec => []FailureWroteNothing
<1>1. WroteInv => FailureWroteNothing
  BY DEF WroteInv, VerdictInv, LookupsWork, FailureWroteNothing, Wrote, Seqs
<1> QED
  BY <1>1, CallInvariance, PTL

\* A stopped engine owes nobody a result: whoever was admitted has been answered.
THEOREM StopOwesNothing == Spec => []StopDrains
<1>1. ASSUME IndInv, ServiceInv, phase = "stopped", NEW e \in Envelope
      PROVE  ~Owed(e)
  <2>1. pc = "exited" /\ outstanding = 0
    BY <1>1 DEF ServiceInv, HandInv
  <2>2. Queued = 0
    <3>1. lanes \in [Lanes -> Seq(Envelope)] /\ Queued \in Nat
      BY <1>1 DEF IndInv, AdmissionInv, QueueType, Queued, Lanes
    <3> QED
      BY <1>1, <2>1, <3>1 DEF IndInv, AdmissionInv, AdmissionAccounting, Holding
  <2>3. \A l \in Lanes : Len(lanes[l]) = 0
    BY <1>1, <2>2 DEF IndInv, AdmissionInv, QueueType, Queued, Lanes
  <2>4. ~Waits(lanes, e)
    BY <2>3 DEF Waits
  <2> QED
    BY <1>1, <2>1, <2>4
       DEF ServiceInv, OwedInv, InHand, LockedSteps, TimedSteps
<1>2. IndInv /\ ServiceInv => StopDrains
  BY <1>1 DEF StopDrains, Owed
<1> QED
  BY <1>2, CallInvariance, PTL
=============================================================================
