------------------------ MODULE OrchestrationEngine ------------------------
(***************************************************************************)
(* The orchestration engine of the server:                                 *)
(* apps/server/src/orchestration/Layers/OrchestrationEngine.ts with its    *)
(* admission queues (orchestrationAdmission.ts), its receipts and event    *)
(* store, and the deferred phase of ProjectionPipeline.ts.                 *)
(*                                                                         *)
(* Clients dispatch commands.  One worker fiber takes them by priority and *)
(* runs each under the maintenance lock: receipt lookup, decision, commit  *)
(* of events and receipt in one transaction, deferred projection,          *)
(* publication, reply.  A deadline or a defect may cut that short at any   *)
(* step; what was committed is then reconciled and the receipt decides     *)
(* the reply.  A supervised fiber catches the deferred projection up.      *)
(*                                                                         *)
(* A step of the worker is what runs between two points where the fiber    *)
(* can be interrupted or another fiber can act.  Time is abstracted: a     *)
(* deadline may strike at any of those points.                             *)
(***************************************************************************)
EXTENDS Integers, Sequences, FiniteSets

CONSTANTS
    Envelope,      \* dispatch calls; each is made at most once
    CommandId,     \* ids of commands; a retry is another call, same id
    Command,       \* [Envelope -> CommandId]
    Content,       \* [Envelope -> fingerprint of the command's content]
    Owner,         \* [Envelope -> principal whose attachments it carries]
    Lane,          \* [Envelope -> Lanes]
    Capacity,      \* ORCHESTRATION_COMMAND_QUEUE_CAPACITY
    Reserve,       \* ORCHESTRATION_COMMAND_CONTROL_RESERVE
    MaxEvents,     \* bound: events the decider returns for one command
    Budget,        \* bound: [Faults -> Nat], how often each fault may strike
    NoReceipt,     \* no row in orchestration_command_receipts
    NoEnvelope     \* the worker holds nothing

Lanes == {"control", "user", "normal"}

\* deadline: the timed section is interrupted.  defect: a fiber dies in it.
\* sql: a statement of the transaction or of the receipt lookup before it
\* fails.  receipt: the receipt cannot be read or written on the error path.
\* reconcile: the log cannot be re-read on the error path.  projection: a
\* deferred projection or a bootstrap fails.  crash: the process dies.
\* impatience: a caller's own timer fires.  maintenance: a repair or a
\* refresh of the read model is requested.
Faults == {"deadline", "defect", "sql", "receipt", "reconcile", "projection",
           "crash", "impatience", "maintenance"}

ASSUME CapacityAssumption ==
    Capacity \in Nat /\ Reserve \in Nat /\ 0 < Reserve /\ Reserve < Capacity

ASSUME EnvelopeAssumption ==
    /\ Command \in [Envelope -> CommandId]
    /\ Lane \in [Envelope -> Lanes]
    /\ NoEnvelope \notin Envelope

ASSUME BoundAssumption ==
    MaxEvents \in Nat \ {0} /\ Budget \in [Faults -> Nat]

ASSUME NoReceiptAssumption ==
    NoReceipt \notin [status : {"accepted", "rejected"}, seq : Nat, by : Envelope]

VARIABLES
    (* durable: the database *)
    log,           \* orchestration_events, as the envelope behind each event
    receipts,      \* orchestration_command_receipts
    shellCursor,   \* last_applied_sequence of thread-shell-summaries
    shellSeen,     \* sequences that projector has applied
    (* admission *)
    lanes,         \* the three bounded queues
    wake,          \* tokens in the wake queue
    phase,         \* engineAdmissionState.phase
    outstanding,   \* engineAdmissionState.outstanding
    (* one dispatch call *)
    exec,          \* executionState of the envelope
    result,        \* its result Deferred
    answer,        \* what dispatch returned to the caller
    (* the worker fiber and the lock it holds while running a command *)
    pc,
    current,       \* the envelope taken
    start,         \* dispatchStartSequence
    spent,         \* remainingBudgetMs = 0
    first,         \* sequence of the first event committed
    next,          \* next committed event to project or to publish
    failure,       \* the error being handled
    (* the rest of the engine's memory *)
    model,         \* sequences folded into commandReadModel
    modelSeq,      \* commandReadModel.snapshotSequence
    feed,          \* sequences published on eventPubSub since boot
    bootSeq,       \* high water mark of the log at boot
    dirty,         \* deferredProjectionDirty
    catchUp,       \* the catch-up fiber; "off" is ~catchUpInFlight
    faults         \* what is left of Budget

durable   == <<log, receipts>>
shell     == <<shellCursor, shellSeen>>
queues    == <<lanes, wake, phase>>
calls     == <<exec, result, answer>>
job       == <<current, start, spent, first, next, failure>>
readModel == <<model, modelSeq>>
bus       == <<feed, bootSeq>>
deferred  == <<dirty, catchUp>>
vars == <<durable, shell, queues, outstanding, calls, pc, job, readModel, bus,
          deferred, faults>>

-----------------------------------------------------------------------------
(* Values *)

Accepted(e, n) == [status |-> "accepted", seq |-> n, by |-> e]
Rejected(e, n) == [status |-> "rejected", seq |-> n, by |-> e]

\* kind "none" is a Deferred not completed, or a call that has not returned.
Ok(n)      == [kind |-> "ok", seq |-> n]
Fail(kind) == [kind |-> kind, seq |-> 0]
Pending    == Fail("none")

Seqs == 1..Len(log)

\* The worker owns the maintenance lock exactly at these steps, and a deadline
\* or a defect can cut the timed ones short.
TimedSteps  == {"receipt", "decide", "assign", "project", "publish", "reply"}
LockedSteps == TimedSteps \cup {"reconcile", "resolve"}
LockFree    == pc \notin LockedSteps

Queued  == Len(lanes["control"]) + Len(lanes["user"]) + Len(lanes["normal"])
NewWork == Len(lanes["user"]) + Len(lanes["normal"])

Strike(f) == faults[f] > 0 /\ faults' = [faults EXCEPT ![f] = @ - 1]

Goto(step)  == pc' = step
Reply(o)    == result' = [result EXCEPT ![current] = o]
FailWith(f) == failure' = f /\ Goto("reconcile")

\* Mutants of Publish: newest event first; one event too many.
PublishBackwards(lo, hi) ==
    feed' = feed \o [i \in 1..(hi - lo + 1) |-> hi - i + 1]
PublishTooMuch(lo, hi) ==
    feed' = feed \o [i \in 1..(hi - lo + 2) |-> lo + i - 1]

\* publishCommittedEvent for a run of the log
Publish(lo, hi) == feed' = feed \o [i \in 1..(hi - lo + 1) |-> lo + i - 1]

-----------------------------------------------------------------------------
(* dispatch *)

\* Mutant of AdmissionLimit: no reserve is kept.
NoReserve(e) == Capacity

\* tryAdmitOrchestrationCommand: only control may use the last Reserve places.
AdmissionLimit(e) ==
    IF Lane[e] = "control" THEN Capacity ELSE Capacity - Reserve

Refusing(e) ==
    \/ phase \in {"draining", "stopped"}
    \/ phase = "quiescing" /\ Lane[e] # "control"

Refuse(e, kind) ==
    /\ exec' = [exec EXCEPT ![e] = "closed"]
    /\ answer' = [answer EXCEPT ![e] = Fail(kind)]
    /\ UNCHANGED <<lanes, wake, outstanding>>

Admit(e) ==
    /\ lanes' = [lanes EXCEPT ![Lane[e]] = Append(@, e)]
    /\ wake' = wake + 1
    /\ outstanding' = outstanding + 1
    /\ exec' = [exec EXCEPT ![e] = "queued"]
    /\ UNCHANGED answer

Dispatch(e) ==
    /\ exec[e] = "none"
    /\ \/ Refusing(e) /\ Refuse(e, "stopped")
       \/ ~Refusing(e) /\ Queued >= AdmissionLimit(e) /\ Refuse(e, "overloaded")
       \/ ~Refusing(e) /\ Queued < AdmissionLimit(e) /\ Admit(e)
    /\ UNCHANGED <<durable, shell, phase, result, pc, job, readModel, bus,
                   deferred, faults>>

CallerReceives(e) ==
    /\ exec[e] \in {"queued", "in-flight"}
    /\ answer[e] = Pending
    /\ result[e] # Pending
    /\ answer' = [answer EXCEPT ![e] = result[e]]
    /\ UNCHANGED <<durable, shell, queues, outstanding, exec, result, pc, job,
                   readModel, bus, deferred, faults>>

\* The caller's timer.  Once the command is in flight the caller goes on
\* waiting for its result, so the timer then changes nothing.
CallerTimesOut(e) ==
    /\ exec[e] = "queued"
    /\ answer[e] = Pending
    /\ result[e] = Pending
    /\ Strike("impatience")
    /\ exec' = [exec EXCEPT ![e] = "abandoned"]
    /\ answer' = [answer EXCEPT ![e] = Fail("timeout")]
    /\ UNCHANGED <<durable, shell, queues, outstanding, result, pc, job,
                   readModel, bus, deferred>>

-----------------------------------------------------------------------------
(* the worker: takeNextOrchestrationCommand *)

TakeToken ==
    /\ pc = "take"
    /\ wake > 0
    /\ wake' = wake - 1
    /\ Goto("poll")
    /\ UNCHANGED <<durable, shell, lanes, phase, outstanding, calls, job,
                   readModel, bus, deferred, faults>>

\* Queue.poll falls through an empty lane; the last lane is a blocking take.
NextLane ==
    IF lanes["control"] # << >> THEN "control"
    ELSE IF lanes["user"] # << >> THEN "user" ELSE "normal"

\* The budget left and the start sequence are read here, before the lock.
TakeEnvelope ==
    /\ pc = "poll"
    /\ lanes[NextLane] # << >>
    /\ current' = Head(lanes[NextLane])
    /\ lanes' = [lanes EXCEPT ![NextLane] = Tail(@)]
    /\ start' = modelSeq
    /\ \/ spent' = FALSE /\ UNCHANGED faults
       \/ spent' = TRUE /\ Strike("deadline")
    /\ Goto("lock")
    /\ UNCHANGED <<durable, shell, wake, phase, outstanding, calls, first, next,
                   failure, readModel, bus, deferred>>

\* runEnvelope: a throw while the effect is being built fails this call alone.
BuildThrows ==
    /\ pc = "lock"
    /\ Strike("defect")
    /\ Reply(Fail("internal"))
    /\ Goto("finish")
    /\ UNCHANGED <<durable, shell, queues, outstanding, exec, answer, job,
                   readModel, bus, deferred>>

-----------------------------------------------------------------------------
(* the worker: processEnvelope, under the maintenance lock *)

\* The lock is free here: only the worker holds it across steps.
StartCommand ==
    /\ pc = "lock"
    /\ \/ /\ exec[current] = "abandoned"
          /\ Goto("finish")
          /\ UNCHANGED <<exec, failure>>
       \/ /\ exec[current] = "queued"
          /\ exec' = [exec EXCEPT ![current] = "in-flight"]
          /\ \/ spent /\ FailWith("timeout")
             \/ ~spent /\ Goto("receipt") /\ UNCHANGED failure
    /\ UNCHANGED <<durable, shell, queues, outstanding, result, answer, current,
                   start, spent, first, next, readModel, bus, deferred, faults>>

\* Mutant of StoredOutcome: the attachments of the retry are not compared.
OutcomeForAnyOwner(e) ==
    LET r == receipts[Command[e]]
    IN  IF Content[r.by] # Content[e] THEN Fail("collision")
        ELSE IF r.status = "accepted" THEN Ok(r.seq)
        ELSE Fail("previously-rejected")

\* What the stored receipt of a command says to a call that carries its id.
StoredOutcome(e) ==
    LET r == receipts[Command[e]]
    IN  IF Content[r.by] # Content[e] THEN Fail("collision")
        ELSE IF r.status = "accepted" /\ Owner[r.by] = Owner[e] THEN Ok(r.seq)
        ELSE Fail("previously-rejected")

HasReceipt(e) == receipts[Command[e]] # NoReceipt

\* A retry of an accepted command must carry the attachments that were claimed.
WrongAttachments(e) ==
    LET r == receipts[Command[e]]
    IN  /\ r.status = "accepted"
        /\ Content[r.by] = Content[e]
        /\ Owner[r.by] # Owner[e]

LookUpReceipt ==
    /\ pc = "receipt"
    /\ \/ /\ HasReceipt(current) /\ ~WrongAttachments(current)
          /\ Reply(StoredOutcome(current))
          /\ Goto("finish")
          /\ UNCHANGED <<failure, faults>>
       \/ /\ HasReceipt(current) /\ WrongAttachments(current)
          /\ FailWith("attachments")
          /\ UNCHANGED <<result, faults>>
       \/ /\ ~HasReceipt(current)
          /\ Goto("decide")
          /\ UNCHANGED <<result, failure, faults>>
       \/ /\ Strike("sql")
          /\ FailWith("persistence")
          /\ UNCHANGED result
    /\ UNCHANGED <<durable, shell, queues, outstanding, exec, answer, current,
                   start, spent, first, next, readModel, bus, deferred>>

\* Mutant of Commit: the receipt takes the sequence the log had before.
CommitStaleSequence(n) ==
    /\ pc = "decide"
    /\ ~HasReceipt(current)
    /\ log' = log \o [i \in 1..n |-> current]
    /\ receipts' = [receipts EXCEPT
                      ![Command[current]] = Accepted(current, Len(log))]
    /\ first' = Len(log) + 1
    /\ next' = Len(log) + 1
    /\ Goto("assign")
    /\ UNCHANGED <<shell, queues, outstanding, calls, current, start, spent,
                   failure, readModel, bus, deferred, faults>>

\* One transaction: every event with its hot projection, and the receipt.
Commit(n) ==
    /\ pc = "decide"
    /\ ~HasReceipt(current)
    /\ log' = log \o [i \in 1..n |-> current]
    /\ receipts' = [receipts EXCEPT
                      ![Command[current]] = Accepted(current, Len(log) + n)]
    /\ first' = Len(log) + 1
    /\ next' = Len(log) + 1
    /\ Goto("assign")
    /\ UNCHANGED <<shell, queues, outstanding, calls, current, start, spent,
                   failure, readModel, bus, deferred, faults>>

\* The decider, or the attachment claim, rejects the command.
DecisionRejects ==
    /\ pc = "decide"
    /\ FailWith("invariant")
    /\ UNCHANGED <<durable, shell, queues, outstanding, calls, current, start,
                   spent, first, next, readModel, bus, deferred, faults>>

\* Mutant of TransactionFails: an event survives the failed transaction.
TransactionTears ==
    /\ pc = "decide"
    /\ Strike("sql")
    /\ FailWith("persistence")
    /\ log' = Append(log, current)
    /\ UNCHANGED <<receipts, shell, queues, outstanding, calls, current, start,
                   spent, first, next, readModel, bus, deferred>>

\* The transaction fails and is rolled back.
TransactionFails ==
    /\ pc = "decide"
    /\ Strike("sql")
    /\ FailWith("persistence")
    /\ UNCHANGED <<durable, shell, queues, outstanding, calls, current, start,
                   spent, first, next, readModel, bus, deferred>>

AssignReadModel ==
    /\ pc = "assign"
    /\ model' = model \cup first..Len(log)
    /\ modelSeq' = Len(log)
    /\ Goto("project")
    /\ UNCHANGED <<durable, shell, queues, outstanding, calls, job, bus,
                   deferred, faults>>

\* scheduleDeferredProjectionCatchUp: a fiber is forked unless one is in flight.
Schedule == catchUp' = IF catchUp = "off" THEN "check" ELSE catchUp

\* One committed event in the deferred phase.  Success moves the cursor to the
\* event, whatever the cursor was.
ProjectDeferred ==
    /\ pc = "project"
    /\ next <= Len(log)
    /\ \/ dirty /\ Schedule /\ UNCHANGED <<shell, dirty, faults>>
       \/ /\ ~dirty
          /\ shellSeen' = shellSeen \cup {next}
          /\ shellCursor' = next
          /\ UNCHANGED <<deferred, faults>>
       \/ /\ ~dirty
          /\ Strike("projection")
          /\ dirty' = TRUE
          /\ Schedule
          /\ UNCHANGED shell
    /\ next' = next + 1
    /\ UNCHANGED <<durable, queues, outstanding, calls, pc, current, start,
                   spent, first, failure, readModel, bus>>

\* Mutant of DeferredDone: the reply goes out before the events.
ReplyBeforePublish ==
    /\ pc = "project"
    /\ next > Len(log)
    /\ next' = first
    /\ Goto("reply")
    /\ UNCHANGED <<durable, shell, queues, outstanding, calls, current, start,
                   spent, first, failure, readModel, bus, deferred, faults>>

DeferredDone ==
    /\ pc = "project"
    /\ next > Len(log)
    /\ next' = first
    /\ Goto("publish")
    /\ UNCHANGED <<durable, shell, queues, outstanding, calls, current, start,
                   spent, first, failure, readModel, bus, deferred, faults>>

PublishNext ==
    /\ pc = "publish"
    /\ Publish(next, next)
    /\ next' = next + 1
    /\ Goto(IF next < Len(log) THEN "publish" ELSE "reply")
    /\ UNCHANGED <<durable, shell, queues, outstanding, calls, current, start,
                   spent, first, failure, readModel, bootSeq, deferred, faults>>

ReplyAccepted ==
    /\ pc = "reply"
    /\ Reply(Ok(Len(log)))
    /\ Goto("finish")
    /\ UNCHANGED <<durable, shell, queues, outstanding, exec, answer, job,
                   readModel, bus, deferred, faults>>

\* Mutant of Finish: an abandoned envelope stays counted.
FinishLeaksAbandoned ==
    /\ pc = "finish"
    /\ outstanding' = IF exec[current] = "abandoned" THEN outstanding
                      ELSE outstanding - 1
    /\ current' = NoEnvelope
    /\ Goto("take")
    /\ UNCHANGED <<durable, shell, queues, calls, start, spent, first, next,
                   failure, readModel, bus, deferred, faults>>

\* finishEnvelope
Finish ==
    /\ pc = "finish"
    /\ outstanding' = IF outstanding > 0 THEN outstanding - 1 ELSE 0
    /\ current' = NoEnvelope
    /\ Goto("take")
    /\ UNCHANGED <<durable, shell, queues, calls, start, spent, first, next,
                   failure, readModel, bus, deferred, faults>>

-----------------------------------------------------------------------------
(* the worker: the error path *)

\* The deadline interrupts the timed section, or the section dies.
CutShort(how, error) ==
    /\ pc \in TimedSteps
    /\ Strike(how)
    /\ FailWith(error)
    /\ UNCHANGED <<durable, shell, queues, outstanding, calls, current, start,
                   spent, first, next, readModel, bus, deferred>>

DeadlineStrikes == CutShort("deadline", "timeout")
SectionDies     == CutShort("defect", "defect")

\* Mutants of Reconcile: it folds and does not publish; it publishes and does
\* not fold.
ReconcileSilently ==
    /\ pc = "reconcile"
    /\ model' = model \cup (start + 1)..Len(log)
    /\ modelSeq' = IF start < Len(log) THEN Len(log) ELSE modelSeq
    /\ Goto("resolve")
    /\ UNCHANGED <<durable, shell, queues, outstanding, calls, job, bus,
                   deferred, faults>>
ReconcileFeedOnly ==
    /\ pc = "reconcile"
    /\ Publish(start + 1, Len(log))
    /\ Goto("resolve")
    /\ UNCHANGED <<durable, shell, queues, outstanding, calls, job, readModel,
                   bootSeq, deferred, faults>>

\* reconcileCommandReadModelAfterDispatchFailure: fold and publish everything
\* after the start sequence.  When the log cannot be read it only warns.
Reconcile ==
    /\ pc = "reconcile"
    /\ model' = model \cup (start + 1)..Len(log)
    /\ modelSeq' = IF start < Len(log) THEN Len(log) ELSE modelSeq
    /\ Publish(start + 1, Len(log))
    /\ Goto("resolve")
    /\ UNCHANGED <<durable, shell, queues, outstanding, calls, job, bootSeq,
                   deferred, faults>>

ReconcileFails ==
    /\ pc = "reconcile"
    /\ Strike("reconcile")
    /\ Goto("resolve")
    /\ UNCHANGED <<durable, shell, queues, outstanding, calls, job, readModel,
                   bus, deferred>>

\* Without a receipt to go by, each error has a reply of its own.
UnresolvedReply ==
    CASE failure = "timeout"   -> Fail("timeout")
      [] failure = "invariant" -> Fail("rejected")
      [] failure = "attachments" -> Fail("previously-rejected")
      [] OTHER                 -> Fail("internal")

\* Mutant of ResolveFromReceipt: the error is replied without a lookup.
ResolveBlindly ==
    /\ pc = "resolve"
    /\ failure \in {"timeout", "defect"}
    /\ Reply(UnresolvedReply)
    /\ Goto("finish")
    /\ UNCHANGED <<durable, shell, queues, outstanding, exec, answer, job,
                   readModel, bus, deferred, faults>>

\* resolveStoredCommandOutcome, for a deadline and for a defect.
ResolveFromReceipt ==
    /\ pc = "resolve"
    /\ failure \in {"timeout", "defect"}
    /\ \/ HasReceipt(current) /\ Reply(StoredOutcome(current)) /\ UNCHANGED faults
       \/ ~HasReceipt(current) /\ Reply(UnresolvedReply) /\ UNCHANGED faults
       \/ Strike("receipt") /\ Reply(UnresolvedReply)
    /\ Goto("finish")
    /\ UNCHANGED <<durable, shell, queues, outstanding, exec, answer, job,
                   readModel, bus, deferred>>

\* Mutant of ResolveRejected: the rejection is stored and nobody is told.
RejectMutely ==
    /\ pc = "resolve"
    /\ failure = "invariant"
    /\ receipts' = [receipts EXCEPT
                      ![Command[current]] = Rejected(current, modelSeq)]
    /\ Goto("finish")
    /\ UNCHANGED <<log, shell, queues, outstanding, calls, job, readModel, bus,
                   deferred, faults>>

\* INSERT ... ON CONFLICT DO NOTHING; a failure to insert is ignored.
ResolveRejected ==
    /\ pc = "resolve"
    /\ failure = "invariant"
    /\ \/ /\ receipts' = IF HasReceipt(current) THEN receipts
                         ELSE [receipts EXCEPT
                                 ![Command[current]] = Rejected(current, modelSeq)]
          /\ UNCHANGED faults
       \/ Strike("receipt") /\ UNCHANGED receipts
    /\ Reply(UnresolvedReply)
    /\ Goto("finish")
    /\ UNCHANGED <<log, shell, queues, outstanding, exec, answer, job,
                   readModel, bus, deferred>>

ResolveOther ==
    /\ pc = "resolve"
    /\ failure \in {"persistence", "attachments"}
    /\ Reply(UnresolvedReply)
    /\ Goto("finish")
    /\ UNCHANGED <<durable, shell, queues, outstanding, exec, answer, job,
                   readModel, bus, deferred, faults>>

-----------------------------------------------------------------------------
(* the catch-up fiber and maintenance, which take the lock for one step *)

\* The deferred projector's bootstrap, up to sequence k.
BootstrapThrough(k) ==
    /\ shellSeen' = shellSeen \cup (shellCursor + 1)..k
    /\ shellCursor' = k

CatchUpCheck ==
    /\ catchUp = "check"
    /\ \/ /\ ~dirty
          /\ catchUp' = "end"
          /\ UNCHANGED <<shell, faults>>
       \/ /\ dirty
          /\ LockFree
          /\ BootstrapThrough(Len(log))
          /\ catchUp' = "clear"
          /\ UNCHANGED faults
       \/ /\ dirty
          /\ LockFree
          /\ Strike("projection")
          /\ \E k \in shellCursor..Len(log) : BootstrapThrough(k)
          /\ UNCHANGED catchUp
    /\ UNCHANGED <<durable, queues, outstanding, calls, pc, job, readModel, bus,
                   dirty>>

\* The flag is cleared after the lock has been given back.
CatchUpClear ==
    /\ catchUp = "clear"
    /\ dirty' = FALSE
    /\ catchUp' = "end"
    /\ UNCHANGED <<durable, shell, queues, outstanding, calls, pc, job,
                   readModel, bus, faults>>

CatchUpEnd ==
    /\ catchUp = "end"
    /\ catchUp' = "off"
    /\ UNCHANGED <<durable, shell, queues, outstanding, calls, pc, job,
                   readModel, bus, dirty, faults>>

\* The read model is loaded from tables the transaction keeps current, but its
\* sequence is that of the slowest phase cursor.
LoadReadModel == model' = Seqs /\ modelSeq' = shellCursor'

RefreshCommandReadModel ==
    /\ LockFree
    /\ Strike("maintenance")
    /\ UNCHANGED shell
    /\ LoadReadModel
    /\ UNCHANGED <<durable, queues, outstanding, calls, pc, job, bus, deferred>>

\* A failed repair puts the cursors back; what the rebuild projected on the way
\* stays.  A rebuild that succeeds may still fail to load the read model.
RepairState ==
    /\ LockFree
    /\ Strike("maintenance")
    /\ \/ BootstrapThrough(Len(log)) /\ LoadReadModel
       \/ BootstrapThrough(Len(log)) /\ UNCHANGED readModel
       \/ /\ \E k \in shellCursor..Len(log) :
                shellSeen' = shellSeen \cup (shellCursor + 1)..k
          /\ UNCHANGED <<shellCursor, readModel>>
    /\ UNCHANGED <<durable, queues, outstanding, calls, pc, job, bus, deferred>>

-----------------------------------------------------------------------------
(* quiesce, stop, crash *)

Quiesce ==
    /\ phase = "running"
    /\ phase' = "quiescing"
    /\ UNCHANGED <<durable, shell, lanes, wake, outstanding, calls, pc, job,
                   readModel, bus, deferred, faults>>

\* The queues are interrupted: nothing enters them, what is in them is taken.
Stop ==
    /\ phase \in {"running", "quiescing"}
    /\ phase' = "draining"
    /\ UNCHANGED <<durable, shell, lanes, wake, outstanding, calls, pc, job,
                   readModel, bus, deferred, faults>>

WorkerExits ==
    /\ phase = "draining"
    /\ pc = "take"
    /\ wake = 0
    /\ Goto("exited")
    /\ UNCHANGED <<durable, shell, queues, outstanding, calls, job, readModel,
                   bus, deferred, faults>>

\* Mutant of StopCompletes: stop does not wait for the worker.
StopAtOnce ==
    /\ phase = "draining"
    /\ phase' = "stopped"
    /\ UNCHANGED <<durable, shell, lanes, wake, outstanding, calls, pc, job,
                   readModel, bus, deferred, faults>>

StopCompletes ==
    /\ phase = "draining"
    /\ pc = "exited"
    /\ outstanding = 0
    /\ phase' = "stopped"
    /\ UNCHANGED <<durable, shell, lanes, wake, outstanding, calls, pc, job,
                   readModel, bus, deferred, faults>>

\* The process dies, comes back, bootstraps and loads its read model.  Callers
\* of the old process lose their connection; live subscribers start afresh.
CrashAndRestart ==
    /\ Strike("crash")
    /\ answer' = [e \in Envelope |->
                    IF exec[e] # "none" /\ answer[e] = Pending
                    THEN Fail("lost") ELSE answer[e]]
    /\ exec' = [e \in Envelope |-> IF exec[e] = "none" THEN "none" ELSE "closed"]
    /\ UNCHANGED <<durable, result>>
    /\ BootstrapThrough(Len(log))
    /\ LoadReadModel
    /\ lanes' = [l \in Lanes |-> << >>]
    /\ wake' = 0
    /\ phase' = "running"
    /\ outstanding' = 0
    /\ pc' = "take"
    /\ current' = NoEnvelope
    /\ start' = 0 /\ spent' = FALSE /\ first' = 0 /\ next' = 0
    /\ failure' = "none"
    /\ feed' = << >>
    /\ bootSeq' = Len(log)
    /\ dirty' = FALSE
    /\ catchUp' = "off"

-----------------------------------------------------------------------------

Init ==
    /\ log = << >>
    /\ receipts = [c \in CommandId |-> NoReceipt]
    /\ shellCursor = 0
    /\ shellSeen = {}
    /\ lanes = [l \in Lanes |-> << >>]
    /\ wake = 0
    /\ phase = "running"
    /\ outstanding = 0
    /\ exec = [e \in Envelope |-> "none"]
    /\ result = [e \in Envelope |-> Pending]
    /\ answer = [e \in Envelope |-> Pending]
    /\ pc = "take"
    /\ current = NoEnvelope
    /\ start = 0 /\ spent = FALSE /\ first = 0 /\ next = 0
    /\ failure = "none"
    /\ model = {}
    /\ modelSeq = 0
    /\ feed = << >>
    /\ bootSeq = 0
    /\ dirty = FALSE
    /\ catchUp = "off"
    /\ faults = Budget

\* What the worker does of its own accord, apart from faults.
WorkerStep ==
    \/ TakeToken \/ TakeEnvelope \/ StartCommand \/ LookUpReceipt
    \/ \E n \in 1..MaxEvents : Commit(n)
    \/ AssignReadModel \/ ProjectDeferred \/ DeferredDone \/ PublishNext
    \/ ReplyAccepted \/ Finish
    \/ Reconcile \/ ResolveFromReceipt \/ ResolveRejected \/ ResolveOther
    \/ WorkerExits

FaultStep ==
    \/ BuildThrows \/ DecisionRejects \/ TransactionFails
    \/ DeadlineStrikes \/ SectionDies \/ ReconcileFails
    \/ CrashAndRestart

CatchUpStep == CatchUpCheck \/ CatchUpClear \/ CatchUpEnd

ClientStep(e) == Dispatch(e) \/ CallerReceives(e) \/ CallerTimesOut(e)

ControlStep ==
    Quiesce \/ Stop \/ StopCompletes \/ RefreshCommandReadModel \/ RepairState

\* Every call has returned and the engine is idle or stopped: nothing is left
\* to do.  Any other state without a successor is a deadlock.
AllQuiet ==
    /\ \A e \in Envelope : answer[e] # Pending
    /\ pc \in {"take", "exited"} /\ wake = 0
    /\ catchUp = "off"
    /\ UNCHANGED vars

Next ==
    \/ \E e \in Envelope : ClientStep(e)
    \/ WorkerStep \/ FaultStep \/ CatchUpStep \/ ControlStep
    \/ AllQuiet

Spec == Init /\ [][Next]_vars

\* The runtime's scheduler runs every ready fiber: the worker, the catch-up
\* fiber, each caller whose Deferred is completed and the fiber inside stop.
\* Nothing obliges a client to dispatch, a fault to strike or stop to be asked.
FairSpec ==
    /\ Spec
    /\ WF_vars(WorkerStep)
    /\ WF_vars(CatchUpStep)
    /\ WF_vars(StopCompletes)
    /\ \A e \in Envelope : WF_vars(CallerReceives(e))

-----------------------------------------------------------------------------

(* Properties *)

LogType ==
    /\ log \in Seq(Envelope)
    /\ receipts \in [CommandId -> {NoReceipt} \cup
           [status : {"accepted", "rejected"}, seq : Nat, by : Envelope]]

ShellType == shellCursor \in 0..Len(log) /\ shellSeen \subseteq Seqs

QueueType ==
    /\ lanes \in [Lanes -> Seq(Envelope)]
    /\ wake \in Nat
    /\ phase \in {"running", "quiescing", "draining", "stopped"}
    /\ outstanding \in Nat

Outcomes == [kind : {"none", "ok", "stopped", "overloaded", "timeout", "lost",
                     "internal", "collision", "rejected", "previously-rejected"},
             seq : Nat]

CallType ==
    /\ exec \in [Envelope -> {"none", "queued", "in-flight", "abandoned", "closed"}]
    /\ result \in [Envelope -> Outcomes]
    /\ answer \in [Envelope -> Outcomes]

WorkerType ==
    /\ pc \in LockedSteps \cup {"take", "poll", "lock", "finish", "exited"}
    /\ current \in Envelope \cup {NoEnvelope}
    /\ start \in 0..Len(log)
    /\ spent \in BOOLEAN
    /\ first \in Nat
    /\ next \in Nat
    /\ failure \in {"none", "timeout", "defect", "invariant", "persistence",
                    "attachments"}

MemoryType ==
    /\ model \subseteq Seqs
    /\ modelSeq \in 0..Len(log)
    /\ feed \in Seq(Seqs)
    /\ bootSeq \in 0..Len(log)
    /\ dirty \in BOOLEAN
    /\ catchUp \in {"off", "check", "clear", "end"}
    /\ faults \in [Faults -> Nat]

\* Every variable keeps its type; cursors, the read model's sequence and the
\* live feed never run ahead of the durable log.
TypeOK ==
    LogType /\ ShellType /\ QueueType /\ CallType /\ WorkerType /\ MemoryType

\* Between the envelopes it runs the worker holds none.
Holding == pc \notin {"take", "poll", "exited"}

\* A wake token stands for exactly one queued envelope, so the blocking take of
\* the last lane never blocks; every admitted envelope is counted until it is
\* finished, so stop waits for all of them and for nothing else
\* (orchestrationAdmission.ts takeNextOrchestrationCommand, finishEnvelope).
AdmissionAccounting ==
    /\ wake + (IF pc = "poll" THEN 1 ELSE 0) = Queued
    /\ outstanding = Queued + (IF Holding THEN 1 ELSE 0)

\* New work can never fill the places that commands settling running work
\* rely on, whatever is admitted in whatever order (the control reserve).
ReserveKept ==
    /\ Queued <= Capacity
    /\ NewWork <= Capacity - Reserve

\* A command id is decided once: its events are one block of the log, written
\* by one call and ended by the sequence in its accepted receipt; an id without
\* an accepted receipt has no event.  Holds across retries, deadlines, crashes.
ReceiptsMatchLog ==
    /\ \A c \in CommandId :
          (receipts[c] # NoReceipt /\ receipts[c].status = "accepted") =>
              /\ receipts[c].seq \in Seqs
              /\ log[receipts[c].seq] = receipts[c].by
    /\ \A i \in Seqs :
          /\ receipts[Command[log[i]]] # NoReceipt
          /\ receipts[Command[log[i]]].status = "accepted"
          /\ receipts[Command[log[i]]].by = log[i]
          /\ i <= receipts[Command[log[i]]].seq
          /\ \A j \in i..receipts[Command[log[i]]].seq : log[j] = log[i]

\* The receipt r entitles the call e to the outcome o.
Vouches(r, e, o) ==
    /\ r # NoReceipt
    /\ r.status = "accepted"
    /\ r.seq = o.seq
    /\ Content[r.by] = Content[e]
    /\ Owner[r.by] = Owner[e]

Justified(e, o) == o.kind = "ok" => Vouches(receipts[Command[e]], e, o)

\* A caller told a sequence is told the one at which a command of that id, with
\* that content and those attachments, is durably committed.
AcceptedIsCommitted ==
    \A e \in Envelope : Justified(e, result[e]) /\ Justified(e, answer[e])

\* A call that returned an error wrote nothing, even when a deadline struck
\* after its commit: the reply is then looked up in the receipts.  The lookup
\* failing, and a lost connection, leave the caller in doubt (as a defect of the
\* lookup's own code, 908-953, would: it is not modelled).
FailureWroteNothing ==
    faults["receipt"] = Budget["receipt"] =>
        \A e \in Envelope :
            answer[e].kind \notin {"none", "ok", "lost"} =>
                \A i \in Seqs : log[i] # e

\* Live consumers see the log without a gap: an event is first published when
\* everything since boot before it has been published.
FeedHasNoGap ==
    \A i \in 1..Len(feed) : \A s \in (bootSeq + 1)..(feed[i] - 1) :
        \E j \in 1..(i - 1) : feed[j] = s

\* When the lock is free, every event committed since boot has been published:
\* no deadline leaves live consumers behind the durable log.
FeedCaughtUp ==
    LockFree => \A s \in (bootSeq + 1)..Len(log) :
                    \E i \in 1..Len(feed) : feed[i] = s

\* Whoever is told that a command was accepted can count on live consumers
\* having been sent its events.
AcceptedIsPublished ==
    \A e \in Envelope :
        (result[e].kind = "ok" /\ result[e].seq > bootSeq) =>
            \E i \in 1..Len(feed) : feed[i] = result[e].seq

\* Commands are decided against every event committed before them, and no
\* receipt of their id can appear while they are: the branch of the transaction
\* for a receipt that "appeared while the command was committing" is dead.
DecidesOnWholeLog ==
    pc = "decide" => model = Seqs /\ ~HasReceipt(current)

\* stop loses no command: once the engine is stopped, every call that was
\* admitted and not abandoned has its result.
StopDrains ==
    phase = "stopped" =>
        \A e \in Envelope :
            exec[e] \in {"queued", "in-flight"} => result[e] # Pending

\* The comment on scheduleDeferredProjectionCatchUp: when deferred projection
\* slips, retries are supervised while idle, instead of waiting for unrelated
\* traffic.  So with the lock free and an event not projected, the slip is
\* flagged and a catch-up fiber is at work.
SlipIsSupervised ==
    (LockFree /\ shellSeen # Seqs) => (dirty /\ catchUp # "off")

\* An accepted receipt is for ever: no later call, rejection or restart changes
\* what a command id is bound to (ON CONFLICT DO NOTHING), and the log keeps
\* its past.
HistoryIsFinal ==
    [][/\ \A c \in CommandId : receipts[c] # NoReceipt => receipts'[c] = receipts[c]
       /\ SubSeq(log', 1, Len(log)) = log]_vars

\* Every admitted call returns.
EveryCallReturns ==
    \A e \in Envelope : (exec[e] = "queued") ~> (answer[e] # Pending)

-----------------------------------------------------------------------------
(* The engine keeps the promise of OrchestrationLog. *)

Told == {<<Command[e], answer[e].seq>> :
            e \in {d \in Envelope : answer[d].kind = "ok"}}

Log == INSTANCE OrchestrationLog WITH told <- Told

\* Every step of the engine is a step of the abstract log or changes nothing
\* clients are promised.
ImplementsLog == Log!Spec
=============================================================================
