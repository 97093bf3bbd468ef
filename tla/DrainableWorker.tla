--------------------------- MODULE DrainableWorker ---------------------------
(***************************************************************************)
(* packages/shared/src/DrainableWorker.ts: bounded admission of work to a  *)
(* single consumer, with staged shutdown.  The server's ingestion,         *)
(* checkpoint, deletion, automation and studio reactors are built on it.   *)
(*                                                                         *)
(* State lives in one Ref; a Ref.modify is atomic, and everything around   *)
(* it (Deferred, Queue) interleaves.  Deferreds are replaced when the      *)
(* worker leaves idle or becomes full, so a Deferred is named by its       *)
(* generation and completed generations are kept in a set.                 *)
(***************************************************************************)
EXTENDS Integers, Sequences, FiniteSets

CONSTANTS
    Item,          \* calls of enqueue and tryEnqueue, each with its item
    TryItem,       \* those made with tryEnqueue
    Produced,      \* those made by producers in the worker's producer scope
    Controller,    \* calls of quiesce, drain and stop, closings of the scope
    Job,           \* [Controller -> {"quiesce", "drain", "stop", "close"}]
    Capacity,      \* normalizeCapacity(options.capacity)
    Interrupts,    \* bound: items whose processing ends in an interruption
    Free, Dead     \* the consumer fiber waits for an item; it has ended

ASSUME CapacityAssumption == Capacity \in Nat \ {0}

ASSUME CallAssumption ==
    /\ IsFiniteSet(Item)
    /\ TryItem \subseteq Item /\ Produced \subseteq Item
    /\ Job \in [Controller -> {"quiesce", "drain", "stop", "close"}]
    /\ Free \notin Item /\ Dead \notin Item /\ Free # Dead
    /\ Interrupts \in Nat

VARIABLES
    phase,         \* state.phase
    outstanding,   \* state.outstanding
    idle,          \* generation of state.idle
    slot,          \* generation of state.slotAvailable
    idleDone,      \* completed generations of idle
    slotDone,      \* completed generations of slotAvailable
    queue, open,   \* the Queue and whether it still runs
    item,          \* where each item stands
    waitOn,        \* the slot generation an enqueue awaits
    signals,       \* Deferreds finishOne has still to complete for the item
    worker,        \* the consumer fiber: its item, Free or Dead
    step,          \* where each controller stands
    awaited,       \* the Deferred a controller has read
    before,        \* items outstanding when a drain was asked
    closing,       \* the producers' scope is being closed
    kills          \* interruptions left of the bound

admission == <<phase, outstanding, idle, slot>>
deferreds == <<idleDone, slotDone>>
channel   == <<queue, open>>
itemVars  == <<item, waitOn, signals>>
control   == <<step, awaited, before, closing>>
vars == <<admission, deferreds, channel, itemVars, worker, control, kills>>

Held    == {i \in Item : item[i] \in {"reserved", "queued", "running"}}
Move(i, s) == item' = [item EXCEPT ![i] = s]
Step(c, s) == step' = [step EXCEPT ![c] = s]

-----------------------------------------------------------------------------
(* enqueue and tryEnqueue *)

\* Mutant of Full: one item too many.
FullTooLate == outstanding > Capacity

Full == outstanding >= Capacity

\* Mutant of NextIdle: the Deferred of an earlier idle period is kept.
SameIdle == idle

\* Leaving idle and becoming full start a new generation.
NextIdle == IF outstanding = 0 THEN idle + 1 ELSE idle
NextSlot == IF outstanding + 1 = Capacity THEN slot + 1 ELSE slot

\* The call is made, or a waiting enqueue finds its Deferred completed.
Trying(i) ==
    \/ item[i] = "none" /\ ~(closing /\ i \in Produced)
    \/ item[i] = "waiting" /\ waitOn[i] \in slotDone

\* reserve, one Ref.modify
Reserve(i) ==
    /\ Trying(i)
    /\ \/ /\ phase # "running"
          /\ Move(i, "rejected")
          /\ waitOn' = [waitOn EXCEPT ![i] = 0]
          /\ UNCHANGED admission
       \/ /\ phase = "running" /\ Full
          /\ Move(i, IF i \in TryItem THEN "overloaded" ELSE "waiting")
          /\ waitOn' = [waitOn EXCEPT ![i] = IF i \in TryItem THEN 0 ELSE slot]
          /\ UNCHANGED admission
       \/ /\ phase = "running" /\ ~Full
          /\ Move(i, "reserved")
          /\ outstanding' = outstanding + 1
          /\ idle' = NextIdle
          /\ slot' = NextSlot
          /\ waitOn' = [waitOn EXCEPT ![i] = 0]
          /\ UNCHANGED phase
    /\ UNCHANGED <<deferreds, channel, signals, worker, control, kills>>

\* Only the wait for a slot can be interrupted.
Cancel(i) ==
    /\ item[i] = "waiting"
    /\ Move(i, "cancelled")
    /\ waitOn' = [waitOn EXCEPT ![i] = 0]
    /\ UNCHANGED <<admission, deferreds, channel, signals, worker, control,
                   kills>>

\* Mutants of ToSignal: a slot freed in a full worker is not announced; nor is
\* idle; idle is announced with an item left.
SlotNotSignalled == IF outstanding <= 1 THEN <<[kind |-> "idle", gen |-> idle]>> ELSE << >>
IdleNotSignalled == IF outstanding = Capacity THEN <<[kind |-> "slot", gen |-> slot]>> ELSE << >>
IdleTooEarly ==
    (IF outstanding <= 2 THEN <<[kind |-> "idle", gen |-> idle]>> ELSE << >>)
    \o (IF outstanding = Capacity THEN <<[kind |-> "slot", gen |-> slot]>> ELSE << >>)

\* The Deferreds finishOne completes, chosen inside its Ref.modify.
ToSignal ==
    (IF outstanding <= 1 THEN <<[kind |-> "idle", gen |-> idle]>> ELSE << >>)
    \o (IF outstanding = Capacity THEN <<[kind |-> "slot", gen |-> slot]>> ELSE << >>)

\* The Ref.modify of finishOne.
Release(i, s) ==
    /\ Move(i, s)
    /\ outstanding' = IF outstanding > 0 THEN outstanding - 1 ELSE 0
    /\ signals' = [signals EXCEPT ![i] = ToSignal]
    /\ UNCHANGED <<phase, idle, slot, waitOn>>

\* offerReserved: the offer suspends on a full queue and is refused by a queue
\* that was shut down.  enqueue then still returns true.
Offer(i) ==
    /\ item[i] = "reserved"
    /\ \/ /\ open /\ Len(queue) < Capacity
          /\ queue' = Append(queue, i)
          /\ Move(i, "queued")
          /\ UNCHANGED <<admission, waitOn, signals>>
       \/ /\ ~open
          /\ Release(i, "dropping")
          /\ UNCHANGED queue
    /\ UNCHANGED <<deferreds, open, worker, control, kills>>

-----------------------------------------------------------------------------
(* the consumer *)

Take ==
    /\ worker = Free
    /\ queue # << >>
    /\ worker' = Head(queue)
    /\ queue' = Tail(queue)
    /\ Move(Head(queue), "running")
    /\ UNCHANGED <<admission, deferreds, open, waitOn, signals, control, kills>>

\* process(item) succeeds or fails.  An interruption is not absorbed: it ends
\* the fiber once finishOne has run.
Process(i) ==
    /\ worker = i
    /\ item[i] = "running"
    /\ \/ Release(i, "finishing") /\ UNCHANGED kills
       \/ kills > 0 /\ kills' = kills - 1 /\ Release(i, "dying")
    /\ UNCHANGED <<deferreds, channel, worker, control>>

Signal(i) ==
    /\ signals[i] # << >>
    /\ LET s == Head(signals[i])
       IN  IF s.kind = "idle"
           THEN idleDone' = idleDone \cup {s.gen} /\ UNCHANGED slotDone
           ELSE slotDone' = slotDone \cup {s.gen} /\ UNCHANGED idleDone
    /\ signals' = [signals EXCEPT ![i] = Tail(@)]
    /\ UNCHANGED <<admission, channel, item, waitOn, worker, control, kills>>

\* The end of finishOne, by the consumer or by a call whose offer was refused.
Settle(i) ==
    /\ signals[i] = << >>
    /\ \/ item[i] = "finishing" /\ Move(i, "settled") /\ worker' = Free
       \/ item[i] = "dying" /\ Move(i, "settled") /\ worker' = Dead
       \/ item[i] = "dropping" /\ Move(i, "dropped") /\ UNCHANGED worker
    /\ UNCHANGED <<admission, deferreds, channel, waitOn, signals, control, kills>>

\* The shut down queue interrupts the take.
WorkerEnds ==
    /\ worker = Free
    /\ ~open
    /\ worker' = Dead
    /\ UNCHANGED <<admission, deferreds, channel, itemVars, control, kills>>

-----------------------------------------------------------------------------
(* quiesce, drain, stop, and closing the scope of startDrainableWorkerProducers *)

FirstStep(c) ==
    CASE Job[c] = "drain" -> "read" [] Job[c] = "close" -> "close"
      [] OTHER -> "quiesce"

\* Producers are interrupted: they make no further call.
CloseProducers(c) ==
    /\ step[c] = "close"
    /\ closing' = TRUE
    /\ Step(c, "producers")
    /\ UNCHANGED <<admission, deferreds, channel, itemVars, worker, awaited,
                   before, kills>>

\* A producer inside an uninterruptible part finishes it first.
ProducersClosed(c) ==
    /\ step[c] = "producers"
    /\ \A i \in Produced : item[i] \notin {"waiting", "reserved", "dropping"}
    /\ Step(c, "quiesce")
    /\ UNCHANGED <<admission, deferreds, channel, itemVars, worker, awaited,
                   before, closing, kills>>

Asked(c) == step[c] # FirstStep(c)

AfterQuiesce(c) == IF Job[c] = "quiesce" THEN "done" ELSE "mark"

\* The Ref.modify of quiesce
QuiesceAdmission(c) ==
    /\ step[c] = "quiesce"
    /\ \/ /\ phase # "running"
          /\ Step(c, AfterQuiesce(c))
          /\ UNCHANGED <<phase, awaited>>
       \/ /\ phase = "running"
          /\ phase' = "quiescing"
          /\ awaited' = [awaited EXCEPT ![c] = slot]
          /\ Step(c, "announce")
    /\ UNCHANGED <<outstanding, idle, slot, deferreds, channel, itemVars, worker,
                   before, closing, kills>>

\* Waiting calls are woken and find admission closed.  A quiesce on its own can
\* be interrupted before it wakes them.
AnnounceQuiesce(c) ==
    /\ step[c] = "announce"
    /\ Step(c, AfterQuiesce(c))
    /\ \/ slotDone' = slotDone \cup {awaited[c]}
       \/ Job[c] = "quiesce" /\ UNCHANGED slotDone
    /\ UNCHANGED <<admission, idleDone, channel, itemVars, worker, awaited,
                   before, closing, kills>>

MarkDraining(c) ==
    /\ step[c] = "mark"
    /\ phase' = IF phase = "stopped" THEN phase ELSE "draining"
    /\ Step(c, "read")
    /\ UNCHANGED <<outstanding, idle, slot, deferreds, channel, itemVars, worker,
                   awaited, before, closing, kills>>

\* drain reads the current Deferred once and awaits that one.
ReadIdle(c) ==
    /\ step[c] = "read"
    /\ awaited' = [awaited EXCEPT ![c] = idle]
    /\ before' = [before EXCEPT ![c] = Held]
    /\ Step(c, "await")
    /\ UNCHANGED <<admission, deferreds, channel, itemVars, worker, closing, kills>>

\* Mutant of Drained: stop does not wait.
DrainedAtOnce(c) ==
    /\ step[c] = "await"
    /\ Step(c, IF Job[c] = "drain" THEN "done" ELSE "shutdown")
    /\ UNCHANGED <<admission, deferreds, channel, itemVars, worker, awaited,
                   before, closing, kills>>

Drained(c) ==
    /\ step[c] = "await"
    /\ awaited[c] \in idleDone
    /\ Step(c, IF Job[c] = "drain" THEN "done" ELSE "shutdown")
    /\ UNCHANGED <<admission, deferreds, channel, itemVars, worker, awaited,
                   before, closing, kills>>

\* Queue.shutdown discards what is in the queue.
ShutdownQueue(c) ==
    /\ step[c] = "shutdown"
    /\ open' = FALSE
    /\ queue' = << >>
    /\ Step(c, "finish")
    /\ UNCHANGED <<admission, deferreds, itemVars, worker, awaited, before,
                   closing, kills>>

MarkStopped(c) ==
    /\ step[c] = "finish"
    /\ phase' = "stopped"
    /\ Step(c, "done")
    /\ UNCHANGED <<outstanding, idle, slot, deferreds, channel, itemVars, worker,
                   awaited, before, closing, kills>>

-----------------------------------------------------------------------------

Init ==
    /\ phase = "running"
    /\ outstanding = 0
    /\ idle = 0 /\ slot = 0
    /\ idleDone = {0} /\ slotDone = {0}
    /\ queue = << >> /\ open = TRUE
    /\ item = [i \in Item |-> "none"]
    /\ waitOn = [i \in Item |-> 0]
    /\ signals = [i \in Item |-> << >>]
    /\ worker = Free
    /\ step = [c \in Controller |-> FirstStep(c)]
    /\ awaited = [c \in Controller |-> 0]
    /\ before = [c \in Controller |-> {}]
    /\ closing = FALSE
    /\ kills = Interrupts

\* What a fiber inside enqueue or finishOne does of its own accord.
CallStep(i) == (item[i] = "waiting" /\ Reserve(i)) \/ Offer(i) \/ Signal(i) \/ Settle(i)

ConsumerStep == Take \/ WorkerEnds \/ \E i \in Item : Process(i)

\* What a fiber in quiesce, drain, stop or the finalizer does; nothing obliges
\* it to make the call, which its first step stands for.
ControlStep(c) ==
    \/ CloseProducers(c) \/ ProducersClosed(c)
    \/ QuiesceAdmission(c) \/ AnnounceQuiesce(c) \/ MarkDraining(c)
    \/ ReadIdle(c) \/ Drained(c) \/ ShutdownQueue(c) \/ MarkStopped(c)

\* No call is under way and the consumer has nothing to do; or the consumer was
\* killed, and those that depend on it wait for ever.  Whether controllers end
\* is left to ControlEnds.
AllQuiet ==
    /\ \/ \A i \in Item : item[i] \notin {"waiting", "reserved", "queued",
                                          "running", "finishing", "dying"}
       \/ worker = Dead
    /\ UNCHANGED vars

Next ==
    \/ \E i \in Item : Reserve(i) \/ Cancel(i) \/ CallStep(i)
    \/ ConsumerStep
    \/ \E c \in Controller : ControlStep(c)
    \/ AllQuiet

Spec == Init /\ [][Next]_vars

\* The scheduler runs every fiber that is ready, process(item) ends, and an
\* interrupted producer does not go on waiting.
FairSpec ==
    /\ Spec
    /\ WF_vars(ConsumerStep)
    /\ \A i \in Item : WF_vars(CallStep(i)) /\ WF_vars(closing /\ i \in Produced /\ Cancel(i))
    /\ \A c \in Controller : WF_vars(Asked(c) /\ ControlStep(c))

-----------------------------------------------------------------------------
(* Properties *)

Phases == {"running", "quiescing", "draining", "stopped"}

ItemStates == {"none", "waiting", "reserved", "queued", "running", "finishing",
               "dying", "settled", "dropping", "dropped", "overloaded",
               "rejected", "cancelled"}

Steps == {"close", "producers", "quiesce", "announce", "mark",
          "read", "await", "shutdown", "finish", "done"}

Signals == [kind : {"idle", "slot"}, gen : Nat]

\* Every variable keeps its type; the consumer holds the item it processes.  It is
\* proved (WorkerTypes); the runs check the properties below.
TypeOK ==
    /\ phase \in Phases
    /\ outstanding \in Nat /\ idle \in Nat /\ slot \in Nat
    /\ idleDone \subseteq 0..idle /\ slotDone \subseteq 0..slot
    /\ queue \in Seq(Item) /\ open \in BOOLEAN
    /\ item \in [Item -> ItemStates]
    /\ waitOn \in [Item -> Nat]
    /\ signals \in [Item -> Seq(Signals)]
    /\ worker \in Item \cup {Free, Dead}
    /\ step \in [Controller -> Steps]
    /\ awaited \in [Controller -> Nat]
    /\ before \in [Controller -> SUBSET Item]
    /\ closing \in BOOLEAN
    /\ kills \in Nat

\* The count of outstanding items is exact in every interleaving of calls,
\* consumer and shutdown, and never above the capacity; so the queue has room
\* for every reserved item and an uninterruptible offer never suspends.
Accounting ==
    /\ outstanding = Cardinality(Held)
    /\ outstanding <= Capacity
    /\ \A i \in Item : item[i] = "reserved" => Len(queue) < Capacity

\* Some finishOne is about to complete this Deferred.
SlotPromised(g) ==
    \E i \in Item : \E n \in 1..Len(signals[i]) :
        signals[i][n] = [kind |-> "slot", gen |-> g]

\* An enqueue that waits will be woken: its Deferred is completed or promised,
\* or the worker is full and that Deferred is the current one, which the next
\* item to finish completes.  And no wake-up is early enough to make the retry
\* loop spin: the Deferred of a full worker that still admits is not completed.
NoLostWakeup ==
    /\ \A i \in Item : item[i] = "waiting" =>
          \/ waitOn[i] \in slotDone
          \/ waitOn[i] = slot /\ outstanding = Capacity
          \/ SlotPromised(waitOn[i])
    /\ (phase = "running" /\ outstanding = Capacity) => slot \notin slotDone

\* A stop is clean however stops and calls overlap: when the queue is closed nothing
\* is reserved, queued or running, no call that returned true lost its item, and a
\* worker that one of them stopped stays stopped, whatever the others go on to do.
StopIsClean ==
    /\ ~open => Held = {}
    /\ \A i \in Item : item[i] \notin {"dropping", "dropped"}
    /\ \A c \in Controller :
          Job[c] \in {"stop", "close"} /\ step[c] = "done" => phase = "stopped"

\* A drain that returns has seen every item accepted before it was asked
\* through to its end, however calls and completions interleave with the
\* replacement of the idle Deferred.
DrainIsHonest ==
    \A c \in Controller :
        step[c] \in {"shutdown", "finish", "done"} => before[c] \cap Held = {}

\* The order of the phases.
Rank(p) == CASE p = "running" -> 0 [] p = "quiescing" -> 1
             [] p = "draining" -> 2 [] OTHER -> 3

\* No step of overlapping quiesce and stop calls takes the phase back.
PhaseOnlyAdvances == [][Rank(phase) <= Rank(phase')]_vars

\* Every quiesce, drain, stop and closing of the scope ends, unless the consumer was
\* killed and left an item behind.  The end of the consumer after a shutdown of the
\* queue is no excuse: a second stop still returns.
ControlEnds ==
    \A c \in Controller :
        Asked(c) ~> (step[c] = "done" \/ (worker = Dead /\ open /\ Held # {}))
=============================================================================
