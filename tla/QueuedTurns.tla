----------------------------- MODULE QueuedTurns -----------------------------
(* Messages that wait for the turn of their provider session to end: the table  *)
(* of promotions (persistence/Layers/QueuedTurnPromotions.ts) and the part of    *)
(* ProviderCommandReactor.ts that fills and drains it.  Two fibers drain: the    *)
(* durable source, which handles one event after the other, and the consumer of *)
(* the provider's terminal events.  All threads share one provider session; the *)
(* provider takes no message into a turn that is running.                        *)
EXTENDS Naturals, Sequences, FiniteSets, SequencesExt

CONSTANTS
    Message,       \* user messages, each sent once
    Thread,        \* the threads of one provider session
    Owner,         \* the thread that owns the session; the others are its children
    ThreadOf,      \* the thread of each message
    Steer,         \* messages sent in dispatch mode "steer"
    MaxLog,        \* bound: events of the log
    Crashes,       \* bound: how often the process dies
    Faults,        \* bound: how often a statement of the database fails
    Stops,         \* bound: how often the session is stopped by its user
    Incidents      \* bound: how many of these three a behaviour has in all

ASSUME QueueAssumption ==
    /\ Owner \in Thread /\ ThreadOf \in [Message -> Thread] /\ Steer \subseteq Message
    /\ MaxLog \in Nat /\ Crashes \in Nat /\ Faults \in Nat /\ Stops \in Nat
    /\ Incidents \in Nat

VARIABLES
    log,           \* thread.turn-queued, .turn-start-requested and .session-stop-requested
    next,          \* how many of them the source has passed
    claimed,       \* the event behind them has a delivery row in flight
    row,           \* queued_turn_promotions, by queued_event_sequence
    dispatched,    \* promotions whose dispatch command has a receipt
    quarantined,   \* threads with a blocking delivery
    phase,         \* how far the start of the process got
    through,       \* replayThrough of the start
    epoch,         \* queuedTurnPromotionOwner: which process this is
    reserved,      \* pendingQueuedDispatchBySessionThread, for the session
    draining,      \* drainingQueuedTurns
    job,           \* what the source is at
    drain,         \* what each fiber's drain is at
    live,          \* the session's activeTurnId
    ended,         \* terminal events the second fiber has not taken
    turnsOf,       \* ghost: turns started for each message
    told,          \* ghost: messages whose failure was shown to the user
    untold,        \* ghost: messages let go of where nothing is shown
    marks,         \* ghost: the known flaws this behaviour has met
    left           \* what is left of the bounds

process == <<phase, through, epoch>>
durableVars == <<log, next, claimed, row, dispatched, quarantined>>
memoryVars == <<phase, through, epoch, reserved, draining, job, drain>>
providerVars == <<live, ended>>
ghostVars == <<turnsOf, told, untold, marks>>
vars == <<durableVars, memoryVars, providerVars, ghostVars, left>>

Fiber == {"source", "events"}
Seqs == 1..MaxLog
NoRow == [state |-> "none", owner |-> 0]
NoJob == [stage |-> "idle", turn |-> 0, redrain |-> TRUE, block |-> FALSE]
NoDrain == [todo |-> << >>, stage |-> "none", seq |-> 0]
Free == [msg |-> "none", turn |-> 0, ended |-> {}, held |-> FALSE]
Flaws == {"failed", "idless", "late", "masked", "repeated", "skipped", "timeout", "unheard",
          "unmarked"}

TypeOK ==
    /\ log \in Seq([kind : {"queued", "start"}, msg : Message] \cup [kind : {"stop"}])
    /\ Len(log) <= MaxLog /\ next \in 0..Len(log) /\ claimed \in BOOLEAN
    /\ row \in [Seqs -> [state : {"none", "queued", "promoting", "promoted", "cancelled"},
                         owner : 0..Crashes + 1]]
    /\ \A s \in Seqs : row[s].owner > 0 <=> row[s].state = "promoting"
    /\ dispatched \subseteq {s \in Seqs : row[s].state # "none"}
    /\ quarantined \subseteq Thread /\ draining \subseteq Thread
    /\ phase \in {"down", "replay", "recover", "live"}
    /\ epoch \in 1..Crashes + 1 /\ through \in 0..Len(log)
    /\ reserved = Free
       \/ reserved \in [msg : Message, turn : 0..Len(log), ended : SUBSET (1..Len(log)),
                        held : BOOLEAN]
    /\ job \in [stage : {"idle", "check", "requeue", "bind", "call", "exit", "stop", "over"},
                turn : 0..Len(log), redrain : BOOLEAN, block : BOOLEAN]
    /\ drain \in [Fiber -> [todo : Seq(Thread), seq : 0..Len(log),
                            stage : {"none", "claim", "dispatch", "mark", "undo"}]]
    /\ live \in 0..Len(log) /\ ended \in Seq(0..Len(log))
    /\ turnsOf \in [Message -> Nat] /\ told \subseteq Message /\ untold \subseteq Message
    /\ marks \subseteq Flaws
    /\ left \in [crash : 0..Crashes, fault : 0..Faults, stop : 0..Stops]

Init ==
    /\ log = << >> /\ next = 0 /\ claimed = FALSE
    /\ row = [s \in Seqs |-> NoRow] /\ dispatched = {} /\ quarantined = {}
    /\ phase = "live" /\ epoch = 1 /\ through = 0
    /\ reserved = Free /\ draining = {} /\ job = NoJob
    /\ drain = [f \in Fiber |-> NoDrain]
    /\ live = 0 /\ ended = << >>
    /\ turnsOf = [m \in Message |-> 0] /\ told = {} /\ untold = {} /\ marks = {}
    /\ left = [crash |-> Crashes, fault |-> Faults, stop |-> Stops]

\* One more crash, fault or stop is within the bounds.
May(incident) ==
    /\ left[incident] > 0
    /\ Crashes + Faults + Stops - (left.crash + left.fault + left.stop) < Incidents

\* A statement fails: PersistenceSqlError.
StatementFails == May("fault") /\ left' = [left EXCEPT !.fault = @ - 1]

-----------------------------------------------------------------------------
(* The table. *)

Waiting(s) == row[s].state \in {"queued", "promoting"}
Rows(t) == {s \in Seqs : Waiting(s) /\ ThreadOf[log[s].msg] = t}
PendingThreads == {t \in Thread : Rows(t) # {}}
HasPending(m) == \E s \in Seqs : Waiting(s) /\ log[s].msg = m

\* Mutant: one row for each message, waiting or not.
EnqueuedOnce(s, m) ==
    IF \E r \in Seqs : row[r].state # "none" /\ log[r].msg = m THEN row
    ELSE [row EXCEPT ![s].state = "queued"]

\* enqueue: a row of that sequence, or a waiting row of the message, is left as it is.
Enqueued(s, m) ==
    IF row[s].state # "none" \/ HasPending(m) THEN row
    ELSE [row EXCEPT ![s].state = "queued"]

\* The claim's order: the newest steer, else the oldest queued message.
Before(a, b) ==
    LET steers(s) == log[s].msg \in Steer IN
    IF steers(a) = steers(b) THEN IF steers(a) THEN a >= b ELSE a <= b ELSE steers(a)

\* The threads a drain of the session visits, thread t first.
Visit(t) == <<t>> \o SetToSeq(PendingThreads \ {t})

-----------------------------------------------------------------------------
(* drainQueuedTurnsForThread, by either fiber. *)

Busy(f) == drain[f].todo # << >>
At(f, stage) == Busy(f) /\ drain[f].stage = stage
DrainGoes(f, stage, s) ==
    drain' = [drain EXCEPT ![f].stage = stage, ![f].seq = s]
NextThread(f) ==
    drain' = [drain EXCEPT ![f] = [NoDrain EXCEPT !.todo = Tail(drain[f].todo)]]
Release(f) == draining' = draining \ {Head(drain[f].todo)}

\* A drain of thread t that has dispatched its message and will look for no other.
Ends(g, t) == Busy(g) /\ Head(drain[g].todo) = t /\ drain[g].stage \in {"mark", "undo"}

Enter(f) ==
    LET t == Head(drain[f].todo) IN
    /\ At(f, "none")
    /\ IF \/ t \in draining \/ reserved # Free
          \/ phase = "recover" /\ f = "events" /\ live # 0
       THEN NextThread(f) /\ UNCHANGED draining
       ELSE DrainGoes(f, "claim", 0) /\ draining' = draining \cup {t}
    /\ marks' = IF t \in draining /\ reserved = Free /\ \E g \in Fiber : Ends(g, t)
                THEN marks \cup {"masked"} ELSE marks
    /\ UNCHANGED <<durableVars, process, reserved, job, providerVars, turnsOf, told,
                   untold, left>>

\* claimNext: claims of other processes, and expired ones, are taken back first.
\* Nothing can come between its empty answer and the removal of the guard.
ClaimNext(f) ==
    LET rows == Rows(Head(drain[f].todo))
        foreign == {s \in rows : row[s].state = "promoting" /\ row[s].owner # epoch}
    IN  /\ At(f, "claim")
        /\ \E expired \in SUBSET {s \in rows : row[s].owner = epoch} :
            LET back == foreign \cup expired
                open == back \cup {s \in rows : row[s].state = "queued"}
                freed == [s \in Seqs |->
                            IF s \in back THEN [state |-> "queued", owner |-> 0] ELSE row[s]]
            IN  \/ /\ open = {}
                   /\ row' = freed
                   /\ NextThread(f) /\ Release(f)
                \/ \E s \in open :
                    /\ \A r \in open : Before(s, r)
                    /\ row' = [freed EXCEPT ![s] = [state |-> "promoting", owner |-> epoch]]
                    /\ DrainGoes(f, "dispatch", s)
                    /\ UNCHANGED draining
        /\ UNCHANGED <<log, next, claimed, dispatched, quarantined, process, reserved, job,
                       providerVars, ghostVars, left>>

\* Mutant: each attempt dispatches under a command id of its own.
DispatchAnew(f) ==
    LET s == drain[f].seq IN
    /\ At(f, "dispatch") /\ Len(log) < MaxLog
    /\ reserved' = [Free EXCEPT !.msg = log[s].msg]
    /\ log' = Append(log, [kind |-> "start", msg |-> log[s].msg])
    /\ dispatched' = dispatched \cup {s}
    /\ DrainGoes(f, "mark", s)
    /\ UNCHANGED <<next, claimed, row, quarantined, process, draining, job, providerVars,
                   ghostVars, left>>

\* The reservation is taken and the command dispatched.  Its id is that of the
\* promotion: a second dispatch is answered from the receipt of the first.
Dispatch(f) ==
    LET s == drain[f].seq
        m == log[s].msg
    IN  /\ At(f, "dispatch")
        /\ reserved' = [Free EXCEPT !.msg = m]
        /\ IF s \in dispatched
           THEN /\ marks' = marks \cup {"repeated"}
                /\ UNCHANGED <<log, dispatched>>
           ELSE /\ Len(log) < MaxLog
                /\ log' = Append(log, [kind |-> "start", msg |-> m])
                /\ dispatched' = dispatched \cup {s}
                /\ UNCHANGED marks
        /\ DrainGoes(f, "mark", s)
        /\ UNCHANGED <<next, claimed, row, quarantined, process, draining, job,
                       providerVars, turnsOf, told, untold, left>>

\* markPromoted; a claim that is gone is an error.
Mark(f) ==
    LET s == drain[f].seq IN
    /\ At(f, "mark")
    /\ IF row[s] = [state |-> "promoting", owner |-> epoch]
       THEN /\ row' = [row EXCEPT ![s] = [state |-> "promoted", owner |-> 0]]
            /\ NextThread(f) /\ Release(f)
       ELSE /\ DrainGoes(f, "undo", s)
            /\ UNCHANGED <<row, draining>>
    /\ UNCHANGED <<log, next, claimed, dispatched, quarantined, process, reserved, job,
                   providerVars, ghostVars, left>>

\* Mutants: the claim's columns stay; the claim is released whoever holds it.
ReleasedKeepsOwner(s) ==
    IF row[s] = [state |-> "promoting", owner |-> epoch]
    THEN [row EXCEPT ![s].state = "queued"]
    ELSE row
ReleasedBlindly(s) == [row EXCEPT ![s] = [state |-> "queued", owner |-> 0]]

\* releaseClaim.
Released(s) ==
    IF row[s] = [state |-> "promoting", owner |-> epoch]
    THEN [row EXCEPT ![s] = [state |-> "queued", owner |-> 0]]
    ELSE row

\* The error path: it gives up the reservation, whoever holds it, and the claim,
\* and ends the drain.  A turn start the source was at is tried again, found among
\* handledTurnStartKeys and left at once.
GiveUp(f, rows) ==
    /\ row' = rows
    /\ Release(f)
    /\ drain' = [drain EXCEPT ![f] = NoDrain]
    /\ LET again == f = "source" /\ claimed
           kept == IF At(f, "claim") THEN reserved ELSE Free
       IN  /\ job' = IF again THEN [NoJob EXCEPT !.stage = "exit"] ELSE job
           /\ reserved' = [kept EXCEPT !.held = again /\ kept.msg = log[next + 1].msg]
    /\ UNCHANGED <<log, next, claimed, dispatched, quarantined, process, providerVars,
                   turnsOf, told, untold>>

Undo(f) ==
    /\ At(f, "undo")
    /\ GiveUp(f, Released(drain[f].seq))
    /\ UNCHANGED <<marks, left>>

\* A statement fails: the claim, the dispatch or the mark, or the release itself.
DrainFails(f) ==
    /\ Busy(f) /\ drain[f].stage # "none" /\ StatementFails
    /\ f = "events" => phase = "live"
    /\ marks' = marks \cup {"failed"}
    /\ GiveUp(f, IF At(f, "claim") \/ At(f, "undo") THEN row ELSE Released(drain[f].seq))

DrainStep(f) == Enter(f) \/ ClaimNext(f) \/ Dispatch(f) \/ Mark(f) \/ Undo(f)

-----------------------------------------------------------------------------
(* The durable source, one event after the other. *)

n == next + 1
Thing == log[n].msg
Place == ThreadOf[Thing]

\* While the start replays what is old, what is new waits.
Idle ==
    /\ phase # "down" /\ job.stage = "idle" /\ ~Busy("source")
    /\ next < IF phase = "replay" THEN through ELSE Len(log)
Stage(stage) == job.stage = stage /\ ~Busy("source")
GoTo(stage) == job' = [job EXCEPT !.stage = stage]
Starts(threads) == drain' = [drain EXCEPT !["source"].todo = threads]

Held == reserved # Free /\ reserved.held

\* The failure of the message is shown to its user; or it is not, and unless the
\* table has the event no trace of the message is left.
Shown == told' = told \cup {Thing} /\ UNCHANGED untold
Silent ==
    /\ untold' = IF row[n].state = "none" THEN untold \cup {Thing} ELSE untold
    /\ UNCHANGED told

\* Mutant: the turn is waited for even if its end was seen before.
BindToAlways(t) ==
    /\ reserved' = IF Held THEN [reserved EXCEPT !.turn = t, !.ended = {}] ELSE reserved
    /\ UNCHANGED drain

\* bindPendingQueuedDispatchToTurn.  A turn that has ended already is not waited for.
BindTo(t) ==
    IF ~Held THEN UNCHANGED <<reserved, drain>>
    ELSE IF t \in reserved.ended
    THEN reserved' = Free /\ Starts(Visit(Place))
    ELSE /\ reserved' = [reserved EXCEPT !.turn = t, !.ended = {}]
         /\ UNCHANGED drain

\* Terminal events nobody has subscribed to are lost: the second fiber is forked at
\* the end of the start.
Reports(t) == ended' = IF phase = "live" THEN Append(ended, t) ELSE ended

\* processTurnQueued: the row first, then the recovery drain.  When the insert fails
\* the error is logged and the cursor passes the event all the same.
TakeQueued ==
    /\ Idle /\ log[n].kind = "queued"
    /\ \/ /\ row' = Enqueued(n, Thing)
          /\ GoTo("check")
          /\ UNCHANGED <<told, untold, left>>
       \/ /\ StatementFails
          /\ Silent
          /\ GoTo("over")
          /\ UNCHANGED row
    /\ UNCHANGED <<log, next, claimed, dispatched, quarantined, process, reserved,
                   draining, drain, providerVars, turnsOf, marks>>

CheckQueued ==
    /\ Stage("check")
    /\ IF live = 0 THEN Starts(<<Place>>) ELSE UNCHANGED drain
    /\ GoTo("over")
    /\ UNCHANGED <<durableVars, process, reserved, draining, providerVars, ghostVars, left>>

\* A turn start of a blocked thread is passed over (see ProviderDelivery).  That the
\* block could not be shown is logged.
SkipStart ==
    /\ Idle /\ ~claimed /\ log[n].kind = "start" /\ Place \in quarantined
    /\ next' = n
    /\ (Shown /\ UNCHANGED left) \/ (Silent /\ StatementFails)
    /\ marks' = IF reserved.msg = Thing THEN marks \cup {"skipped"} ELSE marks
    /\ UNCHANGED <<log, claimed, row, dispatched, quarantined, memoryVars, providerVars,
                   turnsOf>>

\* processTurnStartRequestedWithoutLease, up to its look at the live turn.
TakeStart ==
    /\ Idle /\ ~claimed /\ log[n].kind = "start" /\ Place \notin quarantined
    /\ claimed' = TRUE
    /\ reserved' = [reserved EXCEPT !.held = reserved.msg = Thing]
    /\ job' = [NoJob EXCEPT !.stage = IF live = 0 THEN "call" ELSE "requeue", !.turn = live]
    /\ UNCHANGED <<log, next, row, dispatched, quarantined, process, draining, drain,
                   providerVars, ghostVars, left>>

\* The session is busy: the message waits for the turn seen.  A steer interrupts
\* it, which TurnEnds stands for.  No row is written while the row that the start came
\* from has yet to be marked.  When the insert fails the start is tried again, found
\* among handledTurnStartKeys and settled as a success.
Requeue ==
    /\ Stage("requeue")
    /\ \/ /\ row' = Enqueued(n, Thing)
          /\ untold' = IF HasPending(Thing) THEN untold \cup {Thing} ELSE untold
          /\ marks' = IF ~Held /\ live # job.turn THEN marks \cup {"late"} ELSE marks
          /\ GoTo("bind")
          /\ UNCHANGED <<told, left>>
       \/ /\ StatementFails
          /\ Silent
          /\ GoTo("exit")
          /\ UNCHANGED <<row, marks>>
    /\ UNCHANGED <<log, next, claimed, dispatched, quarantined, process, reserved,
                   draining, drain, providerVars, turnsOf>>

Bind ==
    /\ Stage("bind")
    /\ BindTo(job.turn)
    /\ GoTo("exit")
    /\ UNCHANGED <<durableVars, process, draining, providerVars, ghostVars, left>>

\* The start fails before dispatchTurnForThread (the session's row, the attachments),
\* or in the handler that is to show the failure: nothing is shown and no queue
\* drained here.
StartRefused ==
    /\ Stage("call")
    /\ \E block \in BOOLEAN : job' = [job EXCEPT !.stage = "exit", !.block = block]
    /\ Silent
    /\ UNCHANGED <<durableVars, process, reserved, draining, drain, providerVars, turnsOf,
                   marks, left>>

\* dispatchTurnForThread.
TurnStarts ==
    /\ Stage("call")
    /\ live' = n /\ turnsOf' = [turnsOf EXCEPT ![Thing] = @ + 1]
    /\ job' = [job EXCEPT !.stage = "bind", !.turn = n]
    /\ UNCHANGED <<durableVars, process, reserved, draining, drain, ended, told, untold, marks,
                   left>>

\* The provider refuses, or its answer is uncertain and blocks the thread.
CallFails ==
    /\ Stage("call")
    /\ reserved' = IF Held THEN Free ELSE reserved
    /\ Starts(Visit(Place))
    /\ \E block \in BOOLEAN : job' = [job EXCEPT !.stage = "exit", !.block = block]
    /\ Shown
    /\ UNCHANGED <<durableVars, process, draining, providerVars, turnsOf, marks, left>>

\* The deadline of the command interrupts the call, whether a turn started or not.  It
\* is shown where the session is projected as starting, which lags the session.
CallTimesOut ==
    /\ Stage("call")
    /\ \/ live' = n /\ turnsOf' = [turnsOf EXCEPT ![Thing] = @ + 1]
       \/ UNCHANGED <<live, turnsOf>>
    /\ job' = [job EXCEPT !.stage = "exit", !.block = TRUE, !.redrain = FALSE]
    /\ Shown \/ Silent
    /\ marks' = marks \cup {"timeout"}
    /\ UNCHANGED <<durableVars, process, reserved, draining, drain, ended, left>>

\* releaseOrphanedQueuedDispatchReservation.  The row a start came from, when its drain
\* has yet to mark it, is taken for one that waits, and the reservation stays.
Exit ==
    /\ Stage("exit")
    /\ IF ~Held \/ reserved.turn # 0 \/ HasPending(Thing)
       THEN UNCHANGED <<reserved, drain>>
       ELSE IF live # 0 THEN BindTo(live)
       ELSE /\ reserved' = Free
            /\ IF job.redrain THEN Starts(Visit(Place)) ELSE UNCHANGED drain
    /\ GoTo("over")
    /\ marks' = IF Held /\ reserved.turn = 0 /\ HasPending(Thing)
                THEN marks \cup {"unmarked"} ELSE marks
    /\ UNCHANGED <<durableVars, process, draining, providerVars, turnsOf, told, untold, left>>

\* Settled, and the cursor passed.
Over ==
    /\ Stage("over")
    /\ next' = n /\ claimed' = FALSE
    /\ quarantined' = IF job.block THEN quarantined \cup {Place} ELSE quarantined
    /\ reserved' = [reserved EXCEPT !.held = FALSE]
    /\ job' = NoJob
    /\ UNCHANGED <<log, row, dispatched, process, draining, drain, providerVars, ghostVars,
                   left>>

\* processThreadSessionStop for the thread that owns the session.
TakeStop ==
    /\ Idle /\ ~claimed /\ log[n].kind = "stop"
    /\ IF Owner \in quarantined
       THEN next' = n /\ UNCHANGED <<claimed, row, reserved, draining, job>>
       ELSE /\ claimed' = TRUE
            /\ row' = [s \in Seqs |-> IF Waiting(s) THEN [state |-> "cancelled", owner |-> 0]
                                      ELSE row[s]]
            /\ draining' = draining \ (PendingThreads \cup {Owner})
            /\ reserved' = Free
            /\ GoTo("stop")
            /\ UNCHANGED next
    /\ UNCHANGED <<log, dispatched, quarantined, process, drain, providerVars, ghostVars,
                   left>>

StopSession ==
    /\ Stage("stop")
    /\ live' = 0
    /\ \/ UNCHANGED ended
       \/ live # 0 /\ \E t \in {0, live} : Reports(t)
    /\ GoTo("over")
    /\ UNCHANGED <<durableVars, process, reserved, draining, drain, ghostVars, left>>

\* The claim of a process that died is never run again: its thread is blocked, and
\* nothing is shown.
ExpireClaim ==
    /\ Idle /\ claimed
    /\ claimed' = FALSE /\ next' = n
    /\ quarantined' = quarantined \cup {IF log[n].kind = "stop" THEN Owner ELSE Place}
    /\ IF log[n].kind = "stop" THEN UNCHANGED <<told, untold>> ELSE Silent
    /\ UNCHANGED <<log, row, dispatched, memoryVars, providerVars, turnsOf, marks, left>>

SourceStep ==
    \/ TakeQueued \/ CheckQueued
    \/ SkipStart \/ TakeStart \/ Requeue \/ Bind
    \/ StartRefused \/ TurnStarts \/ CallFails \/ CallTimesOut
    \/ Exit \/ Over
    \/ TakeStop \/ StopSession \/ ExpireClaim
    \/ DrainStep("source")

-----------------------------------------------------------------------------
(* The consumer of terminal events. *)

\* processQueueDrainEvent.
TakeTerminal ==
    LET t == Head(ended)
        bound == reserved.turn
        drains == drain' = [drain EXCEPT !["events"].todo = Visit(Owner)]
    IN  /\ phase = "live" /\ ~Busy("events") /\ ended # << >>
        /\ ended' = Tail(ended)
        /\ \/ /\ reserved = Free
              /\ drains /\ UNCHANGED reserved
           \/ /\ reserved # Free /\ t \in {0, bound} /\ (t = 0 => live = 0)
              /\ reserved' = Free /\ drains
           \/ /\ reserved # Free /\ t # 0 /\ bound = 0
              /\ reserved' = [reserved EXCEPT !.ended = @ \cup {t}]
              /\ UNCHANGED drain
           \/ /\ reserved # Free
              /\ IF t = 0 THEN live # 0 ELSE bound \notin {0, t}
              /\ UNCHANGED <<reserved, drain>>
        /\ marks' = IF t = 0 /\ live # 0 /\ bound \notin {0, live}
                    THEN marks \cup {"idless"} ELSE marks
        /\ UNCHANGED <<durableVars, process, draining, job, live, turnsOf, told, untold,
                       left>>

EventsStep == TakeTerminal \/ DrainStep("events")

-----------------------------------------------------------------------------
(* Clients, the provider, crash and restart. *)

Sent(m) == \E s \in DOMAIN log : log[s].kind # "stop" /\ log[s].msg = m

\* The decider goes by a projection that lags the session both ways.
Send(m) ==
    /\ phase = "live" /\ Len(log) < MaxLog
    /\ ~Sent(m)
    /\ \E kind \in IF ThreadOf[m] = Owner THEN {"queued", "start"} ELSE {"start"} :
        log' = Append(log, [kind |-> kind, msg |-> m])
    /\ UNCHANGED <<next, claimed, row, dispatched, quarantined, memoryVars, providerVars,
                   ghostVars, left>>

RequestStop ==
    /\ phase = "live" /\ Len(log) < MaxLog /\ May("stop")
    /\ log' = Append(log, [kind |-> "stop"])
    /\ left' = [left EXCEPT !.stop = @ - 1]
    /\ UNCHANGED <<next, claimed, row, dispatched, quarantined, memoryVars, providerVars,
                   ghostVars>>

\* The adapter clears activeTurnId before it reports the end, with or without an id.
TurnEnds ==
    /\ live # 0
    /\ live' = 0
    /\ \E t \in {0, live} : Reports(t)
    /\ marks' = IF phase = "live" THEN marks ELSE marks \cup {"unheard"}
    /\ UNCHANGED <<durableVars, memoryVars, turnsOf, told, untold, left>>

Crash ==
    /\ phase # "down" /\ May("crash")
    /\ phase' = "down" /\ through' = 0
    /\ reserved' = Free /\ draining' = {} /\ job' = NoJob
    /\ drain' = [f \in Fiber |-> NoDrain]
    /\ live' = 0 /\ ended' = << >>
    /\ left' = [left EXCEPT !.crash = @ - 1]
    /\ UNCHANGED <<durableVars, epoch, ghostVars>>

\* The source replays; the promotions are recovered; the second fiber starts.
StartUp ==
    /\ phase = "down"
    /\ phase' = "replay" /\ epoch' = epoch + 1 /\ through' = Len(log)
    /\ UNCHANGED <<durableVars, reserved, draining, job, drain, providerVars, ghostVars, left>>

\* recoverQueuedTurnPromotions, by the fiber that later takes terminal events.
Recover ==
    /\ phase = "replay" /\ job.stage = "idle" /\ ~Busy("source") /\ next >= through
    /\ phase' = "recover"
    /\ drain' = [drain EXCEPT !["events"].todo = SetToSeq(PendingThreads)]
    /\ UNCHANGED <<durableVars, through, epoch, reserved, draining, job, providerVars,
                   ghostVars, left>>

GoLive ==
    /\ phase = "recover" /\ ~Busy("events")
    /\ phase' = "live"
    /\ UNCHANGED <<durableVars, through, epoch, reserved, draining, job, drain, providerVars,
                   ghostVars, left>>

BootStep == StartUp \/ Recover \/ GoLive

Next ==
    \/ SourceStep \/ EventsStep \/ BootStep
    \/ \E m \in Message : Send(m)
    \/ RequestStop \/ TurnEnds
    \/ Crash \/ \E f \in Fiber : DrainFails(f)

Spec == Init /\ [][Next]_vars

\* The fibers run on, every provider call has a deadline, every turn ends, and a
\* dead process is started again.
FairSpec ==
    /\ Spec
    /\ WF_vars(SourceStep) /\ WF_vars(EventsStep) /\ WF_vars(BootStep)
    /\ WF_vars(TurnEnds)

-----------------------------------------------------------------------------
(* Properties. *)

\* No message is given to the provider twice: not by a promotion that is claimed,
\* given up and claimed again, nor by a queue, a re-queue and a restart.
StartsOnce == \A m \in Message : turnsOf[m] <= 1

\* What was cancelled when its session was stopped stays cancelled: a drain that is
\* in flight then neither promotes its row nor gives it back to the queue.  (This is
\* about the row: a drain that had claimed it before may still dispatch the message.)
CancelledStaysDead ==
    [][\A s \in Seqs : row[s].state = "cancelled" => row'[s].state = "cancelled"]_vars

Ahead(m) == \E s \in next + 1..Len(log) : log[s].kind # "stop" /\ log[s].msg = m
Cancelled(m) == \E s \in DOMAIN log : row[s].state = "cancelled" /\ log[s].msg = m
Settled(m) == turnsOf[m] > 0 \/ m \in told \/ Cancelled(m)

\* No message vanishes: it is ahead of the source, waits in the table, had its turn,
\* was cancelled by a stop or has failed where its user sees it.  Excepted is what
\* one of these steps lets go of without a word (ProviderCommandReactor.ts): an
\* insert fails (2219, 2383); a re-queue writes no row, for the row it came from is
\* still unmarked (2219); a start fails before its dispatch or its failure cannot be
\* shown (2250-2266, 2330-2362, 3672-3679); the deadline strikes while the session is
\* not projected as starting (3338-3341); the claim of a dead process expires (3703).
NoMessageLost ==
    \A m \in Message :
        Sent(m) => Ahead(m) \/ HasPending(m) \/ Settled(m) \/ m \in untold

AtRest ==
    /\ phase = "live" /\ job.stage = "idle" /\ next = Len(log)
    /\ \A f \in Fiber : ~Busy(f)
    /\ live = 0 /\ ended = << >>

\* A queued message waits for a turn, never for nothing: where no turn start failed,
\* a session at rest has an empty queue (comments of ProviderCommandReactor.ts, "the
\* message would be stuck forever" and "promoted when the live turn settles").
NoneStranded == AtRest /\ told = {} /\ untold = {} => PendingThreads = {}

\* A session at rest holds no reservation: one that is leaked turns every drain away
\* (comment of releaseOrphanedQueuedDispatchReservation, "leaking it strands the
\* thread's queued messages").  Excepted are behaviours in which a terminal event was
\* unheard or taken without its turn's id, a drain failed or was repeated, a promoted
\* start was skipped, or was refused before its row was marked.
NoneReserved == AtRest /\ marks \subseteq {"late", "masked", "timeout"} => reserved = Free

\* Every message has its turn, fails visibly or is cancelled, unless it was let go of
\* without a word or one of the known flaws was met on the way: a drain that failed
\* ("failed"), a start cut by its deadline, an end reported without its turn's id,
\* while nobody listened or to a drain that had stopped looking, and the like.
EveryMessageSettles ==
    \A m \in Message :
        Sent(m) ~> Settled(m) \/ m \in untold \/ marks # {}
=============================================================================
