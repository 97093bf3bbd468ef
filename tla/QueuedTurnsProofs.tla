-------------------------- MODULE QueuedTurnsProofs --------------------------
(***************************************************************************)
(* Theorems about the promotion of queued turns: the provider is given no  *)
(* message twice, a cancelled promotion stays cancelled and no message     *)
(* vanishes, for any number of messages, threads, crashes and faults.      *)
(*                                                                         *)
(* The events of one message form a chain: each one but the last has been  *)
(* dispatched out of the table by a promotion, so only the last can still  *)
(* start a turn, and it has no row once it has started one.                *)
(***************************************************************************)
EXTENDS QueuedTurns, FiniteSetTheorems, TLAPS

Event == [kind : {"queued", "start"}, msg : Message] \cup [kind : {"stop"}]
States == {"none", "queued", "promoting", "promoted", "cancelled"}
RowType == [Seqs -> [state : States, owner : 0..Crashes + 1]]
OwnerSet(r) == \A s \in Seqs : r[s].owner > 0 <=> r[s].state = "promoting"

\* The event s is of a message.
User(s) == s \in 1..Len(log) /\ log[s].kind # "stop"

\* The source is past the point at which the event s may get its row.
MayHaveRow(s) ==
    \/ s <= next
    \/ s = n /\ \/ log[s].kind = "queued"
                \/ claimed /\ job.stage \notin {"requeue", "call"}

RowInv ==
    \A s \in Seqs : row[s].state # "none" =>
        /\ User(s) /\ MayHaveRow(s)
        /\ row[s].state = "promoted" => s \in dispatched

\* What the source is at is what the next event asks for.
PlaceInv ==
    /\ claimed => next < Len(log) /\ log[n].kind # "queued"
    /\ job.stage # "idle" => next < Len(log)
    /\ job.stage = "check" => log[n].kind = "queued"
    /\ job.stage \in {"requeue", "bind", "call", "exit"} => claimed /\ log[n].kind = "start"
    /\ job.stage = "stop" => claimed /\ log[n].kind = "stop"
    /\ job.stage = "over" => log[n].kind = "queued" \/ claimed
    /\ job.block => log[n].kind = "start" /\ job.stage \in {"exit", "over"}
    /\ Busy("source") => job.stage \in {"exit", "over"} /\ log[n].kind # "stop"

\* A dead process does nothing, the second fiber nothing while the first replays;
\* each start after a crash is an epoch.
BootInv ==
    /\ phase = "down" => job = NoJob /\ \A f \in Fiber : drain[f] = NoDrain
    /\ phase = "replay" => ~Busy("events")
    /\ epoch = Crashes + 1 - left.crash - (IF phase = "down" THEN 1 ELSE 0)

\* What a drain is at has a row, and was dispatched before it is marked.
SoundDrain(d, r, done) ==
    /\ d.todo = << >> => d = NoDrain
    /\ d.stage \in {"dispatch", "mark", "undo"} =>
        d.seq \in Seqs /\ r[d.seq].state # "none"
    /\ d.stage \in {"mark", "undo"} => d.seq \in done

DrainInv == \A f \in Fiber : SoundDrain(drain[f], row, dispatched)

ShapeInv == TypeOK /\ RowInv /\ PlaceInv /\ BootInv /\ DrainInv

-----------------------------------------------------------------------------
(* The log, the table and the threads of a drain. *)

LEMMA SequenceOfSet ==
    ASSUME NEW S, IsFiniteSet(S), NEW T, S \subseteq T
    PROVE  SetToSeq(S) \in Seq(T)
<1> DEFINE k == Cardinality(S)
<1>1. k \in Nat /\ ExistsBijection(1..k, S)
  BY FS_CardinalityType
<1>2. PICK f \in Bijection(1..k, S) : TRUE
  BY <1>1 DEF ExistsBijection
<1>3. f \in [1..k -> S] /\ IsInjective(f)
  BY <1>2 DEF Bijection, Injection, IsInjective
<1>4. SetToSeq(S) \in [1..k -> S]
  BY <1>3 DEF SetToSeq
<1> QED
  BY <1>1, <1>4

\* A message event carries a message of a thread.
LEMMA UserEvent ==
    ASSUME TypeOK, NEW s, User(s)
    PROVE  /\ s \in Seqs /\ log[s] \in [kind : {"queued", "start"}, msg : Message]
           /\ log[s].msg \in Message /\ ThreadOf[log[s].msg] \in Thread
<1>1. s \in 1..Len(log) /\ log \in Seq(Event) /\ Len(log) \in Nat /\ Len(log) <= MaxLog
  BY DEF User, TypeOK, Event
<1>2. log[s] \in Event /\ s \in Seqs
  BY <1>1, QueueAssumption DEF QueueAssumption, Seqs
<1>3. log[s] \in [kind : {"queued", "start"}, msg : Message]
  BY <1>2 DEF User, Event
<1> QED
  BY <1>2, <1>3, QueueAssumption DEF QueueAssumption

LEMMA Visited ==
    ASSUME TypeOK, RowInv
    PROVE  /\ SetToSeq(PendingThreads) \in Seq(Thread)
           /\ \A t \in Thread : Visit(t) \in Seq(Thread) /\ Visit(t) # << >>
<1> DEFINE W == {s \in Seqs : Waiting(s)}
           f == [s \in W |-> ThreadOf[log[s].msg]]
<1>1. \A s \in W : User(s) /\ ThreadOf[log[s].msg] \in Thread
  BY UserEvent DEF RowInv, Waiting
<1>2. f \in Surjection(W, PendingThreads)
  BY <1>1 DEF Surjection, PendingThreads, Rows
<1>3. IsFiniteSet(W)
  <2>1. MaxLog \in Nat
    BY QueueAssumption DEF QueueAssumption
  <2>2. IsFiniteSet(Seqs)
    BY <2>1, FS_Interval DEF Seqs
  <2> QED
    BY <2>2, FS_Subset
<1>4. IsFiniteSet(PendingThreads)
  BY <1>2, <1>3, FS_Surjection
<1>5. \A t \in Thread : IsFiniteSet(PendingThreads \ {t})
  BY <1>4, FS_Subset
<1>6. PendingThreads \subseteq Thread
  BY DEF PendingThreads
<1>7. \A t \in Thread : SetToSeq(PendingThreads \ {t}) \in Seq(Thread)
  BY <1>5, <1>6, SequenceOfSet
<1>8. SetToSeq(PendingThreads) \in Seq(Thread)
  BY <1>4, <1>6, SequenceOfSet
<1>9. ASSUME NEW t \in Thread, NEW q \in Seq(Thread)
      PROVE  <<t>> \o q \in Seq(Thread) /\ <<t>> \o q # << >>
  BY <1>9
<1> QED
  BY <1>7, <1>8, <1>9 DEF Visit

\* The log only grows.
LEMMA LogStep ==
    ASSUME TypeOK, RowInv, DrainInv, [Next]_vars
    PROVE  /\ log' \in Seq(Event) /\ Len(log') <= MaxLog /\ Len(log) <= Len(log')
           /\ \A s \in 1..Len(log) : log'[s] = log[s]
<1>a. log \in Seq(Event) /\ Len(log) \in Nat /\ Len(log) <= MaxLog /\ MaxLog \in Nat
  BY QueueAssumption DEF TypeOK, Event, QueueAssumption
<1>1. ASSUME NEW x \in Event, Len(log) < MaxLog, log' = Append(log, x)
      PROVE  /\ log' \in Seq(Event) /\ Len(log') <= MaxLog /\ Len(log) <= Len(log')
             /\ \A s \in 1..Len(log) : log'[s] = log[s]
  BY <1>a, <1>1
<1>2. ASSUME NEW f \in Fiber, Dispatch(f), log' # log
      PROVE  \E x \in Event : Len(log) < MaxLog /\ log' = Append(log, x)
  <2> DEFINE s == drain[f].seq
             x == [kind |-> "start", msg |-> log[s].msg]
  <2>1. User(s)
    BY <1>2 DEF Dispatch, At, DrainInv, SoundDrain, RowInv
  <2>2. x \in Event
    BY <2>1, UserEvent DEF Event
  <2>3. Len(log) < MaxLog /\ log' = Append(log, x)
    BY <1>2 DEF Dispatch
  <2> QED
    BY <2>2, <2>3
<1>3. ASSUME NEW m \in Message, Send(m)
      PROVE  \E x \in Event : Len(log) < MaxLog /\ log' = Append(log, x)
  BY <1>3 DEF Send, Event
<1>4. ASSUME RequestStop
      PROVE  \E x \in Event : Len(log) < MaxLog /\ log' = Append(log, x)
  BY <1>4 DEF RequestStop, Event
<1>5. ASSUME NEW f \in Fiber, DrainFails(f) \/ Enter(f) \/ ClaimNext(f) \/ Mark(f) \/ Undo(f)
      PROVE  log' = log
  BY <1>5 DEF DrainFails, GiveUp, Enter, ClaimNext, Mark, Undo, durableVars
<1>6. CASE \/ TakeQueued \/ CheckQueued \/ SkipStart \/ TakeStart \/ Requeue \/ Bind
           \/ StartRefused \/ TurnStarts \/ CallFails \/ CallTimesOut \/ Exit \/ Over
           \/ TakeStop \/ StopSession \/ ExpireClaim \/ TakeTerminal \/ BootStep
           \/ TurnEnds \/ Crash \/ UNCHANGED vars
  <2>1. log' = log
    BY <1>6
       DEF TakeQueued, CheckQueued, SkipStart, TakeStart, Requeue, Bind,
           StartRefused, TurnStarts, CallFails, CallTimesOut, Exit, Over, TakeStop, StopSession, ExpireClaim,
           TakeTerminal, BootStep, StartUp, Recover, GoLive, TurnEnds, Crash, durableVars,
           vars
  <2> QED
    BY <1>a, <2>1
<1> QED
  BY <1>a, <1>1, <1>2, <1>3, <1>4, <1>5, <1>6
     DEF Next, SourceStep, EventsStep, DrainStep, Fiber

\* The table r may follow the present one: no row goes away, a cancelled one stays
\* cancelled and only what was dispatched is promoted.
Follows(r) ==
    /\ r \in RowType /\ OwnerSet(r)
    /\ \A s \in Seqs :
        /\ row[s].state # "none" => r[s].state # "none"
        /\ row[s].state = "cancelled" => r[s].state = "cancelled"
        /\ r[s].state = "promoted" => row[s].state = "promoted" \/ s \in dispatched

NoNewRow(r) == \A s \in Seqs : r[s].state # "none" => row[s].state # "none"

LEMMA RowFacts ==
    ASSUME TypeOK
    PROVE  row \in RowType /\ OwnerSet(row) /\ epoch \in 1..Crashes + 1 /\ Crashes \in Nat
BY QueueAssumption DEF TypeOK, RowType, States, OwnerSet, QueueAssumption

LEMMA EnqueuedFollows ==
    ASSUME TypeOK, NEW s \in Seqs, NEW m
    PROVE  /\ Follows(Enqueued(s, m))
           /\ \A r \in Seqs : r # s => Enqueued(s, m)[r] = row[r]
           /\ HasPending(m) \/ Enqueued(s, m)[s].state # "none"
BY RowFacts DEF Enqueued, Follows, RowType, States, OwnerSet

LEMMA ReleasedFollows ==
    ASSUME TypeOK, NEW s \in Seqs
    PROVE  Follows(Released(s)) /\ NoNewRow(Released(s))
BY RowFacts DEF Released, Follows, NoNewRow, RowType, States, OwnerSet

\* The table moves by these steps alone; new rows come from the source alone.
LEMMA RowStep ==
    ASSUME ShapeInv, [Next]_vars
    PROVE  /\ Follows(row')
           /\ \/ NoNewRow(row')
              \/ TakeQueued /\ row' = Enqueued(n, Thing)
              \/ Requeue /\ row' = Enqueued(n, Thing)
<1>a. /\ row \in RowType /\ OwnerSet(row) /\ epoch \in 1..Crashes + 1 /\ Crashes \in Nat
      /\ TypeOK /\ RowInv /\ PlaceInv /\ DrainInv
  BY RowFacts DEF ShapeInv
<1>b. n \in Seqs \/ ~(TakeQueued \/ Requeue)
  <2>1. /\ next \in 0..Len(log) /\ Len(log) <= MaxLog /\ MaxLog \in Nat
        /\ through \in 0..Len(log) /\ Len(log) \in Nat
    BY <1>a, QueueAssumption DEF TypeOK, QueueAssumption
  <2>2. TakeQueued \/ Requeue => next < Len(log)
    BY <1>a, <2>1 DEF TakeQueued, Idle, Requeue, Stage, PlaceInv
  <2> QED
    BY <2>1, <2>2 DEF n, Seqs
<1>k. ASSUME row' = row PROVE Follows(row') /\ NoNewRow(row')
  BY <1>a, <1>k DEF Follows, NoNewRow
<1>1. ASSUME TakeQueued \/ Requeue
      PROVE  Follows(row') /\ (row' = Enqueued(n, Thing) \/ NoNewRow(row'))
  <2>1. row' = Enqueued(n, Thing) \/ row' = row
    BY <1>1 DEF TakeQueued, Requeue
  <2> QED
    BY <1>1, <1>a, <1>b, <1>k, <2>1, EnqueuedFollows
<1>2. ASSUME TakeStop
      PROVE  Follows(row') /\ NoNewRow(row')
  <2>1. CASE row' = row
    BY <1>k, <2>1
  <2>2. CASE row' = [s \in Seqs |-> IF Waiting(s) THEN [state |-> "cancelled", owner |-> 0]
                                    ELSE row[s]]
    BY <1>a, <2>2 DEF Follows, NoNewRow, RowType, States, OwnerSet, Waiting
  <2> QED
    BY <1>2, <2>1, <2>2 DEF TakeStop
<1>3. ASSUME NEW f \in Fiber, ClaimNext(f)
      PROVE  Follows(row') /\ NoNewRow(row')
  <2> DEFINE rows == Rows(Head(drain[f].todo))
             foreign == {s \in rows : row[s].state = "promoting" /\ row[s].owner # epoch}
             freed(back) ==
                [s \in Seqs |-> IF s \in back THEN [state |-> "queued", owner |-> 0] ELSE row[s]]
             mine == [state |-> "promoting", owner |-> epoch]
  <2>1. \E back \in SUBSET {s \in Seqs : Waiting(s)} :
           \/ row' = freed(back)
           \/ \E s \in Seqs : /\ s \in back \/ row[s].state = "queued"
                              /\ row' = [freed(back) EXCEPT ![s] = mine]
    <3>1. PICK expired \in SUBSET {s \in rows : row[s].owner = epoch} :
             LET back == foreign \cup expired
                 open == back \cup {s \in rows : row[s].state = "queued"}
             IN  \/ row' = freed(back)
                 \/ \E s \in open : row' = [freed(back) EXCEPT ![s] = mine]
      BY <1>3 DEF ClaimNext
    <3>2. rows \subseteq {s \in Seqs : Waiting(s)}
      BY DEF Rows
    <3>3. foreign \cup expired \in SUBSET {s \in Seqs : Waiting(s)}
      BY <3>2
    <3> HIDE DEF freed, rows, mine
    <3> QED
      BY <3>1, <3>2, <3>3
  <2>2. PICK back \in SUBSET {s \in Seqs : Waiting(s)} :
           \/ row' = freed(back)
           \/ \E s \in Seqs : /\ s \in back \/ row[s].state = "queued"
                              /\ row' = [freed(back) EXCEPT ![s] = mine]
    BY <2>1
  <2>3. Follows(freed(back)) /\ NoNewRow(freed(back))
    BY <1>a DEF Follows, NoNewRow, RowType, States, OwnerSet, Waiting
  <2>4. ASSUME NEW s \in Seqs, s \in back \/ row[s].state = "queued",
               row' = [freed(back) EXCEPT ![s] = mine]
        PROVE  Follows(row') /\ NoNewRow(row')
    BY <1>a, <2>4 DEF Follows, NoNewRow, RowType, States, OwnerSet, Waiting
  <2> QED
    BY <2>2, <2>3, <2>4
<1>4. ASSUME NEW f \in Fiber, Mark(f)
      PROVE  Follows(row') /\ NoNewRow(row')
  <2> DEFINE s == drain[f].seq
  <2>1. s \in Seqs /\ s \in dispatched
    BY <1>a, <1>4 DEF Mark, At, DrainInv, SoundDrain
  <2>2. CASE row' = row
    BY <1>k, <2>2
  <2>3. CASE /\ row[s] = [state |-> "promoting", owner |-> epoch]
             /\ row' = [row EXCEPT ![s] = [state |-> "promoted", owner |-> 0]]
    BY <1>a, <2>1, <2>3 DEF Follows, NoNewRow, RowType, States, OwnerSet
  <2> QED
    BY <1>4, <2>2, <2>3 DEF Mark
<1>5. ASSUME NEW f \in Fiber, Undo(f) \/ DrainFails(f)
      PROVE  Follows(row') /\ NoNewRow(row')
  <2>1. \/ row' = row
        \/ row' = Released(drain[f].seq) /\ drain[f].stage \in {"dispatch", "mark", "undo"}
    <3>1. drain[f].stage \in {"none", "claim", "dispatch", "mark", "undo"}
      BY <1>a DEF TypeOK
    <3> QED
      BY <1>5, <3>1 DEF Undo, DrainFails, GiveUp, At, Busy
  <2>2. drain[f].stage \in {"dispatch", "mark", "undo"} => drain[f].seq \in Seqs
    BY <1>a DEF DrainInv, SoundDrain
  <2> QED
    BY <1>a, <1>k, <2>1, <2>2, ReleasedFollows
<1>6. ASSUME NEW f \in Fiber, Enter(f) \/ Dispatch(f)
      PROVE  Follows(row') /\ NoNewRow(row')
  BY <1>6, <1>k DEF Enter, Dispatch, durableVars
<1>7. ASSUME NEW m \in Message, Send(m)
      PROVE  Follows(row') /\ NoNewRow(row')
  BY <1>7, <1>k DEF Send
<1>8. CASE \/ CheckQueued \/ SkipStart \/ TakeStart \/ Bind \/ StartRefused
           \/ TurnStarts \/ CallFails \/ CallTimesOut \/ Exit \/ Over \/ StopSession \/ ExpireClaim \/ TakeTerminal
           \/ BootStep \/ RequestStop \/ TurnEnds \/ Crash \/ UNCHANGED vars
  BY <1>8, <1>k
     DEF CheckQueued, SkipStart, TakeStart, Bind, StartRefused, TurnStarts, CallFails,
         CallTimesOut, Exit, Over, StopSession, ExpireClaim, TakeTerminal, BootStep, StartUp, Recover, GoLive,
         RequestStop, TurnEnds, Crash, durableVars, vars
<1> QED
  BY <1>1, <1>2, <1>3, <1>4, <1>5, <1>6, <1>7, <1>8
     DEF Next, SourceStep, EventsStep, DrainStep, Fiber

\* Which steps change which variable.
LEMMA Frame ==
    ASSUME [Next]_vars
    PROVE  /\ next' # next =>
                SkipStart \/ Over \/ TakeStop \/ ExpireClaim
           /\ claimed' # claimed =>
                TakeStart \/ Over \/ TakeStop \/ ExpireClaim
           /\ job' # job =>
                (\E f \in Fiber : Undo(f) \/ DrainFails(f)) \/ TakeQueued \/ CheckQueued
                \/ TakeStart \/ Requeue \/ Bind \/ StartRefused \/ TurnStarts \/ CallFails
                \/ CallTimesOut \/ Exit \/ Over \/ TakeStop \/ StopSession \/ Crash
           /\ dispatched' # dispatched =>
                (\E f \in Fiber : Dispatch(f))
           /\ log' # log =>
                (\E f \in Fiber : Dispatch(f)) \/ (\E m \in Message : Send(m))
                \/ RequestStop
           /\ quarantined' # quarantined =>
                Over \/ ExpireClaim
           /\ phase' # phase =>
                StartUp \/ Recover \/ GoLive \/ Crash
           /\ through' # through \/ epoch' # epoch =>
                StartUp \/ Crash
           /\ reserved' # reserved =>
                (\E f \in Fiber : Dispatch(f) \/ Undo(f) \/ DrainFails(f)) \/ TakeStart
                \/ Bind \/ CallFails \/ Exit \/ Over \/ TakeStop \/ TakeTerminal \/ Crash
           /\ draining' # draining =>
                (\E f \in Fiber : Enter(f) \/ ClaimNext(f) \/ Mark(f) \/ Undo(f)
                                   \/ DrainFails(f))
                \/ TakeStop \/ Crash
           /\ drain' # drain =>
                (\E f \in Fiber : Enter(f) \/ ClaimNext(f) \/ Dispatch(f) \/ Mark(f)
                                   \/ Undo(f) \/ DrainFails(f))
                \/ CheckQueued \/ Bind \/ CallFails \/ Exit \/ TakeTerminal \/ Recover
                \/ Crash
           /\ live' # live =>
                TurnStarts \/ CallTimesOut \/ StopSession \/ TurnEnds \/ Crash
           /\ ended' # ended =>
                StopSession \/ TakeTerminal \/ TurnEnds \/ Crash
           /\ turnsOf' # turnsOf =>
                TurnStarts \/ CallTimesOut
           /\ told' # told =>
                SkipStart \/ CallFails \/ CallTimesOut
           /\ untold' # untold =>
                TakeQueued \/ SkipStart \/ Requeue \/ StartRefused \/ CallTimesOut
                \/ ExpireClaim
           /\ marks' # marks =>
                (\E f \in Fiber : Enter(f) \/ Dispatch(f) \/ DrainFails(f)) \/ SkipStart
                \/ Requeue \/ CallTimesOut \/ Exit \/ TakeTerminal \/ TurnEnds
           /\ left' # left =>
                (\E f \in Fiber : DrainFails(f)) \/ TakeQueued \/ SkipStart \/ Requeue
                \/ RequestStop \/ Crash
<1>1. ASSUME NEW f \in Fiber, Enter(f) PROVE UNCHANGED <<log, next, claimed, row,
        dispatched, quarantined, phase, through, epoch, reserved, job, live, ended,
        turnsOf, told, untold, left>>
  BY <1>1 DEF Enter, GoTo, durableVars, memoryVars, process, providerVars,
       ghostVars
<1>2. ASSUME NEW f \in Fiber, ClaimNext(f) PROVE UNCHANGED <<log, next, claimed,
        dispatched, quarantined, phase, through, epoch, reserved, job, live, ended,
        turnsOf, told, untold, marks, left>>
  BY <1>2 DEF ClaimNext, GoTo, durableVars, memoryVars, process, providerVars,
       ghostVars
<1>3. ASSUME NEW f \in Fiber, Dispatch(f) PROVE UNCHANGED <<next, claimed, row,
        quarantined, phase, through, epoch, draining, job, live, ended, turnsOf, told,
        untold, left>>
  BY <1>3 DEF Dispatch, GoTo, durableVars, memoryVars, process, providerVars,
       ghostVars
<1>4. ASSUME NEW f \in Fiber, Mark(f) PROVE UNCHANGED <<log, next, claimed, dispatched,
        quarantined, phase, through, epoch, reserved, job, live, ended, turnsOf, told,
        untold, marks, left>>
  BY <1>4 DEF Mark, GoTo, durableVars, memoryVars, process, providerVars,
       ghostVars
<1>5. ASSUME NEW f \in Fiber, Undo(f) PROVE UNCHANGED <<log, next, claimed, dispatched,
        quarantined, phase, through, epoch, live, ended, turnsOf, told, untold, marks,
        left>>
  BY <1>5 DEF Undo, GiveUp, GoTo, durableVars, memoryVars, process, providerVars,
       ghostVars
<1>6. ASSUME NEW f \in Fiber, DrainFails(f) PROVE UNCHANGED <<log, next, claimed,
        dispatched, quarantined, phase, through, epoch, live, ended, turnsOf, told,
        untold>>
  BY <1>6 DEF DrainFails, GiveUp, GoTo, durableVars, memoryVars, process, providerVars,
       ghostVars
<1>7. ASSUME NEW m \in Message, Send(m) PROVE UNCHANGED <<next, claimed, row, dispatched,
        quarantined, phase, through, epoch, reserved, draining, job, drain, live, ended,
        turnsOf, told, untold, marks, left>>
  BY <1>7 DEF Send, GoTo, durableVars, memoryVars, process, providerVars,
       ghostVars
<1>8. ASSUME RequestStop PROVE UNCHANGED <<next, claimed, row, dispatched, quarantined,
        phase, through, epoch, reserved, draining, job, drain, live, ended, turnsOf, told,
        untold, marks>>
  BY <1>8 DEF RequestStop, GoTo, durableVars, memoryVars, process, providerVars,
       ghostVars
<1>9. ASSUME TakeQueued PROVE UNCHANGED <<log, next, claimed, dispatched, quarantined,
        phase, through, epoch, reserved, draining, drain, live, ended, turnsOf, told,
        marks>>
  BY <1>9 DEF TakeQueued, Silent, GoTo, durableVars, memoryVars, process, providerVars,
       ghostVars
<1>10. ASSUME CheckQueued PROVE UNCHANGED <<log, next, claimed, row, dispatched,
        quarantined, phase, through, epoch, reserved, draining, live, ended, turnsOf,
        told, untold, marks, left>>
  BY <1>10 DEF CheckQueued, Starts, GoTo, durableVars, memoryVars, process, providerVars,
       ghostVars
<1>11. ASSUME SkipStart PROVE UNCHANGED <<log, claimed, row, dispatched, quarantined,
        phase, through, epoch, reserved, draining, job, drain, live, ended, turnsOf>>
  BY <1>11 DEF SkipStart, Shown, Silent, GoTo, durableVars, memoryVars, process, providerVars,
       ghostVars
<1>12. ASSUME TakeStart PROVE UNCHANGED <<log, next, row, dispatched, quarantined, phase,
        through, epoch, draining, drain, live, ended, turnsOf, told, untold, marks, left>>
  BY <1>12 DEF TakeStart, GoTo, durableVars, memoryVars, process, providerVars,
       ghostVars
<1>13. ASSUME Requeue PROVE UNCHANGED <<log, next, claimed, dispatched, quarantined,
        phase, through, epoch, reserved, draining, drain, live, ended, turnsOf, told>>
  BY <1>13 DEF Requeue, Silent, GoTo, durableVars, memoryVars, process, providerVars,
       ghostVars
<1>14. ASSUME Bind PROVE UNCHANGED <<log, next, claimed, row, dispatched, quarantined,
        phase, through, epoch, draining, live, ended, turnsOf, told, untold, marks, left>>
  BY <1>14 DEF Bind, Starts, GoTo, durableVars, memoryVars, process, providerVars,
       ghostVars
<1>15. ASSUME TurnStarts PROVE UNCHANGED <<log, next, claimed, row, dispatched,
        quarantined, phase, through, epoch, reserved, draining, drain, ended, told,
        untold, marks, left>>
  BY <1>15 DEF TurnStarts, GoTo, durableVars, memoryVars, process, providerVars,
       ghostVars
<1>16. ASSUME CallFails PROVE UNCHANGED <<log, next, claimed, row, dispatched,
        quarantined, phase, through, epoch, draining, live, ended, turnsOf, untold, marks,
        left>>
  BY <1>16 DEF CallFails, Shown, Starts, GoTo, durableVars, memoryVars, process, providerVars,
       ghostVars
<1>17. ASSUME CallTimesOut PROVE UNCHANGED <<log, next, claimed, row, dispatched,
        quarantined, phase, through, epoch, reserved, draining, drain, ended, left>>
  BY <1>17 DEF CallTimesOut, Shown, Silent, GoTo, durableVars, memoryVars, process, providerVars,
       ghostVars
<1>18. ASSUME Exit PROVE UNCHANGED <<log, next, claimed, row, dispatched, quarantined,
        phase, through, epoch, draining, live, ended, turnsOf, told, untold, left>>
  BY <1>18 DEF Exit, Starts, GoTo, durableVars, memoryVars, process, providerVars,
       ghostVars
<1>19. ASSUME Over PROVE UNCHANGED <<log, row, dispatched, phase, through, epoch,
        draining, drain, live, ended, turnsOf, told, untold, marks, left>>
  BY <1>19 DEF Over, GoTo, durableVars, memoryVars, process, providerVars,
       ghostVars
<1>20. ASSUME TakeStop PROVE UNCHANGED <<log, dispatched, quarantined, phase, through,
        epoch, drain, live, ended, turnsOf, told, untold, marks, left>>
  BY <1>20 DEF TakeStop, GoTo, durableVars, memoryVars, process, providerVars,
       ghostVars
<1>21. ASSUME StopSession PROVE UNCHANGED <<log, next, claimed, row, dispatched,
        quarantined, phase, through, epoch, reserved, draining, drain, turnsOf, told,
        untold, marks, left>>
  BY <1>21 DEF StopSession, GoTo, durableVars, memoryVars, process, providerVars,
       ghostVars
<1>22. ASSUME ExpireClaim PROVE UNCHANGED <<log, row, dispatched, phase, through, epoch,
        reserved, draining, job, drain, live, ended, turnsOf, told, marks, left>>
  BY <1>22 DEF ExpireClaim, Silent, GoTo, durableVars, memoryVars, process, providerVars,
       ghostVars
<1>23. ASSUME TakeTerminal PROVE UNCHANGED <<log, next, claimed, row, dispatched,
        quarantined, phase, through, epoch, draining, job, live, turnsOf, told, untold,
        left>>
  BY <1>23 DEF TakeTerminal, GoTo, durableVars, memoryVars, process, providerVars,
       ghostVars
<1>24. ASSUME StartUp PROVE UNCHANGED <<log, next, claimed, row, dispatched, quarantined,
        reserved, draining, job, drain, live, ended, turnsOf, told, untold, marks, left>>
  BY <1>24 DEF StartUp, GoTo, durableVars, memoryVars, process, providerVars,
       ghostVars
<1>25. ASSUME Recover PROVE UNCHANGED <<log, next, claimed, row, dispatched, quarantined,
        through, epoch, reserved, draining, job, live, ended, turnsOf, told, untold,
        marks, left>>
  BY <1>25 DEF Recover, GoTo, durableVars, memoryVars, process, providerVars,
       ghostVars
<1>26. ASSUME GoLive PROVE UNCHANGED <<log, next, claimed, row, dispatched, quarantined,
        through, epoch, reserved, draining, job, drain, live, ended, turnsOf, told,
        untold, marks, left>>
  BY <1>26 DEF GoLive, GoTo, durableVars, memoryVars, process, providerVars,
       ghostVars
<1>27. ASSUME TurnEnds PROVE UNCHANGED <<log, next, claimed, row, dispatched, quarantined,
        phase, through, epoch, reserved, draining, job, drain, turnsOf, told, untold,
        left>>
  BY <1>27 DEF TurnEnds, GoTo, durableVars, memoryVars, process, providerVars,
       ghostVars
<1>28. ASSUME Crash PROVE UNCHANGED <<log, next, claimed, row, dispatched, quarantined,
        epoch, turnsOf, told, untold, marks>>
  BY <1>28 DEF Crash, GoTo, durableVars, memoryVars, process, providerVars,
       ghostVars
<1>29. ASSUME StartRefused PROVE UNCHANGED <<log, next, claimed, row, dispatched,
        quarantined, phase, through, epoch, reserved, draining, drain, live, ended,
        turnsOf, told, marks, left>>
  BY <1>29 DEF StartRefused, Silent, durableVars, memoryVars, process, providerVars,
       ghostVars
<1>30. CASE UNCHANGED vars
  BY <1>30 DEF vars, durableVars, memoryVars, process, providerVars, ghostVars
<1> QED
  BY <1>1, <1>2, <1>3, <1>4, <1>5, <1>6, <1>7, <1>8, <1>9, <1>10, <1>11, <1>12, <1>13,
     <1>14, <1>15, <1>16, <1>17, <1>18, <1>19, <1>20, <1>21, <1>22, <1>23, <1>24,
     <1>25, <1>26, <1>27, <1>28, <1>29, <1>30
     DEF Next, SourceStep, EventsStep, BootStep, DrainStep, Fiber

-----------------------------------------------------------------------------
(* The shape of the state. *)

LEMMA PlaceFacts ==
    ASSUME TypeOK
    PROVE  /\ log \in Seq(Event) /\ Len(log) \in Nat /\ Len(log) <= MaxLog /\ MaxLog \in Nat
           /\ next \in 0..Len(log) /\ through \in 0..Len(log)
           /\ next < Len(log) =>
                /\ n \in 1..Len(log) /\ n \in Seqs
                /\ log[n].kind \in {"queued", "start", "stop"}
                /\ log[n].kind # "stop" => User(n) /\ Thing \in Message /\ Place \in Thread
<1>1. /\ log \in Seq(Event) /\ Len(log) \in Nat /\ Len(log) <= MaxLog /\ MaxLog \in Nat
      /\ next \in 0..Len(log) /\ through \in 0..Len(log)
  BY QueueAssumption DEF TypeOK, Event, QueueAssumption
<1>2. ASSUME next < Len(log)
      PROVE  n \in 1..Len(log) /\ n \in Seqs /\ log[n].kind \in {"queued", "start", "stop"}
  <2>1. n \in 1..Len(log) /\ n \in Seqs
    BY <1>1, <1>2 DEF n, Seqs
  <2>2. log[n] \in Event
    BY <1>1, <2>1
  <2> QED
    BY <2>1, <2>2 DEF Event
<1>3. ASSUME next < Len(log), log[n].kind # "stop"
      PROVE  User(n) /\ Thing \in Message /\ Place \in Thread
  <2>1. User(n)
    BY <1>2, <1>3 DEF User
  <2> QED
    BY <2>1, UserEvent DEF Thing, Place
<1> QED
  BY <1>1, <1>2, <1>3

\* A step of the source works on the next event.
LEMMA AtNext ==
    ASSUME TypeOK, PlaceInv
    PROVE  /\ Idle => next < Len(log) /\ job.stage = "idle" /\ ~Busy("source")
           /\ \A stage : Stage(stage) /\ stage # "idle" =>
                next < Len(log) /\ job.stage = stage /\ ~Busy("source")
<1>1. Idle => next < Len(log)
  BY PlaceFacts DEF Idle
<1> QED
  BY <1>1 DEF Idle, Stage, PlaceInv

JobType == [stage : {"idle", "check", "requeue", "bind", "call", "exit", "stop", "over"},
            turn : Nat, redrain : BOOLEAN, block : BOOLEAN]

\* The source stays at its place or passes on to the next event with empty hands.
SourceMoves ==
    /\ PlaceInv' /\ next' \in 0..Len(log') /\ claimed' \in BOOLEAN /\ job' \in JobType
    /\ \/ next' = next /\ (claimed => claimed')
       \/ next' = n /\ next < Len(log) /\ ~claimed' /\ job'.stage = "idle"
    /\ claimed /\ job.stage \notin {"requeue", "call"} =>
         job'.stage \notin {"requeue", "call"}

LEMMA PlaceStep == ASSUME ShapeInv, [Next]_vars PROVE SourceMoves
<1> USE DEF ShapeInv
<1>a. /\ Len(log) \in Nat /\ next \in 0..Len(log) /\ claimed \in BOOLEAN /\ job \in JobType
      /\ live \in 0..Len(log)
      /\ log' \in Seq(Event) /\ Len(log') \in Nat /\ Len(log) <= Len(log')
      /\ next < Len(log) => n \in 1..Len(log) /\ log[n].kind \in {"queued", "start", "stop"}
  <2>1. live \in 0..Len(log) /\ claimed \in BOOLEAN
    BY DEF TypeOK
  <2>2. job \in JobType
    <3>1. job.turn \in Nat
      BY PlaceFacts DEF TypeOK
    <3> QED
      BY <3>1 DEF TypeOK, JobType
  <2>3. log' \in Seq(Event) /\ Len(log) <= Len(log')
    BY LogStep
  <2> QED
    BY <2>1, <2>2, <2>3, PlaceFacts
<1>b. next' = next => n' = n /\ (next < Len(log) => log'[n] = log[n] /\ next < Len(log'))
  BY <1>a, LogStep DEF n
<1>c. NoJob \in JobType /\ [NoJob EXCEPT !.stage = "exit"] \in JobType
  BY DEF NoJob, JobType
<1>k. ASSUME UNCHANGED <<next, claimed, job>>, Busy("source")' => Busy("source")
      PROVE  SourceMoves
  BY <1>a, <1>b, <1>k DEF PlaceInv, SourceMoves
<1>q. ASSUME job'.stage = "idle", ~job'.block, ~claimed', ~Busy("source")'
      PROVE  PlaceInv'
  BY <1>q DEF PlaceInv
<1>s. /\ job.stage \in {"requeue", "bind", "call", "exit"} =>
            next < Len(log) /\ claimed /\ log[n].kind = "start"
      /\ job.stage = "idle" => ~job.block
  BY DEF PlaceInv
<1>1. ASSUME NEW f \in Fiber, Enter(f) \/ ClaimNext(f) \/ Dispatch(f) \/ Mark(f)
      PROVE  SourceMoves
  <2>1. UNCHANGED <<next, claimed, job>>
    BY <1>1 DEF Enter, ClaimNext, Dispatch, Mark, durableVars, process
  <2>2. Busy(f) /\ (f # "source" => drain'["source"] = drain["source"])
    BY <1>1 DEF Enter, ClaimNext, Dispatch, Mark, At, DrainGoes, NextThread, TypeOK, Fiber
  <2> QED
    BY <1>k, <2>1, <2>2 DEF Busy
<1>2. ASSUME NEW f \in Fiber, Undo(f) \/ DrainFails(f)
      PROVE  SourceMoves
  <2>1. /\ UNCHANGED <<next, claimed>> /\ Busy(f)
        /\ drain' = [drain EXCEPT ![f] = NoDrain]
        /\ job' = IF f = "source" /\ claimed THEN [NoJob EXCEPT !.stage = "exit"] ELSE job
    BY <1>2 DEF Undo, DrainFails, GiveUp, At
  <2>2. ~Busy("source")' \/ (f # "source" /\ drain'["source"] = drain["source"])
    BY <2>1 DEF Busy, NoDrain, TypeOK, Fiber
  <2>3. CASE f = "source" /\ claimed
    <3>1. log[n].kind = "start" /\ next < Len(log)
      BY <1>a, <2>1, <2>3 DEF PlaceInv
    <3>2. ~Busy("source")' /\ job' = [NoJob EXCEPT !.stage = "exit"]
      BY <2>1, <2>2, <2>3
    <3> QED
      BY <1>a, <1>b, <1>c, <2>1, <2>3, <3>1, <3>2 DEF PlaceInv, NoJob, SourceMoves
  <2>4. CASE ~(f = "source" /\ claimed)
    BY <1>k, <2>1, <2>2, <2>4 DEF Busy
  <2> QED
    BY <2>3, <2>4
<1>3. ASSUME TakeTerminal \/ Recover
      PROVE  SourceMoves
  <2>1. UNCHANGED <<next, claimed, job>> /\ drain'["source"] = drain["source"]
    BY <1>3 DEF TakeTerminal, Recover, durableVars, TypeOK, Fiber
  <2> QED
    BY <1>k, <2>1 DEF Busy
<1>4. CASE Crash
  <2>1. UNCHANGED <<next, claimed>> /\ job' = NoJob /\ ~Busy("source")'
    BY <1>4 DEF Crash, durableVars, Busy, NoDrain, Fiber
  <2> QED
    BY <1>a, <1>b, <1>c, <2>1 DEF PlaceInv, NoJob, SourceMoves
<1>5. ASSUME Idle, next' = n, claimed' \in BOOLEAN, ~claimed', UNCHANGED <<job, drain>>
      PROVE  SourceMoves
  <2>1. next < Len(log) /\ job.stage = "idle" /\ ~Busy("source")
    BY <1>5, AtNext
  <2>2. n \in 0..Len(log')
    BY <1>a, <2>1
  <2>3. PlaceInv'
    BY <1>5, <1>q, <1>s, <2>1 DEF Busy
  <2> QED
    BY <1>5, <1>a, <2>1, <2>2, <2>3 DEF SourceMoves
<1>6. CASE SkipStart \/ ExpireClaim
  <2>1. Idle /\ next' = n /\ UNCHANGED memoryVars
    BY <1>6 DEF SkipStart, ExpireClaim
  <2>2. claimed' = FALSE
    BY <1>6, <1>a DEF SkipStart, ExpireClaim
  <2> QED
    BY <1>5, <2>1, <2>2 DEF memoryVars
<1>7. CASE Over
  <2>1. next' = n /\ claimed' = FALSE /\ job' = NoJob /\ drain' = drain /\ Stage("over")
    BY <1>7 DEF Over
  <2>2. next < Len(log) /\ ~Busy("source")
    BY <2>1, AtNext
  <2>3. n \in 0..Len(log') /\ job'.stage = "idle" /\ ~job'.block
    BY <1>a, <2>1, <2>2 DEF NoJob
  <2>4. PlaceInv'
    BY <1>q, <2>1, <2>2, <2>3 DEF Busy
  <2> QED
    BY <1>c, <2>1, <2>2, <2>3, <2>4 DEF SourceMoves
<1>8. CASE TakeQueued
  <2>1. /\ Idle /\ log[n].kind = "queued" /\ UNCHANGED <<next, claimed, drain>>
        /\ job' \in {[job EXCEPT !.stage = "check"], [job EXCEPT !.stage = "over"]}
    BY <1>8 DEF TakeQueued, GoTo
  <2> QED
    BY <1>a, <1>b, <2>1, AtNext DEF PlaceInv, Busy, JobType, SourceMoves
<1>9. CASE CheckQueued
  <2>1. /\ Stage("check") /\ UNCHANGED <<next, claimed>>
        /\ job' = [job EXCEPT !.stage = "over"]
    BY <1>9 DEF CheckQueued, GoTo, durableVars
  <2> QED
    BY <1>a, <1>b, <2>1, AtNext DEF PlaceInv, JobType, SourceMoves
<1>10. CASE TakeStart
  <2>1. /\ Idle /\ log[n].kind = "start" /\ UNCHANGED <<next, drain>> /\ claimed' = TRUE
        /\ ~claimed
    BY <1>10 DEF TakeStart
  <2>2. job' \in JobType /\ job'.stage \in {"call", "requeue"} /\ ~job'.block
    <3>1. live \in Nat
      BY <1>a
    <3>2. job' = [stage |-> IF live = 0 THEN "call" ELSE "requeue", turn |-> live,
                  redrain |-> TRUE, block |-> FALSE]
      BY <1>10 DEF TakeStart, NoJob
    <3> QED
      BY <3>1, <3>2 DEF JobType
  <2>3. next < Len(log) /\ ~Busy("source")
    BY <2>1, AtNext
  <2>4. PlaceInv'
    BY <1>b, <2>1, <2>2, <2>3 DEF PlaceInv, Busy
  <2> QED
    BY <1>a, <2>1, <2>2, <2>4 DEF SourceMoves
<1>11. CASE Requeue
  <2>1. /\ Stage("requeue") /\ UNCHANGED <<next, claimed, drain>>
        /\ job' \in {[job EXCEPT !.stage = "bind"], [job EXCEPT !.stage = "exit"]}
    BY <1>11 DEF Requeue, GoTo
  <2> QED
    BY <1>a, <1>b, <2>1, AtNext DEF PlaceInv, Busy, JobType, SourceMoves
<1>12. CASE Bind \/ Exit
  <2>1. /\ UNCHANGED <<next, claimed>> /\ (Stage("bind") \/ Stage("exit"))
        /\ job' \in {[job EXCEPT !.stage = "exit"], [job EXCEPT !.stage = "over"]}
    BY <1>12 DEF Bind, Exit, GoTo, durableVars
  <2>2. next < Len(log) /\ claimed /\ log[n].kind = "start" /\ ~Busy("source")
    BY <1>s, <2>1, AtNext DEF Stage
  <2>3. job' \in JobType /\ job'.stage \in {"exit", "over"}
    BY <1>a, <2>1 DEF JobType
  <2>4. PlaceInv'
    BY <1>b, <2>1, <2>2, <2>3 DEF PlaceInv
  <2> QED
    BY <1>a, <2>1, <2>3, <2>4 DEF SourceMoves
<1>13. CASE TurnStarts
  <2>1. /\ Stage("call") /\ UNCHANGED <<next, claimed, drain>>
        /\ job' = [job EXCEPT !.stage = "bind", !.turn = n]
    BY <1>13 DEF TurnStarts, durableVars
  <2>2. next < Len(log) /\ claimed /\ log[n].kind = "start" /\ ~Busy("source")
    BY <1>s, <2>1, AtNext DEF Stage
  <2>3. job' \in JobType /\ job'.stage = "bind" /\ ~job'.block
    <3>1. n \in Nat /\ ~job.block /\ job \in JobType
      BY <1>a, <2>1, <2>2 DEF Stage, PlaceInv
    <3> QED
      BY <2>1, <3>1 DEF JobType
  <2>4. PlaceInv'
    BY <1>b, <2>1, <2>2, <2>3 DEF PlaceInv, Busy
  <2> QED
    BY <1>a, <2>1, <2>3, <2>4 DEF SourceMoves
<1>14. CASE CallFails \/ StartRefused
  <2>1. /\ Stage("call") /\ UNCHANGED <<next, claimed>>
        /\ \E block \in BOOLEAN : job' = [job EXCEPT !.stage = "exit", !.block = block]
    BY <1>14 DEF CallFails, StartRefused, durableVars
  <2>2. next < Len(log) /\ claimed /\ log[n].kind = "start" /\ ~Busy("source")
    BY <1>s, <2>1, AtNext DEF Stage
  <2>3. job' \in JobType /\ job'.stage = "exit"
    BY <1>a, <2>1, <2>2 DEF JobType, Stage, PlaceInv
  <2>4. PlaceInv'
    BY <1>b, <2>1, <2>2, <2>3 DEF PlaceInv
  <2> QED
    BY <1>a, <2>1, <2>3, <2>4 DEF SourceMoves
<1>15. CASE CallTimesOut
  <2>1. /\ Stage("call") /\ UNCHANGED <<next, claimed, drain>>
        /\ job' = [job EXCEPT !.stage = "exit", !.block = TRUE, !.redrain = FALSE]
    BY <1>15 DEF CallTimesOut, durableVars
  <2>2. next < Len(log) /\ claimed /\ log[n].kind = "start" /\ ~Busy("source")
    BY <1>s, <2>1, AtNext DEF Stage
  <2>3. job' \in JobType /\ job'.stage = "exit"
    BY <1>a, <2>1, <2>2 DEF JobType, Stage, PlaceInv
  <2>4. PlaceInv'
    BY <1>b, <2>1, <2>2, <2>3 DEF PlaceInv, Busy
  <2> QED
    BY <1>a, <2>1, <2>3, <2>4 DEF SourceMoves
<1>16. CASE TakeStop
  <2>1. CASE next' = n /\ UNCHANGED <<claimed, job>>
    BY <1>5, <1>16, <2>1, <1>a DEF TakeStop
  <2>2. CASE /\ claimed' = TRUE /\ job' = [job EXCEPT !.stage = "stop"] /\ UNCHANGED <<next, drain>>
             /\ Idle /\ log[n].kind = "stop" /\ ~claimed
    BY <1>a, <1>b, <2>2, AtNext DEF PlaceInv, Busy, JobType, SourceMoves
  <2> QED
    BY <1>16, <2>1, <2>2 DEF TakeStop, GoTo
<1>17. CASE StopSession
  <2>1. /\ Stage("stop") /\ UNCHANGED <<next, claimed, drain>>
        /\ job' = [job EXCEPT !.stage = "over"]
    BY <1>17 DEF StopSession, GoTo, durableVars
  <2> QED
    BY <1>a, <1>b, <2>1, AtNext DEF PlaceInv, Busy, JobType, SourceMoves
<1>18. CASE next' = next /\ claimed' = claimed /\ job' = job /\ drain' = drain
  BY <1>18, <1>k DEF Busy
<1>19. CASE next' # next \/ claimed' # claimed
  BY <1>6, <1>7, <1>10, <1>16, <1>19, Frame
<1>20. CASE job' # job
  BY <1>2, <1>4, <1>7, <1>8, <1>9, <1>10, <1>11, <1>12, <1>13, <1>14, <1>15, <1>16, <1>17,
     <1>20, Frame
<1>21. CASE drain' # drain
  BY <1>1, <1>2, <1>3, <1>4, <1>9, <1>12, <1>14, <1>21, Frame
<1> QED
  BY <1>18, <1>19, <1>20, <1>21

\* What was dispatched has a row, and stays dispatched.
LEMMA DispatchedStep ==
    ASSUME ShapeInv, [Next]_vars
    PROVE  /\ dispatched \subseteq dispatched'
           /\ \A s \in dispatched' : s \in Seqs /\ row'[s].state # "none"
<1>1. \A s \in dispatched : s \in Seqs /\ row[s].state # "none"
  BY DEF ShapeInv, TypeOK
<1>2. ASSUME NEW f \in Fiber, Dispatch(f)
      PROVE  /\ dispatched \subseteq dispatched'
             /\ \A s \in dispatched' : s \in Seqs /\ row[s].state # "none"
  <2>1. drain[f].seq \in Seqs /\ row[drain[f].seq].state # "none"
    BY <1>2 DEF Dispatch, At, ShapeInv, DrainInv, SoundDrain
  <2>2. dispatched' \in {dispatched, dispatched \cup {drain[f].seq}}
    BY <1>2 DEF Dispatch
  <2> QED
    BY <1>1, <2>1, <2>2
<1>3. /\ dispatched \subseteq dispatched'
      /\ \A s \in dispatched' : s \in Seqs /\ row[s].state # "none"
  BY <1>1, <1>2, Frame
<1> QED
  BY <1>3, RowStep DEF Follows

LEMMA RowInvStep ==
    ASSUME ShapeInv, [Next]_vars
    PROVE  RowInv'
<1>a. /\ Len(log) \in Nat /\ next \in 0..Len(log) /\ Len(log') \in Nat
      /\ Len(log) <= Len(log') /\ \A s \in 1..Len(log) : log'[s] = log[s]
      /\ next < Len(log) => n \in 1..Len(log)
      /\ TypeOK /\ RowInv /\ PlaceInv
  BY PlaceFacts, LogStep DEF ShapeInv
<1>b. SourceMoves
  BY PlaceStep
<1>c. /\ next' \in Nat /\ next <= next' /\ n \in Nat
      /\ next' = next => n' = n
      /\ next' = n \/ next' = next
  <2>1. next' \in 0..Len(log') /\ (next' = n \/ next' = next)
    BY <1>b DEF SourceMoves
  <2>2. n = next + 1 /\ (next' = next => n' = n)
    BY DEF n
  <2> QED
    BY <1>a, <2>1, <2>2
<1>1. ASSUME NEW s \in Seqs, User(s), MayHaveRow(s)
      PROVE  User(s)' /\ MayHaveRow(s)'
  <2>1. s \in 1..Len(log) /\ User(s)'
    BY <1>a, <1>1 DEF User
  <2>2. CASE s <= next
    BY <1>a, <1>c, <2>1, <2>2 DEF MayHaveRow
  <2>3. CASE s = n /\ next' = n
    BY <1>c, <2>1, <2>3 DEF MayHaveRow
  <2>4. CASE s = n /\ next' = next
    BY <1>1, <1>a, <1>b, <1>c, <2>1, <2>4 DEF MayHaveRow, SourceMoves
  <2> QED
    BY <1>1, <1>c, <2>2, <2>3, <2>4 DEF MayHaveRow
<1>2. ASSUME TakeQueued \/ Requeue
      PROVE  User(n)' /\ MayHaveRow(n)' /\ n \in Seqs
  <2>1. /\ next < Len(log) /\ UNCHANGED <<log, next, claimed>>
        /\ \/ log[n].kind = "queued"
           \/ /\ claimed /\ log[n].kind = "start"
              /\ job' \in {[job EXCEPT !.stage = "bind"], [job EXCEPT !.stage = "exit"]}
    BY <1>2, <1>a, AtNext DEF TakeQueued, Requeue, Stage, GoTo, PlaceInv
  <2>2. job'.stage \notin {"requeue", "call"} \/ log[n].kind = "queued"
    <3>1. job \in JobType
      <4>1. job.turn \in Nat
        BY <1>a DEF TypeOK
      <4> QED
        BY <1>a, <4>1 DEF TypeOK, JobType
    <3> QED
      BY <2>1, <3>1 DEF JobType
  <2> QED
    BY <1>a, <1>c, <2>1, <2>2, PlaceFacts DEF User, MayHaveRow
<1>3. ASSUME NEW s \in Seqs, row'[s].state # "none"
      PROVE  User(s)' /\ MayHaveRow(s)'
  <2>1. CASE row[s].state # "none"
    BY <1>1, <1>a, <2>1 DEF RowInv
  <2>2. CASE row[s].state = "none"
    <3>1. /\ TakeQueued \/ Requeue
          /\ row' = Enqueued(n, Thing)
      BY <1>3, <2>2, RowStep DEF NoNewRow
    <3>2. s = n
      BY <1>2, <1>3, <1>a, <2>2, <3>1, EnqueuedFollows
    <3>3. User(n)' /\ MayHaveRow(n)' /\ n' = n
      BY <1>2, <3>1 DEF TakeQueued, Requeue, n
    <3> QED
      BY <3>2, <3>3 DEF User, MayHaveRow
  <2> QED
    BY <2>1, <2>2
<1>4. ASSUME NEW s \in Seqs, row'[s].state = "promoted"
      PROVE  s \in dispatched'
  BY <1>4, <1>a, RowStep, DispatchedStep DEF RowInv, Follows
<1> QED
  BY <1>3, <1>4 DEF RowInv

DrainType(k) == [todo : Seq(Thread), seq : 0..k,
                 stage : {"none", "claim", "dispatch", "mark", "undo"}]

\* A drain about to begin with the threads q.
Fresh(q) == [NoDrain EXCEPT !.todo = q]

LEMMA FreshIsSound ==
    ASSUME NEW q \in Seq(Thread), NEW r, NEW done, NEW k \in Nat
    PROVE  Fresh(q) \in DrainType(k) /\ SoundDrain(Fresh(q), r, done)
BY DEF Fresh, NoDrain, DrainType, SoundDrain

LEMMA DrainKept ==
    ASSUME NEW k \in Nat, NEW l \in Nat, k <= l,
           NEW d \in DrainType(k), NEW r, NEW done, SoundDrain(d, r, done),
           NEW q, \A s \in Seqs : r[s].state # "none" => q[s].state # "none",
           NEW past, done \subseteq past
    PROVE  d \in DrainType(l) /\ SoundDrain(d, q, past)
<1>1. d \in DrainType(l)
  BY DEF DrainType
<1> QED
  BY <1>1 DEF SoundDrain

Drains(x, k, r, done) ==
    x \in [Fiber -> DrainType(k)] /\ \A f \in Fiber : SoundDrain(x[f], r, done)

\* One drain is replaced by a sound one.
LEMMA DrainReplaced ==
    ASSUME NEW x, NEW k, NEW r, NEW done, Drains(x, k, r, done),
           NEW f \in Fiber, NEW d \in DrainType(k), SoundDrain(d, r, done)
    PROVE  Drains([x EXCEPT ![f] = d], k, r, done)
BY DEF Drains

\* Each drain is where the steps of a drain lead.
LEMMA DrainMoves ==
    ASSUME ShapeInv, [Next]_vars
    PROVE  Drains(drain', Len(log'), row', dispatched')
<1> DEFINE k == Len(log')
           G == Drains(drain', k, row', dispatched')
<1>a. /\ Len(log) \in Nat /\ k \in Nat /\ Len(log) <= k /\ MaxLog \in Nat
      /\ TypeOK /\ RowInv /\ PlaceInv /\ DrainInv
  BY PlaceFacts, LogStep DEF ShapeInv
<1>b. /\ \A s \in Seqs : row[s].state # "none" => row'[s].state # "none"
      /\ dispatched \subseteq dispatched'
  BY RowStep, DispatchedStep DEF Follows
<1>n. Owner \in Thread
  BY QueueAssumption DEF QueueAssumption
<1> HIDE DEF k
<1>t. drain \in [Fiber -> DrainType(Len(log))]
  BY DEF ShapeInv, TypeOK, DrainType
<1>c. Drains(drain, k, row', dispatched')
  <2>1. \A f \in Fiber : drain[f] \in DrainType(Len(log)) /\ SoundDrain(drain[f], row, dispatched)
    BY <1>a, <1>t DEF DrainInv
  <2>2. \A f \in Fiber : drain[f] \in DrainType(k) /\ SoundDrain(drain[f], row', dispatched')
    BY <1>a, <1>b, <2>1, DrainKept
  <2> QED
    BY <1>t, <2>2 DEF Drains
<1>d. \A q \in Seq(Thread) :
        Fresh(q) \in DrainType(k) /\ SoundDrain(Fresh(q), row', dispatched')
  BY <1>a, FreshIsSound
<1>e. NoDrain \in DrainType(k) /\ SoundDrain(NoDrain, row', dispatched')
  <2>1. NoDrain = Fresh(<< >>) /\ << >> \in Seq(Thread)
    BY DEF NoDrain, Fresh
  <2> QED
    BY <1>d, <2>1
<1>k. ASSUME drain' = drain PROVE G
  BY <1>c, <1>k
<1>g. ASSUME NEW f \in Fiber, Busy(f),
             NEW s \in 0..k, NEW stage \in {"claim", "dispatch", "mark", "undo"},
             stage # "claim" => s \in Seqs /\ row'[s].state # "none",
             stage \in {"mark", "undo"} => s \in dispatched',
             DrainGoes(f, stage, s)
      PROVE  G
  <2> DEFINE d == [drain[f] EXCEPT !.stage = stage, !.seq = s]
  <2>1. drain' = [drain EXCEPT ![f] = d]
    BY <1>t, <1>g DEF DrainGoes
  <2>2. drain[f] \in DrainType(k) /\ drain[f].todo # << >>
    BY <1>c, <1>g DEF Busy, Drains
  <2>3. d \in DrainType(k) /\ d.todo # << >> /\ d.stage = stage /\ d.seq = s
    BY <2>2 DEF DrainType
  <2> HIDE DEF d
  <2>4. SoundDrain(d, row', dispatched')
    BY <1>g, <2>3 DEF SoundDrain
  <2> QED
    BY <1>c, <2>1, <2>3, <2>4, DrainReplaced
<1>h. ASSUME NEW f \in Fiber, NextThread(f), Busy(f)
      PROVE  G
  <2>1. Tail(drain[f].todo) \in Seq(Thread)
    BY <1>t, <1>h DEF Busy, DrainType
  <2>2. drain' = [drain EXCEPT ![f] = Fresh(Tail(drain[f].todo))]
    BY <1>h DEF NextThread, Fresh
  <2> QED
    BY <1>c, <1>d, <2>1, <2>2, DrainReplaced
<1>s. ASSUME NEW f \in Fiber, NEW q \in Seq(Thread), ~Busy(f),
             drain' = [drain EXCEPT ![f].todo = q]
      PROVE  G
  <2>1. drain[f] = NoDrain
    BY <1>a, <1>s DEF DrainInv, SoundDrain, Busy
  <2>2. drain' = [drain EXCEPT ![f] = Fresh(q)]
    BY <1>s, <1>t, <2>1 DEF Fresh
  <2> QED
    BY <1>c, <1>d, <2>2, DrainReplaced
<1> HIDE DEF G
<1>1. ASSUME NEW f \in Fiber, Enter(f) PROVE G
  <2>1. Busy(f) /\ (NextThread(f) \/ DrainGoes(f, "claim", 0)) /\ 0 \in 0..k
    BY <1>a, <1>1 DEF Enter, At
  <2> QED
    BY <1>g, <1>h, <2>1
<1>2. ASSUME NEW f \in Fiber, ClaimNext(f) PROVE G
  <2>1. Busy(f)
    BY <1>2 DEF ClaimNext, At
  <2>2. CASE NextThread(f)
    BY <1>h, <2>1, <2>2
  <2>3. CASE \E s \in Seqs : /\ User(s) /\ DrainGoes(f, "dispatch", s)
                             /\ row[s].state # "none"
    <3>1. PICK s \in Seqs : /\ User(s) /\ DrainGoes(f, "dispatch", s)
                            /\ row[s].state # "none"
      BY <2>3
    <3>2. s \in 0..k
      BY <1>a, <3>1 DEF User
    <3> QED
      BY <1>b, <1>g, <2>1, <3>1, <3>2
  <2>4. \/ NextThread(f)
        \/ \E s \in Seqs : Waiting(s) /\ DrainGoes(f, "dispatch", s)
    <3> DEFINE rows == Rows(Head(drain[f].todo))
               foreign == {s \in rows : row[s].state = "promoting" /\ row[s].owner # epoch}
    <3>1. PICK expired \in SUBSET {s \in rows : row[s].owner = epoch} :
             LET back == foreign \cup expired
                 open == back \cup {s \in rows : row[s].state = "queued"}
             IN  NextThread(f) \/ \E s \in open : DrainGoes(f, "dispatch", s)
      BY <1>2 DEF ClaimNext
    <3>2. \A s \in rows : s \in Seqs /\ Waiting(s)
      BY DEF Rows
    <3> HIDE DEF rows
    <3> QED
      BY <3>1, <3>2
  <2> QED
    BY <1>a, <2>2, <2>3, <2>4 DEF RowInv, Waiting
<1>3. ASSUME NEW f \in Fiber, Dispatch(f) \/ Mark(f) PROVE G
  <2> DEFINE s == drain[f].seq
  <2>1. Busy(f) /\ s \in Seqs /\ row[s].state # "none" /\ User(s)
    BY <1>3, <1>a DEF Dispatch, Mark, At, DrainInv, SoundDrain, RowInv
  <2>2. s \in 0..k
    BY <1>a, <2>1 DEF User
  <2>3. \/ DrainGoes(f, "mark", s) /\ s \in dispatched'
        \/ DrainGoes(f, "undo", s) /\ s \in dispatched
        \/ NextThread(f)
    BY <1>3, <1>a DEF Dispatch, Mark, At, DrainInv, SoundDrain
  <2> QED
    BY <1>b, <1>g, <1>h, <2>1, <2>2, <2>3
<1>4. ASSUME NEW f \in Fiber, Undo(f) \/ DrainFails(f) PROVE G
  <2>1. drain' = [drain EXCEPT ![f] = NoDrain]
    BY <1>4 DEF Undo, DrainFails, GiveUp
  <2> QED
    BY <1>c, <1>e, <2>1, DrainReplaced DEF G
<1>5. ASSUME CheckQueued \/ Bind \/ Exit \/ CallFails PROVE G
  <2>1. Place \in Thread /\ ~Busy("source")
    <3>1. /\ next < Len(log) /\ log[n].kind # "stop" /\ ~Busy("source")
      BY <1>5, <1>a, AtNext DEF CheckQueued, Bind, Exit, CallFails, Stage, PlaceInv
    <3> QED
      BY <1>a, <3>1, PlaceFacts
  <2>2. <<Place>> \in Seq(Thread) /\ Visit(Place) \in Seq(Thread)
    BY <1>a, <2>1, Visited
  <2>3. drain' = drain \/ Starts(<<Place>>) \/ Starts(Visit(Place))
    BY <1>5 DEF CheckQueued, Bind, Exit, CallFails, BindTo
  <2> QED
    BY <1>k, <1>s, <2>1, <2>2, <2>3 DEF Starts, Fiber
<1>6. ASSUME TakeTerminal \/ Recover PROVE G
  <2>1. /\ ~Busy("events")
        /\ \/ drain' = drain
           \/ drain' = [drain EXCEPT !["events"].todo = Visit(Owner)]
           \/ drain' = [drain EXCEPT !["events"].todo = SetToSeq(PendingThreads)]
    BY <1>6 DEF TakeTerminal, Recover, ShapeInv, BootInv
  <2> QED
    BY <1>a, <1>k, <1>n, <1>s, <2>1, Visited DEF Fiber
<1>7. ASSUME Crash PROVE G
  <2>1. drain' = [f \in Fiber |-> NoDrain]
    BY <1>7 DEF Crash
  <2> QED
    BY <1>e, <2>1 DEF Drains, G
<1>8. ASSUME drain' # drain PROVE G
  BY <1>1, <1>2, <1>3, <1>4, <1>5, <1>6, <1>7, <1>8, Frame
<1>9. G
  BY <1>k, <1>8
<1> QED
  BY <1>9 DEF G, k

LEMMA BootStepKept ==
    ASSUME ShapeInv, [Next]_vars
    PROVE  /\ BootInv' /\ phase' \in {"down", "replay", "recover", "live"}
           /\ epoch' \in 1..Crashes + 1 /\ through' \in 0..Len(log')
           /\ left' \in [crash : 0..Crashes, fault : 0..Faults, stop : 0..Stops]
<1>a. /\ Crashes \in Nat /\ Faults \in Nat /\ Stops \in Nat
      /\ left \in [crash : 0..Crashes, fault : 0..Faults, stop : 0..Stops]
      /\ phase \in {"down", "replay", "recover", "live"} /\ epoch \in 1..Crashes + 1
      /\ Len(log) \in Nat /\ through \in 0..Len(log) /\ Len(log') \in Nat
      /\ Len(log) <= Len(log') /\ TypeOK /\ PlaceInv /\ BootInv /\ DrainInv
  <2>1. TypeOK /\ PlaceInv /\ BootInv /\ DrainInv
    BY DEF ShapeInv
  <2>2. Len(log) \in Nat /\ through \in 0..Len(log) /\ Len(log') \in Nat
    BY <2>1, PlaceFacts, LogStep DEF ShapeInv
  <2>3. Len(log) <= Len(log')
    BY LogStep DEF ShapeInv
  <2>4. /\ left \in [crash : 0..Crashes, fault : 0..Faults, stop : 0..Stops]
        /\ phase \in {"down", "replay", "recover", "live"} /\ epoch \in 1..Crashes + 1
    BY <2>1 DEF TypeOK
  <2> QED
    BY <2>1, <2>2, <2>3, <2>4, QueueAssumption DEF QueueAssumption
<1>b. epoch = Crashes + 1 - left.crash - (IF phase = "down" THEN 1 ELSE 0)
  BY <1>a DEF BootInv
<1>1. /\ left' \in [crash : 0..Crashes, fault : 0..Faults, stop : 0..Stops]
      /\ left'.crash = IF phase # "down" /\ Crash THEN left.crash - 1 ELSE left.crash
  <2>1. ASSUME NEW f \in Fiber, DrainFails(f)
        PROVE  left' = [left EXCEPT !.fault = @ - 1] /\ left.fault > 0 /\ phase' = phase
    BY <2>1 DEF DrainFails, StatementFails, GiveUp, May, process
  <2>2. ASSUME RequestStop
        PROVE  left' = [left EXCEPT !.stop = @ - 1] /\ left.stop > 0 /\ phase' = phase
    BY <2>2 DEF RequestStop, May, memoryVars, process
  <2>3. ASSUME Crash
        PROVE  /\ left' = [left EXCEPT !.crash = @ - 1] /\ left.crash > 0
               /\ phase # "down" /\ phase' = "down"
    BY <2>3 DEF Crash, May
  <2>6. ASSUME TakeQueued \/ SkipStart \/ Requeue, left' # left
        PROVE  left' = [left EXCEPT !.fault = @ - 1] /\ left.fault > 0 /\ phase' = phase
    BY <2>6 DEF TakeQueued, SkipStart, Requeue, StatementFails, May, process, memoryVars
  <2>4. CASE left' # left
    <3>1. \/ Crash \/ RequestStop \/ TakeQueued \/ SkipStart \/ Requeue
          \/ \E f \in Fiber : DrainFails(f)
      BY <2>4, Frame
    <3>2. ASSUME \/ phase' = phase /\ left' = [left EXCEPT !.fault = @ - 1] /\ left.fault > 0
                 \/ phase' = phase /\ left' = [left EXCEPT !.stop = @ - 1] /\ left.stop > 0
          PROVE  /\ left' \in [crash : 0..Crashes, fault : 0..Faults, stop : 0..Stops]
                 /\ left'.crash = left.crash
      <4>1. /\ left \in [crash : 0..Crashes, fault : 0..Faults, stop : 0..Stops]
            /\ Crashes \in Nat /\ Faults \in Nat /\ Stops \in Nat
        BY <1>a
      <4>2. CASE left' = [left EXCEPT !.fault = @ - 1] /\ left.fault > 0
        <5>1. left.fault - 1 \in 0..Faults
          BY <4>1, <4>2
        <5> QED
          BY <4>1, <4>2, <5>1
      <4>3. CASE left' = [left EXCEPT !.stop = @ - 1] /\ left.stop > 0
        <5>1. left.stop - 1 \in 0..Stops
          BY <4>1, <4>3
        <5> QED
          BY <4>1, <4>3, <5>1
      <4> QED
        BY <3>2, <4>2, <4>3
    <3>3. CASE Crash
      BY <1>a, <2>3, <3>3
    <3>4. CASE ~Crash
      BY <2>1, <2>2, <2>4, <2>6, <3>1, <3>2, <3>4
    <3> QED
      BY <3>3, <3>4
  <2>5. CASE left' = left
    <3>1. ~Crash
      BY <1>a, <2>3, <2>5
    <3> QED
      BY <1>a, <2>5, <3>1
  <2> QED
    BY <2>4, <2>5
<1>c. /\ left.crash \in Nat /\ left.crash <= Crashes
      /\ left'.crash \in Nat /\ left'.crash <= Crashes
  BY <1>a, <1>1
<1>d. Crashes \in Nat /\ epoch \in Nat
  BY <1>a
<1>2. /\ epoch' \in 1..Crashes + 1 /\ phase' \in {"down", "replay", "recover", "live"}
      /\ epoch' = Crashes + 1 - left'.crash - (IF phase' = "down" THEN 1 ELSE 0)
      /\ through' \in 0..Len(log')
  <2>1. CASE StartUp
    <3>1. /\ phase = "down" /\ phase' = "replay" /\ epoch' = epoch + 1 /\ through' = Len(log)
      BY <2>1 DEF StartUp
    <3>2. left'.crash = left.crash
      BY <1>1, <3>1
    <3>3. epoch = Crashes + 1 - left.crash - 1
      BY <1>a, <1>b, <1>c, <3>1
    <3>4. epoch' = Crashes + 1 - left'.crash
      <4>1. PICK c \in Nat : c = left.crash
        BY <1>c
      <4>2. PICK e \in Nat : e = epoch
        BY <1>a
      <4>3. PICK k \in Nat : k = Crashes
        BY <1>a
      <4>4. e = k + 1 - c - 1
        BY <3>3, <4>1, <4>2, <4>3
      <4>5. e + 1 = k + 1 - c
        BY <4>4
      <4> QED
        BY <3>1, <3>2, <4>1, <4>2, <4>3, <4>5
    <3>5. epoch' \in 1..Crashes + 1
      <4>1. epoch' \in Nat /\ epoch' >= 1
        BY <1>d, <3>1
      <4>2. epoch' <= Crashes + 1
        BY <1>c, <1>d, <3>4
      <4> QED
        BY <1>d, <4>1, <4>2
    <3>6. through' \in 0..Len(log')
      BY <1>a, <3>1
    <3> QED
      BY <1>a, <1>c, <3>1, <3>4, <3>5, <3>6
  <2>2. CASE Crash
    <3>1. phase # "down" /\ phase' = "down" /\ through' = 0 /\ epoch' = epoch
      BY <2>2 DEF Crash
    <3>2. left'.crash = left.crash - 1 /\ epoch = Crashes + 1 - left.crash
      BY <1>1, <1>a, <1>b, <1>c, <2>2, <3>1
    <3>3. epoch' = Crashes + 1 - left'.crash - 1
      <4>1. PICK c \in Nat : c = left.crash
        BY <1>c
      <4>2. PICK d \in Nat : d = left'.crash
        BY <1>c
      <4>3. epoch = Crashes + 1 - c /\ d = c - 1
        BY <3>2, <4>1, <4>2
      <4>4. Crashes + 1 - c = Crashes + 1 - d - 1
        BY <1>d, <4>3
      <4> QED
        BY <3>1, <4>2, <4>3, <4>4
    <3>4. through' \in 0..Len(log')
      BY <1>a, <3>1
    <3> QED
      BY <1>a, <3>1, <3>3, <3>4
  <2>3. CASE ~StartUp /\ ~Crash
    <3>1. epoch' = epoch /\ through' = through
      BY <2>3, Frame
    <3>2. phase' = phase \/ (phase # "down" /\ phase' \in {"recover", "live"})
      BY <2>3, Frame DEF Recover, GoLive
    <3>3. left'.crash = left.crash
      BY <1>1, <2>3
    <3>4. phase' = "down" <=> phase = "down"
      BY <3>2
    <3>5. epoch' = Crashes + 1 - left'.crash - (IF phase' = "down" THEN 1 ELSE 0)
      BY <1>b, <3>1, <3>3, <3>4
    <3>6. through' \in 0..Len(log')
      BY <1>a, <3>1
    <3> QED
      BY <1>a, <3>1, <3>2, <3>5, <3>6
  <2> QED
    BY <2>1, <2>2, <2>3
<1>3. phase' = "down" => job' = NoJob /\ \A f \in Fiber : drain'[f] = NoDrain
  <2>1. CASE Crash
    BY <2>1 DEF Crash
  <2>2. CASE ~Crash /\ phase' = "down"
    <3>1. phase = "down"
      BY <2>2, Frame DEF StartUp, Recover, GoLive
    <3>2. job = NoJob /\ (\A f \in Fiber : drain[f] = NoDrain) /\ ~Idle
      BY <1>a, <3>1 DEF BootInv, Idle
    <3>3. /\ \A f \in Fiber : ~Busy(f)
          /\ \A stage : stage # "idle" => ~Stage(stage)
      BY <3>2 DEF Busy, NoDrain, Stage, NoJob
    <3>4. job' = job
      BY <2>2, <3>2, <3>3, Frame
         DEF TakeQueued, CheckQueued, TakeStart, Requeue, Bind, StartRefused,
             TurnStarts, CallFails, CallTimesOut, Exit, Over, TakeStop, StopSession, Undo, DrainFails, At
    <3>5. drain' = drain
      BY <2>2, <3>1, <3>2, <3>3, Frame
         DEF CheckQueued, Bind, CallFails, Exit, TakeTerminal, Recover, Enter, ClaimNext,
             Dispatch, Mark, Undo, DrainFails, At
    <3> QED
      BY <3>2, <3>4, <3>5
  <2> QED
    BY <2>1, <2>2
<1>4. phase' = "replay" => ~Busy("events")'
  <2> SUFFICES ASSUME phase' = "replay" PROVE ~Busy("events")'
    OBVIOUS
  <2>1. ~Crash /\ ~Recover /\ ~TakeTerminal
    BY <1>a, Frame DEF Crash, Recover, TakeTerminal, process, memoryVars
  <2>2. phase \in {"down", "replay"}
    BY Frame DEF StartUp, Recover, GoLive, Crash
  <2>3. ~Busy("events")
    BY <1>a, <2>2 DEF BootInv, Busy, NoDrain, Fiber
  <2>4. ASSUME NEW f \in Fiber,
               Enter(f) \/ ClaimNext(f) \/ Dispatch(f) \/ Mark(f) \/ Undo(f) \/ DrainFails(f)
        PROVE  drain'["events"] = drain["events"]
    <3>1. f # "events" /\ f \in Fiber /\ "events" \in Fiber
      BY <2>3, <2>4 DEF Enter, ClaimNext, Dispatch, Mark, Undo, DrainFails, At, Fiber
    <3> QED
      BY <1>a, <2>4, <3>1
         DEF Enter, ClaimNext, Dispatch, Mark, Undo, DrainFails, GiveUp, NextThread,
             DrainGoes, TypeOK
  <2>5. ASSUME CheckQueued \/ Bind \/ CallFails \/ Exit
        PROVE  drain'["events"] = drain["events"]
    BY <1>a, <2>5 DEF CheckQueued, Bind, CallFails, Exit, BindTo, Starts, TypeOK, Fiber
  <2>6. drain'["events"] = drain["events"]
    BY <2>1, <2>4, <2>5, Frame
  <2> QED
    BY <2>3, <2>6 DEF Busy
<1> QED
  BY <1>1, <1>2, <1>3, <1>4 DEF BootInv

ReservedType(k) ==
    {Free} \cup [msg : Message, turn : 0..k, ended : SUBSET (1..k), held : BOOLEAN]

\* What the reservation may become without naming another message.
LEMMA ReservedMoves ==
    ASSUME NEW k \in Nat, NEW l \in Nat, k <= l, NEW r \in ReservedType(k)
    PROVE  /\ r \in ReservedType(l)
           /\ \A b \in BOOLEAN : (r.msg \notin Message => ~b) =>
                [r EXCEPT !.held = b] \in ReservedType(l)
           /\ r # Free => \A t \in 0..k :
                /\ [r EXCEPT !.turn = t, !.ended = {}] \in ReservedType(l)
                /\ t # 0 => [r EXCEPT !.ended = @ \cup {t}] \in ReservedType(l)
<1>1. CASE r = Free
  <2>1. r \in ReservedType(l) /\ r.held = FALSE /\ r.msg = "none"
    BY <1>1 DEF ReservedType, Free
  <2>0. ASSUME NEW b \in BOOLEAN
        PROVE  [r EXCEPT !.held = b] = [msg |-> "none", turn |-> 0, ended |-> {}, held |-> b]
    <3>1. [[msg |-> "none", turn |-> 0, ended |-> {}, held |-> FALSE] EXCEPT !.held = b]
            = [msg |-> "none", turn |-> 0, ended |-> {}, held |-> b]
      OBVIOUS
    <3> QED
      BY <1>1, <3>1, Zenon DEF Free
  <2>2. [r EXCEPT !.held = FALSE] = r
    BY <1>1, <2>0 DEF Free
  <2>3. ASSUME "none" \in Message
        PROVE  [r EXCEPT !.held = TRUE] \in ReservedType(l)
    <3>1. 0 \in 0..l /\ {} \in SUBSET (1..l)
      OBVIOUS
    <3>2. [msg |-> "none", turn |-> 0, ended |-> {}, held |-> TRUE]
            \in [msg : Message, turn : 0..l, ended : SUBSET (1..l), held : BOOLEAN]
      BY <2>3, <3>1
    <3> QED
      BY <2>0, <3>2 DEF ReservedType
  <2>4. ASSUME NEW b \in BOOLEAN, r.msg \notin Message => ~b
        PROVE  [r EXCEPT !.held = b] \in ReservedType(l)
    <3>1. CASE b = FALSE
      BY <2>1, <2>2, <3>1
    <3>2. CASE b = TRUE
      BY <2>1, <2>3, <2>4, <3>2
    <3> QED
      BY <3>1, <3>2
  <2> QED
    BY <1>1, <2>1, <2>4
<1>2. CASE r # Free
  <2>1. r \in [msg : Message, turn : 0..k, ended : SUBSET (1..k), held : BOOLEAN]
    BY <1>2 DEF ReservedType
  <2>2. r \in [msg : Message, turn : 0..l, ended : SUBSET (1..l), held : BOOLEAN]
    BY <2>1
  <2>3. \A b \in BOOLEAN : [r EXCEPT !.held = b] \in ReservedType(l)
    BY <2>2 DEF ReservedType
  <2>4. ASSUME NEW t \in 0..k
        PROVE  /\ [r EXCEPT !.turn = t, !.ended = {}] \in ReservedType(l)
               /\ t # 0 => [r EXCEPT !.ended = @ \cup {t}] \in ReservedType(l)
    <3>1. t \in 0..l /\ (t # 0 => t \in 1..l)
      OBVIOUS
    <3> QED
      BY <2>2, <3>1 DEF ReservedType
  <2> QED
    BY <2>2, <2>3, <2>4 DEF ReservedType
<1> QED
  BY <1>1, <1>2

LEMMA ReservedStep ==
    ASSUME ShapeInv, [Next]_vars
    PROVE  reserved' \in ReservedType(Len(log'))
<1> DEFINE k == Len(log)
           l == Len(log')
           G == reserved' \in ReservedType(l)
<1>a. /\ k \in Nat /\ l \in Nat /\ k <= l /\ TypeOK /\ RowInv /\ PlaceInv /\ DrainInv
      /\ reserved \in ReservedType(k) /\ live \in 0..k /\ job.turn \in 0..k
      /\ ended \in Seq(0..k)
  <2>1. TypeOK /\ RowInv /\ PlaceInv /\ DrainInv
    BY DEF ShapeInv
  <2>2. k \in Nat /\ l \in Nat /\ k <= l
    BY <2>1, PlaceFacts, LogStep
  <2>3. live \in 0..k /\ job.turn \in 0..k /\ ended \in Seq(0..k)
    BY <2>1 DEF TypeOK
  <2>4. reserved \in ReservedType(k)
    BY <2>1 DEF TypeOK, ReservedType
  <2> QED
    BY <2>1, <2>2, <2>3, <2>4
<1>b. /\ reserved \in ReservedType(l) /\ Free \in ReservedType(l)
      /\ \A b \in BOOLEAN : (reserved.msg \notin Message => ~b) =>
                [reserved EXCEPT !.held = b] \in ReservedType(l)
      /\ \A b \in BOOLEAN : (Free.msg \notin Message => ~b) =>
                [Free EXCEPT !.held = b] \in ReservedType(l)
      /\ reserved # Free => \A t \in 0..k :
            /\ [reserved EXCEPT !.turn = t, !.ended = {}] \in ReservedType(l)
            /\ t # 0 => [reserved EXCEPT !.ended = @ \cup {t}] \in ReservedType(l)
  <2>1. Free \in ReservedType(k)
    BY DEF ReservedType
  <2> QED
    BY <1>a, <2>1, ReservedMoves
<1> HIDE DEF k, l
<1>1. ASSUME NEW f \in Fiber, Dispatch(f) PROVE G
  <2>1. log[drain[f].seq].msg \in Message
    BY <1>1, <1>a, UserEvent DEF Dispatch, At, DrainInv, SoundDrain, RowInv
  <2>2. reserved' = [msg |-> log[drain[f].seq].msg, turn |-> 0, ended |-> {}, held |-> FALSE]
    BY <1>1 DEF Dispatch, Free
  <2> QED
    BY <1>a, <2>1, <2>2 DEF ReservedType
<1>2. ASSUME NEW f \in Fiber, Undo(f) \/ DrainFails(f) PROVE G
  <2> DEFINE again == f = "source" /\ claimed
             kept == IF At(f, "claim") THEN reserved ELSE Free
             b == again /\ kept.msg = log[next + 1].msg
  <2>1. reserved' = [kept EXCEPT !.held = b] /\ Busy(f)
    BY <1>2 DEF Undo, DrainFails, GiveUp, At
  <2>2. b => log[next + 1].msg \in Message
    <3>1. ASSUME again PROVE next < Len(log) /\ log[n].kind # "stop"
      BY <1>a, <2>1, <3>1 DEF PlaceInv
    <3>2. ASSUME again PROVE log[n].msg \in Message
      BY <1>a, <3>1, <3>2, PlaceFacts DEF Thing
    <3> QED
      BY <3>2 DEF n
  <2>3. b \in BOOLEAN /\ (kept.msg \notin Message => ~b) /\ kept \in {reserved, Free}
    BY <2>2
  <2> HIDE DEF b, kept
  <2> QED
    BY <1>b, <2>1, <2>3
<1>3. ASSUME TakeStart PROVE G
  <2>1. /\ reserved' = [reserved EXCEPT !.held = reserved.msg = Thing]
        /\ Thing \in Message
    BY <1>3, <1>a, AtNext, PlaceFacts DEF TakeStart
  <2> QED
    BY <1>b, <2>1
<1>4. ASSUME NEW t \in 0..k, BindTo(t) PROVE G
  BY <1>b, <1>4 DEF BindTo, Held
<1>5. ASSUME Bind \/ Exit PROVE G
  <2>1. reserved' \in {reserved, Free} \/ BindTo(job.turn) \/ BindTo(live)
    BY <1>5 DEF Bind, Exit
  <2> QED
    BY <1>a, <1>b, <1>4, <2>1
<1>6. ASSUME CallFails \/ TakeStop \/ Crash PROVE G
  BY <1>6, <1>b DEF CallFails, TakeStop, Crash
<1>7. ASSUME Over PROVE G
  BY <1>7, <1>b DEF Over
<1>8. ASSUME TakeTerminal PROVE G
  <2>1. Head(ended) \in 0..k
    BY <1>8, <1>a DEF TakeTerminal
  <2> QED
    BY <1>8, <1>b, <2>1 DEF TakeTerminal
<1>9. CASE reserved' # reserved
  BY <1>1, <1>2, <1>3, <1>5, <1>6, <1>7, <1>8, <1>9, Frame DEF l
<1>10. CASE reserved' = reserved
  BY <1>b, <1>10 DEF l
<1> QED
  BY <1>9, <1>10

\* The provider, the guards and the ghosts.
LEMMA RestStep ==
    ASSUME ShapeInv, [Next]_vars
    PROVE  /\ quarantined' \subseteq Thread /\ draining' \subseteq Thread
           /\ live' \in 0..Len(log') /\ job'.turn \in 0..Len(log')
           /\ ended' \in Seq(0..Len(log'))
           /\ turnsOf' \in [Message -> Nat] /\ told' \subseteq Message
           /\ untold' \subseteq Message /\ marks' \subseteq Flaws
<1> DEFINE k == Len(log)
           l == Len(log')
<1>a. /\ TypeOK /\ RowInv /\ PlaceInv /\ DrainInv
      /\ k \in Nat /\ l \in Nat /\ k <= l
  BY PlaceFacts, LogStep DEF ShapeInv
<1>b. /\ quarantined \subseteq Thread /\ draining \subseteq Thread
      /\ live \in 0..k /\ job.turn \in 0..k /\ ended \in Seq(0..k)
      /\ turnsOf \in [Message -> Nat] /\ told \subseteq Message /\ untold \subseteq Message
      /\ marks \subseteq Flaws
  BY <1>a DEF TypeOK
<1>o. Owner \in Thread
  BY QueueAssumption DEF QueueAssumption
\* where the source is at an event of a message
<1>c. /\ Idle \/ Stage("requeue") \/ Stage("call") \/ Stage("over") \/ Stage("bind") => next < Len(log)
      /\ Stage("requeue") \/ Stage("call") => log[n].kind = "start"
  BY <1>a, AtNext DEF PlaceInv
<1>d. next < Len(log) =>
        n \in 1..k /\ (log[n].kind # "stop" => Thing \in Message /\ Place \in Thread)
  BY <1>a, PlaceFacts
<1> HIDE DEF k, l
<1>1. quarantined' \subseteq Thread
  <2>1. ASSUME Over PROVE quarantined' \subseteq Thread
    <3>1. job.block => Place \in Thread
      BY <1>a, <1>c, <1>d, <2>1 DEF Over, PlaceInv
    <3> QED
      BY <1>b, <2>1, <3>1 DEF Over
  <2>2. ASSUME ExpireClaim PROVE quarantined' \subseteq Thread
    BY <1>b, <1>c, <1>d, <1>o, <2>2 DEF ExpireClaim
  <2> QED
    BY <1>b, <2>1, <2>2, Frame
<1>2. draining' \subseteq Thread
  <2>1. ASSUME NEW f \in Fiber, Enter(f) PROVE draining' \subseteq Thread
    <3>1. Head(drain[f].todo) \in Thread
      BY <1>a, <2>1 DEF Enter, At, Busy, TypeOK
    <3> QED
      BY <1>b, <2>1, <3>1 DEF Enter
  <2>2. ASSUME NEW f \in Fiber, ClaimNext(f) \/ Mark(f) \/ Undo(f) \/ DrainFails(f)
        PROVE  draining' \subseteq draining
    BY <2>2 DEF ClaimNext, Mark, Undo, DrainFails, GiveUp, Release
  <2>3. ASSUME TakeStop \/ Crash PROVE draining' \subseteq draining
    BY <2>3 DEF TakeStop, Crash
  <2> QED
    BY <1>b, <2>1, <2>2, <2>3, Frame
<1>3. live' \in 0..l
  <2>1. ASSUME TurnStarts \/ CallTimesOut PROVE live' \in 0..l
    BY <1>a, <1>b, <1>c, <1>d, <2>1 DEF TurnStarts, CallTimesOut
  <2>2. ASSUME StopSession \/ TurnEnds \/ Crash PROVE live' = 0
    BY <2>2 DEF StopSession, TurnEnds, Crash
  <2> QED
    BY <1>a, <1>b, <2>1, <2>2, Frame
<1>4. job'.turn \in 0..l
  <2>1. ASSUME TakeStart PROVE job'.turn = live
    BY <2>1 DEF TakeStart, NoJob
  <2>2. ASSUME TurnStarts PROVE job'.turn \in 0..k
    <3>1. job \in JobType
      BY <1>a, <1>b DEF TypeOK, JobType
    <3> QED
      BY <1>c, <1>d, <1>a, <2>2, <3>1 DEF TurnStarts, JobType
  <2>3. ASSUME \/ TakeQueued \/ CheckQueued \/ Requeue \/ Bind \/ StartRefused \/ CallFails
               \/ CallTimesOut \/ Exit \/ Over \/ TakeStop \/ StopSession \/ Crash
        PROVE  job'.turn \in {job.turn, 0}
    <3>1. job \in JobType
      BY <1>a, <1>b DEF TypeOK, JobType
    <3>2. ASSUME TakeQueued \/ CheckQueued \/ Requeue \/ Bind \/ Exit \/ StopSession
          PROVE  job'.turn = job.turn
      BY <3>1, <3>2
         DEF TakeQueued, CheckQueued, Requeue, Bind, Exit, StopSession, GoTo, JobType
    <3>3. ASSUME StartRefused \/ CallFails \/ CallTimesOut
          PROVE  job'.turn = job.turn
      BY <3>1, <3>3 DEF StartRefused, CallFails, CallTimesOut, JobType
    <3>4. ASSUME TakeStop
          PROVE  job'.turn = job.turn
      BY <3>1, <3>4 DEF TakeStop, GoTo, JobType
    <3>5. ASSUME Over \/ Crash
          PROVE  job'.turn = 0
      BY <3>5 DEF Over, Crash, NoJob
    <3> QED
      BY <2>3, <3>2, <3>3, <3>4, <3>5
  <2>4. ASSUME NEW f \in Fiber, Undo(f) \/ DrainFails(f)
        PROVE  job'.turn \in {job.turn, 0}
    BY <2>4 DEF Undo, DrainFails, GiveUp, NoJob
  <2>5. CASE job' # job
    BY <1>a, <1>b, <2>1, <2>2, <2>3, <2>4, <2>5, Frame
  <2> QED
    BY <1>a, <1>b, <2>5
<1>5. ended' \in Seq(0..l)
  <2>1. Seq(0..k) \subseteq Seq(0..l) /\ \A q \in Seq(0..k) : \A t \in 0..k :
            Append(q, t) \in Seq(0..l)
    BY <1>a
  <2>2. ASSUME StopSession \/ TurnEnds \/ Crash PROVE ended' \in Seq(0..l)
    <3>1. ASSUME StopSession \/ TurnEnds
          PROVE  ended' = ended \/ \E t \in {0, live} : Reports(t)
      BY <3>1 DEF StopSession, TurnEnds
    <3>2. ended' = ended \/ ended' = << >> \/ \E t \in {0, live} : ended' = Append(ended, t)
      BY <2>2, <3>1 DEF Crash, Reports
    <3>3. << >> \in Seq(0..l) /\ {0, live} \subseteq 0..k
      BY <1>a, <1>b
    <3> QED
      BY <1>b, <2>1, <3>2, <3>3
  <2>3. ASSUME TakeTerminal PROVE ended' \in Seq(0..l)
    BY <1>b, <2>1, <2>3 DEF TakeTerminal
  <2> QED
    BY <1>b, <2>1, <2>2, <2>3, Frame
<1>6. turnsOf' \in [Message -> Nat]
  BY <1>b, <1>c, <1>d, Frame DEF TurnStarts, CallTimesOut
<1>7. told' \subseteq Message
  <2>1. ASSUME SkipStart \/ CallFails \/ CallTimesOut
        PROVE  told' \subseteq told \cup {Thing} /\ Thing \in Message
    BY <1>c, <1>d, <2>1 DEF SkipStart, CallFails, CallTimesOut, Shown, Silent
  <2> QED
    BY <1>b, <2>1, Frame
<1>9. untold' \subseteq Message
  <2>1. ASSUME TakeQueued \/ SkipStart \/ Requeue \/ StartRefused \/ CallTimesOut
        PROVE  untold' \subseteq untold \cup {Thing} /\ Thing \in Message
    <3>1. untold' \subseteq untold \cup {Thing}
      BY <2>1
         DEF TakeQueued, SkipStart, Requeue, StartRefused, CallTimesOut, Shown, Silent
    <3>2. Thing \in Message
      BY <1>c, <1>d, <2>1 DEF TakeQueued, SkipStart, Requeue, StartRefused, CallTimesOut
    <3> QED
      BY <3>1, <3>2
  <2>2. ASSUME ExpireClaim
        PROVE  \/ untold' = untold
               \/ untold' \subseteq untold \cup {Thing} /\ Thing \in Message
    BY <1>c, <1>d, <2>2 DEF ExpireClaim, Silent
  <2> QED
    BY <1>b, <2>1, <2>2, Frame
<1>8. marks' \subseteq Flaws
  BY <1>b, Frame
     DEF Enter, Dispatch, DrainFails, SkipStart, Requeue, CallTimesOut, Exit,
         TakeTerminal, TurnEnds, Flaws
<1> QED
  BY <1>1, <1>2, <1>3, <1>4, <1>5, <1>6, <1>7, <1>8, <1>9 DEF l

LEMMA ShapeInvariance ==
    /\ Init => ShapeInv
    /\ ShapeInv /\ [Next]_vars => ShapeInv'
<1>1. ASSUME Init PROVE ShapeInv
  <2>a. /\ Crashes \in Nat /\ Faults \in Nat /\ Stops \in Nat /\ MaxLog \in Nat
        /\ log = << >> /\ Len(log) = 0 /\ log \in Seq(Event)
    BY <1>1, QueueAssumption DEF Init, QueueAssumption
  <2>1. row \in RowType /\ \A s \in Seqs : row[s] = NoRow
    BY <1>1, <2>a DEF Init, NoRow, RowType, States
  <2>2. TypeOK
    <3>1. /\ log \in Seq([kind : {"queued", "start"}, msg : Message] \cup [kind : {"stop"}])
          /\ Len(log) <= MaxLog /\ next \in 0..Len(log) /\ claimed \in BOOLEAN
      <4>1. claimed \in BOOLEAN
        BY <1>1 DEF Init
      <4>2. Len(log) <= MaxLog /\ next \in 0..Len(log)
        BY <1>1, <2>a DEF Init
      <4> QED
        BY <2>a, <4>1, <4>2 DEF Event
    <3>2. /\ row \in [Seqs -> [state : {"none", "queued", "promoting", "promoted", "cancelled"},
                               owner : 0..Crashes + 1]]
          /\ \A s \in Seqs : row[s].owner > 0 <=> row[s].state = "promoting"
      BY <2>1 DEF RowType, States, NoRow
    <3>3. /\ dispatched \subseteq {s \in Seqs : row[s].state # "none"}
          /\ quarantined \subseteq Thread /\ draining \subseteq Thread
          /\ phase \in {"down", "replay", "recover", "live"}
          /\ epoch \in 1..Crashes + 1 /\ through \in 0..Len(log) /\ reserved = Free
      BY <1>1, <2>a DEF Init
    <3>4. /\ job \in [stage : {"idle", "check", "requeue", "bind", "call", "exit", "stop", "over"},
                      turn : 0..Len(log), redrain : BOOLEAN, block : BOOLEAN]
          /\ drain \in [Fiber -> [todo : Seq(Thread), seq : 0..Len(log),
                                  stage : {"none", "claim", "dispatch", "mark", "undo"}]]
      BY <1>1, <2>a DEF Init, NoJob, NoDrain
    <3>5. /\ live \in 0..Len(log) /\ ended \in Seq(0..Len(log))
          /\ turnsOf \in [Message -> Nat] /\ told \subseteq Message
          /\ untold \subseteq Message /\ marks \subseteq Flaws
          /\ left \in [crash : 0..Crashes, fault : 0..Faults, stop : 0..Stops]
      BY <1>1, <2>a DEF Init
    <3> QED
      BY <3>1, <3>2, <3>3, <3>4, <3>5 DEF TypeOK
  <2>3. RowInv
    BY <2>1 DEF RowInv, NoRow
  <2>4. PlaceInv
    BY <1>1 DEF Init, PlaceInv, NoJob, Busy, NoDrain, Fiber
  <2>5. BootInv
    BY <1>1, <2>a DEF Init, BootInv, Busy, NoDrain, Fiber
  <2>6. DrainInv
    BY <1>1 DEF Init, DrainInv, SoundDrain, NoDrain
  <2> QED
    BY <2>2, <2>3, <2>4, <2>5, <2>6 DEF ShapeInv
<1>2. ASSUME ShapeInv, [Next]_vars PROVE ShapeInv'
  <2>1. TypeOK'
    <3>1. /\ log' \in Seq([kind : {"queued", "start"}, msg : Message] \cup [kind : {"stop"}])
          /\ Len(log') <= MaxLog
      BY <1>2, LogStep DEF ShapeInv, Event
    <3>2. /\ next' \in 0..Len(log') /\ claimed' \in BOOLEAN /\ job' \in JobType
      BY <1>2, PlaceStep DEF SourceMoves
    <3>3. /\ row' \in [Seqs -> [state : {"none", "queued", "promoting", "promoted", "cancelled"},
                                owner : 0..Crashes + 1]]
          /\ \A s \in Seqs : row'[s].owner > 0 <=> row'[s].state = "promoting"
      BY <1>2, RowStep DEF Follows, RowType, States, OwnerSet
    <3>4. dispatched' \subseteq {s \in Seqs : row'[s].state # "none"}
      BY <1>2, DispatchedStep
    <3>5. /\ phase' \in {"down", "replay", "recover", "live"}
          /\ epoch' \in 1..Crashes + 1 /\ through' \in 0..Len(log')
          /\ left' \in [crash : 0..Crashes, fault : 0..Faults, stop : 0..Stops]
      BY <1>2, BootStepKept
    <3>6. \/ reserved' = Free
          \/ reserved' \in [msg : Message, turn : 0..Len(log'), ended : SUBSET (1..Len(log')),
                            held : BOOLEAN]
      BY <1>2, ReservedStep DEF ReservedType
    <3>7. drain' \in [Fiber -> [todo : Seq(Thread), seq : 0..Len(log'),
                                stage : {"none", "claim", "dispatch", "mark", "undo"}]]
      BY <1>2, DrainMoves DEF Drains, DrainType
    <3>8. /\ quarantined' \subseteq Thread /\ draining' \subseteq Thread
          /\ live' \in 0..Len(log') /\ job'.turn \in 0..Len(log')
          /\ ended' \in Seq(0..Len(log'))
          /\ turnsOf' \in [Message -> Nat] /\ told' \subseteq Message
          /\ untold' \subseteq Message /\ marks' \subseteq Flaws
      BY <1>2, RestStep
    <3>9. job' \in [stage : {"idle", "check", "requeue", "bind", "call", "exit", "stop", "over"},
                    turn : 0..Len(log'), redrain : BOOLEAN, block : BOOLEAN]
      BY <3>2, <3>8 DEF JobType
    <3> QED
      BY <3>1, <3>2, <3>3, <3>4, <3>5, <3>6, <3>7, <3>8, <3>9 DEF TypeOK
  <2>2. RowInv'
    BY <1>2, RowInvStep
  <2>3. PlaceInv'
    BY <1>2, PlaceStep DEF SourceMoves
  <2>4. BootInv'
    BY <1>2, BootStepKept
  <2>5. DrainInv'
    BY <1>2, DrainMoves DEF Drains, DrainInv
  <2> QED
    BY <2>1, <2>2, <2>3, <2>4, <2>5 DEF ShapeInv
<1> QED
  BY <1>1, <1>2

LEMMA Shaped == Spec => []ShapeInv
BY ShapeInvariance, PTL DEF Spec

(* Every state of the queue, of the source's place and of the two drains is of its type. *)
THEOREM QueueTypes == Spec => []TypeOK
<1>1. ShapeInv => TypeOK
  BY DEF ShapeInv
<1> QED
  BY <1>1, Shaped, PTL

(* A promotion that was cancelled when its session was stopped stays cancelled: *)
(* markPromoted and releaseClaim change a row only for the process that claims  *)
(* it, enqueue leaves a row that is there, and a claim takes back only rows in   *)
(* flight.                                                                       *)
THEOREM CancelledForGood == Spec => CancelledStaysDead
<1>1. ASSUME ShapeInv, [Next]_vars
      PROVE  [\A s \in Seqs : row[s].state = "cancelled" => row'[s].state = "cancelled"]_vars
  BY <1>1, RowStep DEF Follows
<1> QED
  BY <1>1, Shaped, PTL DEF Spec, CancelledStaysDead

-----------------------------------------------------------------------------
(* The chain of the events of one message. *)

Of(s, m) == User(s) /\ log[s].msg = m

\* Each event of a message but the last has been dispatched, and is followed by turn
\* starts alone.
Chained ==
    \A s, r : User(s) /\ User(r) /\ log[s].msg = log[r].msg /\ s < r =>
        s \in dispatched /\ log[r].kind # "queued"

LastOpen == \A m : Sent(m) => \E s : Of(s, m) /\ s \notin dispatched

\* The source has made its call for the event s, and left no row for it.
Consumed(s) ==
    /\ row[s].state = "none"
    /\ s <= next \/ (s = n /\ claimed /\ job.stage \notin {"requeue", "call"})

TurnTaken ==
    \A m \in Message : turnsOf[m] > 0 =>
        \E s \in Seqs : Of(s, m) /\ s \notin dispatched /\ Consumed(s)

ChainInv == Chained /\ LastOpen /\ TurnTaken /\ StartsOnce

LEMMA OneOpen ==
    ASSUME TypeOK, Chained, NEW s, NEW r, User(s), User(r), log[s].msg = log[r].msg,
           s \notin dispatched, r \notin dispatched
    PROVE  s = r
<1>1. s \in Nat /\ r \in Nat
  BY PlaceFacts DEF User
<1>2. ~(s < r) /\ ~(r < s)
  BY DEF Chained
<1> QED
  BY <1>1, <1>2

\* An event of the log keeps its message; a new one stands behind the others.
LEMMA UserKept ==
    ASSUME ShapeInv, [Next]_vars
    PROVE  /\ \A s : User(s) => User(s)' /\ log'[s] = log[s]
           /\ \A s : User(s)' /\ s <= Len(log) => User(s)
           /\ \A s : User(s) => s \in 1..Len(log) /\ s \in Seqs
           /\ \A s : User(s)' => s \in 1..Len(log')
           /\ Len(log) \in Nat /\ Len(log') \in Nat /\ Len(log) <= Len(log')
<1>1. /\ Len(log) \in Nat /\ Len(log') \in Nat /\ Len(log) <= Len(log')
      /\ \A s \in 1..Len(log) : log'[s] = log[s]
  BY LogStep, PlaceFacts DEF ShapeInv
<1>2. \A s : User(s) => s \in Seqs
  BY UserEvent DEF ShapeInv
<1> QED
  BY <1>1, <1>2 DEF User

\* An event the source has yet to take up has no row.
LEMMA FreshEvent ==
    ASSUME ShapeInv
    PROVE  /\ Stage("call") \/ Stage("requeue") =>
                User(n) /\ row[n].state = "none" /\ n \notin dispatched /\ log[n].kind = "start"
           /\ TakeQueued => User(n) /\ ~claimed
<1>a. /\ TypeOK /\ RowInv /\ PlaceInv
      /\ next \in Nat
  BY PlaceFacts DEF ShapeInv
<1>1. ASSUME Stage("call") \/ Stage("requeue")
      PROVE  User(n) /\ row[n].state = "none" /\ n \notin dispatched /\ log[n].kind = "start"
  <2>1. next < Len(log) /\ log[n].kind = "start" /\ job.stage \in {"requeue", "call"}
    BY <1>a, <1>1, AtNext DEF PlaceInv
  <2>2. User(n) /\ n \in Seqs
    BY <1>a, <2>1, PlaceFacts
  <2>3. ~MayHaveRow(n)
    BY <1>a, <2>1 DEF MayHaveRow, n
  <2>4. row[n].state = "none"
    BY <1>a, <2>2, <2>3 DEF RowInv
  <2> QED
    BY <1>a, <2>1, <2>2, <2>4 DEF TypeOK
<1>2. ASSUME TakeQueued
      PROVE  User(n) /\ ~claimed
  <2>1. next < Len(log) /\ log[n].kind = "queued"
    BY <1>a, <1>2, AtNext DEF TakeQueued
  <2> QED
    BY <1>a, <2>1, PlaceFacts DEF PlaceInv
<1> QED
  BY <1>1, <1>2

\* What the source has done with an event stays done.
LEMMA ConsumedKept ==
    ASSUME ShapeInv, [Next]_vars, NEW s, User(s), Consumed(s)
    PROVE  Consumed(s)'
<1>a. /\ next \in Nat /\ s \in Nat /\ s \in Seqs /\ SourceMoves
      /\ TypeOK
  BY PlaceFacts, PlaceStep, UserKept DEF ShapeInv
<1>1. s <= next' \/ (s = n' /\ claimed' /\ job'.stage \notin {"requeue", "call"})
  <2>1. CASE next' = next
    BY <1>a, <2>1 DEF SourceMoves, Consumed, n
  <2>2. CASE next' = n
    BY <1>a, <2>2 DEF Consumed, n
  <2> QED
    BY <1>a, <2>1, <2>2 DEF SourceMoves
<1>2. ASSUME TakeQueued \/ Requeue, row' = Enqueued(n, Thing)
      PROVE  row'[s].state = "none"
  <2>1. s # n /\ User(n)
    BY <1>2, <1>a, FreshEvent DEF Consumed, Requeue, Stage, n
  <2>2. n \in Seqs
    BY <2>1, UserKept
  <2>3. row'[s] = row[s]
    BY <1>2, <1>a, <2>1, <2>2, EnqueuedFollows
  <2> QED
    BY <2>3 DEF Consumed
<1>3. row'[s].state = "none"
  BY <1>2, <1>a, RowStep DEF NoNewRow, Consumed
<1> QED
  BY <1>1, <1>3 DEF Consumed

\* One more event at the end of the log.
LEMMA LogGrows ==
    ASSUME TypeOK, NEW x, log' = Append(log, x)
    PROVE  /\ \A s : User(s) => s <= Len(log) /\ s # Len(log) + 1
           /\ \A s : User(s)' <=> User(s) \/ (s = Len(log) + 1 /\ x.kind # "stop")
           /\ \A s \in 1..Len(log) : log'[s] = log[s]
           /\ log'[Len(log) + 1] = x /\ Len(log') = Len(log) + 1
<1>1. /\ Len(log) \in Nat /\ Len(log') = Len(log) + 1 /\ log'[Len(log) + 1] = x
      /\ \A s \in 1..Len(log) : log'[s] = log[s]
  BY PlaceFacts
<1>2. \A s \in 1..Len(log') : s \in 1..Len(log) \/ s = Len(log) + 1
  BY <1>1
<1> QED
  BY <1>1, <1>2 DEF User

\* A promotion's dispatch makes the one open event of its message the last but one.
LEMMA DispatchChains ==
    ASSUME ShapeInv, ChainInv, [Next]_vars, NEW f \in Fiber, Dispatch(f), log' # log
    PROVE  /\ Chained' /\ LastOpen'
           /\ \A m, s : Of(s, m) /\ s \notin dispatched /\ row[s].state = "none" =>
                s \notin dispatched'
<1> DEFINE s == drain[f].seq
           m == log[s].msg
           x == [kind |-> "start", msg |-> m]
<1>k. PICK k : k = Len(log) + 1
  OBVIOUS
<1>1. /\ s \notin dispatched /\ log' = Append(log, x) /\ dispatched' = dispatched \cup {s}
  BY DEF Dispatch
<1>2. User(s) /\ s \in Seqs /\ row[s].state # "none" /\ TypeOK
  BY DEF Dispatch, At, ShapeInv, DrainInv, SoundDrain, RowInv
<1>3. /\ \A r : User(r) => r <= Len(log) /\ r # k /\ log'[r] = log[r]
      /\ \A r : User(r)' <=> User(r) \/ r = k
      /\ log'[k] = x /\ Len(log) \in Nat /\ \A r : User(r) => r \in Nat
  BY <1>k, <1>1, <1>2, LogGrows, UserKept
<1>4. ASSUME NEW a, NEW b, User(a)', User(b)', log'[a].msg = log'[b].msg, a < b
      PROVE  a \in dispatched' /\ log'[b].kind # "queued"
  <2>1. CASE User(a) /\ User(b)
    <3>1. log[a].msg = log[b].msg /\ log'[b] = log[b]
      BY <1>3, <1>4, <2>1
    <3>2. a \in dispatched /\ log[b].kind # "queued"
      BY <1>4, <2>1, <3>1 DEF ChainInv, Chained
    <3> QED
      BY <1>1, <3>1, <3>2
  <2>2. CASE User(a) /\ b = k
    <3>1. log[a].msg = m /\ log'[b].kind = "start"
      BY <1>3, <1>4, <2>2
    <3>2. a \in dispatched \/ a = s
      BY <1>1, <1>2, <2>2, <3>1, OneOpen DEF ChainInv
    <3> QED
      BY <1>1, <3>1, <3>2
  <2>3. ~(a = k)
    <3>1. b \in Nat /\ b <= k
      BY <1>k, <1>3, <1>4
    <3> QED
      BY <1>k, <1>3, <1>4, <3>1
  <2> QED
    BY <1>3, <1>4, <2>1, <2>2, <2>3
<1>5. k \notin dispatched'
  <2>1. k \notin dispatched
    BY <1>2, <1>3 DEF ShapeInv, TypeOK, RowInv
  <2> QED
    BY <1>1, <1>2, <1>3, <2>1
<1>6. ASSUME NEW p, Sent(p)' PROVE \E r : Of(r, p)' /\ r \notin dispatched'
  <2>1. CASE p = m
    <3>1. User(k)' /\ log'[k].msg = p
      BY <1>3, <2>1
    <3> QED
      BY <1>5, <3>1 DEF Of
  <2>2. CASE p # m
    <3>1. PICK q : User(q)' /\ log'[q].msg = p
      <4>1. PICK q \in DOMAIN log' : log'[q].kind # "stop" /\ log'[q].msg = p
        BY <1>6 DEF Sent
      <4>2. q \in 1..Len(log')
        BY <4>1, LogStep DEF ShapeInv
      <4> QED
        BY <4>1, <4>2 DEF User
    <3>2. User(q) /\ log[q].msg = p
      BY <1>3, <2>2, <3>1
    <3>3. Sent(p)
      BY <1>2, <3>2, PlaceFacts DEF User, Sent
    <3>4. PICK r : User(r) /\ log[r].msg = p /\ r \notin dispatched
      BY <3>3 DEF ChainInv, LastOpen, Of
    <3>5. r # s
      BY <2>2, <3>4
    <3> QED
      BY <1>1, <1>3, <3>4, <3>5 DEF Of
  <2> QED
    BY <2>1, <2>2
<1>7. Chained'
  BY <1>4 DEF Chained
<1>8. LastOpen'
  BY <1>6 DEF LastOpen
<1> QED
  BY <1>1, <1>2, <1>7, <1>8

\* A client's message begins a chain of its own.
LEMMA SendChains ==
    ASSUME ShapeInv, ChainInv, [Next]_vars, NEW m \in Message, Send(m)
    PROVE  Chained' /\ LastOpen' /\ dispatched' = dispatched
<1>k. PICK k : k = Len(log) + 1
  OBVIOUS
<1>1. PICK kind \in {"queued", "start"} : log' = Append(log, [kind |-> kind, msg |-> m])
  BY DEF Send
<1>2. TypeOK /\ ~Sent(m) /\ dispatched' = dispatched
  BY DEF Send, ShapeInv
<1>3. /\ \A r : User(r) => r <= Len(log) /\ r # k /\ log'[r] = log[r]
      /\ \A r : User(r)' <=> User(r) \/ r = k
      /\ log'[k].msg = m /\ Len(log) \in Nat /\ \A r : User(r) => r \in Nat
  BY <1>k, <1>1, <1>2, LogGrows, UserKept
<1>4. \A r : User(r) => log[r].msg # m
  BY <1>2, PlaceFacts DEF User, Sent
<1>5. ASSUME NEW a, NEW b, User(a)', User(b)', log'[a].msg = log'[b].msg, a < b
      PROVE  a \in dispatched' /\ log'[b].kind # "queued"
  <2>1. User(a) /\ User(b)
    <3>1. a \in Nat /\ b \in Nat /\ a <= k /\ b <= k
      BY <1>k, <1>3, <1>5
    <3>2. ~(a = k)
      BY <1>k, <1>3, <1>5, <3>1
    <3> QED
      BY <1>3, <1>4, <1>5, <3>2
  <2> QED
    BY <1>2, <1>3, <1>5, <2>1 DEF ChainInv, Chained
<1>6. k \notin dispatched'
  BY <1>2, <1>3 DEF ShapeInv, TypeOK, RowInv
<1>7. ASSUME NEW p, Sent(p)' PROVE \E r : Of(r, p)' /\ r \notin dispatched'
  <2>1. CASE p = m
    <3>1. User(k)' /\ log'[k].msg = p
      BY <1>3, <2>1
    <3> QED
      BY <1>6, <3>1 DEF Of
  <2>2. CASE p # m
    <3>1. PICK q : User(q)' /\ log'[q].msg = p
      <4>1. PICK q \in DOMAIN log' : log'[q].kind # "stop" /\ log'[q].msg = p
        BY <1>7 DEF Sent
      <4>2. q \in 1..Len(log')
        BY <4>1, LogStep DEF ShapeInv
      <4> QED
        BY <4>1, <4>2 DEF User
    <3>2. User(q) /\ log[q].msg = p
      BY <1>3, <2>2, <3>1
    <3>3. Sent(p)
      BY <1>2, <3>2, PlaceFacts DEF User, Sent
    <3>4. PICK r : User(r) /\ log[r].msg = p /\ r \notin dispatched
      BY <3>3 DEF ChainInv, LastOpen, Of
    <3> QED
      BY <1>2, <1>3, <3>4 DEF Of
  <2> QED
    BY <2>1, <2>2
<1>8. Chained'
  BY <1>5 DEF Chained
<1>9. LastOpen'
  BY <1>7 DEF LastOpen
<1> QED
  BY <1>2, <1>8, <1>9

\* Only the source gives a message to the provider: for the event it is at, whose
\* message has had no turn yet.
LEMMA TurnStep ==
    ASSUME ShapeInv, ChainInv, [Next]_vars
    PROVE  \/ turnsOf' = turnsOf
           \/ /\ Stage("call") /\ Thing \in Message /\ turnsOf[Thing] = 0
              /\ turnsOf' = [turnsOf EXCEPT ![Thing] = @ + 1]
              /\ UNCHANGED <<log, next, claimed, row, dispatched>>
              /\ job'.stage \in {"bind", "exit"}
<1>1. CASE turnsOf' # turnsOf
  <2>1. /\ Stage("call") /\ (TurnStarts \/ CallTimesOut)
        /\ turnsOf' = [turnsOf EXCEPT ![Thing] = @ + 1]
    BY <1>1, Frame DEF TurnStarts, CallTimesOut
  <2>2. /\ UNCHANGED <<log, next, claimed, row, dispatched>>
        /\ job'.stage \in {"bind", "exit"}
    <3>1. job \in JobType
      <4>1. job.turn \in Nat
        BY PlaceFacts DEF ShapeInv, TypeOK
      <4> QED
        BY <4>1 DEF ShapeInv, TypeOK, JobType
    <3> QED
      BY <2>1, <3>1 DEF TurnStarts, CallTimesOut, durableVars, JobType
  <2>3. User(n) /\ n \notin dispatched /\ Thing \in Message
    <3>1. User(n) /\ n \notin dispatched
      BY <2>1, FreshEvent
    <3> QED
      BY <3>1, UserEvent DEF Thing, ShapeInv
  <2>4. turnsOf[Thing] = 0
    <3>1. SUFFICES ASSUME turnsOf[Thing] > 0 PROVE FALSE
      BY <2>3 DEF ShapeInv, TypeOK
    <3>2. PICK s : Of(s, Thing) /\ s \notin dispatched /\ Consumed(s)
      BY <2>3, <3>1 DEF ChainInv, TurnTaken
    <3>3. s = n
      BY <2>3, <3>2, OneOpen DEF ChainInv, ShapeInv, Of, Thing
    <3> QED
      BY <2>1, <3>2, <3>3, PlaceFacts DEF Consumed, Stage, n, ShapeInv
  <2> QED
    BY <2>1, <2>2, <2>3, <2>4
<1> QED
  BY <1>1

LEMMA ChainStep ==
    ASSUME ShapeInv, ChainInv, [Next]_vars
    PROVE  ChainInv'
<1>a. /\ TypeOK /\ Chained /\ LastOpen /\ TurnTaken /\ StartsOnce
      /\ turnsOf \in [Message -> Nat]
  BY DEF ShapeInv, TypeOK, ChainInv
<1>1. /\ Chained' /\ LastOpen'
      /\ \A m, s : Of(s, m) /\ s \notin dispatched /\ row[s].state = "none" => s \notin dispatched'
  <2>1. ASSUME UNCHANGED <<log, dispatched>>
        PROVE  /\ Chained' /\ LastOpen'
               /\ \A m, s : Of(s, m) /\ s \notin dispatched /\ row[s].state = "none" =>
                    s \notin dispatched'
    BY <1>a, <2>1 DEF Chained, LastOpen, Sent, Of, User
  <2>2. ASSUME RequestStop
        PROVE  Chained' /\ LastOpen' /\ dispatched' = dispatched
    <3>1. log' = Append(log, [kind |-> "stop"]) /\ dispatched' = dispatched
      BY <2>2 DEF RequestStop
    <3>2. /\ \A s : User(s)' <=> User(s)
          /\ \A s : User(s) => log'[s] = log[s]
      <4>1. \A s : User(s) => s \in 1..Len(log)
        BY DEF User
      <4> QED
        BY <1>a, <3>1, <4>1, LogGrows
    <3>3. \A m : Sent(m)' => Sent(m)
      <4>1. \A m : Sent(m)' => \E s : User(s)' /\ log'[s].msg = m
        BY LogStep DEF Sent, User, ShapeInv
      <4>2. \A m : (\E s : User(s) /\ log[s].msg = m) => Sent(m)
        BY <1>a, PlaceFacts DEF Sent, User
      <4> QED
        BY <3>2, <4>1, <4>2
    <3> QED
      <4>1. Chained'
        BY <1>a, <3>1, <3>2 DEF Chained
      <4>2. LastOpen'
        BY <1>a, <3>1, <3>2, <3>3 DEF LastOpen, Of
      <4> QED
        BY <3>1, <4>1, <4>2
  <2>3. CASE \E f \in Fiber : Dispatch(f) /\ log' # log
    BY <2>3, DispatchChains
  <2>4. CASE \E m \in Message : Send(m)
    BY <2>4, SendChains
  <2>5. CASE RequestStop
    BY <2>2, <2>5
  <2>6. ASSUME NEW f \in Fiber, Dispatch(f), log' = log
        PROVE  dispatched' = dispatched
    <3>1. \A x : Append(log, x) # log
      BY <1>a, PlaceFacts
    <3> QED
      BY <2>6, <3>1 DEF Dispatch
  <2> QED
    BY <2>1, <2>3, <2>4, <2>5, <2>6, Frame
<1>2. ASSUME NEW s, NEW m, Of(s, m), s \notin dispatched, Consumed(s)
      PROVE  Of(s, m)' /\ s \notin dispatched' /\ Consumed(s)' /\ s \in Seqs
  BY <1>1, <1>2, ConsumedKept, UserKept DEF Of, Consumed
<1>3. CASE turnsOf' = turnsOf
  <2>1. TurnTaken'
    BY <1>a, <1>2, <1>3 DEF TurnTaken
  <2>2. StartsOnce'
    BY <1>a, <1>3 DEF StartsOnce
  <2> QED
    BY <1>1, <2>1, <2>2 DEF ChainInv
<1>4. CASE /\ Stage("call") /\ Thing \in Message /\ turnsOf[Thing] = 0
           /\ turnsOf' = [turnsOf EXCEPT ![Thing] = @ + 1]
           /\ UNCHANGED <<log, next, claimed, row, dispatched>>
           /\ job'.stage \in {"bind", "exit"}
  <2>1. StartsOnce'
    BY <1>a, <1>4 DEF StartsOnce
  <2>2. User(n) /\ n \notin dispatched /\ row[n].state = "none" /\ claimed
    BY <1>4, FreshEvent DEF Stage, ShapeInv, PlaceInv
  <2>3. PICK r : r = n
    OBVIOUS
  <2>4. Of(r, Thing) /\ r \notin dispatched /\ r \in Seqs /\ Consumed(r)'
    BY <1>4, <2>2, <2>3, UserKept DEF Of, Consumed, Thing, n
  <2>5. ASSUME NEW m \in Message, turnsOf'[m] > 0
        PROVE  \E s \in Seqs : Of(s, m)' /\ s \notin dispatched' /\ Consumed(s)'
    <3>1. CASE m = Thing
      <4>1. Of(r, m)'
        BY <1>4, <2>4, <3>1 DEF Of, User
      <4> QED
        BY <1>4, <2>4, <4>1
    <3>2. CASE m # Thing
      <4>1. turnsOf[m] > 0
        BY <1>a, <1>4, <2>5, <3>2
      <4> QED
        BY <1>a, <1>2, <4>1 DEF TurnTaken
    <3> QED
      BY <3>1, <3>2
  <2>6. TurnTaken'
    BY <2>5 DEF TurnTaken
  <2> QED
    BY <1>1, <2>1, <2>6 DEF ChainInv
<1> QED
  BY <1>3, <1>4, TurnStep

LEMMA ChainInit == Init => ChainInv
<1>1. ASSUME Init PROVE ChainInv
  <2>1. log = << >> /\ Len(log) = 0 /\ DOMAIN log = {} /\ turnsOf = [m \in Message |-> 0]
    BY <1>1 DEF Init
  <2>2. \A s : ~User(s)
    BY <2>1 DEF User
  <2>3. \A m : ~Sent(m)
    BY <2>1 DEF Sent
  <2>4. \A m \in Message : turnsOf[m] = 0
    BY <2>1
  <2> QED
    BY <2>2, <2>3, <2>4 DEF ChainInv, Chained, LastOpen, TurnTaken, StartsOnce
<1> QED
  BY <1>1

LEMMA InChains == Spec => [](ShapeInv /\ ChainInv)
<1>1. ShapeInv /\ ChainInv /\ [Next]_vars => (ShapeInv /\ ChainInv)'
  BY ShapeInvariance, ChainStep
<1> QED
  BY <1>1, ShapeInvariance, ChainInit, PTL DEF Spec

(* The provider is given no message twice.  The table holds one row for each      *)
(* sequence, a dispatch command is appended once for each promotion, and a start   *)
(* the source runs again after a crash is expired instead: so of the events of a   *)
(* message only the last is open, and it is consumed by the call it leads to.      *)
THEOREM StartedOnce == Spec => []StartsOnce
<1>1. ShapeInv /\ ChainInv => StartsOnce
  BY DEF ChainInv
<1> QED
  BY <1>1, InChains, PTL

-----------------------------------------------------------------------------
(* No message is lost. *)

\* The source has put the event s into the table or has made its call for it.
Behind(s) == s <= next \/ (s = n /\ job.stage \in {"check", "bind", "exit", "over"})

\* The message is settled, or was let go of by a step that says nothing.
Accounted(m) == Settled(m) \/ m \in untold

\* What the source leaves behind has a row, or its message is accounted for.
LossInv ==
    \A s : User(s) /\ s \notin dispatched /\ Behind(s) =>
        row[s].state # "none" \/ Accounted(log[s].msg)

\* A row for the event stays, and so does what accounts for a message.
LEMMA LeftKept ==
    ASSUME ShapeInv, ChainInv, [Next]_vars
    PROVE  /\ \A s \in Seqs : row[s].state # "none" => row'[s].state # "none"
           /\ \A m \in Message : Accounted(m) => Accounted(m)'
<1>1. \A s \in Seqs : /\ row[s].state # "none" => row'[s].state # "none"
                      /\ row[s].state = "cancelled" => row'[s].state = "cancelled"
  BY RowStep DEF Follows
<1>2. \A m \in Message : turnsOf[m] > 0 => turnsOf'[m] > 0
  <2>1. turnsOf \in [Message -> Nat]
    BY DEF ShapeInv, TypeOK
  <2> QED
    BY <2>1, TurnStep
<1>3. told \subseteq told'
  BY Frame DEF SkipStart, CallFails, CallTimesOut, Shown, Silent
<1>4. untold \subseteq untold'
  BY Frame
     DEF TakeQueued, SkipStart, Requeue, StartRefused, CallTimesOut, ExpireClaim, Shown,
         Silent
<1>5. ASSUME NEW m, Cancelled(m) PROVE Cancelled(m)'
  <2>1. PICK s \in DOMAIN log : row[s].state = "cancelled" /\ log[s].msg = m
    BY <1>5 DEF Cancelled
  <2>2. s \in 1..Len(log) /\ s \in Seqs /\ s \in 1..Len(log')
    BY PlaceFacts, LogStep DEF ShapeInv, Seqs
  <2>3. s \in DOMAIN log' /\ log'[s] = log[s]
    BY <2>2, LogStep DEF ShapeInv
  <2> QED
    BY <1>1, <2>1, <2>2, <2>3 DEF Cancelled
<1> QED
  BY <1>1, <1>2, <1>3, <1>4, <1>5 DEF Settled, Accounted

\* What a step puts behind the source has a row or is accounted for from then on.
LEMMA BehindStep ==
    ASSUME ShapeInv, ChainInv, [Next]_vars, NEW s, User(s), Behind(s)', ~Behind(s)
    PROVE  row'[s].state # "none" \/ Accounted(log[s].msg)'
<1> DEFINE Done == {"check", "bind", "exit", "over"}
           Goal == row'[s].state # "none" \/ Accounted(log[s].msg)'
<1>a. /\ TypeOK /\ RowInv /\ PlaceInv /\ next \in Nat /\ job \in JobType /\ SourceMoves
      /\ turnsOf \in [Message -> Nat] /\ s \in Nat /\ s \in Seqs
  <2>1. job.turn \in Nat
    BY PlaceFacts DEF ShapeInv, TypeOK
  <2>2. job \in JobType /\ turnsOf \in [Message -> Nat]
    BY <2>1 DEF ShapeInv, TypeOK, JobType
  <2>3. TypeOK /\ RowInv /\ PlaceInv /\ SourceMoves
    BY PlaceStep DEF ShapeInv
  <2>4. next \in Nat /\ s \in Nat /\ s \in Seqs
    BY <2>3, PlaceFacts, UserKept
  <2> QED
    BY <2>2, <2>3, <2>4
<1>b. /\ s = n /\ job.stage \notin Done
      /\ next' = n \/ (next' = next /\ job'.stage \in Done)
  <2>1. CASE next' = next
    BY <1>a, <2>1 DEF Behind, n
  <2>2. CASE next' = n /\ job'.stage = "idle"
    BY <1>a, <2>2 DEF Behind, n
  <2> QED
    BY <1>a, <2>1, <2>2 DEF SourceMoves
<1>c. log[s].msg = Thing /\ Thing \in Message /\ log[n].kind # "stop" /\ User(n) /\ n \in Seqs
  BY <1>a, <1>b, UserEvent DEF Thing, User
<1>r. CASE row[n].state # "none"
  BY <1>r, <1>b, <1>c, LeftKept
<1>1. ASSUME Thing \in told' \cup untold' PROVE Accounted(log[s].msg)'
  <2>1. \A m : m \in told' \cup untold' => Accounted(m)'
    BY DEF Settled, Accounted
  <2>2. PICK m : m = Thing
    OBVIOUS
  <2>3. Accounted(m)'
    BY <1>1, <2>1, <2>2
  <2>4. log'[s] = log[s]
    BY UserKept
  <2> QED
    BY <1>c, <2>2, <2>3, <2>4
<1>s. ASSUME Silent, row[n].state = "none" PROVE Goal
  BY <1>1, <1>s DEF Silent
<1>2. ASSUME TakeQueued \/ Requeue PROVE Goal
  <2>1. row' = Enqueued(n, Thing) \/ Silent
    BY <1>2 DEF TakeQueued, Requeue
  <2>2. CASE row'[n].state # "none"
    BY <1>b, <2>2
  <2>3. CASE row' = Enqueued(n, Thing) /\ row'[n].state = "none"
    <3>1. HasPending(Thing)
      BY <1>a, <1>c, <2>3, EnqueuedFollows
    <3>2. PICK r \in Seqs : Waiting(r) /\ log[r].msg = Thing
      BY <3>1 DEF HasPending
    <3>3. row[n].state = "none"
      BY <1>a, <1>c, <2>3, EnqueuedFollows DEF Follows
    <3>4. CASE TakeQueued
      <4>1. User(r) /\ MayHaveRow(r) /\ r # n
        BY <1>a, <3>2, <3>3 DEF RowInv, Waiting
      <4>2. r < n
        BY <1>a, <4>1 DEF MayHaveRow, n
      <4>3. log[n].kind # "queued"
        BY <1>c, <3>2, <4>1, <4>2 DEF ChainInv, Chained, Thing
      <4> QED
        BY <3>4, <4>3 DEF TakeQueued
    <3>5. CASE Requeue
      <4>1. Silent \/ Thing \in untold'
        BY <3>1, <3>5 DEF Requeue
      <4> QED
        BY <1>1, <1>s, <3>3, <4>1
    <3> QED
      BY <1>2, <3>4, <3>5
  <2>4. CASE Silent
    BY <1>r, <1>s, <2>4
  <2> QED
    BY <2>1, <2>2, <2>3, <2>4
<1>3. CASE next' = n
  <2>1. next' # next
    BY <1>a, <1>3 DEF n
  <2>2. SkipStart \/ ExpireClaim
    <3>1. ~Over
      BY <1>b DEF Over, Stage
    <3>2. ~TakeStop
      BY <1>c DEF TakeStop
    <3> QED
      BY <2>1, <3>1, <3>2, Frame
  <2>3. Thing \in told' \/ Silent
    BY <1>c, <2>2 DEF SkipStart, ExpireClaim, Shown
  <2> QED
    BY <1>1, <1>r, <1>s, <2>3
<1>4. CASE next' = next /\ job'.stage \in Done
  <2>1. job' # job
    BY <1>b, <1>4
  <2>2. ASSUME NEW f \in Fiber, Undo(f) \/ DrainFails(f) PROVE Goal
    <3>1. Busy(f) /\ job' = IF f = "source" /\ claimed THEN [NoJob EXCEPT !.stage = "exit"] ELSE job
      BY <2>2 DEF Undo, DrainFails, GiveUp, At
    <3>2. Busy("source")
      BY <2>1, <3>1
    <3> QED
      BY <1>a, <1>b, <3>2 DEF PlaceInv
  <2>3. ~(CheckQueued \/ Bind \/ Exit \/ Over)
    BY <1>b DEF CheckQueued, Bind, Exit, Over, Stage
  <2>4. ~(TakeStop \/ Crash \/ TakeStart)
    <3>1. ~TakeStop
      BY <1>c DEF TakeStop
    <3>2. Crash => job'.stage = "idle"
      BY DEF Crash, NoJob
    <3>3. TakeStart => job'.stage \in {"call", "requeue"}
      BY DEF TakeStart, NoJob
    <3> QED
      BY <1>4, <3>1, <3>2, <3>3
  <2>5. ~StopSession
    BY <1>a, <1>c DEF StopSession, Stage, PlaceInv
  <2>6. ASSUME TurnStarts PROVE Goal
    <3>1. turnsOf'[Thing] > 0 /\ log' = log
      BY <1>a, <1>c, <2>6 DEF TurnStarts, durableVars
    <3>2. turnsOf'[log'[s].msg] > 0
      BY <1>c, <3>1
    <3> QED
      BY <3>1, <3>2 DEF Settled, Accounted
  <2>7. ASSUME StartRefused \/ CallFails \/ CallTimesOut PROVE Goal
    <3>1. Thing \in told' \/ Silent
      BY <2>7 DEF StartRefused, CallFails, CallTimesOut, Shown
    <3> QED
      BY <1>1, <1>r, <1>s, <3>1
  <2> QED
    BY <1>2, <2>1, <2>2, <2>3, <2>4, <2>5, <2>6, <2>7, Frame
<1> QED
  BY <1>b, <1>3, <1>4

LEMMA LossStep ==
    ASSUME ShapeInv, ChainInv, LossInv, [Next]_vars
    PROVE  LossInv'
<1> SUFFICES ASSUME NEW s, User(s)', s \notin dispatched', Behind(s)'
             PROVE  row'[s].state # "none" \/ Accounted(log[s].msg)'
  BY DEF LossInv
<1>1. User(s) /\ s \notin dispatched /\ log'[s] = log[s]
  <2>1. s \in 1..Len(log)
    <3>1. /\ next \in Nat /\ next <= Len(log) /\ Len(log) \in Nat /\ s \in Nat /\ s >= 1
          /\ next < Len(log) => n <= Len(log)
      BY PlaceFacts, UserKept DEF ShapeInv
    <3>2. CASE job' = job /\ next' = next
      <4>1. job.stage # "idle" => next < Len(log)
        BY DEF ShapeInv, PlaceInv
      <4> QED
        BY <3>1, <3>2, <4>1 DEF Behind, n
    <3>3. CASE ~(job' = job /\ next' = next)
      <4>1. log' = log
        BY <3>3, Frame DEF Dispatch, Send, RequestStop, memoryVars
      <4> QED
        BY <3>1, <4>1, UserKept
    <3> QED
      BY <3>2, <3>3
  <2>2. User(s) /\ log'[s] = log[s]
    BY <2>1, UserKept
  <2>3. s \notin dispatched
    BY DispatchedStep
  <2> QED
    BY <2>2, <2>3
<1>2. CASE Behind(s)
  <2>1. row[s].state # "none" \/ Accounted(log[s].msg)
    BY <1>1, <1>2 DEF LossInv
  <2>2. s \in Seqs /\ log[s].msg \in Message
    BY <1>1, UserEvent DEF ShapeInv
  <2>3. PICK m : m = log[s].msg
    OBVIOUS
  <2>4. row'[s].state # "none" \/ Accounted(m)'
    BY <2>1, <2>2, <2>3, LeftKept
  <2>5. m = log'[s].msg
    BY <1>1, <2>3
  <2> QED
    BY <2>4, <2>5 DEF Accounted, Settled, Cancelled
<1>3. CASE ~Behind(s)
  BY <1>1, <1>3, BehindStep
<1> QED
  BY <1>2, <1>3

(* No message vanishes: it is ahead of the source, waits in the table, is settled   *)
(* where its user sees it, or was let go of by one of the silent steps.  Its last    *)
(* event is open (LastOpen); behind the source that event has a row, which nothing   *)
(* removes and only its own dispatch promotes, or has led to a call whose outcome    *)
(* the user sees, or to one of those steps.                                          *)
THEOREM NothingVanishes == Spec => []NoMessageLost
<1>1. ASSUME ShapeInv, ChainInv, LossInv PROVE NoMessageLost
  <2> SUFFICES ASSUME NEW m \in Message, Sent(m)
               PROVE  Ahead(m) \/ HasPending(m) \/ Settled(m) \/ m \in untold
    BY DEF NoMessageLost
  <2>1. PICK s : User(s) /\ log[s].msg = m /\ s \notin dispatched
    BY <1>1 DEF ChainInv, LastOpen, Of
  <2>2. s \in Seqs /\ s \in 1..Len(log) /\ next \in Nat
    BY <1>1, <2>1, UserEvent, PlaceFacts DEF User, ShapeInv
  <2>3. CASE s <= next
    <3>1. row[s].state # "none" \/ Settled(m) \/ m \in untold
      BY <1>1, <2>1, <2>3 DEF LossInv, Behind, Accounted
    <3>2. ASSUME row[s].state # "none"
          PROVE  Waiting(s) \/ row[s].state = "cancelled"
      <4>1. row[s].state \in States /\ row[s].state # "promoted"
        BY <1>1, <2>1, <2>2 DEF ShapeInv, TypeOK, RowInv, States
      <4> QED
        BY <3>2, <4>1 DEF States, Waiting
    <3>3. Waiting(s) => HasPending(m)
      BY <2>1, <2>2 DEF HasPending
    <3>4. row[s].state = "cancelled" => Settled(m)
      <4>1. s \in DOMAIN log
        BY <1>1, <2>2, PlaceFacts DEF ShapeInv
      <4> QED
        BY <2>1, <4>1 DEF Settled, Cancelled
    <3> QED
      BY <3>1, <3>2, <3>3, <3>4
  <2>4. CASE s > next
    <3>1. s \in next + 1..Len(log) /\ log[s].kind # "stop"
      BY <2>1, <2>2, <2>4 DEF User
    <3> QED
      BY <2>1, <3>1 DEF Ahead
  <2> QED
    BY <2>2, <2>3, <2>4
<1>2. Init => LossInv
  <2>1. ASSUME Init PROVE \A s : ~User(s)
    BY <2>1 DEF Init, User
  <2> QED
    BY <2>1 DEF LossInv
<1>3. ShapeInv /\ ChainInv /\ LossInv /\ [Next]_vars => LossInv'
  BY LossStep
<1> QED
  BY <1>1, <1>2, <1>3, InChains, PTL DEF Spec
=============================================================================
