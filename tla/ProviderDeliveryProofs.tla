----------------------- MODULE ProviderDeliveryProofs -----------------------
(***************************************************************************)
(* Theorems about the delivery of provider commands, for every value of    *)
(* the constants.  IInv is inductive as a whole: what the holder of the    *)
(* lock knows of the row, the cursor and the thread of its event.          *)
(***************************************************************************)
EXTENDS ProviderDelivery, TLAPS

Working == {"look", "claim", "call"} \cup Outcomes
Admission == {"claim", "call"} \cup Outcomes

\* Epochs are counted by crashes.
EpochInv == epoch + left.crash = IF phase = "down" THEN Crashes ELSE Crashes + 1

\* Who works when, and on what.
JobInv ==
    /\ phase = "down" => job = NoJob
    /\ job.by = "source" => phase = "live"
    /\ job.by = "boot" => phase = "resume"
    /\ job.stage \in Working => Claimed(log[job.at])
    /\ job.by # "source" /\ At("look") /\ job.at > cursor =>
        row[job.at].state = "retry" /\ job.at \in granted
    /\ job.through <= acked

\* Rows are written up to one event past the cursor, retries are of passed events.
RowInv ==
    /\ \A n \in Seqs : row[n].state # "none" => n <= cursor + 1
    /\ \A n \in todo : n <= cursor /\ row[n].state # "none"

\* While a command is worked on, nothing else blocks its thread.
AdmittedInv ==
    job.stage \in Admission /\ HeldBack(log[job.at]) => ~HasBlocker(ThreadOf(job.at))

\* What an event has behind it that the cursor is to pass.
PassInv ==
    At("advance") /\ job.at > cursor =>
        \/ row[job.at].state \in {"succeeded", "dead", "uncertain"}
        \/ row[job.at].state = "retry" /\ job.at \in granted
        \/ /\ job.by = "source"
           /\ \/ ~Claimed(log[job.at])
              \/ HeldBack(log[job.at]) /\ HasBlocker(ThreadOf(job.at))

\* An event is given to the provider once for each time its row says it was open.
OnceInv ==
    /\ At("safe_retry") => job.at \in faulted
    /\ \A n \in Seqs :
        /\ row[n].state = "none" => sent[n] = 0
        /\ row[n].state = "retry" => ReplaySafe(log[n]) \/ n \in granted \cup faulted
    /\ \A n \in DOMAIN log :
        ~ReplaySafe(log[n]) /\ n \notin granted \cup faulted =>
            sent[n] <= 1 /\ (At("call") /\ job.at = n => sent[n] = 0)

IInv ==
    /\ TypeOK /\ EpochInv /\ JobInv /\ RowInv /\ NeverLosesOwnership
    /\ AdmittedInv /\ PassInv /\ OnceInv /\ QuarantineIsBacked

-----------------------------------------------------------------------------
(* What the types give. *)

LEMMA Typed ==
    ASSUME IInv
    PROVE  /\ TypeOK /\ log \in Seq(Event) /\ Len(log) \in Nat
           /\ DOMAIN log = 1..Len(log) /\ 1..Len(log) \subseteq Seqs /\ Seqs \subseteq Nat
           /\ cursor \in Nat /\ acked \in Nat /\ acked <= cursor
           /\ todo \subseteq Seqs /\ sent \in [Seqs -> Nat]
<1>1. TypeOK
  BY DEF IInv
<1>2. log \in Seq(Event) /\ Len(log) \in Nat /\ DOMAIN log = 1..Len(log) /\ Len(log) <= MaxLog
  BY <1>1 DEF TypeOK
<1>3. cursor \in Nat /\ acked \in Nat /\ acked <= cursor
  <2>1. cursor \in 0..Len(log) /\ acked \in 0..cursor
    BY <1>1 DEF TypeOK
  <2> QED
    BY <1>2, <2>1
<1>4. todo \subseteq Seqs /\ sent \in [Seqs -> Nat]
  BY <1>1 DEF TypeOK
<1>5. 1..Len(log) \subseteq Seqs /\ Seqs \subseteq Nat
  BY <1>2, DeliveryAssumption DEF DeliveryAssumption, Seqs
<1> QED
  BY <1>1, <1>2, <1>3, <1>4, <1>5

\* What a cursor had reached it still has when it has moved on.
LEMMA StillReached ==
    \A c, d, n \in Nat : d >= c => (n <= c => n <= d) /\ (n <= c + 1 => n <= d + 1)
  OBVIOUS

\* Whoever works on an event has one, and a row for it.
LEMMA JobTyped ==
    ASSUME TypeOK, job.stage # "idle" \/ job.by # "none"
    PROVE  /\ job # NoJob /\ job \in Job
           /\ job.at \in Nat /\ job.at >= 1 /\ job.at <= Len(log)
           /\ job.at \in Seqs /\ job.at \in DOMAIN log
           /\ log[job.at] \in Event /\ ThreadOf(job.at) \in Thread
           /\ job.by \in {"source", "operator", "boot"} /\ job.stage \in Stages
           /\ job.home \in 0..Len(log) /\ job.through \in 0..Len(log)
           /\ job.stage # "idle" /\ job.by # "none"
<1>1. job # NoJob /\ job \in Job
  BY DEF TypeOK, NoJob
<1>2. log \in Seq(Event) /\ Len(log) \in Nat /\ DOMAIN log = 1..Len(log)
      /\ Len(log) <= MaxLog /\ MaxLog \in Nat
  BY DeliveryAssumption DEF TypeOK, DeliveryAssumption
<1>3. /\ job.at \in 1..Len(log) /\ job.by \in {"source", "operator", "boot"}
      /\ job.stage \in Stages /\ job.home \in 0..Len(log) /\ job.through \in 0..Len(log)
  BY <1>1 DEF Job
<1>4. log[job.at] \in Event
  BY <1>2, <1>3
<1>5. log[job.at].thread \in Thread
  BY <1>4 DEF Event
<1>6. job.stage # "idle"
  BY <1>3 DEF Stages, Outcomes
<1> QED
  BY <1>1, <1>2, <1>3, <1>4, <1>5, <1>6 DEF Seqs, ThreadOf

\* Publishing leaves what was in the log where it was, and the new event has no row.
LEMMA LogGrows ==
    ASSUME TypeOK, Publish
    PROVE  /\ log' \in Seq(Event) /\ Len(log') = Len(log) + 1 /\ Len(log') <= MaxLog
           /\ DOMAIN log' = 1..Len(log') /\ DOMAIN log = 1..Len(log)
           /\ \A n \in DOMAIN log : log'[n] = log[n] /\ n \in DOMAIN log'
           /\ \A t : HasBlocker(t)' <=> HasBlocker(t)
<1>1. PICK e \in Intent[Len(log) + 1] : log' = Append(log, e)
  BY DEF Publish
<1>2. /\ log \in Seq(Event) /\ Len(log) < MaxLog /\ Len(log) \in Nat /\ MaxLog \in Nat
      /\ row' = row
  BY DeliveryAssumption DEF TypeOK, Publish, DeliveryAssumption
<1>3. e \in Event
  BY <1>1, <1>2, DeliveryAssumption DEF DeliveryAssumption
<1>4. /\ log' \in Seq(Event) /\ Len(log') = Len(log) + 1 /\ Len(log') <= MaxLog
      /\ DOMAIN log' = 1..Len(log') /\ DOMAIN log = 1..Len(log)
      /\ \A n \in DOMAIN log : log'[n] = log[n] /\ n \in DOMAIN log'
  BY <1>1, <1>2, <1>3
<1>5. row[Len(log) + 1].state = "none"
  BY <1>2 DEF TypeOK, Seqs
<1>6. ASSUME NEW t
      PROVE  HasBlocker(t)' <=> HasBlocker(t)
  BY <1>2, <1>4, <1>5 DEF HasBlocker, Blocks, ThreadOf
<1> QED
  BY <1>4, <1>6

\* A job moves on with the same event, home and end of its replay.
LEMMA JobMoves ==
    ASSUME TypeOK, job # NoJob, NEW s \in Stages, job' = [job EXCEPT !.stage = s]
    PROVE  /\ job' \in Job /\ job' # NoJob
           /\ job'.by = job.by /\ job'.at = job.at /\ job'.stage = s
           /\ job'.home = job.home /\ job'.through = job.through
<1>1. job \in Job
  BY DEF TypeOK
<1>2. /\ job' \in Job
      /\ job'.by = job.by /\ job'.at = job.at /\ job'.stage = s
      /\ job'.home = job.home /\ job'.through = job.through
  BY <1>1 DEF Job
<1>3. s # "idle"
  BY DEF Stages, Outcomes
<1> QED
  BY <1>2, <1>3 DEF NoJob

\* One row is written and the others are not.
LEMMA RowWritten ==
    ASSUME TypeOK, NEW n \in Seqs, NEW r \in Row, row' = [row EXCEPT ![n] = r]
    PROVE  /\ row' \in [Seqs -> Row] /\ row'[n] = r
           /\ \A m \in Seqs : m # n => row'[m] = row[m]
  BY DEF TypeOK

\* A row that is given back or settled keeps its attempts and its proof.
LEMMA RowFreed ==
    ASSUME TypeOK, NEW n \in Seqs, NEW state \in States
    PROVE  /\ Free(row[n], state) \in Row
           /\ Free(row[n], state).state = state
           /\ \A proof \in BOOLEAN :
                /\ [Free(row[n], state) EXCEPT !.proof = proof] \in Row
                /\ [Free(row[n], state) EXCEPT !.proof = proof].state = state
<1>1. row[n] \in Row
  BY DEF TypeOK
<1>2. 0 \in 0..Crashes + 1
  BY DeliveryAssumption DEF DeliveryAssumption
<1> QED
  BY <1>1, <1>2 DEF Row, Free

-----------------------------------------------------------------------------
(* What the steps that write a row do to it, and to the job. *)

\* Row of the job's event, and it alone, is written.
WritesRow(state) ==
    /\ row' \in [Seqs -> Row] /\ row'[job.at].state = state
    /\ \A m \in Seqs : m # job.at => row'[m] = row[m]

\* The job goes on to another stage.
MovesTo(stage) ==
    /\ job' \in Job /\ job'.stage = stage /\ job'.by = job.by /\ job'.at = job.at
    /\ job'.home = job.home /\ job'.through = job.through

LEMMA MovesOn ==
    ASSUME TypeOK, job.stage # "idle", NEW s \in Stages, GoTo(s)
    PROVE  MovesTo(s)
  BY JobMoves DEF GoTo, MovesTo, NoJob

LEMMA ClaimEffect ==
    ASSUME TypeOK, Claim
    PROVE  /\ WritesRow("inflight") /\ MovesTo("call") /\ row'[job.at].owner = epoch
           /\ job.stage \in {"look", "claim"}
           /\ job.stage = "look" => row[job.at].state \in {"none", "retry"} /\ ~Skips
<1>1. job.stage \in {"look", "claim"}
  BY DEF Claim, Admitted, At
<1>2. job.at \in Seqs /\ row[job.at] \in Row /\ epoch \in 0..Crashes + 1
  BY <1>1, JobTyped DEF TypeOK
<1>3. [state |-> "inflight", owner |-> epoch, tries |-> row[job.at].tries + 1,
       proof |-> FALSE] \in Row
  BY <1>2 DEF Row, States
<1>4. WritesRow("inflight") /\ row'[job.at].owner = epoch
  BY <1>2, <1>3, RowWritten DEF Claim, SetRow, WritesRow
<1>5. MovesTo("call")
  BY <1>1, MovesOn DEF Claim, Stages
<1> QED
  BY <1>1, <1>4, <1>5 DEF Claim, Admitted, At

LEMMA CompleteEffect ==
    ASSUME TypeOK, Complete
    PROVE  /\ WritesRow("succeeded") /\ MovesTo("refresh")
           /\ job.stage = "accepted" /\ row[job.at].state = "inflight"
<1>1. job.at \in Seqs /\ job.stage = "accepted" /\ row[job.at].state = "inflight"
  BY JobTyped DEF Complete, At, Owned
<1>2. WritesRow("succeeded")
  BY <1>1, RowFreed, RowWritten DEF Complete, SetRow, WritesRow, States
<1>3. MovesTo("refresh")
  BY <1>1, MovesOn DEF Complete, Stages
<1> QED
  BY <1>1, <1>2, <1>3

\* A claim is taken back to be taken again.
LEMMA ReturnEffect ==
    ASSUME TypeOK, Requeue \/ MarkRetryable
    PROVE  /\ WritesRow("retry") /\ MovesTo("claim") /\ row[job.at].state = "inflight"
           /\ UNCHANGED <<log, cursor, granted, memoryVars, ghostVars, left>>
           /\ \/ job.stage = "look" /\ ~Skips /\ ReplaySafe(log[job.at])
              \/ job.stage = "safe_retry"
<1>1. /\ job.stage \in {"look", "safe_retry"} /\ row[job.at].state = "inflight"
      /\ SetRow(Free(row[job.at], "retry")) /\ GoTo("claim")
      /\ UNCHANGED <<log, cursor, granted, memoryVars, ghostVars, left>>
      /\ \/ job.stage = "look" /\ ~Skips /\ ReplaySafe(log[job.at])
         \/ job.stage = "safe_retry"
  BY DEF Requeue, MarkRetryable, Admitted, At, Owned
<1>2. job.at \in Seqs
  BY <1>1, JobTyped
<1>3. WritesRow("retry")
  BY <1>1, <1>2, RowFreed, RowWritten DEF SetRow, WritesRow, States
<1>4. MovesTo("claim")
  BY <1>1, MovesOn DEF Stages
<1> QED
  BY <1>1, <1>3, <1>4

\* A delivery blocks its thread.
LEMMA BlockEffect ==
    ASSUME TypeOK, ExpireClaim \/ GiveUp \/ MarkUncertain
    PROVE  /\ \E state \in {"dead", "uncertain"} : WritesRow(state)
           /\ MovesTo("advance") /\ row[job.at].state = "inflight" /\ job.stage \in Working
           /\ quarantined' = quarantined \cup {ThreadOf(job.at)}
           /\ UNCHANGED <<log, cursor, granted, phase, epoch, acked, handled, todo,
                          ghostVars, left>>
<1>1. PICK state \in {"dead", "uncertain"}, proof \in BOOLEAN : BlockAs(state, proof)
  BY DEF ExpireClaim, GiveUp, MarkUncertain, At
<1>2. job.stage \in Working /\ row[job.at].state = "inflight" /\ job.stage # "idle"
  BY DEF ExpireClaim, GiveUp, MarkUncertain, Admitted, Owned, At, Working, Outcomes
<1>3. job.at \in Seqs
  BY <1>2, JobTyped
<1>a. /\ [Free(row[job.at], state) EXCEPT !.proof = proof] \in Row
      /\ [Free(row[job.at], state) EXCEPT !.proof = proof].state = state
  BY <1>3, RowFreed DEF States
<1>4. WritesRow(state)
  BY <1>1, <1>3, <1>a, RowWritten DEF BlockAs, SetRow, WritesRow
<1>5. MovesTo("advance")
  BY <1>1, <1>2, MovesOn DEF BlockAs, Stages
<1> QED
  BY <1>1, <1>2, <1>4, <1>5 DEF BlockAs

\* A verdict, of an operator or of the startup, unblocks the thread of its event.
LEMMA VerdictEffect ==
    ASSUME TypeOK, NEW n \in Seqs, Reconcile(n) \/ Heal(n)
    PROVE  /\ Blocks(n) /\ n \in 1..Len(log)
           /\ row' \in [Seqs -> Row] /\ row'[n].state \in {"retry", "succeeded"}
           /\ \A m \in Seqs : m # n => row'[m] = row[m]
           /\ granted \subseteq granted' /\ granted' \subseteq granted \cup {n}
           /\ row'[n].state = "retry" => n \in granted'
           /\ quarantined' = quarantined \ {ThreadOf(n)} /\ handled' \subseteq handled
           /\ left'.crash = left.crash
           /\ left' \in [crash : 0..Crashes, fault : 0..Faults, verdict : 0..Verdicts]
           /\ UNCHANGED <<log, cursor, phase, epoch, acked, todo, ghostVars>>
           /\ \/ phase = "heal" /\ job' = job
              \/ /\ job = NoJob /\ job' \in Job /\ phase \notin {"down", "resume"}
                 /\ job'.by = "operator" /\ job'.at = n
                 /\ \/ job'.stage = "look" /\ job'.through = 0 /\ row'[n].state = "retry"
                    \/ job'.stage = "next" /\ job'.through = acked
<1>1. Blocks(n)
  BY DEF Reconcile, Heal
<1>2. n \in 1..Len(log) /\ Len(log) \in Nat /\ acked \in 0..Len(log)
  BY <1>1 DEF Blocks, TypeOK, Seqs
<1>3. PICK state \in {"retry", "succeeded"} :
        /\ row' = [row EXCEPT ![n] = Free(row[n], state)]
        /\ state = "retry" => n \in granted'
  BY DEF Reconcile, Heal, SafeRetry, Abandon
<1>4. /\ row' \in [Seqs -> Row] /\ row'[n].state = state
      /\ \A m \in Seqs : m # n => row'[m] = row[m]
  <2>1. Free(row[n], state) \in Row /\ Free(row[n], state).state = state
    BY RowFreed DEF States
  <2> QED
    BY <1>3, <2>1, RowWritten
<1>5. /\ granted \subseteq granted' /\ granted' \subseteq granted \cup {n}
      /\ quarantined' = quarantined \ {ThreadOf(n)} /\ handled' \subseteq handled
      /\ UNCHANGED <<log, cursor, phase, epoch, acked, todo, ghostVars>>
  BY DEF Reconcile, Heal, SafeRetry, Abandon
<1>6. /\ left'.crash = left.crash
      /\ left' \in [crash : 0..Crashes, fault : 0..Faults, verdict : 0..Verdicts]
  <2>1. left \in [crash : 0..Crashes, fault : 0..Faults, verdict : 0..Verdicts]
    BY DEF TypeOK
  <2>2. CASE Heal(n)
    BY <2>1, <2>2 DEF Heal
  <2>3. CASE Reconcile(n)
    <3>1. left.verdict > 0 /\ left' = [left EXCEPT !.verdict = left.verdict - 1]
      BY <2>3 DEF Reconcile
    <3> QED
      BY <2>1, <3>1, DeliveryAssumption DEF DeliveryAssumption
  <2> QED
    BY <2>2, <2>3
<1>7. CASE Heal(n)
  BY <1>1, <1>2, <1>3, <1>4, <1>5, <1>6, <1>7 DEF Heal
<1>8. CASE Reconcile(n)
  <2>1. job = NoJob /\ phase \notin {"down", "resume"}
    BY <1>8 DEF Reconcile
  <2>2. CASE SafeRetry(n)
    <3>1. job' = [by |-> "operator", at |-> n, stage |-> "look", home |-> n, through |-> 0]
      BY <2>2 DEF SafeRetry, Begin
    <3>2. job' \in Job
      BY <3>1, <1>2, <1>5 DEF Job, Stages
    <3>3. row'[n].state = "retry"
      BY <2>2, RowFreed, RowWritten DEF SafeRetry, States
    <3> QED
      BY <1>1, <1>2, <1>3, <1>4, <1>5, <1>6, <2>1, <3>1, <3>2, <3>3
  <2>3. CASE Abandon(n)
    <3>1. job' = [by |-> "operator", at |-> n, stage |-> "next", home |-> n, through |-> acked]
      BY <2>3 DEF Abandon, Begin
    <3>2. job' \in Job
      BY <3>1, <1>2, <1>5 DEF Job, Stages
    <3> QED
      BY <1>1, <1>2, <1>3, <1>4, <1>5, <1>6, <2>1, <3>1, <3>2
  <2> QED
    BY <1>8, <2>2, <2>3 DEF Reconcile
<1> QED
  BY <1>7, <1>8

\* An event is done with: the source is free, a replay goes on.
LEMMA OverEffect ==
    ASSUME TypeOK, job.stage # "idle", job' = Over
    PROVE  \/ job.by = "source" /\ job' = NoJob
           \/ job.by # "source" /\ \E s \in {"resumed", "next"} : MovesTo(s)
<1>1. CASE job.by = "source"
  BY <1>1 DEF Over
<1>2. CASE job.by # "source"
  <2>1. PICK s \in {"resumed", "next"} : GoTo(s)
    BY <1>2 DEF Over, GoTo
  <2> QED
    BY <1>2, <2>1, MovesOn DEF Stages
<1> QED
  BY <1>1, <1>2

\* The source takes the event behind its copy of the cursor.
LEMMA TakeEffect ==
    ASSUME TypeOK, TakeEvent
    PROVE  /\ job = NoJob /\ phase = "live" /\ job' \in Job
           /\ job'.by = "source" /\ job'.at = acked + 1 /\ job'.through = 0
           /\ acked + 1 \in 1..Len(log)
           /\ IF Claimed(log[acked + 1]) THEN job'.stage = "look" ELSE job'.stage = "advance"
           /\ quarantined' \subseteq quarantined
           /\ \E t \in Thread : quarantined' \in {quarantined, quarantined \ {t}}
<1>1. /\ log \in Seq(Event) /\ Len(log) \in Nat /\ acked \in Nat /\ acked < Len(log)
      /\ job = NoJob /\ phase = "live"
  BY DEF TakeEvent, TypeOK
<1>2. log[acked + 1] \in Event /\ acked + 1 \in 1..Len(log)
  BY <1>1
<1>3. log[acked + 1].thread \in Thread
  BY <1>2 DEF Event
<1>4. job' = [by |-> "source", at |-> acked + 1,
              stage |-> IF Claimed(log[acked + 1]) THEN "look" ELSE "advance",
              home |-> 0, through |-> 0]
  BY DEF TakeEvent, Begin
<1>5. job' \in Job
  BY <1>1, <1>2, <1>4 DEF TakeEvent, Job, Stages
<1>6. quarantined' \in {quarantined, quarantined \ {log[acked + 1].thread}}
  BY DEF TakeEvent
<1> QED
  BY <1>1, <1>2, <1>3, <1>4, <1>5, <1>6

\* The startup resumes a retry that was ordered.
LEMMA ResumeEffect ==
    ASSUME TypeOK, RowInv, Resume
    PROVE  \E n \in todo :
               /\ n \in 1..Len(log) /\ n <= cursor /\ row[n].state # "none"
               /\ job = NoJob /\ job' \in Job /\ job'.by = "boot" /\ job'.at = n
               /\ job'.stage = "look" /\ job'.through = 0
               /\ todo' = todo \ {n} /\ quarantined' = quarantined \ {ThreadOf(n)}
<1>1. PICK n \in todo :
        /\ todo' = todo \ {n} /\ quarantined' = quarantined \ {ThreadOf(n)}
        /\ job' = [by |-> "boot", at |-> n, stage |-> "look", home |-> n, through |-> 0]
  BY DEF Resume, Begin
<1>2. n \in 1..Len(log) /\ n <= cursor /\ row[n].state # "none"
  BY DeliveryAssumption DEF TypeOK, RowInv, Seqs, DeliveryAssumption
<1>3. Len(log) \in Nat /\ log' = log
  BY DEF TypeOK, Resume, durableVars
<1>4. job' \in Job
  BY <1>1, <1>2, <1>3 DEF Job, Stages
<1> QED
  BY <1>1, <1>2, <1>4 DEF Resume

\* A replay goes on with an event up to the cursor that was read for it.
LEMMA ReplayEffect ==
    ASSUME TypeOK, ReplayStep
    PROVE  /\ job.stage \in {"resumed", "next"} /\ quarantined' \subseteq quarantined
           /\ UNCHANGED <<durableVars, phase, epoch, acked, handled, todo, ghostVars, left>>
           /\ \/ job' = NoJob /\ quarantined' = quarantined
              \/ /\ AfterResume /\ job' \in Job /\ job'.stage = "next"
                 /\ job'.by = job.by /\ job'.at = job.at /\ job'.through = acked
                 /\ \E t : quarantined' = quarantined \ {t}
              \/ /\ quarantined' = quarantined /\ job' \in Job /\ job'.stage = "look"
                 /\ job'.by = job.by /\ job'.through = job.through
                 /\ job'.at \in 1..Len(log) /\ job'.at <= job.through
                 /\ SideEffect(log[job'.at])
<1>1. /\ job.stage \in {"resumed", "next"} /\ quarantined' \subseteq quarantined
      /\ UNCHANGED <<durableVars, phase, epoch, acked, handled, todo, ghostVars, left>>
  BY DEF ReplayStep, AfterResume, ReplayNext, At, memoryVars
<1>2. /\ job \in Job /\ Len(log) \in Nat /\ acked \in 0..Len(log) /\ log' = log
      /\ job.at \in 1..Len(log) /\ job.through \in 0..Len(log)
  BY <1>1, JobTyped DEF TypeOK, durableVars
<1>3. CASE AfterResume
  <2>1. CASE job' = NoJob
    BY <1>1, <1>3, <2>1, <1>2 DEF AfterResume, NoJob, Job, Stages, Outcomes
  <2>2. CASE job' = [job EXCEPT !.stage = "next", !.through = acked]
    <3>1. job' \in Job /\ job'.stage = "next" /\ job'.by = job.by /\ job'.at = job.at
          /\ job'.through = acked
      BY <1>2, <2>2 DEF Job, Stages
    <3>2. \E t : quarantined' = quarantined \ {t}
      BY <1>3, <3>1 DEF AfterResume, NoJob
    <3> QED
      BY <1>1, <1>3, <3>1, <3>2
  <2> QED
    BY <1>3, <2>1, <2>2 DEF AfterResume
<1>4. CASE ReplayNext
  <2>1. quarantined' = quarantined
    BY <1>4 DEF ReplayNext, memoryVars
  <2>2. CASE job' = NoJob
    BY <1>1, <2>1, <2>2
  <2>3. ASSUME NEW n \in Replayed, job' = [job EXCEPT !.at = n, !.stage = "look"]
        PROVE  /\ job' \in Job /\ job'.stage = "look" /\ job'.by = job.by /\ job'.at = n
               /\ job'.through = job.through /\ n \in 1..Len(log) /\ n <= job.through
               /\ SideEffect(log[n])
    <3>1. n \in 1..Len(log) /\ n <= job.through /\ SideEffect(log[n])
      BY <1>2 DEF Replayed
    <3> QED
      BY <1>2, <2>3, <3>1 DEF Job, Stages
  <2> QED
    BY <1>1, <1>4, <2>1, <2>2, <2>3 DEF ReplayNext
<1> QED
  BY <1>3, <1>4 DEF ReplayStep

-----------------------------------------------------------------------------
(* Every step keeps the invariant, one part of it after the other. *)

LEMMA TypeStep == IInv /\ [Next]_vars => TypeOK'
<1> SUFFICES ASSUME IInv, [Next]_vars PROVE TypeOK'
  OBVIOUS
<1> USE DeliveryAssumption DEF DeliveryAssumption, durableVars, memoryVars, ghostVars
<1>a. /\ log \in Seq(Event) /\ Len(log) \in Nat /\ DOMAIN log = 1..Len(log)
      /\ cursor \in Nat /\ acked \in Nat /\ cursor <= Len(log) /\ acked <= cursor
      /\ MaxLog \in Nat /\ Len(log) <= MaxLog /\ TypeOK
  BY DEF IInv, TypeOK
<1>b. job.stage # "idle" =>
        /\ job.at \in Seqs /\ job.at \in 1..Len(log) /\ ThreadOf(job.at) \in Thread
  BY <1>a, JobTyped
<1>c. \A s \in Stages : job.stage # "idle" /\ GoTo(s) => job' \in Job
  BY <1>a, MovesOn DEF MovesTo
<1>1. CASE Skip
  <2>1. job' \in Job
    BY <1>1, <1>c DEF Skip, At, Stages
  <2> QED
    BY <1>1, <1>b, <2>1 DEF Skip, At, IInv, TypeOK, Job
<1>2. CASE FindSettled
  <2>1. job' \in Job
    BY <1>2, <1>c DEF FindSettled, Admitted, At, Stages
  <2> QED
    BY <1>2, <1>b, <2>1 DEF FindSettled, Admitted, At, IInv, TypeOK, Job
<1>3. CASE Requeue \/ MarkRetryable
  <2>1. job.stage # "idle"
    BY <1>3 DEF Requeue, MarkRetryable, Admitted, At
  <2> QED
    BY <1>3, <1>a, <1>b, <2>1, ReturnEffect DEF TypeOK, WritesRow, MovesTo, Job
<1>4. CASE Claim
  <2>1. /\ WritesRow("inflight") /\ MovesTo("call") /\ job.stage \in {"look", "claim"}
        /\ job.stage # "idle"
    BY <1>4, <1>a, ClaimEffect
  <2>2. Claimed(log[job.at]) /\ job.at \in Seqs /\ job.at <= Len(log)
    BY <2>1, <1>b DEF IInv, JobInv, Working
  <2> QED
    BY <1>4, <2>1, <2>2 DEF Claim, WritesRow, MovesTo, IInv, TypeOK, Job
<1>5. CASE CallKnownStart
  <2>1. job' \in Job
    BY <1>5, <1>c DEF CallKnownStart, At, Stages, Outcomes
  <2> QED
    BY <1>5, <2>1 DEF CallKnownStart, IInv, TypeOK, Job
<1>6. CASE Call
  <2>1. job' \in Job
    BY <1>6, <1>c DEF Call, At, Stages, Outcomes
  <2>2. handled' \subseteq Seqs /\ faulted' \subseteq Seqs /\ sent' \in [Seqs -> Nat]
    <3>1. job.at \in Seqs
      BY <1>6, <1>b DEF Call, At
    <3>2. sent' = sent \/ sent' = [sent EXCEPT ![job.at] = @ + 1]
      BY <1>6 DEF Call
    <3>3. sent' \in [Seqs -> Nat]
      BY <1>a, <3>1, <3>2 DEF TypeOK
    <3> QED
      BY <1>6, <1>a, <3>1, <3>3 DEF Call, TypeOK
  <2> QED
    BY <1>6, <2>1, <2>2 DEF Call, IInv, TypeOK, Job
<1>7. CASE Complete
  <2>1. /\ WritesRow("succeeded") /\ MovesTo("refresh") /\ job.stage # "idle"
        /\ row[job.at].state = "inflight"
    BY <1>7, <1>a, CompleteEffect
  <2>2. cursor' \in 0..Len(log) /\ cursor' >= cursor
    BY <1>7, <1>a, <1>b, <2>1 DEF Complete
  <2> QED
    <3>1. acked' \in 0..cursor'
      BY <1>7, <1>a, <2>2 DEF Complete
    <3>2. \A n \in Seqs : row'[n].state # "none" => n <= Len(log) /\ Claimed(log[n])
      BY <1>a, <1>b, <2>1 DEF WritesRow, TypeOK
    <3>3. job' \in Job' /\ log' = log
      BY <1>7, <2>1 DEF Complete, MovesTo, Job
    <3> QED
      BY <1>7, <1>a, <2>1, <2>2, <3>1, <3>2, <3>3 DEF Complete, WritesRow, TypeOK
<1>8. CASE RefreshCursor \/ Advance
  <2>1. job' \in Job \/ job' = NoJob
    BY <1>8, <1>a, OverEffect DEF RefreshCursor, Advance, At, MovesTo
  <2>2. cursor' \in 0..Len(log) /\ cursor' >= cursor /\ acked' = cursor'
    BY <1>8, <1>a, <1>b DEF RefreshCursor, Advance, At
  <2> QED
    <3>1. acked' \in 0..cursor'
      BY <1>8, <1>a, <2>2
    <3>2. job' = NoJob \/ job' \in Job'
      BY <1>8, <2>1 DEF RefreshCursor, Advance, Job
    <3> QED
      BY <1>8, <1>a, <2>2, <3>1, <3>2 DEF RefreshCursor, Advance, TypeOK
<1>9. CASE ExpireClaim \/ GiveUp \/ MarkUncertain
  <2>1. job.stage # "idle"
    BY <1>9, <1>a, BlockEffect DEF Working, Outcomes
  <2> QED
    BY <1>9, <1>a, <1>b, <2>1, BlockEffect DEF TypeOK, WritesRow, MovesTo, Job, States
<1>10. CASE TakeEvent
  BY <1>10, <1>a, TakeEffect DEF TakeEvent, TypeOK, Job
<1>11. CASE ReplayStep
  BY <1>11, <1>a, ReplayEffect DEF TypeOK, Job
<1>12. ASSUME NEW n \in Seqs, Reconcile(n) \/ Heal(n)
       PROVE  TypeOK'
  <2>1. row[n].state # "none"
    BY <1>12, <1>a, VerdictEffect DEF Blocks
  <2>2. /\ row' \in [Seqs -> Row] /\ \A m \in Seqs : m # n => row'[m] = row[m]
        /\ granted' \subseteq granted \cup {n} /\ handled' \subseteq handled
        /\ quarantined' \subseteq quarantined
        /\ left' \in [crash : 0..Crashes, fault : 0..Faults, verdict : 0..Verdicts]
        /\ UNCHANGED <<log, cursor, phase, epoch, acked, todo, ghostVars>>
        /\ job' = job \/ job' \in Job
    BY <1>12, <1>a, VerdictEffect
  <2>3. \A m \in Seqs : row'[m].state # "none" => m <= Len(log) /\ Claimed(log[m])
    BY <1>a, <2>1, <2>2 DEF TypeOK
  <2>4. job' = NoJob \/ job' \in Job'
    BY <1>a, <2>2 DEF TypeOK, Job
  <2> QED
    BY <1>a, <2>2, <2>3, <2>4 DEF TypeOK
<1>13. CASE StartUp
  BY <1>13, <1>a DEF StartUp, IInv, EpochInv, TypeOK, Job
<1>14. CASE HealEnds
  <2>1. left' \in [crash : 0..Crashes, fault : 0..Faults, verdict : 0..Verdicts]
    BY <1>14 DEF HealEnds, IInv, TypeOK
  <2>2. Retryable \subseteq Seqs
    BY <1>a DEF Retryable, TypeOK
  <2> QED
    BY <1>14, <2>1, <2>2 DEF HealEnds, IInv, TypeOK, Job
<1>15. CASE Resume
  BY <1>15, <1>a, ResumeEffect DEF Resume, IInv, TypeOK, Job
<1>16. CASE GoLive
  BY <1>16 DEF GoLive, IInv, TypeOK, Job
<1>17. CASE Crash \/ Fail
  <2>1. left' \in [crash : 0..Crashes, fault : 0..Faults, verdict : 0..Verdicts]
    <3>1. left \in [crash : 0..Crashes, fault : 0..Faults, verdict : 0..Verdicts]
      BY <1>a DEF TypeOK
    <3>2. CASE left.crash > 0 /\ left' = [left EXCEPT !.crash = left.crash - 1]
      BY <3>1, <3>2
    <3>3. CASE left.fault > 0 /\ left' = [left EXCEPT !.fault = left.fault - 1]
      BY <3>1, <3>3
    <3> QED
      BY <1>17, <3>2, <3>3 DEF Crash, Fail
  <2>2. CASE Crash
    <3>1. /\ UNCHANGED <<log, cursor, row, granted, epoch, sent, faulted>>
          /\ acked' \in 0..cursor /\ job' = NoJob /\ phase' = "down"
          /\ quarantined' = {} /\ handled' = {} /\ todo' = {}
      BY <1>a, <2>2 DEF Crash
    <3> QED
      BY <1>a, <2>1, <3>1 DEF TypeOK
  <2>3. CASE Fail
    BY <1>a, <2>1, <2>3 DEF Fail, TypeOK
  <2> QED
    BY <1>17, <2>2, <2>3
<1>18. CASE Publish
  <2>1. /\ log' \in Seq(Event) /\ Len(log') = Len(log) + 1 /\ Len(log') <= MaxLog
        /\ \A n \in 1..Len(log) : log'[n] = log[n]
    BY <1>18, <1>a, LogGrows
  <2>2. job' = NoJob \/ job' \in Job'
    BY <1>18, <1>a, <2>1 DEF Publish, TypeOK, Job
  <2>3. ASSUME NEW n \in Seqs, row[n].state # "none"
        PROVE  n <= Len(log') /\ Claimed(log'[n])
    <3>1. n \in 1..Len(log) /\ Claimed(log[n])
      BY <1>a, <2>3 DEF TypeOK, Seqs
    <3>2. log'[n] = log[n]
      BY <2>1, <3>1
    <3> QED
      BY <1>a, <2>1, <3>1, <3>2
  <2>4. cursor \in 0..Len(log') /\ UNCHANGED <<cursor, row, granted, memoryVars, ghostVars, left>>
    BY <1>18, <1>a, <2>1 DEF Publish
  <2> QED
    BY <1>a, <2>1, <2>2, <2>3, <2>4 DEF TypeOK
<1>19. CASE UNCHANGED vars
  BY <1>19 DEF vars, IInv, TypeOK, Job
<1> QED
  BY <1>1, <1>2, <1>3, <1>4, <1>5, <1>6, <1>7, <1>8, <1>9, <1>10, <1>11, <1>12, <1>13, <1>14,
     <1>15, <1>16, <1>17, <1>18, <1>19 DEF Next, EventStep, BootStep

LEMMA EpochStep == IInv /\ [Next]_vars => EpochInv'
<1> SUFFICES ASSUME IInv, [Next]_vars PROVE EpochInv'
  OBVIOUS
<1> USE DEF memoryVars
<1>a. /\ TypeOK /\ EpochInv
      /\ left \in [crash : 0..Crashes, fault : 0..Faults, verdict : 0..Verdicts]
      /\ Crashes \in Nat /\ epoch \in Nat
  BY DeliveryAssumption DEF DeliveryAssumption, IInv, TypeOK
<1>1. CASE UNCHANGED <<epoch, phase>> /\ left'.crash = left.crash
  BY <1>a, <1>1 DEF EpochInv
<1>2. CASE EventStep
  BY <1>1, <1>2 DEF EventStep, Skip, FindSettled, Requeue, Claim, CallKnownStart, Call,
     Complete, RefreshCursor, MarkRetryable, ExpireClaim, GiveUp, MarkUncertain, BlockAs, Advance
<1>3. CASE TakeEvent \/ ReplayStep \/ Publish \/ UNCHANGED vars
  BY <1>1, <1>3 DEF TakeEvent, ReplayStep, AfterResume, ReplayNext, Publish, vars
<1>4. ASSUME NEW n \in Seqs, Reconcile(n) \/ Heal(n)
      PROVE  EpochInv'
  BY <1>a, <1>1, <1>4, VerdictEffect
<1>5. CASE StartUp
  BY <1>a, <1>5 DEF StartUp, EpochInv
<1>6. CASE HealEnds
  <2>1. epoch' = epoch /\ phase # "down" /\ phase' # "down"
    BY <1>6 DEF HealEnds
  <2>2. left'.crash = left.crash
    BY <1>a, <1>6 DEF HealEnds
  <2> QED
    BY <1>a, <2>1, <2>2 DEF EpochInv
<1>7. CASE Resume \/ GoLive
  BY <1>a, <1>7 DEF Resume, GoLive, EpochInv
<1>8. CASE Crash
  <2>1. left'.crash = left.crash - 1 /\ epoch' = epoch /\ phase # "down" /\ phase' = "down"
    BY <1>a, <1>8 DEF Crash
  <2> QED
    BY <1>a, <2>1 DEF EpochInv
<1>9. CASE Fail
  <2>1. job # NoJob
    BY <1>9 DEF Fail, NoJob
  <2>2. left'.crash = left.crash /\ epoch' = epoch /\ phase' \in {phase, "halted"}
    BY <1>a, <1>9 DEF Fail
  <2>3. phase # "down"
    BY <2>1 DEF IInv, JobInv
  <2> QED
    BY <1>a, <2>2, <2>3 DEF EpochInv
<1> QED
  BY <1>2, <1>3, <1>4, <1>5, <1>6, <1>7, <1>8, <1>9 DEF Next, BootStep

LEMMA JobStep == IInv /\ [Next]_vars => JobInv'
<1> SUFFICES ASSUME IInv, [Next]_vars PROVE JobInv'
  OBVIOUS
<1> USE DEF At, Working, Outcomes, durableVars, memoryVars, ghostVars
<1>a. /\ TypeOK /\ JobInv /\ log \in Seq(Event) /\ Len(log) \in Nat
      /\ cursor \in Nat /\ acked \in Nat /\ acked <= cursor
  BY DEF IInv, TypeOK
<1>b. job.stage # "idle" \/ job.by # "none" =>
        /\ job # NoJob /\ job.at \in Seqs /\ job.at \in 1..Len(log)
        /\ job.by \in {"source", "operator", "boot"} /\ job.through \in Nat
  BY <1>a, JobTyped
<1>c. NoJob.stage = "idle" /\ NoJob.by = "none" /\ NoJob.through = 0 /\ NoJob.at = 0
  BY DEF NoJob
<1>d. \A s \in Stages : job.stage # "idle" /\ GoTo(s) => MovesTo(s)
  BY <1>a, MovesOn
\* A job that moves on while rows of its event are not asked about.
<1>m. ASSUME NEW s \in Stages \ {"look"}, job.stage # "idle", MovesTo(s),
             s \in Working => Claimed(log[job.at]),
             phase' = phase, log' = log, acked' \in Nat, acked' >= acked
      PROVE  JobInv'
  BY <1>m, <1>a, <1>b DEF JobInv, MovesTo
<1>1. CASE Skip \/ FindSettled
  BY <1>1, <1>a, <1>d, <1>m DEF Skip, FindSettled, Admitted, Stages
<1>2. CASE Requeue \/ MarkRetryable
  BY <1>2, <1>a, <1>m, ReturnEffect DEF JobInv, Stages
<1>3. CASE Claim
  BY <1>3, <1>a, <1>m, ClaimEffect DEF Claim, JobInv, Stages
<1>4. CASE CallKnownStart \/ Call
  BY <1>4, <1>a, <1>d, <1>m DEF CallKnownStart, Call, JobInv, Stages
<1>5. CASE Complete
  BY <1>5, <1>a, <1>m, CompleteEffect DEF Complete, Stages
<1>6. CASE RefreshCursor \/ Advance
  <2>1. \/ job' = NoJob
        \/ \E s \in {"resumed", "next"} : MovesTo(s)
    BY <1>6, <1>a, OverEffect DEF RefreshCursor, Advance
  <2>2. phase' = phase /\ log' = log /\ acked' \in Nat /\ acked' >= acked
        /\ job.stage # "idle"
    BY <1>6, <1>a, <1>b DEF RefreshCursor, Advance
  <2>3. CASE job' = NoJob
    BY <2>2, <2>3, <1>c DEF JobInv
  <2> QED
    BY <1>a, <2>1, <2>2, <2>3, <1>m DEF Stages
<1>7. CASE ExpireClaim \/ GiveUp \/ MarkUncertain
  BY <1>7, <1>a, <1>m, BlockEffect DEF Stages
<1>8. CASE TakeEvent
  BY <1>8, <1>a, TakeEffect DEF TakeEvent, JobInv, NoJob
<1>9. CASE ReplayStep
  BY <1>9, <1>a, <1>b, <1>c, ReplayEffect DEF JobInv, Claimed
<1>10. ASSUME NEW n \in Seqs, Reconcile(n) \/ Heal(n)
       PROVE  JobInv'
  <2>1. Claimed(log[n])
    BY <1>10, <1>a, VerdictEffect DEF Blocks, TypeOK
  <2>2. CASE job' = job
    <3>1. At("look") /\ job.by # "source" /\ job.at > cursor => job.at # n
      BY <1>10, <1>a, VerdictEffect DEF JobInv, Blocks
    <3>2. At("look") => job.at \in Seqs
      BY <1>b
    <3> QED
      BY <1>10, <1>a, <2>2, <3>1, <3>2, VerdictEffect DEF JobInv
  <2>3. CASE job = NoJob
    BY <1>10, <1>a, <1>c, <2>1, <2>2, <2>3, VerdictEffect DEF JobInv
  <2> QED
    BY <1>10, <1>a, <2>2, <2>3, VerdictEffect
<1>11. CASE StartUp
  BY <1>11, <1>a, <1>c DEF StartUp, JobInv
<1>12. CASE HealEnds \/ GoLive
  BY <1>12, <1>a, <1>c DEF HealEnds, GoLive, JobInv
<1>13. CASE Resume
  <2>1. \A n \in todo : Claimed(log[n])
    BY DEF IInv, RowInv, TypeOK
  <2> QED
    BY <1>13, <1>a, <2>1, ResumeEffect DEF Resume, IInv, JobInv, NoJob
<1>14. CASE Crash \/ Fail
  BY <1>14, <1>a, <1>c DEF Crash, Fail, JobInv
<1>15. CASE Publish
  <2>1. job.stage # "idle" => log'[job.at] = log[job.at]
    BY <1>15, <1>a, <1>b, LogGrows
  <2> QED
    BY <1>15, <1>a, <1>c, <2>1 DEF Publish, JobInv
<1>16. CASE UNCHANGED vars
  BY <1>16, <1>a DEF vars, JobInv
<1> QED
  BY <1>1, <1>2, <1>3, <1>4, <1>5, <1>6, <1>7, <1>8, <1>9, <1>10, <1>11, <1>12, <1>13, <1>14,
     <1>15, <1>16 DEF Next, EventStep, BootStep

LEMMA RowStep == IInv /\ [Next]_vars => RowInv'
<1> SUFFICES ASSUME IInv, [Next]_vars PROVE RowInv'
  OBVIOUS
<1> USE DEF At, durableVars, memoryVars, ghostVars
<1>a. /\ TypeOK /\ RowInv /\ NeverLosesOwnership /\ todo \subseteq Seqs
      /\ cursor \in Nat /\ acked \in Nat /\ acked <= cursor /\ Len(log) \in Nat
      /\ Seqs \subseteq Nat
  BY Typed DEF IInv
<1>b. job.stage # "idle" => job # NoJob /\ job.at \in Seqs /\ job.at \in Nat
  BY <1>a, JobTyped
\* A row of an event up to one past the cursor is written.
<1>m. ASSUME NEW n \in Seqs, n <= cursor + 1, n \in Nat,
             row'[n].state # "none", \A m \in Seqs : m # n => row'[m] = row[m],
             cursor' \in {cursor, n}, cursor' >= cursor, todo' = todo
      PROVE  RowInv'
  <2>1. \A m \in Seqs : row[m].state # "none" => row'[m].state # "none"
    BY <1>m
  <2>2. ASSUME NEW m \in Seqs, row'[m].state # "none"
        PROVE  m <= cursor' + 1
    <3>1. m \in Nat /\ cursor' \in Nat /\ cursor' >= cursor
      BY <1>m, <1>a
    <3>2. m <= cursor + 1
      BY <1>m, <1>a, <2>2 DEF RowInv
    <3> QED
      BY <1>a, <3>1, <3>2, StillReached
  <2>3. \A m \in todo : m <= cursor' /\ row'[m].state # "none"
    BY <1>m, <1>a, <2>1 DEF RowInv
  <2> QED
    BY <1>m, <2>2, <2>3 DEF RowInv
<1>1. CASE UNCHANGED <<row, todo>> /\ cursor' \in Nat /\ cursor' >= cursor
  <2>1. ASSUME NEW m \in Nat
        PROVE  (m <= cursor => m <= cursor') /\ (m <= cursor + 1 => m <= cursor' + 1)
    <3>1. cursor \in Nat /\ cursor' \in Nat /\ cursor' >= cursor
      BY <1>1, <1>a
    <3> QED
      BY <3>1, StillReached
  <2> QED
    BY <1>1, <1>a, <2>1 DEF RowInv
<1>2. CASE Requeue \/ MarkRetryable
  <2>1. job.stage # "idle"
    BY <1>2, <1>a, ReturnEffect
  <2> QED
    BY <1>2, <1>a, <1>b, <1>m, <2>1, ReturnEffect DEF WritesRow, NeverLosesOwnership
<1>3. CASE Claim
  <2>1. job.stage # "idle" /\ WritesRow("inflight")
    BY <1>3, <1>a, ClaimEffect
  <2> QED
    BY <1>3, <1>a, <1>b, <1>m, <2>1 DEF Claim, WritesRow, NeverLosesOwnership
<1>4. CASE Complete
  <2>1. job.stage # "idle" /\ WritesRow("succeeded")
    BY <1>4, <1>a, CompleteEffect
  <2>2. cursor' \in {cursor, job.at} /\ cursor' >= cursor /\ todo' = todo
    BY <1>4, <1>a, <1>b, <2>1 DEF Complete
  <2> QED
    BY <1>a, <1>b, <1>m, <2>1, <2>2 DEF WritesRow, NeverLosesOwnership
<1>5. CASE ExpireClaim \/ GiveUp \/ MarkUncertain
  <2>1. job.stage # "idle"
    BY <1>5, <1>a, BlockEffect DEF Working, Outcomes
  <2> QED
    <3>1. /\ row'[job.at].state # "none" /\ \A m \in Seqs : m # job.at => row'[m] = row[m]
          /\ cursor' = cursor /\ todo' = todo
      BY <1>5, <1>a, BlockEffect DEF WritesRow
    <3>2. job.at <= cursor + 1 /\ job.at \in Seqs /\ job.at \in Nat
      BY <1>a, <1>b, <2>1 DEF NeverLosesOwnership
    <3> QED
      BY <1>a, <1>m, <3>1, <3>2
<1>6. CASE RefreshCursor \/ Advance
  BY <1>1, <1>6, <1>a, <1>b DEF RefreshCursor, Advance
<1>7. CASE Skip \/ FindSettled \/ CallKnownStart \/ Call \/ TakeEvent \/ Publish \/ UNCHANGED vars
  BY <1>1, <1>7, <1>a DEF Skip, FindSettled, CallKnownStart, Call, TakeEvent, Publish, vars
<1>8. CASE ReplayStep
  BY <1>1, <1>8, <1>a, ReplayEffect
<1>9. ASSUME NEW n \in Seqs, Reconcile(n) \/ Heal(n)
      PROVE  RowInv'
  <2>1. n <= cursor + 1 /\ n \in Nat
    BY <1>9, <1>a, VerdictEffect DEF RowInv, Blocks
  <2> QED
    BY <1>9, <1>a, <1>m, <2>1, VerdictEffect
<1>10. CASE StartUp \/ GoLive \/ Fail
  BY <1>1, <1>10, <1>a DEF StartUp, GoLive, Fail
<1>11. CASE HealEnds
  BY <1>11, <1>a DEF HealEnds, Retryable, RowInv
<1>12. CASE Resume
  BY <1>12, <1>a DEF Resume, RowInv
<1>13. CASE Crash
  BY <1>13, <1>a DEF Crash, RowInv
<1> QED
  BY <1>2, <1>3, <1>4, <1>5, <1>6, <1>7, <1>8, <1>9, <1>10, <1>11, <1>12, <1>13
     DEF Next, EventStep, BootStep

\* Nobody takes the claim of a delivery that is worked on, and nothing is worked on
\* that the cursor could not pass.
LEMMA OwnershipStep == IInv /\ [Next]_vars => NeverLosesOwnership'
<1> SUFFICES ASSUME IInv, [Next]_vars PROVE NeverLosesOwnership'
  OBVIOUS
<1> USE DEF At, Outcomes, Owned, durableVars, memoryVars, ghostVars
<1>a. /\ TypeOK /\ JobInv /\ RowInv /\ NeverLosesOwnership
      /\ cursor \in Nat /\ acked \in Nat /\ acked <= cursor /\ Len(log) \in Nat
  BY DEF IInv, TypeOK
<1>b. job.stage # "idle" \/ job.by # "none" =>
        /\ job # NoJob /\ job.at \in Seqs /\ job.at \in Nat /\ job.through \in Nat
        /\ job.stage # "idle"
  BY <1>a, JobTyped
<1>c. NoJob.stage = "idle" /\ NoJob.at = 0
  BY DEF NoJob
<1>d. \A s \in Stages : job.stage # "idle" /\ GoTo(s) => MovesTo(s)
  BY <1>a, MovesOn
\* A job moves on to where its claim does not matter.
<1>m. ASSUME NEW s \in Stages \ (Outcomes \cup {"call", "claim"}), job.stage # "idle",
             MovesTo(s), cursor' \in Nat, cursor' >= cursor
      PROVE  NeverLosesOwnership'
  BY <1>m, <1>a, <1>b DEF NeverLosesOwnership, MovesTo
<1>n. ASSUME job' = NoJob
      PROVE  NeverLosesOwnership'
  BY <1>n, <1>c DEF NeverLosesOwnership
<1>1. CASE Skip \/ FindSettled
  BY <1>1, <1>a, <1>d, <1>m DEF Skip, FindSettled, Admitted, Stages
<1>2. CASE Requeue \/ MarkRetryable
  BY <1>2, <1>a, <1>b, ReturnEffect DEF WritesRow, MovesTo, NeverLosesOwnership
<1>3. CASE Claim
  <2>1. /\ WritesRow("inflight") /\ MovesTo("call") /\ row'[job.at].owner = epoch
        /\ job.stage # "idle"
    BY <1>3, <1>a, ClaimEffect
  <2> QED
    BY <1>3, <1>a, <1>b, <2>1 DEF Claim, WritesRow, MovesTo, NeverLosesOwnership
<1>4. CASE CallKnownStart \/ Call
  <2>1. PICK s \in Outcomes : MovesTo(s)
    BY <1>4, <1>d DEF CallKnownStart, Call, Stages
  <2> QED
    BY <1>4, <1>a, <1>b, <2>1 DEF CallKnownStart, Call, MovesTo, NeverLosesOwnership
<1>5. CASE Complete
  <2>1. cursor' \in Nat /\ cursor' >= cursor /\ MovesTo("refresh") /\ job.stage # "idle"
    BY <1>5, <1>a, <1>b, CompleteEffect DEF Complete
  <2> QED
    BY <1>m, <2>1 DEF Stages
<1>6. CASE RefreshCursor \/ Advance
  <2>1. job' = NoJob \/ \E s \in {"resumed", "next"} : MovesTo(s)
    BY <1>6, <1>a, OverEffect DEF RefreshCursor, Advance
  <2>2. cursor' \in Nat /\ cursor' >= cursor /\ job.stage # "idle"
    BY <1>6, <1>a, <1>b DEF RefreshCursor, Advance
  <2> QED
    BY <1>m, <1>n, <2>1, <2>2 DEF Stages
<1>7. CASE ExpireClaim \/ GiveUp \/ MarkUncertain
  <2>1. MovesTo("advance") /\ cursor' = cursor /\ job.stage # "idle"
    BY <1>7, <1>a, BlockEffect DEF Working
  <2> QED
    BY <1>a, <1>m, <2>1 DEF Stages
<1>8. CASE TakeEvent
  BY <1>8, <1>a, TakeEffect DEF TakeEvent, NeverLosesOwnership
<1>9. CASE ReplayStep
  BY <1>9, <1>a, <1>b, <1>n, ReplayEffect DEF JobInv, NeverLosesOwnership
<1>10. ASSUME NEW n \in Seqs, Reconcile(n) \/ Heal(n)
       PROVE  NeverLosesOwnership'
  <2>1. Blocks(n) /\ n <= cursor + 1 /\ cursor' = cursor /\ epoch' = epoch
        /\ \A m \in Seqs : m # n => row'[m] = row[m]
    BY <1>10, <1>a, VerdictEffect DEF RowInv, Blocks
  <2>2. CASE job' = job
    BY <1>a, <1>b, <1>c, <2>1, <2>2 DEF NeverLosesOwnership, Blocks
  <2>3. CASE job' # job
    BY <1>10, <1>a, <2>1, <2>3, VerdictEffect DEF NeverLosesOwnership
  <2> QED
    BY <2>2, <2>3
<1>11. CASE StartUp
  BY <1>11, <1>n DEF StartUp, IInv, JobInv
<1>12. CASE HealEnds \/ GoLive \/ UNCHANGED vars
  BY <1>12, <1>a DEF HealEnds, GoLive, vars, NeverLosesOwnership
<1>13. CASE Resume
  BY <1>13, <1>a, ResumeEffect DEF Resume, NeverLosesOwnership
<1>14. CASE Crash \/ Fail
  BY <1>14, <1>n DEF Crash, Fail
<1>15. CASE Publish
  BY <1>15, <1>a DEF Publish, NeverLosesOwnership
<1> QED
  BY <1>1, <1>2, <1>3, <1>4, <1>5, <1>6, <1>7, <1>8, <1>9, <1>10, <1>11, <1>12, <1>13, <1>14,
     <1>15 DEF Next, EventStep, BootStep

\* Only a delivery that is worked on comes to block, and no other of its thread does
\* while it is.
LEMMA AdmittedStep == IInv /\ [Next]_vars => AdmittedInv'
<1> SUFFICES ASSUME IInv, [Next]_vars PROVE AdmittedInv'
  OBVIOUS
<1> USE DEF At, Admission, Outcomes, durableVars, memoryVars, ghostVars
<1>a. /\ TypeOK /\ AdmittedInv /\ log \in Seq(Event) /\ Len(log) \in Nat
      /\ DOMAIN log = 1..Len(log) /\ 1..Len(log) \subseteq Seqs
  BY Typed DEF IInv
<1>b. job.stage # "idle" => job.at \in Seqs /\ job.at \in DOMAIN log
  BY <1>a, JobTyped
<1>d. \A s \in Stages : job.stage # "idle" /\ GoTo(s) => MovesTo(s)
  BY <1>a, MovesOn
<1>n. ASSUME job'.stage \notin Admission
      PROVE  AdmittedInv'
  BY <1>n DEF AdmittedInv
\* The row of the job's event is written, to one that does not block.
<1>m. ASSUME NEW s \in States, s \notin {"dead", "uncertain"}, WritesRow(s), log' = log,
             job'.at = job.at, job.stage # "idle",
             HeldBack(log[job.at]) => ~HasBlocker(ThreadOf(job.at))
      PROVE  AdmittedInv'
  BY <1>m, <1>a, <1>b DEF AdmittedInv, WritesRow, HasBlocker, ThreadOf, Blocks
<1>1. CASE Requeue \/ MarkRetryable
  <2>1. WritesRow("retry") /\ MovesTo("claim") /\ log' = log
    BY <1>1, <1>a, ReturnEffect
  <2>2. HeldBack(log[job.at]) => ~HasBlocker(ThreadOf(job.at))
    BY <1>1, <1>a, ReturnEffect DEF AdmittedInv, Skips, IsQuarantined
  <2>3. job.stage # "idle"
    BY <1>1, <1>a, ReturnEffect
  <2> QED
    BY <1>m, <2>1, <2>2, <2>3 DEF MovesTo, States
<1>2. CASE Claim
  <2>1. WritesRow("inflight") /\ MovesTo("call") /\ log' = log /\ job.stage # "idle"
    BY <1>2, <1>a, ClaimEffect DEF Claim
  <2>2. HeldBack(log[job.at]) => ~HasBlocker(ThreadOf(job.at))
    BY <1>2, <1>a, ClaimEffect DEF AdmittedInv, Skips, IsQuarantined
  <2> QED
    BY <1>m, <2>1, <2>2 DEF MovesTo, States
<1>3. CASE CallKnownStart \/ Call
  <2>1. UNCHANGED <<log, row>> /\ job.stage = "call" /\ job'.at = job.at
    BY <1>3, <1>d DEF CallKnownStart, Call, MovesTo, Stages
  <2> QED
    BY <1>a, <2>1 DEF AdmittedInv, HasBlocker, ThreadOf, Blocks
<1>4. CASE Skip \/ FindSettled
  BY <1>4, <1>d, <1>n DEF Skip, FindSettled, Admitted, MovesTo, Stages
<1>5. CASE Complete
  BY <1>5, <1>a, <1>n, CompleteEffect DEF MovesTo
<1>6. CASE RefreshCursor \/ Advance
  BY <1>6, <1>a, <1>n, OverEffect DEF RefreshCursor, Advance, MovesTo, NoJob
<1>7. CASE ExpireClaim \/ GiveUp \/ MarkUncertain
  BY <1>7, <1>a, <1>n, BlockEffect DEF MovesTo
<1>8. CASE TakeEvent
  BY <1>8, <1>a, <1>n, TakeEffect
<1>9. CASE ReplayStep
  BY <1>9, <1>a, <1>n, ReplayEffect DEF NoJob
<1>10. ASSUME NEW n \in Seqs, Reconcile(n) \/ Heal(n)
       PROVE  AdmittedInv'
  <2>1. /\ row'[n].state \in {"retry", "succeeded"} /\ log' = log
        /\ \A m \in Seqs : m # n => row'[m] = row[m]
    BY <1>10, <1>a, VerdictEffect
  <2>2. \A t : HasBlocker(t)' => HasBlocker(t)
    BY <1>a, <2>1 DEF HasBlocker, ThreadOf, Blocks
  <2>3. CASE job' = job
    BY <1>a, <2>1, <2>2, <2>3 DEF AdmittedInv, ThreadOf
  <2>4. CASE job' # job
    BY <1>10, <1>a, <1>n, <2>4, VerdictEffect
  <2> QED
    BY <2>3, <2>4
<1>11. CASE StartUp \/ HealEnds \/ GoLive \/ UNCHANGED vars
  BY <1>11, <1>a DEF StartUp, HealEnds, GoLive, vars, AdmittedInv, HasBlocker, ThreadOf, Blocks
<1>12. CASE Resume
  BY <1>12, <1>a, <1>n, ResumeEffect DEF IInv
<1>13. CASE Crash \/ Fail
  BY <1>13, <1>n DEF Crash, Fail, NoJob
<1>14. CASE Publish
  BY <1>14, <1>a, <1>b, <1>n, LogGrows DEF Publish, AdmittedInv, ThreadOf, NoJob
<1> QED
  BY <1>1, <1>2, <1>3, <1>4, <1>5, <1>6, <1>7, <1>8, <1>9, <1>10, <1>11, <1>12, <1>13, <1>14
     DEF Next, EventStep, BootStep

\* What is to be passed stays settled, blocked, barred or due until it is.
LEMMA PassStep == IInv /\ [Next]_vars => PassInv'
<1> SUFFICES ASSUME IInv, [Next]_vars PROVE PassInv'
  OBVIOUS
<1> USE DEF At, Outcomes, durableVars, memoryVars, ghostVars
<1>a. /\ TypeOK /\ JobInv /\ PassInv /\ QuarantineIsBacked /\ log \in Seq(Event)
      /\ Len(log) \in Nat /\ DOMAIN log = 1..Len(log) /\ 1..Len(log) \subseteq Seqs
  BY Typed DEF IInv
<1>b. job.stage # "idle" => job.at \in Seqs /\ job.at \in DOMAIN log
  BY <1>a, JobTyped
<1>c. job.by # "none" => job.stage # "idle"
  BY <1>a, JobTyped
<1>d. \A s \in Stages : job.stage # "idle" /\ GoTo(s) => MovesTo(s)
  BY <1>a, MovesOn
<1>n. ASSUME job'.stage # "advance"
      PROVE  PassInv'
  BY <1>n DEF PassInv
<1>1. CASE Skip
  <2>1. MovesTo("advance") /\ UNCHANGED <<log, cursor, row, granted>> /\ job.stage = "look"
    BY <1>1, <1>d DEF Skip, Stages
  <2>2. HeldBack(log[job.at]) /\ HasBlocker(ThreadOf(job.at))
    BY <1>1, <1>a DEF Skip, Skips, IsQuarantined, QuarantineIsBacked
  <2>3. job.by # "source" /\ job.at > cursor => row[job.at].state = "retry" /\ job.at \in granted
    BY <1>a, <2>1 DEF JobInv
  <2> QED
    BY <2>1, <2>2, <2>3 DEF PassInv, MovesTo, HasBlocker, ThreadOf, Blocks
<1>2. CASE FindSettled
  <2>1. MovesTo("advance") /\ UNCHANGED <<log, cursor, row, granted>>
        /\ row[job.at].state \in {"succeeded", "dead", "uncertain"}
    BY <1>2, <1>d DEF FindSettled, Admitted, Stages
  <2> QED
    BY <2>1 DEF PassInv, MovesTo
<1>3. CASE Requeue \/ MarkRetryable
  BY <1>3, <1>a, <1>n, ReturnEffect DEF MovesTo
<1>4. CASE Claim
  BY <1>4, <1>a, <1>n, ClaimEffect DEF MovesTo
<1>5. CASE CallKnownStart \/ Call
  BY <1>5, <1>d, <1>n DEF CallKnownStart, Call, MovesTo, Stages
<1>6. CASE Complete
  BY <1>6, <1>a, <1>n, CompleteEffect DEF MovesTo
<1>7. CASE RefreshCursor \/ Advance
  BY <1>7, <1>a, <1>n, OverEffect DEF RefreshCursor, Advance, MovesTo, NoJob
<1>8. CASE ExpireClaim \/ GiveUp \/ MarkUncertain
  BY <1>8, <1>a, BlockEffect DEF PassInv, MovesTo, WritesRow
<1>9. CASE TakeEvent
  BY <1>9, <1>a, TakeEffect DEF TakeEvent, PassInv
<1>10. CASE ReplayStep
  BY <1>10, <1>a, <1>n, ReplayEffect DEF NoJob
<1>11. ASSUME NEW n \in Seqs, Reconcile(n) \/ Heal(n)
       PROVE  PassInv'
  <2>1. CASE job' = job
    <3>1. job.stage = "advance" => job.by # "source"
      BY <1>11, <1>a, <2>1, VerdictEffect DEF JobInv, NoJob
    <3>2. /\ UNCHANGED <<log, cursor>> /\ granted \subseteq granted'
          /\ \A m \in Seqs : m # n => row'[m] = row[m]
          /\ Blocks(n) /\ row'[n].state \in {"retry", "succeeded"}
          /\ (row'[n].state = "retry" => n \in granted')
      BY <1>11, <1>a, VerdictEffect
    <3> SUFFICES ASSUME At("advance"), job.at > cursor PROVE PassInv'
      BY <2>1, <3>2 DEF PassInv
    <3>3. job.at \in Seqs
      BY <1>b
    <3>4. \/ row[job.at].state \in {"succeeded", "dead", "uncertain"}
          \/ row[job.at].state = "retry" /\ job.at \in granted
      BY <1>a, <3>1 DEF PassInv
    <3>5. \/ row'[job.at].state \in {"succeeded", "dead", "uncertain"}
          \/ row'[job.at].state = "retry" /\ job.at \in granted'
      <4>1. CASE job.at = n
        BY <3>2, <4>1
      <4>2. CASE job.at # n
        BY <3>2, <3>3, <3>4, <4>2
      <4> QED
        BY <4>1, <4>2
    <3> QED
      BY <2>1, <3>5 DEF PassInv
  <2>2. CASE job' # job
    BY <1>11, <1>a, <1>n, <2>2, VerdictEffect
  <2> QED
    BY <2>1, <2>2
<1>12. CASE StartUp \/ HealEnds \/ GoLive \/ UNCHANGED vars
  BY <1>12, <1>a DEF StartUp, HealEnds, GoLive, vars, PassInv, HasBlocker, ThreadOf, Blocks
<1>13. CASE Resume
  BY <1>13, <1>a, <1>n, ResumeEffect DEF IInv
<1>14. CASE Crash \/ Fail
  BY <1>14, <1>n DEF Crash, Fail, NoJob
<1>15. CASE Publish
  <2>1. job.stage = "advance" => log'[job.at] = log[job.at]
    BY <1>15, <1>a, <1>b, LogGrows
  <2>2. \A t : HasBlocker(t)' <=> HasBlocker(t)
    BY <1>15, <1>a, LogGrows
  <2> QED
    BY <1>15, <1>a, <2>1, <2>2 DEF Publish, PassInv, ThreadOf
<1> QED
  BY <1>1, <1>2, <1>3, <1>4, <1>5, <1>6, <1>7, <1>8, <1>9, <1>10, <1>11, <1>12, <1>13, <1>14,
     <1>15 DEF Next, EventStep, BootStep

LEMMA OnceStep == IInv /\ [Next]_vars => OnceInv'
<1> SUFFICES ASSUME IInv, [Next]_vars PROVE OnceInv'
  OBVIOUS
<1> USE DEF At, Outcomes, durableVars, memoryVars, ghostVars
<1>a. /\ TypeOK /\ JobInv /\ NeverLosesOwnership /\ OnceInv /\ log \in Seq(Event)
      /\ Len(log) \in Nat /\ DOMAIN log = 1..Len(log) /\ 1..Len(log) \subseteq Seqs
      /\ sent \in [Seqs -> Nat]
  BY Typed DEF IInv
<1>b. job.stage # "idle" => job.at \in Seqs /\ job.at \in DOMAIN log
  BY <1>a, JobTyped
<1>d. \A s \in Stages : job.stage # "idle" /\ GoTo(s) => MovesTo(s)
  BY <1>a, MovesOn
\* The job is at no call, and no row of an event is opened again.
<1>m. ASSUME job'.stage \notin {"call", "safe_retry"}, UNCHANGED <<log, ghostVars>>,
             granted \subseteq granted',
             \A n \in Seqs : /\ row'[n].state = "none" => row[n].state = "none"
                             /\ row'[n].state = "retry" =>
                                  \/ row[n].state = "retry" \/ ReplaySafe(log[n])
                                  \/ n \in granted' \cup faulted
      PROVE  OnceInv'
  BY <1>m, <1>a DEF OnceInv
<1>1. CASE Skip \/ FindSettled
  BY <1>1, <1>d, <1>m DEF Skip, FindSettled, Admitted, MovesTo, Stages
<1>2. CASE Requeue \/ MarkRetryable
  <2>1. /\ WritesRow("retry") /\ MovesTo("claim") /\ UNCHANGED <<log, granted, ghostVars>>
        /\ ReplaySafe(log[job.at]) \/ job.at \in faulted
    BY <1>2, <1>a, ReturnEffect DEF OnceInv
  <2> QED
    BY <1>m, <2>1 DEF WritesRow, MovesTo
<1>3. CASE Claim
  <2>1. /\ WritesRow("inflight") /\ MovesTo("call") /\ job.stage # "idle"
        /\ row[job.at].state \in {"none", "retry"} /\ UNCHANGED <<log, granted, ghostVars>>
    BY <1>3, <1>a, ClaimEffect DEF Claim, NeverLosesOwnership
  <2>2. ~ReplaySafe(log[job.at]) /\ job.at \notin granted \cup faulted => sent[job.at] = 0
    BY <1>a, <1>b, <2>1 DEF OnceInv
  <2> QED
    BY <1>a, <1>b, <2>1, <2>2 DEF WritesRow, MovesTo, OnceInv
<1>4. CASE CallKnownStart
  <2>1. MovesTo("accepted") /\ UNCHANGED <<log, row, granted, ghostVars>>
    BY <1>4, <1>d DEF CallKnownStart, Stages
  <2> QED
    BY <1>m, <2>1 DEF MovesTo
<1>5. CASE Call
  <2>1. PICK outcome \in Outcomes :
          /\ sent' \in {sent, [sent EXCEPT ![job.at] = @ + 1]}
          /\ faulted' = IF outcome = "safe_retry" THEN faulted \cup {job.at} ELSE faulted
          /\ MovesTo(outcome)
    BY <1>5, <1>d DEF Call, Stages
  <2>2. UNCHANGED <<log, row, granted>> /\ job.stage = "call"
    BY <1>5 DEF Call
  <2>3. job.at \in Seqs /\ row[job.at].state = "inflight"
    BY <1>a, <1>b, <2>2 DEF NeverLosesOwnership, Owned
  <2>4. \A n \in Seqs : n # job.at => sent'[n] = sent[n]
    BY <1>a, <2>1
  <2>5. sent'[job.at] \in {sent[job.at], sent[job.at] + 1} /\ sent[job.at] \in Nat
    BY <1>a, <2>1, <2>3
  <2>6. ~ReplaySafe(log[job.at]) /\ job.at \notin granted \cup faulted => sent[job.at] = 0
    BY <1>a, <1>b, <2>2 DEF OnceInv
  <2>7. faulted \subseteq faulted' /\ (At("safe_retry")' => job'.at \in faulted')
        /\ job'.stage # "call"
    BY <2>1 DEF MovesTo
  <2>8. \A n \in DOMAIN log : ~ReplaySafe(log[n]) /\ n \notin granted \cup faulted' => sent'[n] <= 1
    BY <1>a, <2>4, <2>5, <2>6, <2>7 DEF OnceInv
  <2>9. \A n \in Seqs : row[n].state = "none" => sent'[n] = 0
    BY <1>a, <2>3, <2>4 DEF OnceInv
  <2> QED
    BY <1>a, <2>2, <2>7, <2>8, <2>9 DEF OnceInv
<1>6. CASE Complete
  BY <1>6, <1>a, <1>m, CompleteEffect DEF Complete, WritesRow, MovesTo
<1>7. CASE RefreshCursor \/ Advance
  <2>1. job'.stage \notin {"call", "safe_retry"}
    BY <1>7, <1>a, OverEffect DEF RefreshCursor, Advance, MovesTo, NoJob
  <2> QED
    BY <1>7, <1>m, <2>1 DEF RefreshCursor, Advance
<1>8. CASE ExpireClaim \/ GiveUp \/ MarkUncertain
  BY <1>8, <1>a, <1>m, BlockEffect DEF WritesRow, MovesTo
<1>9. CASE TakeEvent
  <2>1. job'.stage \notin {"call", "safe_retry"}
    BY <1>9, <1>a, TakeEffect
  <2> QED
    BY <1>9, <1>m, <2>1 DEF TakeEvent
<1>10. CASE ReplayStep
  <2>1. job'.stage \notin {"call", "safe_retry"} /\ UNCHANGED <<log, row, granted, ghostVars>>
    BY <1>10, <1>a, ReplayEffect DEF NoJob
  <2> QED
    BY <1>m, <2>1
<1>11. ASSUME NEW n \in Seqs, Reconcile(n) \/ Heal(n)
       PROVE  OnceInv'
  <2>1. /\ UNCHANGED <<log, ghostVars>> /\ granted \subseteq granted'
        /\ \A m \in Seqs : m # n => row'[m] = row[m]
        /\ row'[n].state \in {"retry", "succeeded"}
        /\ (row'[n].state = "retry" => n \in granted')
        /\ job' = job \/ job'.stage \in {"look", "next"}
    BY <1>11, <1>a, VerdictEffect
  <2>2. \A m \in Seqs : /\ row'[m].state = "none" => row[m].state = "none"
                        /\ row'[m].state = "retry" =>
                             row[m].state = "retry" \/ m \in granted' \cup faulted
    BY <2>1
  <2> QED
    BY <1>a, <1>m, <2>1, <2>2 DEF OnceInv
<1>12. CASE StartUp \/ HealEnds \/ GoLive \/ UNCHANGED vars
  BY <1>12, <1>a DEF StartUp, HealEnds, GoLive, vars, OnceInv
<1>13. CASE Resume
  <2>1. job'.stage = "look"
    BY <1>13, <1>a, ResumeEffect DEF IInv
  <2> QED
    BY <1>13, <1>m, <2>1 DEF Resume
<1>14. CASE Crash \/ Fail
  BY <1>14, <1>m DEF Crash, Fail, NoJob
<1>15. CASE Publish
  <2>1. /\ Len(log') = Len(log) + 1 /\ DOMAIN log' = 1..Len(log')
        /\ \A n \in DOMAIN log : log'[n] = log[n]
        /\ Len(log') <= MaxLog
    BY <1>15, <1>a, LogGrows
  <2>2. UNCHANGED <<row, granted, ghostVars, job>>
    BY <1>15 DEF Publish
  <2>3. \A n \in Seqs : row[n].state # "none" => n \in DOMAIN log
    BY <1>a DEF TypeOK, Seqs
  <2>4. \A n \in DOMAIN log' : n \in DOMAIN log \/ n = Len(log) + 1
    BY <1>a, <2>1
  <2>5. sent[Len(log) + 1] = 0
    <3>1. Len(log) + 1 \in Seqs
      BY <1>a, <2>1, DeliveryAssumption DEF Seqs, DeliveryAssumption
    <3>2. Len(log) + 1 \notin DOMAIN log
      BY <1>a
    <3> QED
      BY <1>a, <2>3, <3>1, <3>2 DEF OnceInv
  <2> QED
    BY <1>a, <1>b, <2>1, <2>2, <2>3, <2>4, <2>5 DEF OnceInv
<1> QED
  BY <1>1, <1>2, <1>3, <1>4, <1>5, <1>6, <1>7, <1>8, <1>9, <1>10, <1>11, <1>12, <1>13, <1>14,
     <1>15 DEF Next, EventStep, BootStep

LEMMA QuarantineStep == IInv /\ [Next]_vars => QuarantineIsBacked'
<1> SUFFICES ASSUME IInv, [Next]_vars PROVE QuarantineIsBacked'
  OBVIOUS
<1> USE DEF At, durableVars, memoryVars, ghostVars
<1>a. /\ TypeOK /\ QuarantineIsBacked /\ log \in Seq(Event)
      /\ Len(log) \in Nat /\ DOMAIN log = 1..Len(log) /\ 1..Len(log) \subseteq Seqs
  BY Typed DEF IInv
<1>b. job.stage # "idle" => job.at \in Seqs /\ job.at \in DOMAIN log
  BY <1>a, JobTyped
\* No blocker goes, and the cache grows by blocked threads at most.
<1>m. ASSUME \A t : HasBlocker(t) => HasBlocker(t)',
             \A t \in quarantined' : t \in quarantined \/ HasBlocker(t)'
      PROVE  QuarantineIsBacked'
  BY <1>m, <1>a DEF QuarantineIsBacked
<1>s. UNCHANGED <<log, row>> => \A t : HasBlocker(t) <=> HasBlocker(t)'
  BY DEF HasBlocker, ThreadOf, Blocks
<1>w. ASSUME NEW s \in States, WritesRow(s), log' = log, ~Blocks(job.at), job.at \in Seqs
      PROVE  \A t : HasBlocker(t) => HasBlocker(t)'
  BY <1>w, <1>a DEF HasBlocker, ThreadOf, Blocks, WritesRow
<1>1. CASE Skip \/ FindSettled
  BY <1>1, <1>a, <1>b, <1>m, <1>s
     DEF Skip, FindSettled, Admitted, Skips, IsQuarantined, QuarantineIsBacked, HasBlocker
<1>2. CASE Requeue \/ MarkRetryable
  <2>1. job.stage # "idle"
    BY <1>2, <1>a, ReturnEffect
  <2> QED
    BY <1>2, <1>a, <1>b, <1>m, <1>w, <2>1, ReturnEffect DEF Blocks, States
<1>3. CASE Claim
  <2>1. /\ WritesRow("inflight") /\ UNCHANGED <<log, quarantined>> /\ job.stage # "idle"
        /\ row[job.at].state \in {"none", "retry"}
    BY <1>3, <1>a, ClaimEffect DEF Claim, IInv, NeverLosesOwnership
  <2> QED
    BY <1>b, <1>m, <1>w, <2>1 DEF Blocks, States
<1>4. CASE Complete
  <2>1. /\ WritesRow("succeeded") /\ UNCHANGED <<log, quarantined>> /\ job.stage # "idle"
        /\ row[job.at].state = "inflight"
    BY <1>4, <1>a, CompleteEffect DEF Complete
  <2> QED
    BY <1>b, <1>m, <1>w, <2>1 DEF Blocks, States
<1>5. CASE ExpireClaim \/ GiveUp \/ MarkUncertain
  <2>1. PICK s \in {"dead", "uncertain"} : WritesRow(s)
    BY <1>5, <1>a, BlockEffect
  <2>2. /\ quarantined' = quarantined \cup {ThreadOf(job.at)} /\ log' = log
        /\ row[job.at].state = "inflight" /\ job.stage # "idle"
    BY <1>5, <1>a, BlockEffect DEF Working, Outcomes
  <2>a. job.at \in Seqs /\ job.at \in DOMAIN log /\ ~Blocks(job.at) /\ s \in States
    BY <1>b, <2>2 DEF Blocks, States
  <2>3. \A t : HasBlocker(t) => HasBlocker(t)'
    BY <1>w, <2>1, <2>2, <2>a
  <2>4. \A t : t = ThreadOf(job.at) => HasBlocker(t)'
    <3>1. row'[job.at].state \in {"dead", "uncertain"} /\ job.at \in DOMAIN log'
      BY <2>1, <2>2, <2>a DEF WritesRow
    <3> QED
      BY <2>2, <3>1 DEF HasBlocker, ThreadOf, Blocks
  <2> QED
    BY <1>m, <2>2, <2>3, <2>4
<1>6. CASE CallKnownStart \/ Call \/ RefreshCursor \/ Advance
  BY <1>6, <1>m, <1>s DEF CallKnownStart, Call, RefreshCursor, Advance
<1>7. CASE TakeEvent
  BY <1>7, <1>a, <1>m, <1>s, TakeEffect DEF TakeEvent
<1>8. CASE ReplayStep
  BY <1>8, <1>a, <1>m, <1>s, ReplayEffect
<1>9. ASSUME NEW n \in Seqs, Reconcile(n) \/ Heal(n)
      PROVE  QuarantineIsBacked'
  <2>1. /\ log' = log /\ quarantined' = quarantined \ {ThreadOf(n)}
        /\ \A m \in Seqs : m # n => row'[m] = row[m]
    BY <1>9, <1>a, VerdictEffect
  <2>2. \A t \in quarantined' : HasBlocker(t)'
    BY <1>a, <2>1 DEF QuarantineIsBacked, HasBlocker, ThreadOf, Blocks
  <2> QED
    BY <2>2 DEF QuarantineIsBacked
<1>10. CASE StartUp \/ HealEnds \/ Resume \/ GoLive \/ Crash \/ Fail \/ UNCHANGED vars
  BY <1>10, <1>m, <1>s DEF StartUp, HealEnds, Resume, GoLive, Crash, Fail, vars
<1>11. CASE Publish
  BY <1>11, <1>a, <1>m, LogGrows DEF Publish
<1> QED
  BY <1>1, <1>2, <1>3, <1>4, <1>5, <1>6, <1>7, <1>8, <1>9, <1>10, <1>11
     DEF Next, EventStep, BootStep

-----------------------------------------------------------------------------
(* Theorems. *)

LEMMA Inductive == Spec => []IInv
<1>1. Init => IInv
  <2> SUFFICES ASSUME Init PROVE IInv
    OBVIOUS
  <2> USE DeliveryAssumption DEF DeliveryAssumption, Init, At
  <2>1. NoRow \in Row /\ NoRow.state = "none"
    BY DEF NoRow, Row, States
  <2>2. NoJob.stage = "idle" /\ NoJob.by = "none" /\ NoJob.at = 0 /\ NoJob.through = 0
    BY DEF NoJob
  <2>3. TypeOK
    BY <2>1 DEF TypeOK, Seqs
  <2>4. EpochInv /\ JobInv /\ RowInv /\ NeverLosesOwnership
    BY <2>1, <2>2 DEF EpochInv, JobInv, RowInv, NeverLosesOwnership, Working, Outcomes
  <2>5. AdmittedInv /\ PassInv /\ OnceInv /\ QuarantineIsBacked
    BY <2>1, <2>2 DEF AdmittedInv, PassInv, OnceInv, QuarantineIsBacked, Admission, Outcomes
  <2> QED
    BY <2>3, <2>4, <2>5 DEF IInv
<1>2. IInv /\ [Next]_vars => IInv'
  BY TypeStep, EpochStep, JobStep, RowStep, OwnershipStep, AdmittedStep, PassStep, OnceStep,
     QuarantineStep DEF IInv
<1> QED
  BY <1>1, <1>2, PTL DEF Spec

\* The tables, caches and jobs of the delivery keep their types.
THEOREM DeliveryTypes == Spec => []TypeOK
<1>1. IInv => TypeOK
  BY DEF IInv
<1> QED
  BY <1>1, Inductive, PTL

\* Whoever settles an event still owns its claim, and finds the cursor at most one
\* event behind: the Effect.die of the source are out of reach.
THEOREM OwnershipKept == Spec => []NeverLosesOwnership
<1>1. IInv => NeverLosesOwnership
  BY DEF IInv
<1> QED
  BY <1>1, Inductive, PTL

\* However many crashes, verdicts, failing statements and restarts: no command goes
\* to the provider twice but by a persistence error or on order.
THEOREM SentOnce == Spec => []NoBlindReplay
<1>1. IInv => NoBlindReplay
  BY DEF IInv, OnceInv, NoBlindReplay
<1> QED
  BY <1>1, Inductive, PTL

\* A thread in the in-memory quarantine has a blocking row.
THEOREM QuarantineBacked == Spec => []QuarantineIsBacked
<1>1. IInv => QuarantineIsBacked
  BY DEF IInv
<1> QED
  BY <1>1, Inductive, PTL

-----------------------------------------------------------------------------
(* The refinement: every step is a step of the ledger, or none of its business. *)

\* What the ledger sees of a row.
FateIsOfRow ==
    \A n \in Seqs :
        /\ row[n].state = "none" => Fates[n] = "open"
        /\ row[n].state = "inflight" => Fates[n] = "running"
        /\ row[n].state = "succeeded" => Fates[n] = "settled"
        /\ row[n].state = "retry" => Fates[n] = IF n \in granted THEN "due" ELSE "open"
        /\ Blocks(n) <=> Fates[n] = "blocked"

LEMMA FateOfRow == TypeOK => FateIsOfRow
<1> SUFFICES ASSUME TypeOK, NEW n \in Seqs
             PROVE  /\ row[n].state = "none" => Fates[n] = "open"
                    /\ row[n].state = "inflight" => Fates[n] = "running"
                    /\ row[n].state = "succeeded" => Fates[n] = "settled"
                    /\ row[n].state = "retry" =>
                         Fates[n] = IF n \in granted THEN "due" ELSE "open"
                    /\ Blocks(n) <=> Fates[n] = "blocked"
  BY DEF FateIsOfRow
<1>1. row[n].state \in States
  BY DEF TypeOK, Row
<1>2. Fates[n] = Fate(n)
  BY DEF Fates
<1> QED
  BY <1>1, <1>2 DEF Fate, Blocks, States

LEMMA FateOfRowNext == TypeOK' => FateIsOfRow'
  BY FateOfRow, PTL

LEMMA BlockedThread ==
    ASSUME TypeOK
    PROVE  \A t : Ledger!Blocked(t) <=> HasBlocker(t)
<1>1. \A n \in DOMAIN log : n \in Seqs
  BY DeliveryAssumption DEF TypeOK, Seqs, DeliveryAssumption
<1> QED
  BY <1>1, FateOfRow DEF FateIsOfRow, Ledger!Blocked, HasBlocker, ThreadOf

\* The ledger classes events as the reactor does, and bars what it skips.
LEMMA SameClasses ==
    \A e : (Ledger!HeldBack(e) <=> HeldBack(e)) /\ (Ledger!Claimed(e) <=> Claimed(e))
  BY DEF Ledger!HeldBack, Ledger!Claimed, Ledger!SideEffect, Ledger!Exempt,
         Ledger!ReplaySafe, HeldBack, Claimed, SideEffect, Exempt, ReplaySafe

LEMMA LedgerBars ==
    ASSUME TypeOK
    PROVE  \A n : Ledger!Barred(n) <=> HeldBack(log[n]) /\ HasBlocker(ThreadOf(n))
  BY BlockedThread, SameClasses DEF Ledger!Barred, ThreadOf

\* Rows and grants that stay leave every fate, and one that is written changes one.
LEMMA FatesStay == UNCHANGED <<row, granted>> => Fates' = Fates
  BY DEF Fates, Fate, Blocks

LEMMA FateMoves ==
    ASSUME TypeOK, TypeOK', NEW n \in Seqs,
           \A m \in Seqs : m # n => row'[m] = row[m] /\ (m \in granted' <=> m \in granted)
    PROVE  Fates' = [Fates EXCEPT ![n] = Fates'[n]]
<1>1. ASSUME NEW m \in Seqs, m # n
      PROVE  Fates'[m] = Fates[m]
  <2>1. Fates'[m] = Fate(m)' /\ Fates[m] = Fate(m)
    BY DEF Fates
  <2>2. row'[m] = row[m] /\ (m \in granted' <=> m \in granted)
    BY <1>1
  <2> QED
    BY <2>1, <2>2 DEF Fate, Blocks
<1> QED
  BY <1>1 DEF Fates

LEMMA LedgerStep == IInv /\ [Next]_vars => [Ledger!Next]_(Ledger!vars)
<1> SUFFICES ASSUME IInv, [Next]_vars PROVE [Ledger!Next]_(Ledger!vars)
  OBVIOUS
<1> USE DEF At, durableVars, memoryVars, ghostVars
<1>a. /\ TypeOK /\ JobInv /\ AdmittedInv /\ PassInv /\ NeverLosesOwnership
      /\ log \in Seq(Event) /\ Len(log) \in Nat /\ cursor \in Nat
      /\ DOMAIN log = 1..Len(log) /\ 1..Len(log) \subseteq Seqs
  BY Typed DEF IInv
<1>b. job.stage # "idle" =>
        /\ job.at \in Seqs /\ job.at \in DOMAIN log /\ job # NoJob /\ job.at <= cursor + 1
  BY <1>a, JobTyped DEF NeverLosesOwnership
<1>t. TypeOK'
  BY TypeStep
<1>f. FateIsOfRow /\ FateIsOfRow'
  BY <1>a, <1>t, FateOfRow, FateOfRowNext
<1>s. UNCHANGED <<log, cursor, row, granted, sent>> => UNCHANGED Ledger!vars
  BY FatesStay DEF Ledger!vars
<1>n. ASSUME NEW n \in DOMAIN log,
             Ledger!Claim(n) \/ Ledger!Run(n) \/ Ledger!Return(n) \/ Ledger!Settle(n)
                \/ Ledger!Block(n) \/ Ledger!Verdict(n)
      PROVE  Ledger!Next
  BY <1>n DEF Ledger!Next
\* The row of the job's event is written, and its fate is what changes.
<1>w. ASSUME NEW s \in States, job.stage # "idle", WritesRow(s), granted' = granted
      PROVE  /\ Fates' = [Fates EXCEPT ![job.at] = Fates'[job.at]]
             /\ row'[job.at].state = s
  BY <1>w, <1>a, <1>b, <1>t, FateMoves DEF WritesRow
<1>1. CASE Claim
  <2>1. /\ WritesRow("inflight") /\ UNCHANGED <<log, cursor, granted, sent>>
        /\ job.stage \in {"look", "claim"}
    BY <1>1, <1>a, ClaimEffect DEF Claim
  <2>2. job.at \in Seqs /\ job.at \in DOMAIN log /\ job.at <= cursor + 1
    BY <1>b, <2>1
  <2>3. Claimed(log[job.at])
    BY <1>a, <2>1 DEF JobInv, Working
  <2>4. ~Ledger!Barred(job.at)
    <3>1. ~(HeldBack(log[job.at]) /\ HasBlocker(ThreadOf(job.at)))
      BY <1>1, <1>a, <2>1, ClaimEffect DEF AdmittedInv, Admission, Skips, IsQuarantined
    <3> QED
      BY <1>a, <3>1, LedgerBars
  <2>5. Fates[job.at] \in {"open", "due"}
    <3>1. row[job.at].state \in {"none", "retry"}
      BY <1>1, <1>a, ClaimEffect DEF NeverLosesOwnership
    <3> QED
      BY <1>a, <2>2, <3>1, <1>f DEF FateIsOfRow
  <2>6. Fates' = [Fates EXCEPT ![job.at] = "running"]
    <3>1. Fates'[job.at] = "running"
      BY <1>t, <1>w, <2>1, <2>2, <1>f DEF FateIsOfRow, States
    <3> QED
      BY <1>w, <2>1, <3>1 DEF States
  <2>7. Ledger!Claim(job.at)
    BY <2>1, <2>2, <2>3, <2>4, <2>5, <2>6, SameClasses
       DEF Ledger!Claim, Ledger!Moves
  <2> QED
    BY <1>n, <2>2, <2>7
<1>2. CASE Call
  <2>1. /\ job.stage = "call" /\ UNCHANGED <<log, cursor, row, granted>>
        /\ sent' \in {sent, [sent EXCEPT ![job.at] = @ + 1]}
    BY <1>2 DEF Call
  <2>2. job.at \in Seqs /\ job.at \in DOMAIN log
    BY <1>b, <2>1
  <2>3. Fates[job.at] = "running" /\ Fates' = Fates
    BY <1>a, <2>1, <2>2, <1>f, FatesStay DEF FateIsOfRow, NeverLosesOwnership, Owned
  <2>4. ~Ledger!Barred(job.at)
    <3>1. ~(HeldBack(log[job.at]) /\ HasBlocker(ThreadOf(job.at)))
      BY <1>a, <2>1 DEF AdmittedInv, Admission
    <3> QED
      BY <1>a, <3>1, LedgerBars
  <2>5. CASE sent' = sent
    BY <1>s, <2>1, <2>5
  <2>6. CASE sent' = [sent EXCEPT ![job.at] = @ + 1]
    BY <1>n, <2>1, <2>2, <2>3, <2>4, <2>6 DEF Ledger!Run
  <2> QED
    BY <2>1, <2>5, <2>6
<1>3. CASE Requeue \/ MarkRetryable
  <2>1. /\ WritesRow("retry") /\ UNCHANGED <<log, cursor, granted, sent>>
        /\ row[job.at].state = "inflight" /\ job.stage # "idle"
    BY <1>3, <1>a, ReturnEffect
  <2>2. Fates[job.at] = "running" /\ Fates'[job.at] \in {"open", "due"}
    BY <1>a, <1>b, <1>t, <1>w, <2>1, <1>f DEF FateIsOfRow, States
  <2>3. Ledger!Return(job.at)
    BY <1>w, <2>1, <2>2 DEF Ledger!Return, Ledger!Moves, States
  <2> QED
    BY <1>b, <1>n, <2>1, <2>3
<1>4. CASE Complete
  <2>1. /\ WritesRow("succeeded") /\ UNCHANGED <<log, granted, sent>>
        /\ row[job.at].state = "inflight" /\ job.stage # "idle"
        /\ cursor' = IF job.at = cursor + 1 THEN job.at ELSE cursor
    BY <1>4, <1>a, CompleteEffect DEF Complete
  <2>2. Fates[job.at] = "running" /\ Fates'[job.at] = "settled"
    BY <1>a, <1>b, <1>t, <1>w, <2>1, <1>f DEF FateIsOfRow, States
  <2>3. Ledger!Settle(job.at)
    BY <1>w, <2>1, <2>2 DEF Ledger!Settle, Ledger!Moves, States
  <2> QED
    BY <1>b, <1>n, <2>1, <2>3
<1>5. CASE ExpireClaim \/ GiveUp \/ MarkUncertain
  <2>1. PICK s \in {"dead", "uncertain"} : WritesRow(s)
    BY <1>5, <1>a, BlockEffect
  <2>2. /\ UNCHANGED <<log, cursor, granted, sent>> /\ s \in States
        /\ row[job.at].state = "inflight" /\ job.stage # "idle"
    BY <1>5, <1>a, BlockEffect DEF Working, Outcomes, States
  <2>3. Fates[job.at] = "running" /\ Fates'[job.at] = "blocked"
    <3>1. row'[job.at].state \in {"dead", "uncertain"} /\ job.at \in Seqs
      BY <1>b, <2>1, <2>2 DEF WritesRow
    <3> QED
      BY <2>2, <3>1, <1>f DEF FateIsOfRow, Blocks
  <2>4. Ledger!Block(job.at)
    BY <1>w, <2>1, <2>2, <2>3 DEF Ledger!Block, Ledger!Moves
  <2> QED
    BY <1>b, <1>n, <2>2, <2>4
<1>6. ASSUME NEW n \in Seqs, Reconcile(n) \/ Heal(n)
      PROVE  Ledger!Next
  <2>1. /\ n \in DOMAIN log /\ Blocks(n) /\ UNCHANGED <<log, cursor, sent>>
        /\ \A m \in Seqs : m # n => row'[m] = row[m] /\ (m \in granted' <=> m \in granted)
    BY <1>6, <1>a, VerdictEffect
  <2>2. Fates'[n] \in {"settled", "due"}
    BY <1>6, <1>a, <1>t, VerdictEffect, <1>f DEF FateIsOfRow
  <2>3. Fates[n] = "blocked" /\ Fates' = [Fates EXCEPT ![n] = Fates'[n]]
    BY <1>a, <1>t, <2>1, <1>f, FateMoves DEF FateIsOfRow
  <2>4. Ledger!Verdict(n)
    BY <2>1, <2>2, <2>3 DEF Ledger!Verdict, Ledger!Moves
  <2> QED
    BY <1>n, <2>1, <2>4
<1>7. CASE Advance
  <2>1. /\ job.stage = "advance" /\ UNCHANGED <<log, row, granted, sent>>
        /\ cursor' = IF job.at = cursor + 1 THEN job.at ELSE cursor
    BY <1>7 DEF Advance
  <2>2. Fates' = Fates /\ job.at \in Seqs /\ job.at \in DOMAIN log
    BY <1>b, <2>1, FatesStay
  <2>3. CASE job.at = cursor + 1
    <3>1. \/ Fates[job.at] \in {"settled", "blocked", "due"}
          \/ ~Claimed(log[job.at])
          \/ HeldBack(log[job.at]) /\ HasBlocker(ThreadOf(job.at))
      BY <1>a, <2>1, <2>2, <2>3, <1>f DEF FateIsOfRow, PassInv, Blocks
    <3>2. Fates[job.at] \in {"settled", "blocked", "due"} \/ ~Claimed(log[job.at])
            \/ Ledger!Barred(job.at)
      BY <1>a, <3>1, LedgerBars
    <3> QED
      BY <1>a, <2>1, <2>2, <2>3, <3>2, SameClasses DEF Ledger!Pass, Ledger!Next
  <2>4. CASE job.at # cursor + 1
    BY <1>s, <2>1, <2>4
  <2> QED
    BY <2>3, <2>4
<1>8. CASE Publish
  BY <1>8, FatesStay DEF Publish, Ledger!Publish, Ledger!Next
<1>9. CASE Skip \/ FindSettled \/ CallKnownStart \/ RefreshCursor \/ TakeEvent
  BY <1>9, <1>s DEF Skip, FindSettled, CallKnownStart, RefreshCursor, TakeEvent
<1>10. CASE ReplayStep
  BY <1>10, <1>a, <1>s, ReplayEffect
<1>11. CASE StartUp \/ HealEnds \/ Resume \/ GoLive \/ Crash \/ Fail \/ UNCHANGED vars
  BY <1>11, <1>s DEF StartUp, HealEnds, Resume, GoLive, Crash, Fail, vars
<1> QED
  BY <1>1, <1>2, <1>3, <1>4, <1>5, <1>6, <1>7, <1>8, <1>9, <1>10, <1>11
     DEF Next, EventStep, BootStep

\* The delivery keeps what DeliveryLedger promises: commands run while claimed and not
\* barred, and the cursor passes what is settled, blocked, barred or due.
THEOREM LedgerKept == Spec => ImplementsLedger
<1>1. Init => Ledger!Init
  <2> SUFFICES ASSUME Init PROVE Ledger!Init
    OBVIOUS
  <2>1. \A n \in Seqs : Fate(n) = "open"
    BY DEF Init, Fate, Blocks, NoRow
  <2> QED
    BY <2>1 DEF Init, Ledger!Init, Fates, Seqs
<1> QED
  BY <1>1, Inductive, LedgerStep, PTL DEF Spec, ImplementsLedger, Ledger!Spec
=============================================================================
