------------------------ MODULE DrainableWorkerProofs ------------------------
(***************************************************************************)
(* Theorems about the drainable worker, for every number of calls and      *)
(* controllers and every capacity.                                         *)
(*                                                                         *)
(* The inductive invariant has five parts: the types; CountInv, that the   *)
(* count and the queue agree with where the items stand; GenInv, that a    *)
(* completed or promised Deferred is never the current one of a busy       *)
(* worker; ControlInv, what a controller past a step knows; and WaitInv,   *)
(* that whoever waits is woken.  Stop and drain rest on GenInv: a          *)
(* controller that saw the current idle Deferred completed has seen the    *)
(* worker idle, and admission was closed before it looked.                 *)
(***************************************************************************)
EXTENDS DrainableWorker, FiniteSetTheorems, SequenceTheorems, TLAPS

InQueue == {i \in Item : item[i] = "queued"}

\* The count is exact, the queue lists the queued items once each.
CountInv ==
    /\ outstanding = Cardinality(Held)
    /\ outstanding <= Capacity
    /\ Len(queue) <= Cardinality(InQueue)
    /\ \A n \in 1..Len(queue) : queue[n] \in InQueue
    /\ \A m, n \in 1..Len(queue) : queue[m] = queue[n] => m = n
    /\ \A i \in Item : item[i] \in {"running", "finishing", "dying"} <=> worker = i

\* A signal that is still to be sent is for a Deferred that exists, and for the
\* current one only while the worker is idle, or not full, or closed.
SignalInv ==
    \A i \in Item : \A n \in 1..Len(signals[i]) :
        LET s == signals[i][n]
        IN  \/ s.kind = "idle" /\ s.gen <= idle /\ (s.gen = idle => outstanding = 0)
            \/ /\ s.kind = "slot" /\ s.gen <= slot
               /\ s.gen = slot => phase # "running" \/ outstanding < Capacity

DoneInv ==
    /\ idle \in idleDone => outstanding = 0
    /\ slot \in slotDone => phase # "running" \/ outstanding < Capacity

GenInv == SignalInv /\ DoneInv

Stops(c) == Job[c] \in {"stop", "close"}

\* A stop past its quiesce finds admission closed; past its read it holds the
\* current idle Deferred; past its drain the worker is idle for good.
ControlInv ==
    /\ \A c \in Controller :
          /\ Job[c] = "drain" => step[c] \in {"read", "await", "done"}
          /\ step[c] \in {"announce", "mark"} => phase # "running"
          /\ step[c] = "announce" => awaited[c] <= slot
          /\ step[c] = "mark" => Stops(c)
          /\ (step[c] \in {"read", "await", "shutdown", "finish"} /\ Job[c] # "drain")
                => Stops(c) /\ phase # "running"
          /\ step[c] \in {"shutdown", "finish"} => Stops(c) /\ outstanding = 0
          /\ (step[c] = "await" /\ Stops(c)) => awaited[c] = idle
    /\ (~open \/ phase = "stopped") => phase # "running" /\ outstanding = 0

\* What a drain saw outstanding was accepted, and it either is settled or the
\* Deferred the drain awaits is the current one.
DrainInv ==
    \A c \in Controller :
        /\ \A i \in before[c] : item[i] \notin {"none", "waiting"}
        /\ \/ before[c] \cap Held = {}
           \/ step[c] = "await" /\ awaited[c] = idle

\* The slot Deferreds that are completed or promised.
Wakes == slotDone \cup {g \in Nat : SlotPromised(g)}

\* Whoever waits is woken; only an item in finishOne has signals to send.
WaitInv ==
    /\ \A i \in Item : item[i] = "waiting" =>
          waitOn[i] \in Wakes \/ (waitOn[i] = slot /\ outstanding = Capacity)
    /\ \A i \in Item : item[i] \notin {"finishing", "dying"} => signals[i] = << >>

NoneDropped == \A i \in Item : item[i] \notin {"dropping", "dropped"}

IndInv ==
    TypeOK /\ CountInv /\ GenInv /\ ControlInv /\ DrainInv /\ WaitInv /\ NoneDropped

-----------------------------------------------------------------------------
(* Sets and sequences *)

\* The outstanding items are finitely many, and none when the count is zero.
LEMMA HeldFinite ==
    /\ IsFiniteSet(Held) /\ Cardinality(Held) \in Nat
    /\ IsFiniteSet(InQueue) /\ Cardinality(InQueue) \in Nat
    /\ Cardinality(Held) = 0 <=> Held = {}
    /\ Cardinality(InQueue) = 0 <=> InQueue = {}
<1>1. Held \subseteq Item /\ InQueue \subseteq Item
  BY DEF Held, InQueue
<1> QED
  BY <1>1, CallAssumption, FS_Subset, FS_CardinalityType, FS_EmptySet
     DEF CallAssumption

\* What finishOne will signal: the idle Deferred of a last item, and the slot
\* Deferred of a full worker.
LEMMA ToSignalElements ==
    ASSUME TypeOK
    PROVE  /\ ToSignal \in Seq(Signals)
           /\ \A n \in 1..Len(ToSignal) :
                 \/ ToSignal[n] = [kind |-> "idle", gen |-> idle] /\ outstanding <= 1
                 \/ ToSignal[n] = [kind |-> "slot", gen |-> slot] /\ outstanding = Capacity
           /\ outstanding = Capacity =>
                 \E n \in 1..Len(ToSignal) : ToSignal[n] = [kind |-> "slot", gen |-> slot]
<1> DEFINE a == [kind |-> "idle", gen |-> idle]
           b == [kind |-> "slot", gen |-> slot]
           s == IF outstanding <= 1 THEN <<a>> ELSE << >>
           t == IF outstanding = Capacity THEN <<b>> ELSE << >>
<1>1. a \in Signals /\ b \in Signals
  BY DEF TypeOK, Signals
<1>2. ToSignal = s \o t
  BY DEF ToSignal
<1>3. /\ s \in Seq(Signals) /\ Len(s) = (IF outstanding <= 1 THEN 1 ELSE 0)
      /\ \A n \in 1..Len(s) : s[n] = a /\ outstanding <= 1
  BY <1>1
<1>4. /\ t \in Seq(Signals) /\ Len(t) = (IF outstanding = Capacity THEN 1 ELSE 0)
      /\ \A n \in 1..Len(t) : t[n] = b /\ outstanding = Capacity
  BY <1>1
<1> HIDE DEF s, t, a, b
<1>5. /\ s \o t \in Seq(Signals)
      /\ Len(s \o t) = Len(s) + Len(t)
      /\ \A n \in 1..(Len(s) + Len(t)) :
            (s \o t)[n] = IF n <= Len(s) THEN s[n] ELSE t[n - Len(s)]
  BY <1>3, <1>4, ConcatProperties
<1>6. \A n \in 1..Len(s \o t) :
        \/ (s \o t)[n] = a /\ outstanding <= 1
        \/ (s \o t)[n] = b /\ outstanding = Capacity
  BY <1>3, <1>4, <1>5
<1>7. ASSUME outstanding = Capacity
      PROVE  \E n \in 1..Len(s \o t) : (s \o t)[n] = b
  <2>1. Len(s) + 1 \in 1..Len(s \o t) /\ (s \o t)[Len(s) + 1] = t[1]
    BY <1>3, <1>4, <1>5, <1>7
  <2> QED
    BY <1>4, <1>7, <2>1
<1> QED
  BY <1>2, <1>5, <1>6, <1>7 DEF a, b

-----------------------------------------------------------------------------
(* Counts *)

\* Steps that move no item to or from a counted state keep the counts.
LEMMA QuietCount ==
    ASSUME TypeOK, CountInv, UNCHANGED <<outstanding, queue, worker>>,
           item' \in [Item -> ItemStates],
           \A i \in Item : item'[i] # item[i] =>
               /\ item[i] \in {"none", "waiting"}
               /\ item'[i] \in {"waiting", "cancelled", "rejected", "overloaded"}
    PROVE  CountInv' /\ Held' = Held
<1>1. Held' = Held /\ InQueue' = InQueue
  BY DEF Held, InQueue, TypeOK
<1>2. \A i \in Item : item'[i] \in {"running", "finishing", "dying"} <=>
                      item[i] \in {"running", "finishing", "dying"}
  BY DEF TypeOK
<1> QED
  BY <1>1, <1>2 DEF CountInv

\* A reservation below the capacity counts one more.
LEMMA ReserveCount ==
    ASSUME TypeOK, CountInv, NEW i \in Item, item[i] \in {"none", "waiting"},
           item' = [item EXCEPT ![i] = "reserved"],
           outstanding' = outstanding + 1, outstanding < Capacity,
           UNCHANGED <<queue, worker>>
    PROVE  CountInv' /\ Held' = Held \cup {i}
<1>1. Held' = Held \cup {i} /\ i \notin Held /\ InQueue' = InQueue
  BY DEF Held, InQueue, TypeOK
<1>2. Cardinality(Held') = Cardinality(Held) + 1
  BY <1>1, HeldFinite, FS_AddElement
<1>3. \A j \in Item : item'[j] \in {"running", "finishing", "dying"} <=>
                      item[j] \in {"running", "finishing", "dying"}
  BY DEF TypeOK
<1>4. outstanding' <= Capacity
  BY CapacityAssumption DEF TypeOK, CapacityAssumption
<1> QED
  BY <1>1, <1>2, <1>3, <1>4 DEF CountInv

\* finishOne counts one less.
LEMMA ReleaseCount ==
    ASSUME TypeOK, CountInv, NEW i \in Item, NEW s \in {"finishing", "dying"},
           item[i] = "running", Release(i, s), UNCHANGED <<queue, worker>>
    PROVE  CountInv' /\ Held' = Held \ {i} /\ outstanding' = outstanding - 1
<1>1. item' = [item EXCEPT ![i] = s]
  BY DEF Release, Move
<1>2. Held' = Held \ {i} /\ i \in Held /\ InQueue' = InQueue
  BY <1>1 DEF Held, InQueue, TypeOK
<1>3. Cardinality(Held') = Cardinality(Held) - 1
  BY <1>2, HeldFinite, FS_RemoveElement
<1>4. outstanding \in Nat /\ outstanding > 0
  BY <1>2, HeldFinite DEF CountInv, TypeOK
<1>5. outstanding' = outstanding - 1
  BY <1>4 DEF Release
<1>6. \A j \in Item : item'[j] \in {"running", "finishing", "dying"} <=>
                      item[j] \in {"running", "finishing", "dying"}
  BY <1>1 DEF TypeOK
<1>7. outstanding' <= Capacity
  BY <1>4, <1>5, CapacityAssumption DEF CountInv, CapacityAssumption
<1> QED
  BY <1>2, <1>3, <1>5, <1>6, <1>7 DEF CountInv

\* An offer moves a reserved item into the queue.
LEMMA OfferCount ==
    ASSUME TypeOK, CountInv, NEW i \in Item, item[i] = "reserved",
           queue' = Append(queue, i), item' = [item EXCEPT ![i] = "queued"],
           UNCHANGED <<outstanding, worker>>
    PROVE  CountInv' /\ Held' = Held
<1>1. Held' = Held /\ InQueue' = InQueue \cup {i} /\ i \notin InQueue
  BY DEF Held, InQueue, TypeOK
<1>2. Cardinality(InQueue') = Cardinality(InQueue) + 1
  BY <1>1, HeldFinite, FS_AddElement
<1>3. /\ queue \in Seq(Item) /\ Len(queue') = Len(queue) + 1
      /\ queue'[Len(queue) + 1] = i
      /\ \A n \in 1..Len(queue) : queue'[n] = queue[n]
  BY AppendProperties DEF TypeOK
<1>4. \A n \in 1..Len(queue') : queue'[n] \in InQueue'
  BY <1>1, <1>3 DEF CountInv
<1>5. \A m, n \in 1..Len(queue') : queue'[m] = queue'[n] => m = n
  BY <1>1, <1>3 DEF CountInv
<1>6. \A j \in Item : item'[j] \in {"running", "finishing", "dying"} <=>
                      item[j] \in {"running", "finishing", "dying"}
  BY DEF TypeOK
<1>7. Len(queue') <= Cardinality(InQueue')
  BY <1>2, <1>3, HeldFinite DEF CountInv
<1> QED
  BY <1>1, <1>4, <1>5, <1>6, <1>7 DEF CountInv

\* The consumer takes the head of the queue.
LEMMA TakeCount ==
    ASSUME TypeOK, CountInv, Take
    PROVE  CountInv' /\ Held' = Held /\ worker' \in Item /\ item[worker'] = "queued"
<1> DEFINE h == Head(queue)
<1>1. queue \in Seq(Item) /\ queue # << >>
  BY DEF TypeOK, Take
<1>2. /\ h \in Item /\ h = queue[1] /\ Len(queue) \in Nat \ {0}
      /\ Len(queue') = Len(queue) - 1
      /\ \A n \in 1..Len(queue') : queue'[n] = queue[n + 1]
  BY <1>1, HeadTailProperties DEF Take
<1>3. /\ worker = Free /\ worker' = h /\ outstanding' = outstanding
      /\ item' = [item EXCEPT ![h] = "running"]
  BY DEF Take, Move, admission
<1>4. h \in InQueue
  BY <1>2 DEF CountInv
<1> HIDE DEF h
<1>5. Held' = Held /\ InQueue' = InQueue \ {h}
  BY <1>2, <1>3, <1>4 DEF Held, InQueue, TypeOK
<1>6. Cardinality(InQueue') = Cardinality(InQueue) - 1
  BY <1>4, <1>5, HeldFinite, FS_RemoveElement
<1>7. Len(queue') <= Cardinality(InQueue')
  BY <1>2, <1>6, HeldFinite DEF CountInv
<1>8. \A n \in 1..Len(queue') : n + 1 \in 1..Len(queue) /\ queue[n + 1] # h
  BY <1>2 DEF CountInv
<1>9. /\ \A n \in 1..Len(queue') : queue'[n] \in InQueue'
      /\ \A m, n \in 1..Len(queue') : queue'[m] = queue'[n] => m = n
  <2>1. ASSUME NEW n \in 1..Len(queue') PROVE queue'[n] \in InQueue'
    BY <1>2, <1>5, <1>8 DEF CountInv
  <2>2. ASSUME NEW m \in 1..Len(queue'), NEW n \in 1..Len(queue'), queue'[m] = queue'[n]
        PROVE  m = n
    <3>1. m + 1 \in 1..Len(queue) /\ n + 1 \in 1..Len(queue) /\ queue[m + 1] = queue[n + 1]
      BY <1>2, <1>8, <2>2
    <3>2. m + 1 = n + 1
      BY <3>1 DEF CountInv
    <3> QED
      BY <3>2
  <2> QED
    BY <2>1, <2>2
<1>10. \A j \in Item : item[j] \notin {"running", "finishing", "dying"}
  BY <1>3, CallAssumption DEF CountInv, CallAssumption
<1>11. \A j \in Item : item'[j] \in {"running", "finishing", "dying"} <=> worker' = j
  BY <1>2, <1>3, <1>10 DEF TypeOK
<1> QED
  BY <1>2, <1>3, <1>4, <1>5, <1>7, <1>9, <1>11 DEF CountInv, InQueue

\* A reserved item finds the queue open: a closed queue has nothing outstanding.
LEMMA OfferOpen ==
    ASSUME CountInv, ControlInv, NEW i \in Item, Offer(i)
    PROVE  /\ item[i] = "reserved" /\ item' = [item EXCEPT ![i] = "queued"]
           /\ queue' = Append(queue, i)
           /\ UNCHANGED <<admission, waitOn, signals, deferreds, open, worker,
                          control, kills>>
<1>1. i \in Held /\ item[i] = "reserved"
  BY DEF Offer, Held
<1>2. outstanding # 0
  BY <1>1, HeldFinite DEF CountInv
<1>3. open
  BY <1>2 DEF ControlInv
<1> QED
  BY <1>1, <1>3 DEF Offer, Move

\* Every step is one of these.
LEMMA StepCases ==
    ASSUME [Next]_vars
    PROVE  \/ \E i \in Item : \/ Reserve(i) \/ Cancel(i) \/ Offer(i)
                             \/ Process(i) \/ Signal(i) \/ Settle(i)
           \/ Take \/ WorkerEnds
           \/ \E c \in Controller : ControlStep(c)
           \/ UNCHANGED vars
BY DEF Next, CallStep, ConsumerStep, AllQuiet

\* The count stays exact, and only Reserve adds to what is outstanding.
LEMMA CountStep ==
    ASSUME TypeOK, CountInv, ControlInv, NoneDropped, [Next]_vars
    PROVE  /\ CountInv'
           /\ NoneDropped'
           /\ \/ Held' \subseteq Held /\ outstanding' <= outstanding
              \/ \E i \in Item : Reserve(i) /\ Held' = Held \cup {i}
<1> DEFINE Goal == /\ CountInv'
                   /\ NoneDropped'
                   /\ \/ Held' \subseteq Held /\ outstanding' <= outstanding
                      \/ \E i \in Item : Reserve(i) /\ Held' = Held \cup {i}
<1>a. outstanding \in Nat /\ item \in [Item -> ItemStates]
  BY DEF TypeOK
<1>1. ASSUME NEW i \in Item, Reserve(i) PROVE Goal
  <2>1. CASE outstanding' = outstanding
    <3>1. /\ item' = [item EXCEPT ![i] = item'[i]]
          /\ item[i] \in {"none", "waiting"}
          /\ item'[i] \in {"waiting", "rejected", "overloaded"}
          /\ UNCHANGED <<queue, worker>>
      BY <1>1, <2>1, <1>a DEF Reserve, Trying, Move, channel, admission
    <3>2. item' \in [Item -> ItemStates]
      BY <3>1, <1>a DEF ItemStates
    <3>3. CountInv' /\ Held' = Held
      BY <2>1, <3>1, <3>2, <1>a, QuietCount
    <3> QED
      BY <2>1, <3>1, <3>3, <1>a DEF NoneDropped
  <2>2. CASE outstanding' # outstanding
    <3>1. /\ item' = [item EXCEPT ![i] = "reserved"]
          /\ item[i] \in {"none", "waiting"}
          /\ outstanding' = outstanding + 1 /\ ~Full
          /\ UNCHANGED <<queue, worker>>
      BY <1>1, <2>2, <1>a DEF Reserve, Trying, Move, channel, admission
    <3>2. outstanding < Capacity
      BY <3>1, <1>a, CapacityAssumption DEF Full, CapacityAssumption
    <3>3. CountInv' /\ Held' = Held \cup {i}
      BY <3>1, <3>2, ReserveCount
    <3> QED
      BY <1>1, <3>1, <3>3, <1>a DEF NoneDropped
  <2> QED
    BY <2>1, <2>2
<1>2. ASSUME NEW i \in Item, Cancel(i) PROVE Goal
  <2>1. /\ item[i] = "waiting" /\ item' = [item EXCEPT ![i] = "cancelled"]
        /\ UNCHANGED <<outstanding, queue, worker>>
    BY <1>2 DEF Cancel, Move, admission, channel
  <2>2. item' \in [Item -> ItemStates]
    BY <2>1, <1>a DEF ItemStates
  <2>3. CountInv' /\ Held' = Held
    BY <2>1, <2>2, <1>a, QuietCount
  <2> QED
    BY <2>1, <2>3, <1>a DEF NoneDropped
<1>3. ASSUME NEW i \in Item, Offer(i) PROVE Goal
  <2>1. CountInv' /\ Held' = Held
    BY <1>3, OfferOpen, OfferCount DEF admission
  <2> QED
    BY <1>3, <2>1, <1>a, OfferOpen DEF NoneDropped, admission
<1>4. ASSUME NEW i \in Item, Process(i) PROVE Goal
  <2>1. PICK s \in {"finishing", "dying"} : Release(i, s)
    BY <1>4 DEF Process
  <2>2. item[i] = "running" /\ UNCHANGED <<queue, worker>>
    BY <1>4 DEF Process, channel
  <2>3. CountInv' /\ Held' = Held \ {i} /\ outstanding' = outstanding - 1
    BY <2>1, <2>2, ReleaseCount
  <2> QED
    BY <2>1, <2>3, <1>a DEF NoneDropped, Release, Move
<1>5. ASSUME NEW i \in Item, Signal(i) PROVE Goal
  <2>1. UNCHANGED <<outstanding, item, queue, worker>>
    BY <1>5 DEF Signal, admission, channel
  <2> QED
    BY <2>1, <1>a DEF CountInv, NoneDropped, Held, InQueue
<1>6. ASSUME NEW i \in Item, Settle(i) PROVE Goal
  <2>1. /\ item[i] \in {"finishing", "dying"} /\ item' = [item EXCEPT ![i] = "settled"]
        /\ worker' \in {Free, Dead}
        /\ UNCHANGED <<outstanding, queue>>
    BY <1>6 DEF Settle, Move, admission, channel, NoneDropped
  <2>2. Held' = Held /\ InQueue' = InQueue
    BY <2>1, <1>a DEF Held, InQueue
  <2>3. worker = i
    BY <2>1 DEF CountInv
  <2>4. \A j \in Item : item'[j] \in {"running", "finishing", "dying"} <=> worker' = j
    BY <2>1, <2>3, <1>a, CallAssumption DEF CountInv, CallAssumption
  <2> QED
    BY <2>1, <2>2, <2>4, <1>a DEF CountInv, NoneDropped
<1>7. CASE Take
  <2>1. CountInv' /\ Held' = Held
    BY <1>7, TakeCount
  <2>2. item' = [item EXCEPT ![Head(queue)] = "running"] /\ outstanding' = outstanding
    BY <1>7 DEF Take, Move, admission
  <2> QED
    BY <2>1, <2>2, <1>a DEF NoneDropped
<1>8. CASE WorkerEnds
  <2>1. UNCHANGED <<outstanding, item, queue>> /\ worker = Free /\ worker' = Dead
    BY <1>8 DEF WorkerEnds, admission, channel, itemVars
  <2>2. Held' = Held /\ InQueue' = InQueue
    BY <2>1 DEF Held, InQueue
  <2> QED
    BY <2>1, <2>2, <1>a, CallAssumption DEF CountInv, NoneDropped, CallAssumption
<1>9. ASSUME NEW c \in Controller, ControlStep(c) PROVE Goal
  <2>1. UNCHANGED <<outstanding, item, worker>>
    BY <1>9 DEF ControlStep, CloseProducers, ProducersClosed, QuiesceAdmission,
       AnnounceQuiesce, MarkDraining, ReadIdle, Drained, ShutdownQueue, MarkStopped,
       admission, itemVars
  <2>2. queue' = queue \/ queue' = << >>
    BY <1>9 DEF ControlStep, CloseProducers, ProducersClosed, QuiesceAdmission,
       AnnounceQuiesce, MarkDraining, ReadIdle, Drained, ShutdownQueue, MarkStopped,
       channel
  <2>3. Held' = Held /\ InQueue' = InQueue /\ NoneDropped'
    BY <2>1 DEF Held, InQueue, NoneDropped
  <2>4. CountInv'
    BY <2>1, <2>2, <2>3, HeldFinite DEF CountInv
  <2> QED
    BY <2>1, <2>3, <2>4, <1>a
<1>10. CASE UNCHANGED vars
  <2>1. UNCHANGED <<outstanding, item, queue, worker>>
    BY <1>10 DEF vars, admission, channel, itemVars
  <2> QED
    BY <2>1, <1>a DEF CountInv, NoneDropped, Held, InQueue
<1> QED
  BY <1>1, <1>2, <1>3, <1>4, <1>5, <1>6, <1>7, <1>8, <1>9, <1>10, StepCases

-----------------------------------------------------------------------------
(* Types and Deferreds *)

\* finishOne leaves well typed signals and a natural count.
LEMMA ReleaseType ==
    ASSUME TypeOK, NEW i \in Item, NEW s \in {"finishing", "dying"}, Release(i, s)
    PROVE  /\ item' \in [Item -> ItemStates] /\ outstanding' \in Nat
           /\ signals' \in [Item -> Seq(Signals)]
           /\ UNCHANGED <<phase, idle, slot, waitOn>>
<1>1. ToSignal \in Seq(Signals)
  BY ToSignalElements
<1>2. signals' = [signals EXCEPT ![i] = ToSignal] /\ item' = [item EXCEPT ![i] = s]
  BY DEF Release, Move
<1>3. item' \in [Item -> ItemStates]
  BY <1>2 DEF TypeOK, ItemStates
<1>4. signals' \in [Item -> Seq(Signals)]
  BY <1>1, <1>2 DEF TypeOK
<1> QED
  BY <1>3, <1>4 DEF Release, TypeOK

\* Types are preserved.
LEMMA TypeStep ==
    ASSUME TypeOK, CountInv, GenInv, ControlInv, NoneDropped, [Next]_vars
    PROVE  TypeOK'
<1> USE DEF TypeOK
<1>1. ASSUME NEW i \in Item, Reserve(i) PROVE TypeOK'
  <2>1. UNCHANGED <<deferreds, channel, signals, worker, control, kills, phase>>
    BY <1>1 DEF Reserve, admission
  <2>2. item' \in [Item -> ItemStates] /\ waitOn' \in [Item -> Nat]
    <3>1. \E s \in ItemStates : item' = [item EXCEPT ![i] = s]
      BY <1>1 DEF Reserve, Move, ItemStates
    <3>2. \E g \in {0, slot} : waitOn' = [waitOn EXCEPT ![i] = g]
      BY <1>1 DEF Reserve
    <3> QED
      BY <3>1, <3>2
  <2>3. /\ outstanding' \in Nat
        /\ idle' \in Nat /\ idle <= idle'
        /\ slot' \in Nat /\ slot <= slot'
    <3>1. /\ outstanding' \in {outstanding, outstanding + 1}
          /\ idle' \in {idle, idle + 1} /\ slot' \in {slot, slot + 1}
      BY <1>1 DEF Reserve, NextIdle, NextSlot, admission
    <3> QED
      BY <3>1
  <2>4. idleDone' \subseteq 0..idle' /\ slotDone' \subseteq 0..slot'
    BY <2>1, <2>3 DEF deferreds
  <2> QED
    BY <2>1, <2>2, <2>3, <2>4 DEF channel, control
<1>2. ASSUME NEW i \in Item, Cancel(i) PROVE TypeOK'
  BY <1>2 DEF Cancel, Move, ItemStates, admission, deferreds, channel, control
<1>3. ASSUME NEW i \in Item, Offer(i) PROVE TypeOK'
  <2>1. queue' \in Seq(Item)
    <3>1. queue' = Append(queue, i)
      BY <1>3, OfferOpen
    <3> QED
      BY <3>1, AppendProperties
  <2>2. item' \in [Item -> ItemStates]
    BY <1>3, OfferOpen DEF ItemStates
  <2>3. UNCHANGED <<admission, waitOn, signals, deferreds, open, worker, control, kills>>
    BY <1>3, OfferOpen
  <2> QED
    BY <2>1, <2>2, <2>3 DEF admission, deferreds, control
<1>4. ASSUME NEW i \in Item, Process(i) PROVE TypeOK'
  <2>1. PICK s \in {"finishing", "dying"} : Release(i, s)
    BY <1>4 DEF Process
  <2>2. kills' \in Nat /\ UNCHANGED <<deferreds, channel, worker, control>>
    BY <1>4 DEF Process
  <2> HIDE DEF TypeOK
  <2>3. /\ item' \in [Item -> ItemStates] /\ outstanding' \in Nat
        /\ signals' \in [Item -> Seq(Signals)]
        /\ UNCHANGED <<phase, idle, slot, waitOn>>
    BY <2>1, ReleaseType
  <2> QED
    BY <2>2, <2>3 DEF TypeOK, deferreds, channel, control
<1>5. ASSUME NEW i \in Item, Signal(i) PROVE TypeOK'
  <2> DEFINE s == Head(signals[i])
  <2>1. signals[i] \in Seq(Signals) /\ signals[i] # << >>
    BY <1>5 DEF Signal
  <2>2. s \in Signals /\ Tail(signals[i]) \in Seq(Signals) /\ s = signals[i][1]
        /\ 1 \in 1..Len(signals[i])
    BY <2>1, HeadTailProperties
  <2>3. IF s.kind = "idle" THEN s.gen \in 0..idle ELSE s.gen \in 0..slot
    BY <2>2 DEF GenInv, SignalInv, Signals
  <2>4. idleDone' \subseteq 0..idle /\ slotDone' \subseteq 0..slot
    <3>1. IF s.kind = "idle"
          THEN idleDone' = idleDone \cup {s.gen} /\ slotDone' = slotDone
          ELSE slotDone' = slotDone \cup {s.gen} /\ idleDone' = idleDone
      BY <1>5 DEF Signal
    <3> QED
      BY <2>3, <3>1
  <2>5. signals' \in [Item -> Seq(Signals)]
    <3>1. signals' = [signals EXCEPT ![i] = Tail(signals[i])]
      BY <1>5 DEF Signal
    <3> QED
      BY <2>2, <3>1
  <2> QED
    BY <1>5, <2>4, <2>5 DEF Signal, admission, channel, control
<1>6. ASSUME NEW i \in Item, Settle(i) PROVE TypeOK'
  BY <1>6 DEF Settle, Move, ItemStates, admission, deferreds, channel, control
<1>7. CASE Take
  <2>1. /\ queue' \in Seq(Item) /\ worker' \in Item
        /\ item' \in [Item -> ItemStates]
    BY <1>7, HeadTailProperties DEF Take, Move, ItemStates
  <2> QED
    BY <1>7, <2>1 DEF Take, admission, deferreds, control
<1>8. CASE WorkerEnds
  BY <1>8 DEF WorkerEnds, admission, deferreds, channel, itemVars, control
<1>9. ASSUME NEW c \in Controller, ControlStep(c) PROVE TypeOK'
  <2>0. step[c] = "announce" => awaited[c] \in 0..slot
    BY DEF ControlInv
  <2>1. step' \in [Controller -> Steps]
    BY <1>9 DEF ControlStep, CloseProducers, ProducersClosed, QuiesceAdmission,
       AnnounceQuiesce, MarkDraining, ReadIdle, Drained, ShutdownQueue, MarkStopped,
       Step, Steps, AfterQuiesce
  <2>2. /\ phase' \in Phases /\ open' \in BOOLEAN /\ closing' \in BOOLEAN
        /\ queue' \in Seq(Item)
    <3>1. /\ phase' \in {phase, "quiescing", "draining", "stopped"}
          /\ open' \in {open, FALSE} /\ closing' \in {closing, TRUE}
          /\ queue' = queue \/ queue' = << >>
      BY <1>9 DEF ControlStep, CloseProducers, ProducersClosed, QuiesceAdmission,
         AnnounceQuiesce, MarkDraining, ReadIdle, Drained, ShutdownQueue,
         MarkStopped, admission, channel
    <3>2. open' \in BOOLEAN /\ closing' \in BOOLEAN
      BY <3>1, Zenon
    <3>3. phase' \in Phases
      BY <3>1 DEF Phases
    <3>4. queue' \in Seq(Item)
      <4>1. << >> \in Seq(Item) /\ queue \in Seq(Item)
        BY EmptySeq
      <4> QED
        BY <3>1, <4>1, Zenon
    <3> QED
      BY <3>2, <3>3, <3>4
  <2>3. awaited' \in [Controller -> Nat] /\ before' \in [Controller -> SUBSET Item]
    <3>1. /\ \/ awaited' = awaited
             \/ awaited' = [awaited EXCEPT ![c] = slot]
             \/ awaited' = [awaited EXCEPT ![c] = idle]
          /\ before' = before \/ before' = [before EXCEPT ![c] = Held]
      BY <1>9 DEF ControlStep, CloseProducers, ProducersClosed, QuiesceAdmission,
         AnnounceQuiesce, MarkDraining, ReadIdle, Drained, ShutdownQueue, MarkStopped
    <3>2. Held \in SUBSET Item
      BY DEF Held
    <3> QED
      BY <3>1, <3>2
  <2>4. UNCHANGED <<outstanding, idle, slot, idleDone, itemVars, worker, kills>>
    BY <1>9 DEF ControlStep, CloseProducers, ProducersClosed, QuiesceAdmission,
       AnnounceQuiesce, MarkDraining, ReadIdle, Drained, ShutdownQueue, MarkStopped,
       admission, deferreds
  <2>5. slotDone' \subseteq 0..slot
    BY <1>9, <2>0 DEF ControlStep, CloseProducers, ProducersClosed, QuiesceAdmission,
       AnnounceQuiesce, MarkDraining, ReadIdle, Drained, ShutdownQueue, MarkStopped,
       deferreds
  <2> QED
    BY <2>1, <2>2, <2>3, <2>4, <2>5 DEF itemVars
<1>10. CASE UNCHANGED vars
  BY <1>10 DEF vars, admission, deferreds, channel, itemVars, control
<1> QED
  BY <1>1, <1>2, <1>3, <1>4, <1>5, <1>6, <1>7, <1>8, <1>9, <1>10, StepCases

\* A signal sent or added, and the replacement of a Deferred, never make the
\* current Deferred of a busy worker count as completed.
LEMMA GenStep ==
    ASSUME TypeOK, CountInv, GenInv, ControlInv, NoneDropped, [Next]_vars
    PROVE  GenInv'
<1>a. /\ outstanding \in Nat /\ idle \in Nat /\ slot \in Nat /\ Capacity \in Nat \ {0}
      /\ idleDone \subseteq 0..idle /\ slotDone \subseteq 0..slot
      /\ signals \in [Item -> Seq(Signals)] /\ outstanding <= Capacity
  BY CapacityAssumption DEF TypeOK, CapacityAssumption, CountInv
<1>q. ASSUME UNCHANGED <<signals, idle, slot, idleDone, slotDone, outstanding>>,
             phase # "running" => phase' # "running"
      PROVE  GenInv'
  BY <1>q DEF GenInv, SignalInv, DoneInv
<1>1. ASSUME NEW i \in Item, Reserve(i) PROVE GenInv'
  <2>1. UNCHANGED <<signals, idleDone, slotDone, phase>>
    BY <1>1 DEF Reserve, deferreds, admission
  <2>2. CASE UNCHANGED <<outstanding, idle, slot>>
    BY <2>1, <2>2, <1>q
  <2>3. CASE /\ phase = "running" /\ ~Full
             /\ outstanding' = outstanding + 1 /\ idle' = NextIdle /\ slot' = NextSlot
    <3>1. outstanding < Capacity /\ outstanding' = outstanding + 1
      BY <1>a, <2>3 DEF Full
    <3>2. /\ idle' = (IF outstanding = 0 THEN idle + 1 ELSE idle)
          /\ slot' = (IF outstanding + 1 = Capacity THEN slot + 1 ELSE slot)
      BY <2>3 DEF NextIdle, NextSlot
    <3>3. DoneInv'
      BY <1>a, <2>1, <3>1, <3>2 DEF GenInv, DoneInv
    <3>4. SignalInv'
      <4> SUFFICES ASSUME NEW j \in Item, NEW n \in 1..Len(signals[j])
                   PROVE  LET s == signals[j][n]
                          IN \/ /\ s.kind = "idle" /\ s.gen <= idle'
                                /\ s.gen = idle' => outstanding' = 0
                             \/ /\ s.kind = "slot" /\ s.gen <= slot'
                                /\ s.gen = slot' => phase' # "running" \/ outstanding' < Capacity
        BY <2>1 DEF SignalInv
      <4>1. signals[j][n] \in Signals
        BY <1>a
      <4> QED
        BY <1>a, <3>1, <3>2, <4>1 DEF GenInv, SignalInv, Signals
    <3> QED
      BY <3>3, <3>4 DEF GenInv
  <2> QED
    BY <1>1, <2>2, <2>3 DEF Reserve, admission
<1>2. ASSUME NEW i \in Item, Cancel(i) PROVE GenInv'
  BY <1>2, <1>q DEF Cancel, admission, deferreds
<1>3. ASSUME NEW i \in Item, Offer(i) PROVE GenInv'
  <2>1. UNCHANGED <<admission, signals, deferreds>>
    BY <1>3, OfferOpen
  <2> QED
    BY <2>1, <1>q DEF admission, deferreds
<1>4. ASSUME NEW i \in Item, Process(i) PROVE GenInv'
  <2>1. PICK s \in {"finishing", "dying"} : Release(i, s)
    BY <1>4 DEF Process
  <2>2. item[i] = "running" /\ UNCHANGED <<queue, worker, deferreds>>
    BY <1>4 DEF Process, channel
  <2>3. outstanding' = outstanding - 1
    BY <2>1, <2>2, ReleaseCount
  <2>4. UNCHANGED <<phase, idle, slot>> /\ signals' = [signals EXCEPT ![i] = ToSignal]
    BY <2>1 DEF Release
  <2>5. outstanding' \in Nat
    BY <2>1, ReleaseType
  <2>6. DoneInv'
    BY <1>a, <2>2, <2>3, <2>4, <2>5 DEF GenInv, DoneInv, deferreds
  <2>7. SignalInv'
    <3> SUFFICES ASSUME NEW j \in Item, NEW n \in 1..Len(signals'[j])
                 PROVE  LET t == signals'[j][n]
                        IN \/ /\ t.kind = "idle" /\ t.gen <= idle
                              /\ t.gen = idle => outstanding' = 0
                           \/ /\ t.kind = "slot" /\ t.gen <= slot
                              /\ t.gen = slot => phase # "running" \/ outstanding' < Capacity
      BY <2>4 DEF SignalInv
    <3>1. CASE j = i
      <4>1. signals'[j] = ToSignal
        BY <1>a, <2>4, <3>1
      <4>2. \/ signals'[j][n] = [kind |-> "idle", gen |-> idle] /\ outstanding <= 1
            \/ signals'[j][n] = [kind |-> "slot", gen |-> slot]
        BY <4>1, ToSignalElements
      <4> QED
        BY <1>a, <2>3, <2>5, <4>2
    <3>2. CASE j # i
      <4>1. signals'[j] = signals[j] /\ signals[j][n] \in Signals
        BY <1>a, <2>4, <3>2
      <4> QED
        BY <1>a, <2>3, <2>5, <4>1 DEF GenInv, SignalInv, Signals
    <3> QED
      BY <3>1, <3>2
  <2> QED
    BY <2>6, <2>7 DEF GenInv
<1>5. ASSUME NEW i \in Item, Signal(i) PROVE GenInv'
  <2> DEFINE s == Head(signals[i])
  <2>1. signals[i] \in Seq(Signals) /\ signals[i] # << >>
    BY <1>5, <1>a DEF Signal
  <2>2. /\ s \in Signals /\ s = signals[i][1] /\ 1 \in 1..Len(signals[i])
        /\ Len(Tail(signals[i])) = Len(signals[i]) - 1
        /\ \A n \in 1..Len(Tail(signals[i])) : Tail(signals[i])[n] = signals[i][n + 1]
    BY <2>1, HeadTailProperties
  <2>3. /\ UNCHANGED <<phase, outstanding, idle, slot>>
        /\ signals' = [signals EXCEPT ![i] = Tail(signals[i])]
        /\ IF s.kind = "idle"
           THEN idleDone' = idleDone \cup {s.gen} /\ slotDone' = slotDone
           ELSE slotDone' = slotDone \cup {s.gen} /\ idleDone' = idleDone
    BY <1>5 DEF Signal, admission
  <2>4. \/ s.kind = "idle" /\ (s.gen = idle => outstanding = 0)
        \/ /\ s.kind = "slot"
           /\ s.gen = slot => phase # "running" \/ outstanding < Capacity
    BY <2>2 DEF GenInv, SignalInv
  <2>5. DoneInv'
    BY <2>3, <2>4 DEF GenInv, DoneInv
  <2>6. \A j \in Item : \A n \in 1..Len(signals'[j]) :
            \E m \in 1..Len(signals[j]) : signals'[j][n] = signals[j][m]
    <3> SUFFICES ASSUME NEW j \in Item, NEW n \in 1..Len(signals'[j])
                 PROVE  \E m \in 1..Len(signals[j]) : signals'[j][n] = signals[j][m]
      OBVIOUS
    <3>1. CASE j = i
      <4>1. signals'[j] = Tail(signals[i])
        BY <1>a, <2>3, <3>1
      <4>2. n + 1 \in 1..Len(signals[j]) /\ signals'[j][n] = signals[j][n + 1]
        BY <2>1, <2>2, <3>1, <4>1
      <4> QED
        BY <4>2
    <3>2. CASE j # i
      BY <1>a, <2>3, <3>2
    <3> QED
      BY <3>1, <3>2
  <2>7. SignalInv'
    <3> SUFFICES ASSUME NEW j \in Item, NEW n \in 1..Len(signals'[j])
                 PROVE  LET t == signals'[j][n]
                        IN \/ /\ t.kind = "idle" /\ t.gen <= idle
                              /\ t.gen = idle => outstanding = 0
                           \/ /\ t.kind = "slot" /\ t.gen <= slot
                              /\ t.gen = slot => phase # "running" \/ outstanding < Capacity
      BY <2>3 DEF SignalInv
    <3>1. PICK m \in 1..Len(signals[j]) : signals'[j][n] = signals[j][m]
      BY <2>6
    <3> QED
      BY <3>1 DEF GenInv, SignalInv
  <2> QED
    BY <2>5, <2>7 DEF GenInv
<1>6. ASSUME NEW i \in Item, Settle(i) PROVE GenInv'
  BY <1>6, <1>q DEF Settle, admission, deferreds
<1>7. CASE Take
  BY <1>7, <1>q DEF Take, admission, deferreds
<1>8. CASE WorkerEnds
  BY <1>8, <1>q DEF WorkerEnds, admission, deferreds, itemVars
<1>9. ASSUME NEW c \in Controller, ControlStep(c) PROVE GenInv'
  <2>1. CASE AnnounceQuiesce(c)
    <3>1. phase # "running" /\ UNCHANGED <<signals, idle, slot, idleDone, outstanding, phase>>
      BY <2>1 DEF AnnounceQuiesce, ControlInv, admission, itemVars
    <3> QED
      BY <3>1 DEF GenInv, SignalInv, DoneInv
  <2>2. CASE ~AnnounceQuiesce(c)
    <3>1. UNCHANGED <<signals, idle, slot, idleDone, slotDone, outstanding>>
      BY <1>9, <2>2 DEF ControlStep, CloseProducers, ProducersClosed, QuiesceAdmission,
         MarkDraining, ReadIdle, Drained, ShutdownQueue, MarkStopped,
         admission, deferreds, itemVars
    <3>2. phase # "running" => phase' # "running"
      BY <1>9, <2>2 DEF ControlStep, CloseProducers, ProducersClosed, QuiesceAdmission,
         MarkDraining, ReadIdle, Drained, ShutdownQueue, MarkStopped, admission
    <3> QED
      BY <3>1, <3>2, <1>q
  <2> QED
    BY <2>1, <2>2
<1>10. CASE UNCHANGED vars
  BY <1>10, <1>q DEF vars, admission, deferreds, itemVars
<1> QED
  BY <1>1, <1>2, <1>3, <1>4, <1>5, <1>6, <1>7, <1>8, <1>9, <1>10, StepCases

-----------------------------------------------------------------------------
(* Controllers *)

\* A stop keeps what it knows: admission stays closed behind its quiesce, so the
\* idle Deferred it awaits stays the current one.
LEMMA ControlInvStep ==
    ASSUME TypeOK, CountInv, GenInv, ControlInv, NoneDropped, [Next]_vars
    PROVE  ControlInv'
<1>a. /\ outstanding \in Nat /\ idle \in Nat /\ slot \in Nat
      /\ step \in [Controller -> Steps] /\ awaited \in [Controller -> Nat]
      /\ Job \in [Controller -> {"quiesce", "drain", "stop", "close"}]
  BY CallAssumption DEF TypeOK, CallAssumption
<1>q. ASSUME UNCHANGED <<phase, idle, slot, open, step, awaited>>,
             outstanding' \in {outstanding, outstanding - 1},
             outstanding' \in Nat
      PROVE  ControlInv'
  BY <1>q, <1>a DEF ControlInv, Stops
<1>1. ASSUME NEW i \in Item, Reserve(i) PROVE ControlInv'
  <2>1. UNCHANGED <<phase, open, step, awaited>>
    BY <1>1 DEF Reserve, admission, channel, control
  <2>2. CASE UNCHANGED <<outstanding, idle, slot>>
    BY <2>1, <2>2, <1>a, <1>q
  <2>3. CASE phase = "running" /\ slot' = NextSlot
    <3>1. slot <= slot' /\ slot' \in Nat
      BY <2>3, <1>a DEF NextSlot
    <3> QED
      BY <2>1, <2>3, <3>1, <1>a DEF ControlInv, Stops
  <2> QED
    BY <1>1, <2>2, <2>3 DEF Reserve, admission
<1>2. ASSUME NEW i \in Item, Cancel(i) PROVE ControlInv'
  BY <1>2, <1>a, <1>q DEF Cancel, admission, channel, control
<1>3. ASSUME NEW i \in Item, Offer(i) PROVE ControlInv'
  <2>1. UNCHANGED <<admission, open, control>>
    BY <1>3, OfferOpen
  <2> QED
    BY <2>1, <1>a, <1>q DEF admission, control
<1>4. ASSUME NEW i \in Item, Process(i) PROVE ControlInv'
  <2>1. PICK s \in {"finishing", "dying"} : Release(i, s)
    BY <1>4 DEF Process
  <2>2. item[i] = "running" /\ UNCHANGED <<queue, worker, open, control>>
    BY <1>4 DEF Process, channel
  <2>3. outstanding' = outstanding - 1 /\ outstanding' \in Nat
    BY <2>1, <2>2, ReleaseCount, ReleaseType
  <2> QED
    BY <2>1, <2>2, <2>3, <1>q DEF Release, control
<1>5. ASSUME NEW i \in Item, Signal(i) PROVE ControlInv'
  BY <1>5, <1>a, <1>q DEF Signal, admission, channel, control
<1>6. ASSUME NEW i \in Item, Settle(i) PROVE ControlInv'
  BY <1>6, <1>a, <1>q DEF Settle, admission, channel, control
<1>7. CASE Take
  BY <1>7, <1>a, <1>q DEF Take, admission, control
<1>8. CASE WorkerEnds
  BY <1>8, <1>a, <1>q DEF WorkerEnds, admission, channel, control
<1>9. ASSUME NEW c \in Controller, ControlStep(c) PROVE ControlInv'
  <2>0. UNCHANGED <<outstanding, idle, slot>>
    BY <1>9 DEF ControlStep, CloseProducers, ProducersClosed, QuiesceAdmission,
       AnnounceQuiesce, MarkDraining, ReadIdle, Drained, ShutdownQueue, MarkStopped,
       admission
  <2>1. CASE CloseProducers(c) \/ ProducersClosed(c)
    <3>1. /\ UNCHANGED <<phase, open, awaited>> /\ Job[c] # "drain"
          /\ \E s \in {"producers", "quiesce"} : step' = [step EXCEPT ![c] = s]
      BY <2>1 DEF CloseProducers, ProducersClosed, Step, ControlInv, admission, channel
    <3> QED
      BY <2>0, <3>1, <1>a DEF ControlInv, Stops
  <2>2. CASE QuiesceAdmission(c)
    <3>1. /\ Job[c] # "drain" /\ phase' # "running" /\ open' = open
          /\ phase' = "stopped" => phase = "stopped"
          /\ \/ step' = [step EXCEPT ![c] = "done"] /\ awaited' = awaited
             \/ step' = [step EXCEPT ![c] = "mark"] /\ Stops(c) /\ awaited' = awaited
             \/ step' = [step EXCEPT ![c] = "announce"]
                /\ awaited' = [awaited EXCEPT ![c] = slot]
      BY <2>2, <1>a DEF QuiesceAdmission, Step, AfterQuiesce, ControlInv, Stops, channel
    <3>2. phase = "running" => open
      BY DEF ControlInv
    <3> QED
      BY <2>0, <3>1, <3>2, <1>a DEF ControlInv, Stops
  <2>3. CASE AnnounceQuiesce(c)
    <3>1. /\ UNCHANGED <<phase, open, awaited>> /\ Job[c] # "drain" /\ phase # "running"
          /\ \/ step' = [step EXCEPT ![c] = "done"]
             \/ step' = [step EXCEPT ![c] = "mark"] /\ Stops(c)
      BY <2>3, <1>a DEF AnnounceQuiesce, Step, AfterQuiesce, ControlInv, Stops,
         admission, channel
    <3> QED
      BY <2>0, <3>1, <1>a DEF ControlInv, Stops
  <2>4. CASE MarkDraining(c)
    <3>1. /\ UNCHANGED <<open, awaited>> /\ Stops(c) /\ phase' # "running"
          /\ phase' = "stopped" => phase = "stopped"
          /\ step' = [step EXCEPT ![c] = "read"]
      BY <2>4 DEF MarkDraining, Step, ControlInv, channel
    <3> QED
      BY <2>0, <3>1, <1>a DEF ControlInv, Stops
  <2>5. CASE ReadIdle(c)
    <3>1. /\ UNCHANGED <<phase, open>> /\ step[c] = "read"
          /\ awaited' = [awaited EXCEPT ![c] = idle]
          /\ step' = [step EXCEPT ![c] = "await"]
      BY <2>5 DEF ReadIdle, Step, admission, channel
    <3> QED
      BY <2>0, <3>1, <1>a DEF ControlInv, Stops
  <2>6. CASE Drained(c)
    <3>1. /\ UNCHANGED <<phase, open, awaited>> /\ step[c] = "await"
          /\ awaited[c] \in idleDone
          /\ step' = [step EXCEPT ![c] = IF Job[c] = "drain" THEN "done" ELSE "shutdown"]
      BY <2>6 DEF Drained, Step, admission, channel
    <3>2. Job[c] # "drain" => Stops(c) /\ phase # "running" /\ outstanding = 0
      BY <3>1 DEF ControlInv, GenInv, DoneInv
    <3> QED
      BY <2>0, <3>1, <3>2, <1>a DEF ControlInv, Stops
  <2>7. CASE ShutdownQueue(c)
    <3>1. /\ UNCHANGED <<phase, awaited>> /\ open' = FALSE /\ step[c] = "shutdown"
          /\ step' = [step EXCEPT ![c] = "finish"]
      BY <2>7 DEF ShutdownQueue, Step, admission
    <3>2. Stops(c) /\ phase # "running" /\ outstanding = 0
      BY <3>1 DEF ControlInv, Stops
    <3> QED
      BY <2>0, <3>1, <3>2, <1>a DEF ControlInv, Stops
  <2>8. CASE MarkStopped(c)
    <3>1. /\ UNCHANGED <<open, awaited>> /\ phase' = "stopped" /\ step[c] = "finish"
          /\ step' = [step EXCEPT ![c] = "done"]
      BY <2>8 DEF MarkStopped, Step, channel
    <3>2. outstanding = 0
      BY <3>1 DEF ControlInv
    <3> QED
      BY <2>0, <3>1, <3>2, <1>a DEF ControlInv, Stops
  <2> QED
    BY <1>9, <2>1, <2>2, <2>3, <2>4, <2>5, <2>6, <2>7, <2>8 DEF ControlStep
<1>10. CASE UNCHANGED vars
  BY <1>10, <1>a, <1>q DEF vars, admission, channel, control
<1> QED
  BY <1>1, <1>2, <1>3, <1>4, <1>5, <1>6, <1>7, <1>8, <1>9, <1>10, StepCases

\* The Deferred a drain awaits stays the current one while an item it has to
\* wait for is outstanding.
LEMMA DrainStep ==
    ASSUME TypeOK, CountInv, GenInv, ControlInv, DrainInv, NoneDropped, [Next]_vars
    PROVE  DrainInv'
<1>a. /\ outstanding \in Nat /\ item \in [Item -> ItemStates]
      /\ step \in [Controller -> Steps] /\ awaited \in [Controller -> Nat]
      /\ before \in [Controller -> SUBSET Item]
  BY DEF TypeOK
<1>b. outstanding = 0 => Held = {}
  BY HeldFinite DEF CountInv
<1>q. ASSUME UNCHANGED <<step, awaited, before, idle>>, Held' \subseteq Held,
             \A i \in Item : item'[i] = item[i] \/ item'[i] \notin {"none", "waiting"}
                             \/ item[i] \in {"none", "waiting"}
      PROVE  DrainInv'
  <2> SUFFICES ASSUME NEW c \in Controller
               PROVE  /\ \A i \in before[c] : item'[i] \notin {"none", "waiting"}
                      /\ \/ before[c] \cap Held' = {}
                         \/ step[c] = "await" /\ awaited[c] = idle
    BY <1>q DEF DrainInv
  <2> QED
    BY <1>a, <1>q DEF DrainInv
<1>1. ASSUME NEW i \in Item, Reserve(i) PROVE DrainInv'
  <2>1. /\ UNCHANGED <<step, awaited, before>> /\ item[i] \in {"none", "waiting"}
        /\ \A j \in Item \ {i} : item'[j] = item[j]
    BY <1>1, <1>a DEF Reserve, Trying, Move, control
  <2>2. \A c \in Controller : i \notin before[c]
    BY <2>1 DEF DrainInv
  <2>3. Held' \subseteq Held \cup {i}
    BY <2>1 DEF Held
  <2>4. idle' = idle \/ Held = {}
    BY <1>1, <1>b DEF Reserve, NextIdle, admission
  <2> SUFFICES ASSUME NEW c \in Controller
               PROVE  /\ \A j \in before[c] : item'[j] \notin {"none", "waiting"}
                      /\ \/ before[c] \cap Held' = {}
                         \/ step[c] = "await" /\ awaited[c] = idle'
    BY <2>1 DEF DrainInv
  <2> QED
    BY <1>a, <2>1, <2>2, <2>3, <2>4 DEF DrainInv
<1>2. ASSUME NEW i \in Item, Cancel(i) PROVE DrainInv'
  <2>1. item' = [item EXCEPT ![i] = "cancelled"] /\ UNCHANGED <<step, awaited, before, idle>>
    BY <1>2 DEF Cancel, Move, control, admission
  <2> QED
    BY <2>1, <1>a, <1>q DEF Held
<1>3. ASSUME NEW i \in Item, Offer(i) PROVE DrainInv'
  <2>1. /\ item' = [item EXCEPT ![i] = "queued"] /\ item[i] = "reserved"
        /\ UNCHANGED <<step, awaited, before, idle>>
    BY <1>3, OfferOpen DEF control, admission
  <2> QED
    BY <2>1, <1>a, <1>q DEF Held
<1>4. ASSUME NEW i \in Item, Process(i) PROVE DrainInv'
  <2>1. PICK s \in {"finishing", "dying"} : item' = [item EXCEPT ![i] = s] /\ idle' = idle
    BY <1>4 DEF Process, Release, Move
  <2>2. UNCHANGED <<step, awaited, before>>
    BY <1>4 DEF Process, control
  <2> QED
    BY <2>1, <2>2, <1>a, <1>q DEF Held
<1>5. ASSUME NEW i \in Item, Signal(i) PROVE DrainInv'
  BY <1>5, <1>q DEF Signal, admission, control, Held
<1>6. ASSUME NEW i \in Item, Settle(i) PROVE DrainInv'
  <2>1. item' = [item EXCEPT ![i] = "settled"] /\ UNCHANGED <<step, awaited, before, idle>>
    BY <1>6 DEF Settle, Move, control, admission, NoneDropped
  <2> QED
    BY <2>1, <1>a, <1>q DEF Held
<1>7. CASE Take
  <2>1. /\ item' = [item EXCEPT ![Head(queue)] = "running"]
        /\ UNCHANGED <<step, awaited, before, idle>>
    BY <1>7 DEF Take, Move, control, admission
  <2>2. Held' = Held
    BY <1>7, TakeCount
  <2> QED
    BY <2>1, <2>2, <1>a, <1>q
<1>8. CASE WorkerEnds
  BY <1>8, <1>q DEF WorkerEnds, admission, itemVars, control, Held
<1>9. ASSUME NEW c \in Controller, ControlStep(c) PROVE DrainInv'
  <2>0. UNCHANGED <<item, idle>>
    BY <1>9 DEF ControlStep, CloseProducers, ProducersClosed, QuiesceAdmission,
       AnnounceQuiesce, MarkDraining, ReadIdle, Drained, ShutdownQueue, MarkStopped,
       admission, itemVars
  <2>1. Held' = Held
    BY <2>0 DEF Held
  <2>2. \A d \in Controller \ {c} : /\ step'[d] = step[d] /\ awaited'[d] = awaited[d]
                                   /\ before'[d] = before[d]
    BY <1>9, <1>a DEF ControlStep, CloseProducers, ProducersClosed, QuiesceAdmission,
       AnnounceQuiesce, MarkDraining, ReadIdle, Drained, ShutdownQueue, MarkStopped,
       Step
  <2>3. CASE ReadIdle(c)
    <3>1. step'[c] = "await" /\ awaited'[c] = idle /\ before'[c] = Held
      BY <2>3, <1>a DEF ReadIdle, Step
    <3>2. \A i \in Held : item'[i] \notin {"none", "waiting"}
      BY <2>0 DEF Held
    <3> QED
      BY <2>0, <2>1, <2>2, <3>1, <3>2 DEF DrainInv
  <2>4. CASE Drained(c)
    <3>1. /\ step[c] = "await" /\ awaited[c] \in idleDone
          /\ UNCHANGED <<awaited, before>>
      BY <2>4 DEF Drained
    <3>2. before[c] \cap Held = {}
      BY <3>1, <1>b DEF DrainInv, GenInv, DoneInv
    <3> QED
      BY <2>0, <2>1, <2>2, <3>1, <3>2 DEF DrainInv
  <2>5. CASE ~ReadIdle(c) /\ ~Drained(c)
    <3>1. step[c] # "await" /\ before' = before
      BY <1>9, <2>5 DEF ControlStep, CloseProducers, ProducersClosed, QuiesceAdmission,
         AnnounceQuiesce, MarkDraining, ShutdownQueue, MarkStopped
    <3>2. before[c] \cap Held = {}
      BY <3>1 DEF DrainInv
    <3> QED
      BY <2>0, <2>1, <2>2, <3>1, <3>2 DEF DrainInv
  <2> QED
    BY <2>3, <2>4, <2>5
<1>10. CASE UNCHANGED vars
  BY <1>10, <1>q DEF vars, admission, itemVars, control, Held
<1> QED
  BY <1>1, <1>2, <1>3, <1>4, <1>5, <1>6, <1>7, <1>8, <1>9, <1>10, StepCases

-----------------------------------------------------------------------------
(* Waiting calls *)

\* A wake-up is only given up for a completed Deferred: a full worker that
\* releases an item promises the current slot Deferred.
LEMMA WaitStep ==
    ASSUME TypeOK, CountInv, ControlInv, WaitInv, NoneDropped, [Next]_vars
    PROVE  WaitInv'
<1>a. /\ outstanding \in Nat /\ item \in [Item -> ItemStates]
      /\ slot \in Nat /\ Capacity \in Nat \ {0} /\ outstanding <= Capacity
      /\ signals \in [Item -> Seq(Signals)] /\ waitOn \in [Item -> Nat]
  BY CapacityAssumption DEF TypeOK, CapacityAssumption, CountInv
<1>q. ASSUME UNCHANGED <<outstanding, slot, signals>>, slotDone \subseteq slotDone',
             \A i \in Item :
                /\ item'[i] = "waiting" => item[i] = "waiting" /\ waitOn'[i] = waitOn[i]
                /\ item'[i] \notin {"finishing", "dying"} =>
                      signals[i] = << >> \/ item[i] \notin {"finishing", "dying"}
      PROVE  WaitInv'
  <2>1. Wakes \subseteq Wakes'
    BY <1>q DEF Wakes, SlotPromised
  <2> QED
    BY <1>q, <2>1 DEF WaitInv
<1>1. ASSUME NEW i \in Item, Reserve(i) PROVE WaitInv'
  <2>1. /\ UNCHANGED <<signals, slotDone>> /\ item[i] \in {"none", "waiting"}
        /\ \A j \in Item \ {i} : item'[j] = item[j] /\ waitOn'[j] = waitOn[j]
    BY <1>1, <1>a DEF Reserve, Trying, Move, deferreds
  <2>2. signals[i] = << >>
    BY <2>1 DEF WaitInv
  <2>3. item'[i] = "waiting" => waitOn'[i] = slot /\ outstanding = Capacity
                                /\ UNCHANGED <<slot, outstanding>>
    BY <1>1, <1>a DEF Reserve, Move, Full, admission
  <2>4. outstanding = Capacity => UNCHANGED <<slot, outstanding>>
    BY <1>1, <1>a DEF Reserve, Full, admission
  <2>5. Wakes' = Wakes
    BY <2>1 DEF Wakes, SlotPromised
  <2> QED
    BY <2>1, <2>2, <2>3, <2>4, <2>5 DEF WaitInv
<1>2. ASSUME NEW i \in Item, Cancel(i) PROVE WaitInv'
  <2>1. /\ item' = [item EXCEPT ![i] = "cancelled"] /\ item[i] = "waiting"
        /\ waitOn' = [waitOn EXCEPT ![i] = 0]
        /\ UNCHANGED <<outstanding, slot, signals, slotDone>>
    BY <1>2 DEF Cancel, Move, admission, deferreds
  <2> QED
    BY <2>1, <1>a, <1>q
<1>3. ASSUME NEW i \in Item, Offer(i) PROVE WaitInv'
  <2>1. /\ item' = [item EXCEPT ![i] = "queued"] /\ item[i] = "reserved"
        /\ UNCHANGED <<outstanding, slot, signals, slotDone, waitOn>>
    BY <1>3, OfferOpen DEF admission, deferreds
  <2> QED
    BY <2>1, <1>a, <1>q
<1>4. ASSUME NEW i \in Item, Process(i) PROVE WaitInv'
  <2>1. PICK s \in {"finishing", "dying"} : Release(i, s)
    BY <1>4 DEF Process
  <2>2. /\ item[i] = "running" /\ item' = [item EXCEPT ![i] = s]
        /\ signals' = [signals EXCEPT ![i] = ToSignal]
        /\ UNCHANGED <<slot, slotDone, waitOn>>
    BY <1>4, <2>1 DEF Process, Release, Move, deferreds
  <2>3. signals[i] = << >> /\ Len(signals[i]) = 0
    BY <2>2 DEF WaitInv
  <2>4. outstanding = Capacity => slot \in Wakes'
    <3>1. signals'[i] = ToSignal
      BY <1>a, <2>2
    <3>2. outstanding = Capacity =>
            \E n \in 1..Len(signals'[i]) : signals'[i][n] = [kind |-> "slot", gen |-> slot]
      BY <3>1, ToSignalElements
    <3> QED
      BY <1>a, <3>2 DEF Wakes, SlotPromised
  <2>5. Wakes \subseteq Wakes'
    <3>1. ASSUME NEW g \in Nat, NEW k \in Item, NEW n \in 1..Len(signals[k]),
                 signals[k][n] = [kind |-> "slot", gen |-> g]
          PROVE  g \in Wakes'
      <4>1. k # i
        BY <2>3, <3>1
      <4>2. signals'[k] = signals[k]
        BY <1>a, <2>2, <4>1
      <4> QED
        BY <3>1, <4>2 DEF Wakes, SlotPromised
    <3> QED
      BY <2>2, <3>1 DEF Wakes, SlotPromised
  <2>6. \A j \in Item : item'[j] \notin {"finishing", "dying"} => signals'[j] = << >>
    BY <1>a, <2>2 DEF WaitInv
  <2>7. \A j \in Item : item'[j] = "waiting" => item[j] = "waiting"
    BY <1>a, <2>2
  <2> QED
    BY <2>2, <2>4, <2>5, <2>6, <2>7 DEF WaitInv
<1>5. ASSUME NEW i \in Item, Signal(i) PROVE WaitInv'
  <2> DEFINE s == Head(signals[i])
  <2>1. signals[i] \in Seq(Signals) /\ signals[i] # << >>
    BY <1>5, <1>a DEF Signal
  <2>2. /\ s \in Signals /\ s = signals[i][1] /\ Len(signals[i]) \in Nat \ {0}
        /\ Len(Tail(signals[i])) = Len(signals[i]) - 1
        /\ \A n \in 1..Len(Tail(signals[i])) : Tail(signals[i])[n] = signals[i][n + 1]
    BY <2>1, HeadTailProperties
  <2>3. /\ UNCHANGED <<outstanding, slot, item, waitOn>>
        /\ signals' = [signals EXCEPT ![i] = Tail(signals[i])]
        /\ slotDone \subseteq slotDone'
        /\ s.kind # "idle" => s.gen \in slotDone'
    BY <1>5 DEF Signal, admission
  <2>4. Wakes \subseteq Wakes'
    <3>1. ASSUME NEW g \in Nat, NEW k \in Item, NEW n \in 1..Len(signals[k]),
                 signals[k][n] = [kind |-> "slot", gen |-> g]
          PROVE  g \in Wakes'
      <4>1. CASE k # i
        <5>1. signals'[k] = signals[k]
          BY <1>a, <2>3, <4>1
        <5> QED
          BY <3>1, <5>1 DEF Wakes, SlotPromised
      <4>2. CASE k = i /\ n = 1
        <5>1. s.kind = "slot" /\ s.gen = g
          BY <2>2, <3>1, <4>2
        <5> QED
          BY <2>3, <5>1 DEF Wakes
      <4>3. CASE k = i /\ n # 1
        <5>1. signals'[i] = Tail(signals[i])
          BY <1>a, <2>3
        <5>2. n - 1 \in 1..Len(signals'[i]) /\ signals'[i][n - 1] = signals[i][n]
          BY <2>2, <3>1, <4>3, <5>1
        <5> QED
          BY <3>1, <4>3, <5>2 DEF Wakes, SlotPromised
      <4> QED
        BY <4>1, <4>2, <4>3
    <3> QED
      BY <2>3, <3>1 DEF Wakes, SlotPromised
  <2>5. item[i] \in {"finishing", "dying"}
    BY <2>1 DEF WaitInv
  <2>6. \A j \in Item : item[j] \notin {"finishing", "dying"} => signals'[j] = << >>
    BY <1>a, <2>3, <2>5 DEF WaitInv
  <2> QED
    BY <2>3, <2>4, <2>6 DEF WaitInv
<1>6. ASSUME NEW i \in Item, Settle(i) PROVE WaitInv'
  <2>1. /\ item' = [item EXCEPT ![i] = "settled"] /\ signals[i] = << >>
        /\ UNCHANGED <<outstanding, slot, signals, slotDone, waitOn>>
    BY <1>6 DEF Settle, Move, admission, deferreds, NoneDropped
  <2> QED
    BY <2>1, <1>a, <1>q
<1>7. CASE Take
  <2>1. /\ item' = [item EXCEPT ![Head(queue)] = "running"]
        /\ UNCHANGED <<outstanding, slot, signals, slotDone, waitOn>>
    BY <1>7 DEF Take, Move, admission, deferreds
  <2>2. item[Head(queue)] = "queued"
    BY <1>7, TakeCount DEF Take
  <2> QED
    BY <2>1, <2>2, <1>a, <1>q
<1>8. CASE WorkerEnds
  BY <1>8, <1>q DEF WorkerEnds, admission, deferreds, itemVars
<1>9. ASSUME NEW c \in Controller, ControlStep(c) PROVE WaitInv'
  <2>1. UNCHANGED <<outstanding, slot, item, waitOn, signals>>
    BY <1>9 DEF ControlStep, CloseProducers, ProducersClosed, QuiesceAdmission,
       AnnounceQuiesce, MarkDraining, ReadIdle, Drained, ShutdownQueue, MarkStopped,
       admission, itemVars
  <2>2. slotDone \subseteq slotDone'
    BY <1>9 DEF ControlStep, CloseProducers, ProducersClosed, QuiesceAdmission,
       AnnounceQuiesce, MarkDraining, ReadIdle, Drained, ShutdownQueue, MarkStopped,
       deferreds
  <2> QED
    BY <2>1, <2>2, <1>q
<1>10. CASE UNCHANGED vars
  BY <1>10, <1>q DEF vars, admission, deferreds, itemVars
<1> QED
  BY <1>1, <1>2, <1>3, <1>4, <1>5, <1>6, <1>7, <1>8, <1>9, <1>10, StepCases

-----------------------------------------------------------------------------
(* Theorems *)

\* A worker just made satisfies the invariant.
LEMMA InitInd == Init => IndInv
<1> SUFFICES ASSUME Init PROVE IndInv
  OBVIOUS
<1> USE DEF Init
<1>a. Capacity \in Nat \ {0} /\ Free \notin Item
      /\ Job \in [Controller -> {"quiesce", "drain", "stop", "close"}]
      /\ Interrupts \in Nat
  BY CapacityAssumption, CallAssumption DEF CapacityAssumption, CallAssumption
<1>b. Held = {} /\ InQueue = {}
  BY DEF Held, InQueue
<1>1. TypeOK
  <2>1. queue \in Seq(Item) /\ signals \in [Item -> Seq(Signals)]
    BY EmptySeq
  <2>2. step \in [Controller -> Steps]
    BY <1>a DEF FirstStep, Steps
  <2>3. open \in BOOLEAN /\ closing \in BOOLEAN
    BY Zenon
  <2> QED
    BY <1>a, <2>1, <2>2, <2>3 DEF TypeOK, Phases, ItemStates
<1>2. CountInv
  <2>1. Cardinality(Held) = 0 /\ Cardinality(InQueue) = 0
    BY <1>b, FS_EmptySet
  <2> QED
    BY <1>a, <2>1 DEF CountInv
<1>3. GenInv
  BY <1>a DEF GenInv, SignalInv, DoneInv
<1>4. ControlInv
  BY <1>a DEF ControlInv, FirstStep, Stops
<1>5. DrainInv /\ WaitInv /\ NoneDropped
  BY DEF DrainInv, WaitInv, NoneDropped
<1> QED
  BY <1>1, <1>2, <1>3, <1>4, <1>5 DEF IndInv

\* Every step keeps the invariant.
LEMMA StepInd == IndInv /\ [Next]_vars => IndInv'
<1> SUFFICES ASSUME IndInv, [Next]_vars PROVE IndInv'
  OBVIOUS
<1> USE DEF IndInv
<1>1. CountInv' /\ NoneDropped'
  BY CountStep
<1>2. TypeOK'
  BY TypeStep
<1>3. GenInv'
  BY GenStep
<1>4. ControlInv'
  BY ControlInvStep
<1>5. DrainInv'
  BY DrainStep
<1>6. WaitInv'
  BY WaitStep
<1> QED
  BY <1>1, <1>2, <1>3, <1>4, <1>5, <1>6

\* The count, the Deferreds, the controllers and the waiting calls agree in
\* every reachable state of a drainable worker.
THEOREM WorkerInvariance == Spec => []IndInv
BY InitInd, StepInd, PTL DEF Spec

\* Every variable keeps its type.
THEOREM WorkerTypes == Spec => []TypeOK
<1>1. IndInv => TypeOK
  BY DEF IndInv
<1> QED
  BY <1>1, WorkerInvariance, PTL

\* The outstanding count is exact and within the capacity, and an offer of a
\* reserved item never suspends.
THEOREM WorkerAccounting == Spec => []Accounting
<1>1. IndInv => Accounting
  <2> SUFFICES ASSUME IndInv PROVE Accounting
    OBVIOUS
  <2>1. outstanding = Cardinality(Held) /\ outstanding <= Capacity
    BY DEF IndInv, CountInv
  <2>2. ASSUME NEW i \in Item, item[i] = "reserved"
        PROVE  Len(queue) < Capacity
    <3>1. i \notin InQueue /\ InQueue \cup {i} \subseteq Held
      BY <2>2 DEF InQueue, Held
    <3>2. Cardinality(InQueue \cup {i}) = Cardinality(InQueue) + 1
      BY <3>1, HeldFinite, FS_AddElement
    <3>3. Cardinality(InQueue \cup {i}) <= Cardinality(Held)
      BY <3>1, HeldFinite, FS_Subset
    <3>4. Len(queue) \in Nat /\ Len(queue) <= Cardinality(InQueue)
      BY DEF IndInv, TypeOK, CountInv
    <3> QED
      BY <2>1, <3>2, <3>3, <3>4, HeldFinite, CapacityAssumption DEF CapacityAssumption
  <2> QED
    BY <2>1, <2>2 DEF Accounting
<1> QED
  BY <1>1, WorkerInvariance, PTL

\* No call waits for a wake-up that was lost, and none spins.
THEOREM WorkerWakesUp == Spec => []NoLostWakeup
<1>1. IndInv => NoLostWakeup
  <2> SUFFICES ASSUME IndInv PROVE NoLostWakeup
    OBVIOUS
  <2>1. \A i \in Item : item[i] = "waiting" =>
            \/ waitOn[i] \in slotDone
            \/ waitOn[i] = slot /\ outstanding = Capacity
            \/ SlotPromised(waitOn[i])
    BY DEF IndInv, WaitInv, Wakes
  <2>2. (phase = "running" /\ outstanding = Capacity) => slot \notin slotDone
    BY CapacityAssumption DEF IndInv, GenInv, DoneInv, CapacityAssumption
  <2> QED
    BY <2>1, <2>2 DEF NoLostWakeup
<1> QED
  BY <1>1, WorkerInvariance, PTL

\* The phases only follow one another, and the last one stays.
Advance ==
    \/ phase' = phase
    \/ phase = "running" /\ phase' = "quiescing"
    \/ phase # "stopped" /\ phase' = "draining"
    \/ phase' = "stopped"

LEMMA PhaseAdvances == [Next]_vars => Advance
<1> SUFFICES ASSUME [Next]_vars PROVE Advance
  OBVIOUS
<1>1. ASSUME NEW i \in Item, Reserve(i) \/ Cancel(i) \/ Offer(i) \/ Process(i)
                              \/ Signal(i) \/ Settle(i)
      PROVE  phase' = phase
  BY <1>1 DEF Reserve, Cancel, Offer, Process, Release, Signal, Settle, admission
<1>2. CASE Take \/ WorkerEnds \/ UNCHANGED vars
  BY <1>2 DEF Take, WorkerEnds, vars, admission, Advance
<1>3. ASSUME NEW c \in Controller, ControlStep(c)
      PROVE  Advance
  BY <1>3 DEF ControlStep, CloseProducers, ProducersClosed, QuiesceAdmission,
     AnnounceQuiesce, MarkDraining, ReadIdle, Drained, ShutdownQueue, MarkStopped,
     admission, Advance
<1> QED
  BY <1>1, <1>2, <1>3, StepCases DEF Advance

\* A stop that has returned left the worker stopped.
StoppedInv == \A c \in Controller : step[c] = "done" /\ Stops(c) => phase = "stopped"

LEMMA StoppedStep == IndInv /\ StoppedInv /\ [Next]_vars => StoppedInv'
<1> SUFFICES ASSUME IndInv, StoppedInv, [Next]_vars,
                    NEW c \in Controller, step'[c] = "done", Stops(c)
             PROVE  phase' = "stopped"
  BY DEF StoppedInv, Stops
<1>1. phase = "stopped" => phase' = "stopped"
  BY PhaseAdvances DEF Advance
<1>2. step[c] = "done" => phase = "stopped"
  BY DEF StoppedInv
<1>3. step[c] = "done" \/ phase' = "stopped"
  <2>1. ASSUME NEW i \in Item, Reserve(i) \/ Cancel(i) \/ Offer(i) \/ Process(i)
                                \/ Signal(i) \/ Settle(i)
        PROVE  step' = step
    BY <2>1 DEF Reserve, Cancel, Offer, Process, Release, Signal, Settle, control
  <2>2. CASE Take \/ WorkerEnds \/ UNCHANGED vars
    BY <2>2 DEF Take, WorkerEnds, vars, control
  <2>3. ASSUME NEW d \in Controller, ControlStep(d)
        PROVE  step[c] = "done" \/ phase' = "stopped"
    <3>1. step \in [Controller -> Steps]
      BY DEF IndInv, TypeOK
    <3>2. Job[d] # "quiesce" => AfterQuiesce(d) = "mark"
      BY DEF AfterQuiesce
    <3>3. c # d => step'[c] = step[c]
      BY <2>3, <3>1 DEF ControlStep, CloseProducers, ProducersClosed, QuiesceAdmission, AnnounceQuiesce,
         MarkDraining, ReadIdle, Drained, ShutdownQueue, MarkStopped, Step
    <3>4. c = d => MarkStopped(d)
      BY <2>3, <3>1, <3>2 DEF ControlStep, CloseProducers, ProducersClosed, QuiesceAdmission,
         AnnounceQuiesce, MarkDraining, ReadIdle, Drained, ShutdownQueue, Step, Stops
    <3> QED
      BY <3>3, <3>4 DEF MarkStopped
  <2> QED
    BY <2>1, <2>2, <2>3, StepCases
<1> QED
  BY <1>1, <1>2, <1>3

\* A stop discards no accepted item, and it is for good.
THEOREM WorkerStopsCleanly == Spec => []StopIsClean
<1>1. IndInv /\ StoppedInv => StopIsClean
  <2> SUFFICES ASSUME IndInv, StoppedInv PROVE StopIsClean
    OBVIOUS
  <2>1. ~open => Held = {}
    BY HeldFinite DEF IndInv, ControlInv, CountInv
  <2> QED
    BY <2>1 DEF StopIsClean, StoppedInv, Stops, IndInv, NoneDropped
<1>2. Init => StoppedInv
  BY DEF Init, StoppedInv, Stops, FirstStep
<1> QED
  BY <1>1, <1>2, StoppedStep, WorkerInvariance, PTL DEF Spec

\* A drain that returns has seen every item accepted before it was asked
\* through to its end.
THEOREM WorkerDrainsHonestly == Spec => []DrainIsHonest
<1>1. IndInv => DrainIsHonest
  BY DEF IndInv, DrainInv, DrainIsHonest
<1> QED
  BY <1>1, WorkerInvariance, PTL

\* Overlapping quiesce and stop calls never take the phase back.
THEOREM WorkerPhases == Spec => PhaseOnlyAdvances
<1>1. IndInv /\ [Next]_vars => [Rank(phase) <= Rank(phase')]_vars
  <2> SUFFICES ASSUME IndInv, [Next]_vars PROVE Rank(phase) <= Rank(phase')
    OBVIOUS
  <2>1. phase \in Phases
    BY DEF IndInv, TypeOK
  <2>2. Advance
    BY PhaseAdvances
  <2> QED
    BY <2>1, <2>2 DEF Advance, Rank, Phases
<1> QED
  BY <1>1, WorkerInvariance, PTL DEF Spec, PhaseOnlyAdvances
=============================================================================
