-------------------------- MODULE OrchestrationLog --------------------------
(***************************************************************************)
(* What the orchestration engine promises to the clients that dispatch     *)
(* commands to it, whatever happens inside: queues, locks, deadlines,      *)
(* crashes and restarts.                                                   *)
(*                                                                         *)
(*   - the event log only grows, one whole command at a time;              *)
(*   - a command id is decided once: a receipt, once written, is final;    *)
(*   - a client is told a sequence number only after the command is        *)
(*     committed, and every client that asks with that id is told the same *)
(*     number.                                                             *)
(*                                                                         *)
(* OrchestrationEngine implements this module (see the Log instance there).*)
(***************************************************************************)
EXTENDS Naturals, Sequences

CONSTANTS
    Envelope,      \* the dispatch calls clients may make
    CommandId,     \* the ids clients put on their commands
    Command,       \* [Envelope -> CommandId], the id each call carries
    MaxEvents,     \* bound: events one command may produce
    NoReceipt      \* a command id nothing is recorded for

VARIABLES
    log,           \* orchestration_events: the call that wrote each event
    receipts,      \* orchestration_command_receipts, by command id
    told           \* <<command id, sequence>> pairs clients were given

vars == <<log, receipts, told>>

Accepted(e, n) == [status |-> "accepted", seq |-> n, by |-> e]
Rejected(e, n) == [status |-> "rejected", seq |-> n, by |-> e]

Init ==
    /\ log = << >>
    /\ receipts = [c \in CommandId |-> NoReceipt]
    /\ told = {}

Undecided(e) == receipts[Command[e]] = NoReceipt

Commit(e, n) ==
    /\ Undecided(e)
    /\ log' = log \o [i \in 1..n |-> e]
    /\ receipts' = [receipts EXCEPT ![Command[e]] = Accepted(e, Len(log) + n)]
    /\ UNCHANGED told

Reject(e) ==
    /\ Undecided(e)
    /\ \E n \in 0..Len(log) : receipts' = [receipts EXCEPT ![Command[e]] = Rejected(e, n)]
    /\ UNCHANGED <<log, told>>

Tell(c) ==
    /\ receipts[c] # NoReceipt
    /\ receipts[c].status = "accepted"
    /\ told' = told \cup {<<c, receipts[c].seq>>}
    /\ UNCHANGED <<log, receipts>>

Next ==
    \/ \E e \in Envelope, n \in 1..MaxEvents : Commit(e, n)
    \/ \E e \in Envelope : Reject(e)
    \/ \E c \in CommandId : Tell(c)

Spec == Init /\ [][Next]_vars
=============================================================================
