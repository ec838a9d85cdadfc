------------------------------- MODULE TQueue -------------------------------
(***************************************************************************)
(* utils/tqueue.c: the lock-free bounded queue behind the transaction      *)
(* queue, the queues of the I/O threads and the ring of log lines.         *)
(*                                                                         *)
(* Every atomic load, store and compare-and-swap of push_tqueue and        *)
(* pop_tqueue, and every memcpy of a payload, is a step of its own, so any *)
(* number of other threads may run between two of them.  A ticket is a     *)
(* value of `end` (or `at`) that a thread has read; the slot of a ticket   *)
(* is ticket & (capacity - 1), which is ticket % capacity for the powers   *)
(* of two that create_tqueue accepts.                                      *)
(***************************************************************************)
EXTENDS Integers, FiniteSets

CONSTANTS
    Producers,   \* threads that call push_tqueue
    Consumers,   \* threads that call pop_tqueue
    Values,      \* payloads
    None,        \* "no value": not a payload and not a thread
    Capacity,    \* number of slots
    MaxTicket    \* bound: no push starts once `end` has reached it

ASSUME ThreadsAssumption == Producers \cap Consumers = {}
ASSUME NoneAssumption    == None \notin Values \cup Producers \cup Consumers \cup Nat
ASSUME CapacityAssumption == Capacity \in Nat \ {0}
ASSUME PowerAssumption   == \E k \in 0..Capacity : Capacity = 2^k
ASSUME BoundAssumption   == MaxTicket \in Nat

VARIABLES
    end,    \* ticket of the next push
    at,     \* ticket of the next pop
    seq,    \* per slot: the ticket it is free for, or the ticket it holds + 1
    data,   \* per slot: the payload
    pc,     \* per thread: where it is in push_tqueue or pop_tqueue
    tkt,    \* per thread: its local copy of `end` or `at`
    arg,    \* per producer: the value it pushes
    got,    \* per consumer: the destination of its pop
    obs,    \* estimate_tqueue_size: the `at` it has read, or None
    est     \* the size it returned, until it is called again

vars == <<end, at, seq, data, pc, tkt, arg, got, obs, est>>

Threads == Producers \cup Consumers
Slots   == 0..(Capacity - 1)
Slot(t) == t % Capacity

\* Producers and consumers that own a slot: their compare-and-swap succeeded
\* and they have not yet stored the slot's sequence number.
Filling   == {p \in Producers : pc[p] \in {"copy", "store"}}
Emptying  == {c \in Consumers : pc[c] \in {"copy", "store"}}

TypeOK ==
    /\ end \in Nat
    /\ at \in Nat
    /\ seq \in [Slots -> Nat]
    /\ data \in [Slots -> Values \cup {None}]
    /\ pc \in [Threads -> {"idle", "reload", "check", "cas", "copy", "store"}]
    /\ tkt \in [Threads -> Nat]
    /\ arg \in [Producers -> Values \cup {None}]
    /\ got \in [Consumers -> Values \cup {None}]
    /\ obs \in Nat \cup {None}
    /\ est \in Int

\* Seeded fault: init_state writes at - 1.
InitOffByOne ==
    /\ end = 0
    /\ at = 0
    /\ seq = [i \in Slots |-> i - 1]
    /\ data = [i \in Slots |-> None]
    /\ pc = [t \in Threads |-> "idle"]
    /\ tkt = [t \in Threads |-> 0]
    /\ arg = [p \in Producers |-> None]
    /\ got = [c \in Consumers |-> None]
    /\ obs = None
    /\ est = 0

\* create_tqueue: slot i waits for ticket i.
Init ==
    /\ end = 0
    /\ at = 0
    /\ seq = [i \in Slots |-> i]
    /\ data = [i \in Slots |-> None]
    /\ pc = [t \in Threads |-> "idle"]
    /\ tkt = [t \in Threads |-> 0]
    /\ arg = [p \in Producers |-> None]
    /\ got = [c \in Consumers |-> None]
    /\ obs = None
    /\ est = 0

Goto(t, l) == pc' = [pc EXCEPT ![t] = l]

-----------------------------------------------------------------------------
(***************************************************************************)
(* push_tqueue                                                             *)
(***************************************************************************)
\* The call and its first relaxed load of `end`.
PushCall(p, v) ==
    /\ pc[p] = "idle"
    /\ end < MaxTicket
    /\ arg' = [arg EXCEPT ![p] = v]
    /\ tkt' = [tkt EXCEPT ![p] = end]
    /\ Goto(p, "check")
    /\ UNCHANGED <<end, at, seq, data, got, obs, est>>

\* The load again, when the slot is ahead of the ticket.
PushReload(p) ==
    /\ pc[p] = "reload"
    /\ tkt' = [tkt EXCEPT ![p] = end]
    /\ Goto(p, "check")
    /\ UNCHANGED <<end, at, seq, data, arg, got, obs, est>>

\* Seeded fault: a slot that is still a lap behind is taken for free.
PushCheckOverwrites(p) ==
    /\ pc[p] = "check"
    /\ Goto(p, IF seq[Slot(tkt[p])] <= tkt[p] THEN "cas" ELSE "reload")
    /\ UNCHANGED <<end, at, seq, data, tkt, arg, got, obs, est>>

\* Seeded fault: a stale ticket is reported as a full queue.
PushCheckGivesUp(p) ==
    /\ pc[p] = "check"
    /\ LET free == seq[Slot(tkt[p])] = tkt[p]
       IN  /\ Goto(p, IF free THEN "cas" ELSE "idle")
           /\ arg' = IF free THEN arg ELSE [arg EXCEPT ![p] = None]
           /\ tkt' = IF free THEN tkt ELSE [tkt EXCEPT ![p] = 0]
    /\ UNCHANGED <<end, at, seq, data, got, obs, est>>

\* The load of the slot's sequence number and the branch on seq - end: equal,
\* the slot is free for this ticket; behind, the queue is full; ahead, the
\* ticket is stale.
PushCheck(p) ==
    /\ pc[p] = "check"
    /\ LET diff == seq[Slot(tkt[p])] - tkt[p]
       IN  /\ Goto(p, IF diff = 0 THEN "cas" ELSE IF diff < 0 THEN "idle" ELSE "reload")
           /\ arg' = IF diff < 0 THEN [arg EXCEPT ![p] = None] ELSE arg
           /\ tkt' = IF diff < 0 THEN [tkt EXCEPT ![p] = 0] ELSE tkt
    /\ UNCHANGED <<end, at, seq, data, got, obs, est>>

PushClaim(p) ==
    /\ pc[p] = "cas"
    /\ end = tkt[p]
    /\ end' = end + 1
    /\ Goto(p, "copy")
    /\ UNCHANGED <<at, seq, data, tkt, arg, got, obs, est>>

\* A failed compare-and-swap writes the current `end` into the local copy; a
\* weak one may also fail although the ticket is current.
PushClaimFail(p) ==
    /\ pc[p] = "cas"
    /\ tkt' = [tkt EXCEPT ![p] = end]
    /\ Goto(p, "check")
    /\ UNCHANGED <<end, at, seq, data, arg, got, obs, est>>

PushCopy(p) ==
    /\ pc[p] = "copy"
    /\ data' = [data EXCEPT ![Slot(tkt[p])] = arg[p]]
    /\ Goto(p, "store")
    /\ UNCHANGED <<end, at, seq, tkt, arg, got, obs, est>>

\* Seeded fault: the slot is stored with its own ticket, not ticket + 1.
PushStoreUnpublished(p) ==
    /\ pc[p] = "store"
    /\ seq' = [seq EXCEPT ![Slot(tkt[p])] = tkt[p]]
    /\ arg' = [arg EXCEPT ![p] = None]
    /\ tkt' = [tkt EXCEPT ![p] = 0]
    /\ Goto(p, "idle")
    /\ UNCHANGED <<end, at, data, got, obs, est>>

\* The release store of end + 1 publishes the slot; push_tqueue returns.
PushStore(p) ==
    /\ pc[p] = "store"
    /\ seq' = [seq EXCEPT ![Slot(tkt[p])] = tkt[p] + 1]
    /\ arg' = [arg EXCEPT ![p] = None]
    /\ tkt' = [tkt EXCEPT ![p] = 0]
    /\ Goto(p, "idle")
    /\ UNCHANGED <<end, at, data, got, obs, est>>

-----------------------------------------------------------------------------
(***************************************************************************)
(* pop_tqueue                                                              *)
(***************************************************************************)
PopCall(c) ==
    /\ pc[c] = "idle"
    /\ tkt' = [tkt EXCEPT ![c] = at]
    /\ Goto(c, "check")
    /\ UNCHANGED <<end, at, seq, data, arg, got, obs, est>>

PopReload(c) ==
    /\ pc[c] = "reload"
    /\ tkt' = [tkt EXCEPT ![c] = at]
    /\ Goto(c, "check")
    /\ UNCHANGED <<end, at, seq, data, arg, got, obs, est>>

\* Behind at + 1: nothing published in the oldest slot, pop returns false.
PopCheck(c) ==
    /\ pc[c] = "check"
    /\ LET diff == seq[Slot(tkt[c])] - (tkt[c] + 1)
       IN  /\ Goto(c, IF diff = 0 THEN "cas" ELSE IF diff < 0 THEN "idle" ELSE "reload")
           /\ tkt' = IF diff < 0 THEN [tkt EXCEPT ![c] = 0] ELSE tkt
    /\ UNCHANGED <<end, at, seq, data, arg, got, obs, est>>

\* Seeded fault: a plain store of at + 1 in place of the compare-and-swap.
PopClaimBlind(c) ==
    /\ pc[c] = "cas"
    /\ at' = tkt[c] + 1
    /\ Goto(c, "copy")
    /\ UNCHANGED <<end, seq, data, tkt, arg, got, obs, est>>

PopClaim(c) ==
    /\ pc[c] = "cas"
    /\ at = tkt[c]
    /\ at' = at + 1
    /\ Goto(c, "copy")
    /\ UNCHANGED <<end, seq, data, tkt, arg, got, obs, est>>

PopClaimFail(c) ==
    /\ pc[c] = "cas"
    /\ tkt' = [tkt EXCEPT ![c] = at]
    /\ Goto(c, "check")
    /\ UNCHANGED <<end, at, seq, data, arg, got, obs, est>>

PopCopy(c) ==
    /\ pc[c] = "copy"
    /\ got' = [got EXCEPT ![c] = data[Slot(tkt[c])]]
    /\ Goto(c, "store")
    /\ UNCHANGED <<end, at, seq, data, tkt, arg, obs, est>>

\* The release store of at + capacity frees the slot for the next lap; the
\* caller gets the value.
PopStore(c) ==
    /\ pc[c] = "store"
    /\ seq' = [seq EXCEPT ![Slot(tkt[c])] = tkt[c] + Capacity]
    /\ got' = [got EXCEPT ![c] = None]
    /\ tkt' = [tkt EXCEPT ![c] = 0]
    /\ Goto(c, "idle")
    /\ UNCHANGED <<end, at, data, arg, obs, est>>

-----------------------------------------------------------------------------
(***************************************************************************)
(* estimate_tqueue_size: two loads, `at` before `end`.                     *)
(***************************************************************************)
\* Seeded fault: `end` is read before `at`.
EstimateSwapped ==
    /\ \/ /\ obs = None
          /\ obs' = end
          /\ est' = 0
       \/ /\ obs # None
          /\ est' = obs - at
          /\ obs' = None
    /\ UNCHANGED <<end, at, seq, data, pc, tkt, arg, got>>

Estimate ==
    /\ \/ /\ obs = None
          /\ obs' = at
          /\ est' = 0
       \/ /\ obs # None
          /\ est' = end - obs
          /\ obs' = None
    /\ UNCHANGED <<end, at, seq, data, pc, tkt, arg, got>>

-----------------------------------------------------------------------------
PushStep(p) ==
    \/ \E v \in Values : PushCall(p, v)
    \/ PushReload(p)
    \/ PushCheck(p)
    \/ PushClaim(p)
    \/ PushClaimFail(p)
    \/ PushCopy(p)
    \/ PushStore(p)

PopStep(c) ==
    \/ PopCall(c)
    \/ PopReload(c)
    \/ PopCheck(c)
    \/ PopClaim(c)
    \/ PopClaimFail(c)
    \/ PopCopy(c)
    \/ PopStore(c)

Next ==
    \/ \E p \in Producers : PushStep(p)
    \/ \E c \in Consumers : PopStep(c)
    \/ Estimate

Spec == Init /\ [][Next]_vars

\* A thread inside push or pop keeps running; the consumers keep polling; a
\* compare-and-swap that is current infinitely often succeeds in the end.
Fairness ==
    /\ \A p \in Producers :
          /\ WF_vars(PushReload(p) \/ PushCheck(p) \/ PushCopy(p) \/ PushStore(p))
          /\ WF_vars(PushClaimFail(p) \/ PushClaim(p))
          /\ SF_vars(PushClaim(p))
    /\ \A c \in Consumers :
          /\ WF_vars(PopCall(c) \/ PopReload(c) \/ PopCheck(c) \/ PopCopy(c) \/ PopStore(c))
          /\ WF_vars(PopClaimFail(c) \/ PopClaim(c))
          /\ SF_vars(PopClaim(c))

FairSpec == Spec /\ Fairness

-----------------------------------------------------------------------------
(***************************************************************************)
(* Properties                                                              *)
(***************************************************************************)

\* Two threads that have won a compare-and-swap never own the same slot at the
\* same time: the memcpy of push_tqueue into a slot and the memcpy of
\* pop_tqueue out of it never overlap with each other or with another push.
SlotExclusive ==
    \A t, u \in Filling \cup Emptying :
        t # u => Slot(tkt[t]) # Slot(tkt[u])

(***************************************************************************)
(* Why SlotExclusive holds: the ledger of tickets.  Each of the `Capacity` *)
(* tickets from `at` on stands for one slot.  It is inductive when there   *)
(* are at least two slots (TQueueProofs).                                  *)
(***************************************************************************)
Window == at <= end /\ end <= at + Capacity

\* A producer that has claimed a ticket holds its slot unpublished.
FillingLedger ==
    /\ \A p \in Filling :
          at <= tkt[p] /\ tkt[p] < end /\ seq[Slot(tkt[p])] = tkt[p]
    /\ \A p, q \in Filling : tkt[p] = tkt[q] => p = q

\* A consumer that has claimed a ticket holds its slot unreleased.
EmptyingLedger ==
    /\ \A c \in Emptying :
          tkt[c] < at /\ end <= tkt[c] + Capacity /\ seq[Slot(tkt[c])] = tkt[c] + 1
    /\ \A c, d \in Emptying : tkt[c] = tkt[d] => c = d

\* A queued ticket is published or still held by its producer.
QueuedLedger ==
    \A t \in at..(end - 1) :
        seq[Slot(t)] = t + 1 \/ \E p \in Filling : tkt[p] = t

\* The next ticket of a free slot: released, or held by the last consumer.
FreeLedger ==
    \A t \in end..(at + Capacity - 1) :
        seq[Slot(t)] = t \/ \E c \in Emptying : tkt[c] + Capacity = t

\* What a thread knows between its check and its compare-and-swap.
ChecksCurrent ==
    /\ \A p \in Producers : pc[p] \in {"check", "cas"} => tkt[p] <= end
    /\ \A p \in Producers : pc[p] = "cas" /\ tkt[p] = end => seq[Slot(end)] = end
    /\ \A c \in Consumers : pc[c] \in {"check", "cas"} => tkt[c] <= at
    /\ \A c \in Consumers : pc[c] = "cas" /\ tkt[c] = at => seq[Slot(at)] = at + 1

\* The inductive invariant behind SlotExclusive: who may touch each slot of
\* utils/tqueue.c is decided by `at`, `end` and the sequence numbers alone.
Ledger ==
    /\ Window
    /\ FillingLedger
    /\ EmptyingLedger
    /\ QueuedLedger
    /\ FreeLedger
    /\ ChecksCurrent

\* push_tqueue returns NULL only when a whole lap is outstanding: some ticket
\* at least `capacity` older than the one it tried is still queued, or is
\* still being copied out by a consumer.
FullOnlyWhenFull ==
    [][\A p \in Producers :
          (pc[p] = "check" /\ pc'[p] = "idle") =>
              \E t \in (at..(end - 1)) \cup {tkt[c] : c \in Emptying} :
                  t + Capacity <= tkt[p]]_vars

\* estimate_tqueue_size reads `at` before `end`, so that end - at cannot wrap
\* below zero however many pops run between the two loads.
EstimateNeverNegative == est >= 0

\* The cells of the abstract queue: ticket `at` is the oldest.
CellOf(t) ==
    IF \E p \in Filling : tkt[p] = t
    THEN LET p == CHOOSE p \in Filling : tkt[p] = t
         IN  [val |-> arg[p], by |-> p]
    ELSE [val |-> data[Slot(t)], by |-> None]

Fifo == INSTANCE ReserveFifo WITH
    cells <- [i \in 1..(end - at) |-> CellOf(at + i - 1)],
    taken <- [c \in Consumers |->
                 IF pc[c] = "copy" THEN data[Slot(tkt[c])] ELSE got[c]]

\* push_tqueue and pop_tqueue implement a bounded FIFO queue: a push takes
\* effect at its compare-and-swap, a pop removes the oldest published value at
\* its own, and nothing is lost, duplicated, reordered or overwritten.
ImplementsFifo == Fifo!FSpec

\* Every ticket a push has claimed is popped in the end, as long as the
\* threads keep running: no slot is left unpublished or unreleased, which
\* would jam the ring for good one lap later.
EveryTicketPopped ==
    \A k \in 1..MaxTicket : (end >= k) ~> (at >= k)
=============================================================================
