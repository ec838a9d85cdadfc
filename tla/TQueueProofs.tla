---------------------------- MODULE TQueueProofs ----------------------------
(***************************************************************************)
(* Proofs about TQueue, for any sets of threads and payloads, any number   *)
(* of tickets and any capacity of at least two slots.                      *)
(***************************************************************************)
EXTENDS TQueue, SequenceTheorems, TLAPS

-----------------------------------------------------------------------------
(***************************************************************************)
(* The arithmetic of slots.                                                *)
(***************************************************************************)

\* A ticket's slot exists.
LEMMA SlotInRange ==
    ASSUME NEW t \in Nat
    PROVE  Slot(t) \in Slots
BY CapacityAssumption DEF Slot, Slots

\* A product with the capacity grows by at least a lap per unit.
LEMMA LapStep ==
    ASSUME NEW q \in Int, NEW r \in Int, q < r
    PROVE  Capacity * q + Capacity <= Capacity * r
<1> DEFINE d == r - q
<1>1. d \in Nat /\ d >= 1 /\ r = q + d
  OBVIOUS
<1>2. Capacity * r = Capacity * q + Capacity * d
  BY CapacityAssumption, <1>1
<1>3. Capacity * d >= Capacity
  <2> HIDE DEF d
  <2>1. Capacity \in Nat
    BY CapacityAssumption
  <2>2. PICK e \in Nat : d = e + 1
    <3>1. d - 1 \in Nat /\ d = (d - 1) + 1
      BY <1>1
    <3> QED
      BY <3>1
  <2>3. Capacity * (e + 1) = Capacity * e + Capacity
    BY <2>1
  <2>4. Capacity * e \in Nat
    BY <2>1
  <2> QED
    BY <2>1, <2>2, <2>3, <2>4
<1> QED
  <2>1. Capacity * q \in Int /\ Capacity * d \in Int /\ Capacity * r \in Int
    BY CapacityAssumption, <1>1
  <2> QED
    BY <1>2, <1>3, <2>1, CapacityAssumption

\* Quotient and remainder are unique.
LEMMA Remainder ==
    ASSUME NEW q \in Int, NEW r \in Int,
           NEW i \in Slots, NEW j \in Slots,
           Capacity * q + i = Capacity * r + j
    PROVE  q = r /\ i = j
<1>0. Capacity * q \in Int /\ Capacity * r \in Int /\ Capacity \in Nat
  BY CapacityAssumption
<1>1. i \in Int /\ j \in Int /\ i >= 0 /\ j >= 0 /\ i < Capacity /\ j < Capacity
  BY CapacityAssumption DEF Slots
<1>2. ~(q < r)
  BY <1>0, <1>1, LapStep
<1>3. ~(r < q)
  BY <1>0, <1>1, LapStep
<1>4. q = r
  BY <1>2, <1>3
<1> QED
  BY <1>0, <1>1, <1>4

\* A ticket is its slot plus whole laps.
LEMMA TicketSplit ==
    ASSUME NEW t \in Nat
    PROVE  /\ t \div Capacity \in Int
           /\ Slot(t) \in Slots
           /\ t = Capacity * (t \div Capacity) + Slot(t)
BY CapacityAssumption, SlotInRange DEF Slot

\* In the first lap a ticket is its own slot.
LEMMA FirstLap ==
    ASSUME NEW t \in Slots
    PROVE  Slot(t) = t
<1>1. t \in Nat
  BY CapacityAssumption DEF Slots
<1>2. PICK q \in Int : t = Capacity * q + Slot(t) /\ Slot(t) \in Slots
  BY <1>1, TicketSplit
<1>3. Capacity * 0 + t = Capacity * q + Slot(t)
  BY <1>1, <1>2, CapacityAssumption
<1> QED
  BY <1>2, <1>3, Remainder

\* One lap later a ticket is back at its slot.
LEMMA SlotLap ==
    ASSUME NEW t \in Nat
    PROVE  Slot(t + Capacity) = Slot(t)
<1> DEFINE u == t + Capacity
           a == t \div Capacity
           b == u \div Capacity
<1>1. u \in Nat /\ Capacity \in Nat
  BY CapacityAssumption
<1>2. a \in Int /\ Slot(t) \in Slots /\ t = Capacity * a + Slot(t)
  BY TicketSplit
<1>3. b \in Int /\ Slot(u) \in Slots /\ u = Capacity * b + Slot(u)
  BY <1>1, TicketSplit
<1>4. Capacity * (a + 1) = Capacity * a + Capacity
  BY <1>1, <1>2
<1>5. Capacity * (a + 1) + Slot(t) = Capacity * b + Slot(u)
  <2>1. u = t + Capacity
    OBVIOUS
  <2> HIDE DEF a, b, u
  <2>2. Capacity * a \in Int /\ Capacity * b \in Int /\ Slot(t) \in Int /\ Slot(u) \in Int
    BY <1>1, <1>2, <1>3 DEF Slots
  <2> QED
    BY <1>1, <1>2, <1>3, <1>4, <2>1, <2>2
<1> HIDE DEF a, b, u
<1>6. Slot(t) = Slot(u)
  BY <1>2, <1>3, <1>5, Remainder
<1> QED
  BY <1>6 DEF u

\* Tickets less than a lap apart have different slots.
LEMMA SlotDistinct ==
    ASSUME NEW t \in Nat, NEW u \in Nat, t < u, u < t + Capacity
    PROVE  Slot(t) # Slot(u)
<1> DEFINE a == t \div Capacity
           b == u \div Capacity
<1>1. a \in Int /\ Slot(t) \in Slots /\ t = Capacity * a + Slot(t)
  BY TicketSplit
<1>2. b \in Int /\ Slot(u) \in Slots /\ u = Capacity * b + Slot(u)
  BY TicketSplit
<1> HIDE DEF a, b
<1>3. Capacity * a \in Int /\ Capacity * b \in Int /\ Capacity \in Nat
  BY <1>1, <1>2, CapacityAssumption
<1>4. SUFFICES ASSUME Slot(t) = Slot(u) PROVE FALSE
  OBVIOUS
<1>5. Slot(t) \in Int
  BY <1>1 DEF Slots
<1>6. Capacity * a < Capacity * b /\ Capacity * b < Capacity * a + Capacity
  BY <1>1, <1>2, <1>3, <1>4, <1>5
<1>7. CASE a < b
  BY <1>1, <1>2, <1>3, <1>6, <1>7, LapStep
<1>8. CASE b < a
  BY <1>1, <1>2, <1>3, <1>6, <1>8, LapStep
<1>9. CASE a = b
  BY <1>3, <1>6, <1>9
<1> QED
  BY <1>1, <1>2, <1>7, <1>8, <1>9

-----------------------------------------------------------------------------
(***************************************************************************)
(* Type correctness.                                                       *)
(***************************************************************************)

\* Every step of push_tqueue, pop_tqueue and estimate_tqueue_size keeps the
\* cursors, sequence numbers and local tickets within their types.
LEMMA TypeStep == TypeOK /\ [Next]_vars => TypeOK'
<1> SUFFICES ASSUME TypeOK, [Next]_vars PROVE TypeOK'
  OBVIOUS
<1> USE CapacityAssumption
<1>1. ASSUME NEW p \in Producers, NEW v \in Values, PushCall(p, v) PROVE TypeOK'
  BY <1>1 DEF PushCall, TypeOK, Goto, Threads
<1>2. ASSUME NEW p \in Producers, PushReload(p) PROVE TypeOK'
  BY <1>2 DEF PushReload, TypeOK, Goto, Threads
<1>3. ASSUME NEW p \in Producers, PushCheck(p) PROVE TypeOK'
  BY <1>3 DEF PushCheck, TypeOK, Goto, Threads
<1>4. ASSUME NEW p \in Producers, PushClaim(p) PROVE TypeOK'
  BY <1>4 DEF PushClaim, TypeOK, Goto, Threads
<1>5. ASSUME NEW p \in Producers, PushClaimFail(p) PROVE TypeOK'
  BY <1>5 DEF PushClaimFail, TypeOK, Goto, Threads
<1>6. ASSUME NEW p \in Producers, PushCopy(p) PROVE TypeOK'
  BY <1>6, SlotInRange DEF PushCopy, TypeOK, Goto, Threads
<1>7. ASSUME NEW p \in Producers, PushStore(p) PROVE TypeOK'
  BY <1>7, SlotInRange DEF PushStore, TypeOK, Goto, Threads
<1>8. ASSUME NEW c \in Consumers, PopCall(c) PROVE TypeOK'
  BY <1>8 DEF PopCall, TypeOK, Goto, Threads
<1>9. ASSUME NEW c \in Consumers, PopReload(c) PROVE TypeOK'
  BY <1>9 DEF PopReload, TypeOK, Goto, Threads
<1>10. ASSUME NEW c \in Consumers, PopCheck(c) PROVE TypeOK'
  BY <1>10 DEF PopCheck, TypeOK, Goto, Threads
<1>11. ASSUME NEW c \in Consumers, PopClaim(c) PROVE TypeOK'
  BY <1>11 DEF PopClaim, TypeOK, Goto, Threads
<1>12. ASSUME NEW c \in Consumers, PopClaimFail(c) PROVE TypeOK'
  BY <1>12 DEF PopClaimFail, TypeOK, Goto, Threads
<1>13. ASSUME NEW c \in Consumers, PopCopy(c) PROVE TypeOK'
  BY <1>13, SlotInRange DEF PopCopy, TypeOK, Goto, Threads
<1>14. ASSUME NEW c \in Consumers, PopStore(c) PROVE TypeOK'
  BY <1>14, SlotInRange DEF PopStore, TypeOK, Goto, Threads
<1>15. CASE Estimate
  BY <1>15 DEF Estimate, TypeOK
<1>16. CASE UNCHANGED vars
  BY <1>16 DEF vars, TypeOK
<1> QED
  BY <1>1, <1>2, <1>3, <1>4, <1>5, <1>6, <1>7, <1>8, <1>9, <1>10, <1>11, <1>12,
     <1>13, <1>14, <1>15, <1>16 DEF Next, PushStep, PopStep

\* The type invariant of the queue holds in every behaviour of push_tqueue,
\* pop_tqueue and estimate_tqueue_size, whatever the threads interleave.
THEOREM TypeCorrect == Spec => []TypeOK
<1>1. Init => TypeOK
  BY CapacityAssumption DEF Init, TypeOK, Slots
<1> QED
  BY <1>1, TypeStep, PTL DEF Spec

-----------------------------------------------------------------------------
(***************************************************************************)
(* The ledger of tickets is inductive.                                     *)
(***************************************************************************)

\* Steps that move no cursor, no sequence number and no slot's owner.
LEMMA LedgerFrame ==
    ASSUME Ledger, end' = end, at' = at, seq' = seq,
           Filling' = Filling, Emptying' = Emptying,
           \A t \in Filling \cup Emptying : tkt'[t] = tkt[t],
           ChecksCurrent'
    PROVE  Ledger'
<1>1. Window'
  BY DEF Ledger, Window
<1>2. FillingLedger'
  BY DEF Ledger, FillingLedger
<1>3. EmptyingLedger'
  BY DEF Ledger, EmptyingLedger
<1>4. QueuedLedger'
  BY DEF Ledger, QueuedLedger
<1>5. FreeLedger'
  BY DEF Ledger, FreeLedger
<1> QED
  BY <1>1, <1>2, <1>3, <1>4, <1>5 DEF Ledger

\* The steps of push_tqueue and pop_tqueue before and between the
\* compare-and-swaps, and the two memcpys.
LEMMA QuietSteps ==
    ASSUME TypeOK, Ledger,
           \/ \E p \in Producers :
                 \/ \E v \in Values : PushCall(p, v)
                 \/ PushReload(p) \/ PushCheck(p) \/ PushClaimFail(p) \/ PushCopy(p)
           \/ \E c \in Consumers :
                 PopCall(c) \/ PopReload(c) \/ PopCheck(c) \/ PopClaimFail(c) \/ PopCopy(c)
    PROVE  Ledger'
<1> USE ThreadsAssumption
<1>1. ASSUME NEW p \in Producers, NEW v \in Values, PushCall(p, v) PROVE Ledger'
  <2>1. /\ end' = end /\ at' = at /\ seq' = seq
        /\ Filling' = Filling /\ Emptying' = Emptying
        /\ \A t \in Filling \cup Emptying : tkt'[t] = tkt[t]
    BY <1>1 DEF PushCall, Goto, TypeOK, Threads, Filling, Emptying
  <2>2. ChecksCurrent'
    BY <1>1 DEF PushCall, Goto, TypeOK, Threads, Ledger, ChecksCurrent
  <2> QED
    BY <2>1, <2>2, LedgerFrame
<1>2. ASSUME NEW p \in Producers, PushReload(p) PROVE Ledger'
  <2>1. /\ end' = end /\ at' = at /\ seq' = seq
        /\ Filling' = Filling /\ Emptying' = Emptying
        /\ \A t \in Filling \cup Emptying : tkt'[t] = tkt[t]
    BY <1>2 DEF PushReload, Goto, TypeOK, Threads, Filling, Emptying
  <2>2. ChecksCurrent'
    BY <1>2 DEF PushReload, Goto, TypeOK, Threads, Ledger, ChecksCurrent
  <2> QED
    BY <2>1, <2>2, LedgerFrame
<1>3. ASSUME NEW p \in Producers, PushCheck(p) PROVE Ledger'
  <2>1. /\ end' = end /\ at' = at /\ seq' = seq
        /\ Filling' = Filling /\ Emptying' = Emptying
        /\ \A t \in Filling \cup Emptying : tkt'[t] = tkt[t]
    BY <1>3 DEF PushCheck, Goto, TypeOK, Threads, Filling, Emptying
  <2>2. ChecksCurrent'
    BY <1>3, SlotInRange DEF PushCheck, Goto, TypeOK, Threads, Ledger, ChecksCurrent
  <2> QED
    BY <2>1, <2>2, LedgerFrame
<1>4. ASSUME NEW p \in Producers, PushClaimFail(p) PROVE Ledger'
  <2>1. /\ end' = end /\ at' = at /\ seq' = seq
        /\ Filling' = Filling /\ Emptying' = Emptying
        /\ \A t \in Filling \cup Emptying : tkt'[t] = tkt[t]
    BY <1>4 DEF PushClaimFail, Goto, TypeOK, Threads, Filling, Emptying
  <2>2. ChecksCurrent'
    BY <1>4 DEF PushClaimFail, Goto, TypeOK, Threads, Ledger, ChecksCurrent
  <2> QED
    BY <2>1, <2>2, LedgerFrame
<1>5. ASSUME NEW p \in Producers, PushCopy(p) PROVE Ledger'
  <2>1. /\ end' = end /\ at' = at /\ seq' = seq
        /\ Filling' = Filling /\ Emptying' = Emptying
        /\ \A t \in Filling \cup Emptying : tkt'[t] = tkt[t]
    BY <1>5 DEF PushCopy, Goto, TypeOK, Threads, Filling, Emptying
  <2>2. ChecksCurrent'
    BY <1>5 DEF PushCopy, Goto, TypeOK, Threads, Ledger, ChecksCurrent
  <2> QED
    BY <2>1, <2>2, LedgerFrame
<1>6. ASSUME NEW c \in Consumers, PopCall(c) PROVE Ledger'
  <2>1. /\ end' = end /\ at' = at /\ seq' = seq
        /\ Filling' = Filling /\ Emptying' = Emptying
        /\ \A t \in Filling \cup Emptying : tkt'[t] = tkt[t]
    BY <1>6 DEF PopCall, Goto, TypeOK, Threads, Filling, Emptying
  <2>2. ChecksCurrent'
    BY <1>6 DEF PopCall, Goto, TypeOK, Threads, Ledger, ChecksCurrent
  <2> QED
    BY <2>1, <2>2, LedgerFrame
<1>7. ASSUME NEW c \in Consumers, PopReload(c) PROVE Ledger'
  <2>1. /\ end' = end /\ at' = at /\ seq' = seq
        /\ Filling' = Filling /\ Emptying' = Emptying
        /\ \A t \in Filling \cup Emptying : tkt'[t] = tkt[t]
    BY <1>7 DEF PopReload, Goto, TypeOK, Threads, Filling, Emptying
  <2>2. ChecksCurrent'
    BY <1>7 DEF PopReload, Goto, TypeOK, Threads, Ledger, ChecksCurrent
  <2> QED
    BY <2>1, <2>2, LedgerFrame
<1>8. ASSUME NEW c \in Consumers, PopCheck(c) PROVE Ledger'
  <2>1. /\ end' = end /\ at' = at /\ seq' = seq
        /\ Filling' = Filling /\ Emptying' = Emptying
        /\ \A t \in Filling \cup Emptying : tkt'[t] = tkt[t]
    BY <1>8 DEF PopCheck, Goto, TypeOK, Threads, Filling, Emptying
  <2>2. ChecksCurrent'
    BY <1>8, SlotInRange DEF PopCheck, Goto, TypeOK, Threads, Ledger, ChecksCurrent
  <2> QED
    BY <2>1, <2>2, LedgerFrame
<1>9. ASSUME NEW c \in Consumers, PopClaimFail(c) PROVE Ledger'
  <2>1. /\ end' = end /\ at' = at /\ seq' = seq
        /\ Filling' = Filling /\ Emptying' = Emptying
        /\ \A t \in Filling \cup Emptying : tkt'[t] = tkt[t]
    BY <1>9 DEF PopClaimFail, Goto, TypeOK, Threads, Filling, Emptying
  <2>2. ChecksCurrent'
    BY <1>9 DEF PopClaimFail, Goto, TypeOK, Threads, Ledger, ChecksCurrent
  <2> QED
    BY <2>1, <2>2, LedgerFrame
<1>10. ASSUME NEW c \in Consumers, PopCopy(c) PROVE Ledger'
  <2>1. /\ end' = end /\ at' = at /\ seq' = seq
        /\ Filling' = Filling /\ Emptying' = Emptying
        /\ \A t \in Filling \cup Emptying : tkt'[t] = tkt[t]
    BY <1>10 DEF PopCopy, Goto, TypeOK, Threads, Filling, Emptying
  <2>2. ChecksCurrent'
    BY <1>10 DEF PopCopy, Goto, TypeOK, Threads, Ledger, ChecksCurrent
  <2> QED
    BY <2>1, <2>2, LedgerFrame
<1> QED
  BY <1>1, <1>2, <1>3, <1>4, <1>5, <1>6, <1>7, <1>8, <1>9, <1>10

\* A push wins its compare-and-swap: the slot of ticket `end` was free, and
\* the new owner is the only one.
LEMMA PushClaimStep ==
    ASSUME Capacity >= 2, TypeOK, Ledger, NEW p \in Producers, PushClaim(p)
    PROVE  Ledger'
<1> USE CapacityAssumption, ThreadsAssumption
<1>1. /\ end \in Nat /\ at \in Nat /\ tkt[p] = end /\ end' = end + 1 /\ at' = at
      /\ seq' = seq /\ tkt' = tkt /\ seq[Slot(end)] = end
      /\ \A t \in Nat : seq[Slot(t)] \in Nat /\ Slot(t) \in Slots
      /\ \A t \in Threads : tkt[t] \in Nat
  BY SlotInRange DEF PushClaim, TypeOK, Ledger, ChecksCurrent, Threads
<1>2. Filling' = Filling \cup {p} /\ Emptying' = Emptying /\ p \notin Filling
  BY DEF PushClaim, Goto, TypeOK, Threads, Filling, Emptying
<1>3. \A c \in Emptying : tkt[c] + Capacity # end /\ tkt[c] \in Nat
  <2> SUFFICES ASSUME NEW c \in Emptying, tkt[c] + Capacity = end PROVE FALSE
    BY <1>1 DEF Emptying, Threads
  <2>1. tkt[c] \in Nat /\ seq[Slot(tkt[c])] = tkt[c] + 1
    BY <1>1 DEF Emptying, Threads, Ledger, EmptyingLedger
  <2>2. Slot(tkt[c]) = Slot(end)
    BY <2>1, SlotLap
  <2> QED
    BY <1>1, <2>1, <2>2
<1>4. end < at + Capacity
  <2> SUFFICES ASSUME end = at + Capacity PROVE FALSE
    BY <1>1 DEF Ledger, Window
  <2>1. Slot(at) = Slot(end)
    BY <1>1, SlotLap
  <2>2. at \in at..(end - 1)
    BY <1>1
  <2>3. seq[Slot(at)] = at + 1 \/ \E q \in Filling : tkt[q] = at
    BY <2>2 DEF Ledger, QueuedLedger
  <2>4. seq[Slot(at)] = at + 1 \/ seq[Slot(at)] = at
    BY <2>3 DEF Ledger, FillingLedger
  <2> QED
    BY <1>1, <2>1, <2>4
<1>5. Window'
  BY <1>1, <1>4 DEF Ledger, Window
<1>6. FillingLedger'
  BY <1>1, <1>2, <1>5 DEF Ledger, FillingLedger, Window, Filling, Threads
<1>7. EmptyingLedger'
  <2>1. \A c \in Emptying : end + 1 <= tkt[c] + Capacity
    BY <1>1, <1>3 DEF Ledger, EmptyingLedger
  <2> QED
    BY <1>1, <1>2, <2>1 DEF Ledger, EmptyingLedger
<1>8. QueuedLedger'
  <2> SUFFICES ASSUME NEW t \in at..end
               PROVE  seq[Slot(t)] = t + 1 \/ \E q \in Filling \cup {p} : tkt[q] = t
    BY <1>1, <1>2 DEF QueuedLedger
  <2> QED
    BY <1>1 DEF Ledger, QueuedLedger
<1>9. FreeLedger'
  BY <1>1, <1>2 DEF Ledger, FreeLedger
<1>10. ChecksCurrent'
  BY <1>1 DEF Ledger, ChecksCurrent, PushClaim, Goto, TypeOK, Threads
<1> QED
  BY <1>5, <1>6, <1>7, <1>8, <1>9, <1>10 DEF Ledger

\* A pop that wins its compare-and-swap finds a ticket in the queue.
LEMMA PopClaimFindsTicket ==
    ASSUME Capacity >= 2, TypeOK, Ledger, NEW c \in Consumers, PopClaim(c)
    PROVE  at < end
<1> USE CapacityAssumption
<1>1. /\ end \in Nat /\ at \in Nat /\ seq[Slot(at)] = at + 1
      /\ \A t \in Threads : tkt[t] \in Nat
  BY DEF PopClaim, TypeOK, Ledger, ChecksCurrent, Threads
<1> SUFFICES ASSUME end = at PROVE FALSE
  BY <1>1 DEF Ledger, Window
<1>2. at \in end..(at + Capacity - 1)
  BY <1>1
<1>3. seq[Slot(at)] = at \/ \E d \in Emptying : tkt[d] + Capacity = at
  BY <1>2 DEF Ledger, FreeLedger
<1>4. PICK d \in Emptying : tkt[d] + Capacity = at
  BY <1>1, <1>3
<1>5. tkt[d] \in Nat /\ seq[Slot(tkt[d])] = tkt[d] + 1
  BY <1>1 DEF Emptying, Threads, Ledger, EmptyingLedger
<1>6. Slot(tkt[d]) = Slot(at)
  BY <1>4, <1>5, SlotLap
<1> QED
  BY <1>1, <1>4, <1>5, <1>6

\* A pop wins its compare-and-swap: ticket `at` was queued and published.
LEMMA PopClaimStep ==
    ASSUME Capacity >= 2, TypeOK, Ledger, NEW c \in Consumers, PopClaim(c)
    PROVE  Ledger'
<1> USE CapacityAssumption, ThreadsAssumption
<1>1. /\ end \in Nat /\ at \in Nat /\ tkt[c] = at /\ at' = at + 1 /\ end' = end
      /\ seq' = seq /\ tkt' = tkt /\ seq[Slot(at)] = at + 1
      /\ \A t \in Nat : seq[Slot(t)] \in Nat /\ Slot(t) \in Slots
      /\ \A t \in Threads : tkt[t] \in Nat
  BY SlotInRange DEF PopClaim, TypeOK, Ledger, ChecksCurrent, Threads
<1>2. Emptying' = Emptying \cup {c} /\ Filling' = Filling /\ c \notin Emptying
  BY DEF PopClaim, Goto, TypeOK, Threads, Filling, Emptying
<1>3. \A q \in Filling : tkt[q] # at /\ tkt[q] \in Nat
  BY <1>1 DEF Ledger, FillingLedger, Filling, Threads
<1>4. at < end
  BY PopClaimFindsTicket
<1>5. Window'
  BY <1>1, <1>4 DEF Ledger, Window
<1>6. FillingLedger'
  <2>1. \A q \in Filling : at + 1 <= tkt[q]
    BY <1>1, <1>3 DEF Ledger, FillingLedger
  <2> QED
    BY <1>1, <1>2, <2>1 DEF Ledger, FillingLedger
<1>7. EmptyingLedger'
  BY <1>1, <1>2, <1>4 DEF Ledger, EmptyingLedger, Window, Emptying, Threads
<1>8. QueuedLedger'
  BY <1>1, <1>2 DEF Ledger, QueuedLedger
<1>9. FreeLedger'
  <2> SUFFICES ASSUME NEW t \in end..(at + Capacity)
               PROVE  seq[Slot(t)] = t \/ \E d \in Emptying \cup {c} : tkt[d] + Capacity = t
    BY <1>1, <1>2 DEF FreeLedger
  <2> QED
    BY <1>1 DEF Ledger, FreeLedger
<1>10. ChecksCurrent'
  BY <1>1 DEF Ledger, ChecksCurrent, PopClaim, Goto, TypeOK, Threads
<1> QED
  BY <1>5, <1>6, <1>7, <1>8, <1>9, <1>10 DEF Ledger

\* Two tickets of the current lap with the same slot are the same ticket.
LEMMA SameSlot ==
    ASSUME NEW lo \in Nat, NEW t \in Nat, NEW u \in Nat,
           lo <= t, t < lo + Capacity, lo <= u, u < lo + Capacity,
           Slot(t) = Slot(u)
    PROVE  t = u
BY SlotDistinct, CapacityAssumption

\* A push publishes its slot: no other owner's sequence number changes.
LEMMA PushStoreStep ==
    ASSUME Capacity >= 2, TypeOK, Ledger, NEW p \in Producers, PushStore(p)
    PROVE  Ledger'
<1> USE CapacityAssumption, ThreadsAssumption
<1> DEFINE k == tkt[p]
<1>1. /\ p \in Filling /\ k \in Nat /\ end' = end /\ at' = at
      /\ seq' = [seq EXCEPT ![Slot(k)] = k + 1]
      /\ end \in Nat /\ at \in Nat /\ seq \in [Slots -> Nat]
      /\ \A t \in Nat : Slot(t) \in Slots
      /\ \A t \in Threads : tkt[t] \in Nat
  BY SlotInRange DEF PushStore, TypeOK, Filling, Threads
<1>2. Filling' = Filling \ {p} /\ Emptying' = Emptying
  BY DEF PushStore, Goto, TypeOK, Threads, Filling, Emptying
<1>3. \A t \in Filling' \cup Emptying' : tkt'[t] = tkt[t]
  BY <1>2 DEF PushStore, TypeOK, Threads, Filling, Emptying
<1>4. at <= k /\ k < end /\ seq[Slot(k)] = k /\ end <= at + Capacity
  BY <1>1 DEF Ledger, FillingLedger, Window
<1>5. \A t \in Nat : at <= t /\ t < at + Capacity /\ t # k => seq'[Slot(t)] = seq[Slot(t)]
  BY <1>1, <1>4, SameSlot
<1>6. seq'[Slot(k)] = k + 1
  BY <1>1
<1> HIDE DEF k
<1>7. Window'
  BY <1>1 DEF Ledger, Window
<1>8. FillingLedger'
  <2>1. \A q \in Filling : q # p => tkt[q] # k
    BY <1>1 DEF Ledger, FillingLedger, k
  <2>2. \A q \in Filling : tkt[q] \in Nat /\ at <= tkt[q] /\ tkt[q] < end /\ seq[Slot(tkt[q])] = tkt[q]
    BY <1>1 DEF Ledger, FillingLedger, Filling, Threads
  <2>3. \A q \in Filling' : seq'[Slot(tkt[q])] = tkt[q]
    BY <1>1, <1>2, <1>4, <1>5, <2>1, <2>2
  <2> QED
    BY <1>1, <1>2, <1>3, <2>2, <2>3 DEF Ledger, FillingLedger
<1>9. EmptyingLedger'
  <2>1. \A c \in Emptying : tkt[c] \in Nat /\ seq'[Slot(tkt[c])] = seq[Slot(tkt[c])]
    <3> SUFFICES ASSUME NEW c \in Emptying
                 PROVE  tkt[c] \in Nat /\ Slot(tkt[c]) # Slot(k)
      BY <1>1
    <3>1. tkt[c] \in Nat /\ tkt[c] < at /\ end <= tkt[c] + Capacity
      BY <1>1 DEF Ledger, EmptyingLedger, Emptying, Threads
    <3> QED
      BY <1>1, <1>4, <3>1, SlotDistinct
  <2> QED
    BY <1>1, <1>2, <1>3, <2>1 DEF Ledger, EmptyingLedger
<1>10. QueuedLedger'
  <2> SUFFICES ASSUME NEW t \in at..(end - 1)
               PROVE  seq'[Slot(t)] = t + 1 \/ \E q \in Filling' : tkt'[q] = t
    BY <1>1 DEF QueuedLedger
  <2>1. CASE t = k
    BY <1>6, <2>1
  <2>2. CASE t # k
    <3>1. seq'[Slot(t)] = seq[Slot(t)]
      BY <1>1, <1>4, <1>5, <2>2
    <3>2. CASE seq[Slot(t)] = t + 1
      BY <3>1, <3>2
    <3>3. CASE \E q \in Filling : tkt[q] = t
      BY <1>2, <1>3, <2>2, <3>3 DEF k
    <3> QED
      BY <3>2, <3>3 DEF Ledger, QueuedLedger
  <2> QED
    BY <2>1, <2>2
<1>11. FreeLedger'
  <2> SUFFICES ASSUME NEW t \in end..(at + Capacity - 1)
               PROVE  seq'[Slot(t)] = t \/ \E c \in Emptying' : tkt'[c] + Capacity = t
    BY <1>1 DEF FreeLedger
  <2>1. seq'[Slot(t)] = seq[Slot(t)]
    BY <1>1, <1>4, <1>5
  <2> QED
    BY <1>2, <1>3, <2>1 DEF Ledger, FreeLedger
<1>12. ChecksCurrent'
  <2>1. seq[Slot(end)] = end => seq'[Slot(end)] = end
    <3> SUFFICES ASSUME seq[Slot(end)] = end PROVE Slot(end) # Slot(k)
      BY <1>1
    <3> QED
      BY <1>1, <1>4
  <2>2. seq[Slot(at)] = at + 1 => seq'[Slot(at)] = at + 1
    BY <1>1, <1>4, <1>5
  <2> QED
    BY <1>1, <2>1, <2>2 DEF Ledger, ChecksCurrent, PushStore, Goto, TypeOK, Threads
<1> QED
  BY <1>7, <1>8, <1>9, <1>10, <1>11, <1>12 DEF Ledger

\* A pop releases its slot for the next lap: no other owner is affected.
LEMMA PopStoreStep ==
    ASSUME Capacity >= 2, TypeOK, Ledger, NEW c \in Consumers, PopStore(c)
    PROVE  Ledger'
<1> USE CapacityAssumption, ThreadsAssumption
<1> DEFINE k == tkt[c]
<1>1. /\ c \in Emptying /\ k \in Nat /\ end' = end /\ at' = at
      /\ seq' = [seq EXCEPT ![Slot(k)] = k + Capacity]
      /\ end \in Nat /\ at \in Nat /\ seq \in [Slots -> Nat]
      /\ \A t \in Nat : Slot(t) \in Slots
      /\ \A t \in Threads : tkt[t] \in Nat
  BY SlotInRange DEF PopStore, TypeOK, Emptying, Threads
<1>2. Emptying' = Emptying \ {c} /\ Filling' = Filling
  BY DEF PopStore, Goto, TypeOK, Threads, Filling, Emptying
<1>3. \A t \in Filling' \cup Emptying' : tkt'[t] = tkt[t]
  BY <1>2 DEF PopStore, TypeOK, Threads, Filling, Emptying
<1>4. /\ k < at /\ end <= k + Capacity /\ seq[Slot(k)] = k + 1
      /\ at <= end /\ end <= at + Capacity
  BY <1>1 DEF Ledger, EmptyingLedger, Window
<1>5. \A t \in Nat : end <= t + Capacity /\ t < end /\ t # k => seq'[Slot(t)] = seq[Slot(t)]
  <2> SUFFICES ASSUME NEW t \in Nat, end <= t + Capacity, t < end, t # k
               PROVE  Slot(t) # Slot(k)
    BY <1>1
  <2>1. CASE t < k
    BY <1>1, <1>4, <2>1, SlotDistinct
  <2>2. CASE k < t
    BY <1>1, <1>4, <2>2, SlotDistinct
  <2> QED
    BY <1>1, <2>1, <2>2
<1>6. seq'[Slot(k)] = k + Capacity
  BY <1>1
<1> HIDE DEF k
<1>7. Window'
  BY <1>1 DEF Ledger, Window
<1>8. FillingLedger'
  <2>1. \A q \in Filling : tkt[q] \in Nat /\ at <= tkt[q] /\ tkt[q] < end
    BY <1>1 DEF Ledger, FillingLedger, Filling, Threads
  <2>2. \A q \in Filling : seq'[Slot(tkt[q])] = seq[Slot(tkt[q])]
    BY <1>1, <1>4, <1>5, <2>1
  <2> QED
    BY <1>1, <1>2, <1>3, <2>2 DEF Ledger, FillingLedger
<1>9. EmptyingLedger'
  <2>1. \A d \in Emptying : d # c => tkt[d] # k
    BY <1>1 DEF Ledger, EmptyingLedger, k
  <2>2. \A d \in Emptying : tkt[d] \in Nat /\ tkt[d] < at /\ end <= tkt[d] + Capacity
    BY <1>1 DEF Ledger, EmptyingLedger, Emptying, Threads
  <2>3. \A d \in Emptying' : seq'[Slot(tkt[d])] = seq[Slot(tkt[d])]
    BY <1>1, <1>2, <1>4, <1>5, <2>1, <2>2
  <2> QED
    BY <1>1, <1>2, <1>3, <2>3 DEF Ledger, EmptyingLedger
<1>10. QueuedLedger'
  <2> SUFFICES ASSUME NEW t \in at..(end - 1)
               PROVE  seq'[Slot(t)] = t + 1 \/ \E q \in Filling' : tkt'[q] = t
    BY <1>1 DEF QueuedLedger
  <2>1. seq'[Slot(t)] = seq[Slot(t)]
    BY <1>1, <1>4, <1>5
  <2> QED
    BY <1>2, <1>3, <2>1 DEF Ledger, QueuedLedger
<1>11. FreeLedger'
  <2> SUFFICES ASSUME NEW t \in end..(at + Capacity - 1)
               PROVE  seq'[Slot(t)] = t \/ \E d \in Emptying' : tkt'[d] + Capacity = t
    BY <1>1 DEF FreeLedger
  <2>1. CASE t = k + Capacity
    BY <1>1, <1>6, <2>1, SlotLap
  <2>2. CASE t # k + Capacity
    <3>1. seq[Slot(t)] = t \/ \E d \in Emptying : tkt[d] + Capacity = t
      BY DEF Ledger, FreeLedger
    <3>2. CASE seq[Slot(t)] = t
      <4>1. Slot(t) # Slot(k)
        BY <1>1, <1>4, <3>2, SlotDistinct
      <4> QED
        BY <1>1, <3>2, <4>1
    <3>3. CASE \E d \in Emptying : tkt[d] + Capacity = t
      BY <1>2, <1>3, <2>2, <3>3 DEF k
    <3> QED
      BY <3>1, <3>2, <3>3
  <2> QED
    BY <2>1, <2>2
<1>12. ChecksCurrent'
  <2>1. seq[Slot(end)] = end => seq'[Slot(end)] = end
    <3> SUFFICES ASSUME seq[Slot(end)] = end PROVE Slot(end) # Slot(k)
      BY <1>1
    <3> QED
      BY <1>1, <1>4, SlotDistinct
  <2>2. seq[Slot(at)] = at + 1 => seq'[Slot(at)] = at + 1
    <3> SUFFICES ASSUME seq[Slot(at)] = at + 1 PROVE Slot(at) # Slot(k)
      BY <1>1
    <3> QED
      BY <1>1, <1>4
  <2> QED
    BY <1>1, <2>1, <2>2 DEF Ledger, ChecksCurrent, PopStore, Goto, TypeOK, Threads
<1> QED
  BY <1>7, <1>8, <1>9, <1>10, <1>11, <1>12 DEF Ledger

\* Every step of the queue keeps the ledger.
LEMMA LedgerStep ==
    ASSUME Capacity >= 2, TypeOK, Ledger, [Next]_vars
    PROVE  Ledger'
<1>1. CASE \E p \in Producers : PushStep(p)
  BY <1>1, QuietSteps, PushClaimStep, PushStoreStep DEF PushStep
<1>2. CASE \E c \in Consumers : PopStep(c)
  BY <1>2, QuietSteps, PopClaimStep, PopStoreStep DEF PopStep
<1>3. CASE Estimate \/ UNCHANGED vars
  <2>1. /\ end' = end /\ at' = at /\ seq' = seq /\ pc' = pc /\ tkt' = tkt
    BY <1>3 DEF Estimate, vars
  <2>2. Filling' = Filling /\ Emptying' = Emptying
    BY <2>1 DEF Filling, Emptying
  <2>3. ChecksCurrent'
    BY <2>1 DEF Ledger, ChecksCurrent
  <2> QED
    BY <2>1, <2>2, <2>3, LedgerFrame
<1> QED
  BY <1>1, <1>2, <1>3 DEF Next

\* With at least two slots, the ledger of tickets holds in every behaviour.
THEOREM LedgerInvariant ==
    ASSUME Capacity >= 2
    PROVE  Spec => []Ledger
<1>1. Init => Ledger
  <2> SUFFICES ASSUME Init PROVE Ledger
    OBVIOUS
  <2>1. Filling = {} /\ Emptying = {}
    BY DEF Init, Filling, Emptying, Threads
  <2>2. Window /\ FillingLedger /\ EmptyingLedger /\ QueuedLedger /\ ChecksCurrent
    BY <2>1, CapacityAssumption
    DEF Init, Window, FillingLedger, EmptyingLedger, QueuedLedger, ChecksCurrent, Threads
  <2>3. FreeLedger
    BY CapacityAssumption, FirstLap DEF Init, FreeLedger, Slots
  <2> QED
    BY <2>2, <2>3 DEF Ledger
<1>2. TypeOK /\ Ledger /\ [Next]_vars => Ledger'
  BY LedgerStep
<1> QED
  BY <1>1, <1>2, TypeCorrect, PTL DEF Spec

\* In a state in which the ledger holds no two threads own one slot.
LEMMA LedgerExclusive ==
    ASSUME Capacity >= 2, TypeOK, Ledger
    PROVE  SlotExclusive
<1> SUFFICES ASSUME NEW t \in Filling \cup Emptying, NEW u \in Filling \cup Emptying,
                    t # u
             PROVE  Slot(tkt[t]) # Slot(tkt[u])
  BY DEF SlotExclusive
<1>1. tkt[t] \in Nat /\ tkt[u] \in Nat /\ at \in Nat /\ end \in Nat
  BY DEF TypeOK, Filling, Emptying, Threads
<1>2. Window /\ FillingLedger /\ EmptyingLedger
  BY DEF Ledger
<1>3. end <= tkt[t] + Capacity /\ tkt[t] < end /\ end <= tkt[u] + Capacity /\ tkt[u] < end
  BY <1>1, <1>2, CapacityAssumption DEF Window, FillingLedger, EmptyingLedger
<1>4. tkt[t] # tkt[u]
  BY <1>1, <1>2 DEF FillingLedger, EmptyingLedger
<1>5. CASE tkt[t] < tkt[u]
  BY <1>1, <1>3, <1>5, SlotDistinct, CapacityAssumption
<1>6. CASE tkt[u] < tkt[t]
  BY <1>1, <1>3, <1>6, SlotDistinct, CapacityAssumption
<1> QED
  BY <1>1, <1>4, <1>5, <1>6

\* No two threads of utils/tqueue.c are ever inside the same slot: for every
\* number of producers, consumers and tickets, and every capacity of at least
\* two.
THEOREM SlotExclusiveInvariant ==
    ASSUME Capacity >= 2
    PROVE  Spec => []SlotExclusive
<1>1. TypeOK /\ Ledger => SlotExclusive
  BY LedgerExclusive
<1> QED
  BY <1>1, TypeCorrect, LedgerInvariant, PTL

-----------------------------------------------------------------------------
(***************************************************************************)
(* estimate_tqueue_size.                                                   *)
(***************************************************************************)

\* The `at` that estimate_tqueue_size has read is never ahead of the queue's.
EstimateInv == est >= 0 /\ (obs # None => obs <= at)

\* The estimate is never negative: `at` is read first and only grows, and `end`
\* is never behind it.
THEOREM EstimateInvariant ==
    ASSUME Capacity >= 2
    PROVE  Spec => []EstimateNeverNegative
<1>1. Init => EstimateInv
  BY DEF Init, EstimateInv
<1>2. TypeOK /\ Ledger /\ EstimateInv /\ [Next]_vars => EstimateInv'
  <2> SUFFICES ASSUME TypeOK, Window, EstimateInv, [Next]_vars PROVE EstimateInv'
    BY DEF Ledger
  <2>0. end \in Nat /\ at \in Nat /\ obs \in Nat \cup {None} /\ est \in Int
    BY DEF TypeOK
  <2>1. CASE Estimate
    BY <2>0, <2>1, NoneAssumption DEF Estimate, EstimateInv, Window
  <2>2. CASE obs' = obs /\ est' = est /\ at' \in {at, at + 1}
    BY <2>0, <2>2 DEF EstimateInv
  <2> QED
    BY <2>1, <2>2
    DEF Next, vars, PushStep, PopStep, PushCall, PushReload, PushCheck, PushClaim, PushClaimFail,
        PushCopy, PushStore, PopCall, PopReload, PopCheck, PopClaim, PopClaimFail, PopCopy, PopStore
<1>3. EstimateInv => EstimateNeverNegative
  BY DEF EstimateInv, EstimateNeverNegative
<1> QED
  BY <1>1, <1>2, <1>3, TypeCorrect, LedgerInvariant, PTL DEF Spec

-----------------------------------------------------------------------------
(***************************************************************************)
(* A push fails only when a lap is outstanding.                            *)
(***************************************************************************)

\* Sequence numbers only grow: a slot is published, then released a lap later.
LEMMA SeqGrows ==
    ASSUME Capacity >= 2, TypeOK, Ledger, [Next]_vars, NEW i \in Slots
    PROVE  seq[i] <= seq'[i]
<1>0. seq[i] \in Nat /\ seq \in [Slots -> Nat] /\ Capacity \in Nat
  BY CapacityAssumption DEF TypeOK
<1>1. ASSUME NEW p \in Producers, PushStore(p) PROVE seq[i] <= seq'[i]
  <2>1. p \in Filling /\ tkt[p] \in Nat
    BY <1>1 DEF PushStore, Filling, TypeOK, Threads
  <2>2. seq[Slot(tkt[p])] = tkt[p] /\ Slot(tkt[p]) \in Slots
    BY <2>1, SlotInRange DEF Ledger, FillingLedger
  <2> QED
    BY <1>0, <1>1, <2>1, <2>2 DEF PushStore
<1>2. ASSUME NEW c \in Consumers, PopStore(c) PROVE seq[i] <= seq'[i]
  <2>1. c \in Emptying /\ tkt[c] \in Nat
    BY <1>2 DEF PopStore, Emptying, TypeOK, Threads
  <2>2. seq[Slot(tkt[c])] = tkt[c] + 1 /\ Slot(tkt[c]) \in Slots
    BY <2>1, SlotInRange DEF Ledger, EmptyingLedger
  <2> QED
    BY <1>0, <1>2, <2>1, <2>2 DEF PopStore
<1>3. CASE seq' = seq
  BY <1>0, <1>3
<1> QED
  BY <1>1, <1>2, <1>3
  DEF Next, vars, PushStep, PopStep, PushCall, PushReload, PushCheck, PushClaim, PushClaimFail,
      PushCopy, PopCall, PopReload, PopCheck, PopClaim, PopClaimFail, PopCopy, Estimate

\* A ticket that was popped has left its slot: a producer that still holds it as
\* its copy of `end` finds the slot ahead, never behind.
PoppedSlotsAhead ==
    \A p \in Producers : pc[p] = "check" /\ tkt[p] < at => seq[Slot(tkt[p])] > tkt[p]

LEMMA PoppedSlotsAheadStep ==
    ASSUME Capacity >= 2, TypeOK, Ledger, PoppedSlotsAhead, [Next]_vars
    PROVE  PoppedSlotsAhead'
<1> SUFFICES ASSUME NEW p \in Producers, pc'[p] = "check", tkt'[p] < at'
             PROVE  seq'[Slot(tkt'[p])] > tkt'[p]
  BY DEF PoppedSlotsAhead
<1>0. /\ at \in Nat /\ end \in Nat /\ at <= end /\ tkt[p] \in Nat /\ Slot(tkt[p]) \in Slots
      /\ seq \in [Slots -> Nat] /\ Slot(at) \in Slots
  BY SlotInRange DEF TypeOK, Ledger, Window, Threads
<1>1. seq' \in [Slots -> Nat]
  BY TypeStep DEF TypeOK
<1>2. ASSUME NEW q \in Producers, PushStep(q), p = q PROVE FALSE
  <2>1. tkt'[p] = end /\ at' = at
    BY <1>2 DEF TypeOK, Threads, PushStep, PushCall, PushReload, PushCheck, PushClaim,
       PushClaimFail, PushCopy, PushStore, Goto
  <2> QED
    BY <1>0, <2>1
<1>3. CASE pc[p] = "check" /\ tkt'[p] = tkt[p] /\ at' = at
  <2>1. seq[Slot(tkt[p])] > tkt[p]
    BY <1>3 DEF PoppedSlotsAhead
  <2> QED
    BY <1>0, <1>1, <1>3, <2>1, SeqGrows
<1>4. ASSUME NEW c \in Consumers, PopClaim(c), p # c PROVE seq'[Slot(tkt'[p])] > tkt'[p]
  <2>1. pc[p] = "check" /\ tkt' = tkt /\ at' = at + 1 /\ seq' = seq /\ seq[Slot(at)] = at + 1
    BY <1>4 DEF PopClaim, Goto, TypeOK, Threads, Ledger, ChecksCurrent
  <2>2. CASE tkt[p] = at
    BY <1>0, <2>1, <2>2
  <2>3. CASE tkt[p] < at
    BY <2>1, <2>3 DEF PoppedSlotsAhead
  <2> QED
    BY <1>0, <2>1, <2>2, <2>3
<1>5. ASSUME NEW q \in Producers, PushStep(q), p # q
      PROVE  pc[p] = "check" /\ tkt'[p] = tkt[p] /\ at' = at
  BY <1>5 DEF TypeOK, Threads, PushStep, PushCall, PushReload, PushCheck, PushClaim,
     PushClaimFail, PushCopy, PushStore, Goto
<1>6. ASSUME NEW c \in Consumers, PopStep(c), ~PopClaim(c)
      PROVE  pc[p] = "check" /\ tkt'[p] = tkt[p] /\ at' = at
  BY <1>6, ThreadsAssumption DEF TypeOK, Threads, PopStep, PopCall, PopReload, PopCheck,
     PopClaimFail, PopCopy, PopStore, Goto
<1>7. CASE Estimate \/ UNCHANGED vars
  BY <1>3, <1>7 DEF Estimate, vars
<1> QED
  BY <1>2, <1>3, <1>4, <1>5, <1>6, <1>7, ThreadsAssumption DEF Next

\* push_tqueue gives up only when a ticket a whole lap older than its own is still
\* queued or still being copied out.
THEOREM FullOnlyWhenFullHolds ==
    ASSUME Capacity >= 2
    PROVE  Spec => FullOnlyWhenFull
<1> DEFINE Full ==
      \A p \in Producers :
          (pc[p] = "check" /\ pc'[p] = "idle") =>
              \E t \in (at..(end - 1)) \cup {tkt[c] : c \in Emptying} : t + Capacity <= tkt[p]
<1>1. TypeOK /\ Ledger /\ PoppedSlotsAhead /\ [Next]_vars => [Full]_vars
  <2> SUFFICES ASSUME TypeOK, Ledger, PoppedSlotsAhead, [Next]_vars,
                      NEW p \in Producers, pc[p] = "check", pc'[p] = "idle"
               PROVE  \E t \in (at..(end - 1)) \cup {tkt[c] : c \in Emptying} :
                          t + Capacity <= tkt[p]
    OBVIOUS
  <2> DEFINE k == tkt[p]
  <2>0. /\ at \in Nat /\ end \in Nat /\ k \in Nat /\ Capacity \in Nat
        /\ at <= end /\ end <= at + Capacity /\ k <= end
    BY CapacityAssumption DEF TypeOK, Ledger, Window, ChecksCurrent, Threads
  <2>1. PushCheck(p)
    <3>1. \A q \in Producers : PushStep(q) => q = p
      BY DEF TypeOK, Threads, PushStep, PushCall, PushReload, PushCheck, PushClaim,
         PushClaimFail, PushCopy, PushStore, Goto
    <3>2. \A c \in Consumers : ~PopStep(c)
      BY ThreadsAssumption DEF TypeOK, Threads, PopStep, PopCall, PopReload, PopCheck, PopClaim,
         PopClaimFail, PopCopy, PopStore, Goto
    <3>3. ~Estimate /\ ~UNCHANGED vars
      BY DEF Estimate, vars
    <3> QED
      BY <3>1, <3>2, <3>3 DEF Next, PushStep, PushCall, PushReload, PushClaim, PushClaimFail,
         PushCopy, PushStore
  <2>2. seq[Slot(k)] < k /\ seq[Slot(k)] \in Nat
    <3>1. Slot(k) \in Slots /\ seq[Slot(k)] \in Nat
      BY <2>0, SlotInRange DEF TypeOK
    <3> QED
      BY <2>0, <2>1, <3>1 DEF PushCheck, Goto, TypeOK, Threads
  <2>3. ~(k < at)
    BY <2>0, <2>2 DEF PoppedSlotsAhead
  <2>4. ~(at <= k /\ k < end)
    <3> SUFFICES ASSUME at <= k, k < end PROVE FALSE
      OBVIOUS
    <3>1. seq[Slot(k)] = k + 1 \/ \E q \in Filling : tkt[q] = k
      BY <2>0 DEF Ledger, QueuedLedger
    <3>2. seq[Slot(k)] = k + 1 \/ seq[Slot(k)] = k
      BY <3>1 DEF Ledger, FillingLedger
    <3> QED
      BY <2>0, <2>2, <3>2
  <2>5. k = end
    BY <2>0, <2>3, <2>4
  <2>6. CASE end = at + Capacity
    <3>1. at \in at..(end - 1) /\ at + Capacity <= k
      BY <2>0, <2>5, <2>6, CapacityAssumption
    <3> QED
      BY <3>1
  <2>7. CASE end < at + Capacity
    <3>1. k \in end..(at + Capacity - 1)
      BY <2>0, <2>5, <2>7
    <3>2. PICK c \in Emptying : tkt[c] + Capacity = k
      BY <2>0, <2>2, <3>1 DEF Ledger, FreeLedger
    <3>3. tkt[c] \in {tkt[d] : d \in Emptying} /\ tkt[c] + Capacity <= k
      BY <2>0, <3>2
    <3> QED
      BY <3>3
  <2> QED
    BY <2>0, <2>6, <2>7
<1>2. Init => PoppedSlotsAhead
  BY DEF Init, PoppedSlotsAhead, Threads
<1>3. TypeOK /\ Ledger /\ PoppedSlotsAhead /\ [Next]_vars => PoppedSlotsAhead'
  BY PoppedSlotsAheadStep
<1>4. Spec => [][Full]_vars
  BY <1>1, <1>2, <1>3, TypeCorrect, LedgerInvariant, PTL DEF Spec
<1> QED
  BY <1>4 DEF FullOnlyWhenFull

-----------------------------------------------------------------------------
(***************************************************************************)
(* The queue implements ReserveFifo.                                       *)
(***************************************************************************)

\* Where the payloads are: with the producer until it has copied, in the slot
\* while the ticket is queued and until the consumer has copied, with the consumer
\* until it returns.
Payloads ==
    /\ \A p \in Producers : pc[p] # "idle" => arg[p] \in Values
    /\ \A p \in Producers : pc[p] = "store" => data[Slot(tkt[p])] = arg[p]
    /\ \A t \in at..(end - 1) : seq[Slot(t)] = t + 1 => data[Slot(t)] \in Values
    /\ \A c \in Consumers : pc[c] = "copy" => data[Slot(tkt[c])] \in Values
    /\ \A c \in Consumers : got[c] \in IF pc[c] = "store" THEN Values ELSE {None}

\* No step of push_tqueue or pop_tqueue loses or overwrites a payload in transit.
LEMMA PayloadsStep ==
    ASSUME Capacity >= 2, TypeOK, Ledger, Payloads, [Next]_vars
    PROVE  Payloads'
<1> USE ThreadsAssumption
<1>0. /\ at \in Nat /\ end \in Nat /\ Capacity \in Nat
      /\ pc \in [Threads -> {"idle", "reload", "check", "cas", "copy", "store"}]
      /\ tkt \in [Threads -> Nat]
      /\ seq \in [Slots -> Nat]
      /\ arg \in [Producers -> Values \cup {None}]
      /\ got \in [Consumers -> Values \cup {None}]
      /\ data \in [Slots -> Values \cup {None}]
      /\ Producers \subseteq Threads /\ Consumers \subseteq Threads
      /\ \A t \in Nat : Slot(t) \in Slots
  BY CapacityAssumption, SlotInRange DEF TypeOK, Threads
<1>1. ASSUME NEW p \in Producers, NEW v \in Values, PushCall(p, v) PROVE Payloads'
  BY <1>0, <1>1 DEF Payloads, PushCall, Goto
<1>2. ASSUME NEW p \in Producers, PushReload(p) \/ PushClaimFail(p) PROVE Payloads'
  BY <1>0, <1>2 DEF Payloads, PushReload, PushClaimFail, Goto
<1>3. ASSUME NEW p \in Producers, PushCheck(p) PROVE Payloads'
  BY <1>0, <1>3 DEF Payloads, PushCheck, Goto
<1>4. ASSUME NEW p \in Producers, PushClaim(p) PROVE Payloads'
  <2>1. /\ at' = at /\ end' = end + 1 /\ seq' = seq /\ data' = data /\ tkt' = tkt
        /\ arg' = arg /\ got' = got /\ seq[Slot(end)] = end
        /\ pc' = [pc EXCEPT ![p] = "copy"] /\ pc[p] = "cas"
    BY <1>4 DEF PushClaim, Goto, Ledger, ChecksCurrent
  <2> QED
    BY <1>0, <2>1 DEF Payloads
<1>5. ASSUME NEW p \in Producers, PushCopy(p) PROVE Payloads'
  <2>1. /\ UNCHANGED <<at, end, seq, tkt, arg, got>> /\ p \in Filling /\ tkt[p] \in Nat
        /\ data' = [data EXCEPT ![Slot(tkt[p])] = arg[p]]
        /\ pc' = [pc EXCEPT ![p] = "store"] /\ pc[p] = "copy"
    BY <1>0, <1>5 DEF PushCopy, Goto, Filling
  <2>2. \A q \in Producers : pc[q] = "store" => Slot(tkt[q]) # Slot(tkt[p])
    BY <2>1, LedgerExclusive DEF SlotExclusive, Filling
  <2>3. \A c \in Consumers : pc[c] = "copy" => Slot(tkt[c]) # Slot(tkt[p])
    BY <2>1, LedgerExclusive DEF SlotExclusive, Filling, Emptying
  <2>4. \A i \in Slots : i # Slot(tkt[p]) => data'[i] = data[i]
    BY <1>0, <2>1
  <2>5. data'[Slot(tkt[p])] = arg[p] /\ arg[p] \in Values
    BY <1>0, <2>1 DEF Payloads
  <2> QED
    BY <1>0, <2>1, <2>2, <2>3, <2>4, <2>5 DEF Payloads
<1>6. ASSUME NEW p \in Producers, PushStore(p) PROVE Payloads'
  <2>1. /\ UNCHANGED <<at, end, data, got>> /\ tkt[p] \in Nat
        /\ seq' = [seq EXCEPT ![Slot(tkt[p])] = tkt[p] + 1]
        /\ arg' = [arg EXCEPT ![p] = None] /\ tkt' = [tkt EXCEPT ![p] = 0]
        /\ pc' = [pc EXCEPT ![p] = "idle"] /\ pc[p] = "store"
        /\ data[Slot(tkt[p])] \in Values
    BY <1>0, <1>6 DEF PushStore, Goto, Payloads
  <2>2. \A t \in at..(end - 1) : seq'[Slot(t)] = t + 1 => data[Slot(t)] \in Values
    BY <1>0, <2>1 DEF Payloads
  <2> QED
    BY <1>0, <2>1, <2>2 DEF Payloads
<1>7. ASSUME NEW c \in Consumers, PopCall(c) \/ PopReload(c) \/ PopCheck(c) \/ PopClaimFail(c)
      PROVE  Payloads'
  BY <1>0, <1>7 DEF Payloads, PopCall, PopReload, PopCheck, PopClaimFail, Goto
<1>8. ASSUME NEW c \in Consumers, PopClaim(c) PROVE Payloads'
  <2>1. /\ UNCHANGED <<end, seq, data, tkt, arg, got>> /\ at' = at + 1 /\ tkt[c] = at
        /\ seq[Slot(at)] = at + 1 /\ at < end
        /\ pc' = [pc EXCEPT ![c] = "copy"] /\ pc[c] = "cas"
    BY <1>0, <1>8, PopClaimFindsTicket DEF PopClaim, Goto, Ledger, ChecksCurrent
  <2>2. data[Slot(at)] \in Values
    BY <1>0, <2>1 DEF Payloads
  <2> QED
    BY <1>0, <2>1, <2>2 DEF Payloads
<1>9. ASSUME NEW c \in Consumers, PopCopy(c) PROVE Payloads'
  BY <1>0, <1>9 DEF Payloads, PopCopy, Goto
<1>10. ASSUME NEW c \in Consumers, PopStore(c) PROVE Payloads'
  <2>1. /\ UNCHANGED <<at, end, data, arg>> /\ tkt[c] \in Nat
        /\ seq' = [seq EXCEPT ![Slot(tkt[c])] = tkt[c] + Capacity]
        /\ got' = [got EXCEPT ![c] = None] /\ tkt' = [tkt EXCEPT ![c] = 0]
        /\ pc' = [pc EXCEPT ![c] = "idle"] /\ pc[c] = "store" /\ c \in Emptying
    BY <1>0, <1>10 DEF PopStore, Goto, Emptying
  <2>2. tkt[c] < at /\ end <= tkt[c] + Capacity
    BY <2>1 DEF Ledger, EmptyingLedger
  <2>3. \A t \in at..(end - 1) : seq'[Slot(t)] = t + 1 => seq[Slot(t)] = t + 1
    <3>1. \A t \in at..(end - 1) : t \in Nat /\ Slot(t) # Slot(tkt[c])
      BY <1>0, <2>1, <2>2, SlotDistinct
    <3> QED
      BY <1>0, <2>1, <3>1
  <2> QED
    BY <1>0, <2>1, <2>3 DEF Payloads
<1>11. CASE Estimate \/ UNCHANGED vars
  BY <1>0, <1>11 DEF Payloads, Estimate, vars
<1> QED
  BY <1>1, <1>2, <1>3, <1>4, <1>5, <1>6, <1>7, <1>8, <1>9, <1>10, <1>11 DEF Next, PushStep, PopStep

\* The variables of ReserveFifo that the queue implements.
Cells == [i \in 1..(end - at) |-> CellOf(at + i - 1)]
Taken == [c \in Consumers |-> IF pc[c] = "copy" THEN data[Slot(tkt[c])] ELSE got[c]]
CellType == [val : Values \cup {None}, by : Producers \cup {None}]

\* Each cell is that of the producer that fills it, or is published.
CellsKnown ==
    /\ Cells \in Seq(CellType) /\ Len(Cells) = end - at
    /\ \A i \in 1..(end - at) : \A q \in Filling :
          tkt[q] = at + i - 1 => Cells[i] = [val |-> arg[q], by |-> q]
    /\ \A i \in 1..(end - at) :
          (\A q \in Filling : tkt[q] # at + i - 1)
              => Cells[i] = [val |-> data[Slot(at + i - 1)], by |-> None]

LEMMA CellsAreKnown == TypeOK /\ Ledger => CellsKnown
<1> SUFFICES ASSUME TypeOK, Ledger PROVE CellsKnown
  OBVIOUS
<1>0. at \in Nat /\ end \in Nat /\ end - at \in Nat /\ Filling \subseteq Producers
  BY DEF TypeOK, Ledger, Window, Filling
<1>1. ASSUME NEW t \in Nat, NEW q \in Filling, tkt[q] = t
      PROVE  CellOf(t) = [val |-> arg[q], by |-> q]
  <2>1. q = CHOOSE p \in Filling : tkt[p] = t
    BY <1>1 DEF Ledger, FillingLedger
  <2> QED
    BY <1>1, <2>1 DEF CellOf
<1>2. ASSUME NEW t \in Nat, \A q \in Filling : tkt[q] # t
      PROVE  CellOf(t) = [val |-> data[Slot(t)], by |-> None]
  BY <1>2 DEF CellOf
<1>3. ASSUME NEW t \in Nat PROVE CellOf(t) \in CellType
  <2>1. CASE \E q \in Filling : tkt[q] = t
    BY <1>0, <1>1, <2>1 DEF CellType, TypeOK
  <2>2. CASE \A q \in Filling : tkt[q] # t
    BY <1>2, <2>2, SlotInRange DEF CellType, TypeOK
  <2> QED
    BY <2>1, <2>2
<1>4. \A i \in 1..(end - at) : at + i - 1 \in Nat /\ Cells[i] = CellOf(at + i - 1)
  BY <1>0 DEF Cells
<1>5. Cells \in [1..(end - at) -> CellType]
  BY <1>3, <1>4 DEF Cells
<1>6. Cells \in Seq(CellType) /\ Len(Cells) = end - at
  BY <1>0, <1>5
<1>7. \A i \in 1..(end - at) : \A q \in Filling :
        tkt[q] = at + i - 1 => Cells[i] = [val |-> arg[q], by |-> q]
  BY <1>1, <1>4
<1>8. \A i \in 1..(end - at) :
        (\A q \in Filling : tkt[q] # at + i - 1)
            => Cells[i] = [val |-> data[Slot(at + i - 1)], by |-> None]
  BY <1>2, <1>4
<1> QED
  BY <1>6, <1>7, <1>8 DEF CellsKnown

\* A step that moves no cursor and touches no published cell leaves the queue as
\* its callers see it.
LEMMA CellsFrame ==
    ASSUME TypeOK, Ledger, CellsKnown, CellsKnown', end' = end, at' = at, Filling' = Filling,
           \A q \in Filling : tkt'[q] = tkt[q] /\ arg'[q] = arg[q],
           \A t \in at..(end - 1) :
               (\A q \in Filling : tkt[q] # t) => data'[Slot(t)] = data[Slot(t)]
    PROVE  Cells' = Cells
<1>0. end - at \in Nat /\ at \in Nat
  BY DEF TypeOK, Ledger, Window
<1>1. ASSUME NEW i \in 1..(end - at) PROVE Cells'[i] = Cells[i]
  <2>1. at + i - 1 \in at..(end - 1)
    BY <1>0 DEF TypeOK
  <2>2. CASE \E q \in Filling : tkt[q] = at + i - 1
    BY <2>2 DEF CellsKnown
  <2>3. CASE \A q \in Filling : tkt[q] # at + i - 1
    BY <2>1, <2>3 DEF CellsKnown
  <2> QED
    BY <2>2, <2>3
<1>2. /\ Cells \in Seq(CellType) /\ Cells' \in Seq(CellType)
      /\ Len(Cells) = end - at /\ Len(Cells') = end - at
  BY DEF CellsKnown, CellType
<1> HIDE DEF Cells
<1> QED
  BY <1>1, <1>2, SeqEqual

\* The steps before, between and after those that move a cursor or publish a slot
\* are invisible to the callers.
LEMMA QuietStutter ==
    ASSUME Capacity >= 2, TypeOK, Ledger, Payloads, CellsKnown, CellsKnown',
           \/ \E p \in Producers :
                 \/ \E v \in Values : PushCall(p, v)
                 \/ PushReload(p) \/ PushCheck(p) \/ PushClaimFail(p) \/ PushCopy(p)
           \/ \E c \in Consumers :
                 PopCall(c) \/ PopReload(c) \/ PopCheck(c) \/ PopClaimFail(c) \/ PopCopy(c)
           \/ Estimate \/ UNCHANGED vars
    PROVE  Cells' = Cells /\ Taken' = Taken
<1> USE ThreadsAssumption
<1>0. /\ pc \in [Threads -> {"idle", "reload", "check", "cas", "copy", "store"}]
      /\ tkt \in [Threads -> Nat] /\ arg \in [Producers -> Values \cup {None}]
      /\ data \in [Slots -> Values \cup {None}] /\ at \in Nat /\ end \in Nat
      /\ got \in [Consumers -> Values \cup {None}]
      /\ Producers \subseteq Threads /\ Consumers \subseteq Threads
      /\ \A t \in Nat : Slot(t) \in Slots
  BY SlotInRange DEF TypeOK, Threads
<1>1. ASSUME NEW p \in Producers,
             \/ \E v \in Values : PushCall(p, v)
             \/ PushReload(p) \/ PushCheck(p) \/ PushClaimFail(p)
      PROVE  Cells' = Cells /\ Taken' = Taken
  <2>1. /\ end' = end /\ at' = at /\ data' = data /\ got' = got /\ p \notin Filling
        /\ Filling' = Filling /\ \A t \in Threads : t # p => tkt'[t] = tkt[t] /\ pc'[t] = pc[t]
        /\ \A q \in Producers : q # p => arg'[q] = arg[q]
    BY <1>0, <1>1 DEF PushCall, PushReload, PushCheck, PushClaimFail, Goto, Filling
  <2>2. \A q \in Filling : tkt'[q] = tkt[q] /\ arg'[q] = arg[q]
    BY <1>0, <2>1 DEF Filling
  <2>3. Cells' = Cells
    BY <2>1, <2>2, CellsFrame
  <2>4. Taken' = Taken
    BY <1>0, <2>1 DEF Taken
  <2> QED
    BY <2>3, <2>4
<1>2. ASSUME NEW p \in Producers, PushCopy(p) PROVE Cells' = Cells /\ Taken' = Taken
  <2>1. /\ UNCHANGED <<at, end, tkt, arg, got>> /\ p \in Filling /\ Filling' = Filling
        /\ data' = [data EXCEPT ![Slot(tkt[p])] = arg[p]] /\ tkt[p] \in Nat
        /\ \A c \in Consumers : pc'[c] = pc[c]
    BY <1>0, <1>2 DEF PushCopy, Goto, Filling
  <2>2. \A t \in at..(end - 1) : t # tkt[p] => data'[Slot(t)] = data[Slot(t)]
    <3>1. at <= tkt[p] /\ tkt[p] < end /\ end <= at + Capacity
      BY <2>1 DEF Ledger, FillingLedger, Window
    <3>2. \A t \in at..(end - 1) : t # tkt[p] => Slot(t) # Slot(tkt[p])
      BY <1>0, <2>1, <3>1, SameSlot, CapacityAssumption
    <3> QED
      BY <1>0, <2>1, <3>2
  <2>3. Cells' = Cells
    BY <2>1, <2>2, CellsFrame
  <2>4. \A c \in Consumers : pc[c] = "copy" => Slot(tkt[c]) # Slot(tkt[p]) /\ tkt[c] \in Nat
    BY <1>0, <2>1, LedgerExclusive DEF SlotExclusive, Filling, Emptying
  <2>5. \A c \in Consumers : pc[c] = "copy" => data'[Slot(tkt[c])] = data[Slot(tkt[c])]
    BY <1>0, <2>1, <2>4
  <2>6. Taken' = Taken
    BY <2>1, <2>5 DEF Taken
  <2> QED
    BY <2>3, <2>6
<1>3. ASSUME NEW c \in Consumers, PopCall(c) \/ PopReload(c) \/ PopCheck(c) \/ PopClaimFail(c)
      PROVE  Cells' = Cells /\ Taken' = Taken
  <2>1. /\ UNCHANGED <<at, end, data, arg, got>> /\ Filling' = Filling
        /\ \A t \in Threads : t # c => tkt'[t] = tkt[t] /\ pc'[t] = pc[t]
        /\ pc[c] # "copy" /\ pc'[c] # "copy"
    BY <1>0, <1>3 DEF PopCall, PopReload, PopCheck, PopClaimFail, Goto, Filling
  <2>2. \A q \in Filling : tkt'[q] = tkt[q] /\ arg'[q] = arg[q]
    BY <1>0, <2>1 DEF Filling
  <2>3. Cells' = Cells
    BY <2>1, <2>2, CellsFrame
  <2>4. Taken' = Taken
    BY <1>0, <2>1 DEF Taken
  <2> QED
    BY <2>3, <2>4
<1>4. ASSUME NEW c \in Consumers, PopCopy(c) PROVE Cells' = Cells /\ Taken' = Taken
  <2>1. /\ UNCHANGED <<at, end, data, arg, tkt>> /\ Filling' = Filling
        /\ got' = [got EXCEPT ![c] = data[Slot(tkt[c])]]
        /\ pc' = [pc EXCEPT ![c] = "store"] /\ pc[c] = "copy"
    BY <1>0, <1>4 DEF PopCopy, Goto, Filling
  <2>2. Cells' = Cells
    BY <2>1, CellsFrame
  <2>3. Taken' = Taken
    BY <1>0, <2>1 DEF Taken
  <2> QED
    BY <2>2, <2>3
<1>5. CASE Estimate \/ UNCHANGED vars
  <2>1. UNCHANGED <<at, end, data, arg, tkt, got, pc>>
    BY <1>5 DEF Estimate, vars
  <2>2. Cells' = Cells
    BY <2>1, CellsFrame DEF Filling
  <2>3. Taken' = Taken
    BY <2>1 DEF Taken
  <2> QED
    BY <2>2, <2>3
<1> QED
  BY <1>1, <1>2, <1>3, <1>4, <1>5

\* The compare-and-swap of push_tqueue reserves the last place.
LEMMA PushClaimReserves ==
    ASSUME Capacity >= 2, TypeOK, Ledger, Payloads, CellsKnown, CellsKnown', Ledger',
           NEW p \in Producers, PushClaim(p)
    PROVE  Fifo!Reserve(p, arg[p])
<1>0. /\ at \in Nat /\ end \in Nat /\ Capacity \in Nat /\ Filling \subseteq Producers
      /\ tkt[p] = end /\ at' = at /\ end' = end + 1 /\ UNCHANGED <<data, tkt, arg, got>>
      /\ Filling' = Filling \cup {p} /\ p \notin Filling /\ pc' = [pc EXCEPT ![p] = "copy"]
      /\ end - at \in Nat
  BY CapacityAssumption DEF TypeOK, PushClaim, Goto, Filling, Threads, Ledger, Window
<1>1. Len(Cells) < Capacity
  <2>1. end + 1 <= at + Capacity
    BY <1>0 DEF Ledger, Window
  <2> QED
    BY <1>0, <2>1 DEF CellsKnown
<1>2. \A i \in DOMAIN Cells : Cells[i].by # p
  <2>1. \A i \in 1..(end - at) : Cells[i].by \in Filling \cup {None}
    BY DEF CellsKnown
  <2>2. DOMAIN Cells = 1..(end - at)
    BY <1>0 DEF CellsKnown
  <2> QED
    BY <1>0, <2>1, <2>2, NoneAssumption
<1>3. Cells' = Append(Cells, [val |-> arg[p], by |-> p])
  <2> DEFINE x == [val |-> arg[p], by |-> p]
  <2>1. x \in CellType
    BY DEF CellType, TypeOK
  <2>2. /\ Cells \in Seq(CellType) /\ Cells' \in Seq(CellType)
        /\ Len(Cells) = end - at /\ Len(Cells') = end - at + 1
    BY <1>0 DEF CellsKnown, CellType
  <2>3. Cells'[end - at + 1] = x
    BY <1>0 DEF CellsKnown
  <2>4. ASSUME NEW i \in 1..(end - at) PROVE Cells'[i] = Cells[i]
    <3>1. at + i - 1 # end /\ i \in 1..(end' - at') /\ i \in 1..(end - at)
      BY <1>0
    <3>2. CASE \E q \in Filling : tkt[q] = at + i - 1
      <4>1. PICK q \in Filling : tkt[q] = at + i - 1
        BY <3>2
      <4>2. Cells[i] = [val |-> arg[q], by |-> q]
        BY <3>1, <4>1 DEF CellsKnown
      <4>3. q \in Filling' /\ tkt'[q] = at' + i - 1 /\ arg'[q] = arg[q]
        BY <1>0, <4>1
      <4>4. Cells'[i] = [val |-> arg'[q], by |-> q]
        BY <3>1, <4>3 DEF CellsKnown
      <4> QED
        BY <4>2, <4>3, <4>4
    <3>3. CASE \A q \in Filling : tkt[q] # at + i - 1
      <4>1. Cells[i] = [val |-> data[Slot(at + i - 1)], by |-> None]
        BY <3>1, <3>3 DEF CellsKnown
      <4>2. \A q \in Filling' : tkt'[q] # at' + i - 1
        BY <1>0, <3>1, <3>3
      <4>3. Cells'[i] = [val |-> data'[Slot(at' + i - 1)], by |-> None]
        BY <3>1, <4>2 DEF CellsKnown, Slot
      <4> QED
        BY <1>0, <4>1, <4>3
    <3> QED
      BY <3>2, <3>3
  <2> HIDE DEF Cells, x
  <2>5. Append(Cells, x) \in Seq(CellType) /\ Len(Append(Cells, x)) = end - at + 1
    BY <1>0, <2>1, <2>2
  <2>6. \A i \in 1..(end - at + 1) : Cells'[i] = Append(Cells, x)[i]
    BY <1>0, <2>1, <2>2, <2>3, <2>4
  <2> QED
    BY <2>2, <2>5, <2>6, SeqEqual DEF x
<1>4. Taken' = Taken
  BY <1>0, ThreadsAssumption DEF Taken, TypeOK, Threads
<1> QED
  BY <1>1, <1>2, <1>3, <1>4 DEF Fifo!Reserve, Cells, Taken

\* The release store of push_tqueue publishes the place that the push reserved.
LEMMA PushStorePublishes ==
    ASSUME Capacity >= 2, TypeOK, Ledger, Payloads, CellsKnown, CellsKnown',
           NEW p \in Producers, PushStore(p)
    PROVE  Fifo!Publish(p)
<1>0. /\ at \in Nat /\ end \in Nat /\ Filling \subseteq Producers /\ tkt[p] \in Nat
      /\ UNCHANGED <<at, end, data, got>> /\ p \in Filling /\ Filling' = Filling \ {p}
      /\ tkt' = [tkt EXCEPT ![p] = 0] /\ arg' = [arg EXCEPT ![p] = None]
      /\ tkt \in [Threads -> Nat] /\ arg \in [Producers -> Values \cup {None}]
      /\ pc' = [pc EXCEPT ![p] = "idle"] /\ Producers \subseteq Threads /\ end - at \in Nat
      /\ pc[p] = "store"
  BY DEF TypeOK, PushStore, Goto, Filling, Threads, Ledger, Window
<1> DEFINE k == tkt[p] - at + 1
<1>1. k \in 1..(end - at) /\ tkt[p] = at + k - 1
  BY <1>0 DEF Ledger, FillingLedger
<1>2. Cells[k] = [val |-> arg[p], by |-> p] /\ arg[p] = data[Slot(at + k - 1)]
  BY <1>0, <1>1 DEF CellsKnown, Payloads
<1>3. \A q \in Filling' : q # p /\ q \in Filling /\ tkt'[q] = tkt[q] /\ arg'[q] = arg[q]
  BY <1>0
<1>4. \A q \in Filling : q # p => tkt[q] # tkt[p]
  BY <1>0 DEF Ledger, FillingLedger
<1> HIDE DEF k
<1>5. Cells'[k] = [val |-> arg[p], by |-> None]
  <2>1. \A q \in Filling' : tkt'[q] # at' + k - 1
    BY <1>0, <1>1, <1>3, <1>4
  <2>2. Cells'[k] = [val |-> data'[Slot(at' + k - 1)], by |-> None]
    BY <1>0, <1>1, <2>1 DEF CellsKnown, Slot
  <2> QED
    BY <1>0, <1>2, <2>2
<1>6. ASSUME NEW i \in 1..(end - at), i # k PROVE Cells'[i] = Cells[i]
  <2>1. i \in 1..(end' - at') /\ tkt[p] # at + i - 1
    BY <1>0, <1>1, <1>6
  <2>2. CASE \E q \in Filling : tkt[q] = at + i - 1
    <3>1. PICK q \in Filling : tkt[q] = at + i - 1
      BY <2>2
    <3>2. q \in Filling' /\ tkt'[q] = at' + i - 1 /\ arg'[q] = arg[q]
      BY <1>0, <1>3, <2>1, <3>1
    <3>3. Cells[i] = [val |-> arg[q], by |-> q] /\ Cells'[i] = [val |-> arg'[q], by |-> q]
      BY <2>1, <3>1, <3>2 DEF CellsKnown
    <3> QED
      BY <3>2, <3>3
  <2>3. CASE \A q \in Filling : tkt[q] # at + i - 1
    <3>1. Cells[i] = [val |-> data[Slot(at + i - 1)], by |-> None]
      BY <2>3 DEF CellsKnown
    <3>2. \A q \in Filling' : tkt'[q] # at' + i - 1
      BY <1>0, <1>3, <2>3
    <3>3. Cells'[i] = [val |-> data'[Slot(at' + i - 1)], by |-> None]
      BY <2>1, <3>2 DEF CellsKnown, Slot
    <3> QED
      BY <1>0, <3>1, <3>3
  <2> QED
    BY <2>2, <2>3
<1>7. /\ Cells \in Seq(CellType) /\ Cells' \in Seq(CellType)
      /\ Len(Cells) = end - at /\ Len(Cells') = end - at
  BY <1>0 DEF CellsKnown, CellType
<1>8. Taken' = Taken
  BY <1>0, ThreadsAssumption DEF Taken, TypeOK, Threads
<1> HIDE DEF Cells
<1>9. Cells' = [Cells EXCEPT ![k].by = None]
  <2> DEFINE after == [Cells EXCEPT ![k].by = None]
  <2>1. DOMAIN Cells = 1..(end - at) /\ \A i \in 1..(end - at) : Cells[i] \in CellType
    BY <1>7
  <2>2. after[k] = [val |-> arg[p], by |-> None]
    BY <1>1, <1>2, <2>1 DEF CellType
  <2>3. \A i \in 1..(end - at) : i # k => after[i] = Cells[i]
    BY <1>1, <2>1
  <2>4. after[k] \in CellType
    BY <1>0, <2>2 DEF CellType
  <2>5. after \in [1..(end - at) -> CellType]
    <3>1. after = [i \in 1..(end - at) |-> after[i]]
      BY <2>1
    <3> HIDE DEF after
    <3> QED
      BY <2>1, <2>3, <2>4, <3>1
  <2>6. \A i \in 1..(end - at) : Cells'[i] = after[i]
    BY <1>5, <1>6, <2>2, <2>3
  <2> HIDE DEF after
  <2>7. after \in Seq(CellType) /\ Len(after) = end - at
    <3>1. after \in Seq(CellType)
      BY <1>0, <2>5, SeqDef
    <3>2. DOMAIN after = 1..Len(after) /\ Len(after) \in Nat /\ DOMAIN after = 1..(end - at)
      BY <2>5, <3>1, LenProperties
    <3> QED
      BY <1>0, <3>1, <3>2
  <2>8. Cells' = after
    BY <1>7, <2>6, <2>7, SeqEqual
  <2> QED
    BY <2>8 DEF after
<1>10. k \in DOMAIN Cells /\ Cells[k].by = p
  BY <1>0, <1>1, <1>2, <1>7
<1> QED
  BY <1>8, <1>9, <1>10 DEF Fifo!Publish, Cells, Taken

\* The compare-and-swap of pop_tqueue takes the oldest place, which is published.
LEMMA PopClaimTakes ==
    ASSUME Capacity >= 2, TypeOK, Ledger, Payloads, CellsKnown, CellsKnown',
           NEW c \in Consumers, PopClaim(c)
    PROVE  Fifo!Take(c)
<1> USE ThreadsAssumption
<1>0. /\ at \in Nat /\ end \in Nat /\ Filling \subseteq Producers /\ tkt[c] = at
      /\ UNCHANGED <<end, data, tkt, arg, got>> /\ at' = at + 1 /\ Filling' = Filling
      /\ pc \in [Threads -> {"idle", "reload", "check", "cas", "copy", "store"}]
      /\ pc[c] = "cas" /\ pc' = [pc EXCEPT ![c] = "copy"] /\ Consumers \subseteq Threads
      /\ tkt \in [Threads -> Nat] /\ seq[Slot(at)] = at + 1
  BY DEF TypeOK, PopClaim, Goto, Filling, Threads, Ledger, ChecksCurrent
<1>1. at < end /\ end - at \in Nat /\ end - at' \in Nat
  <2>1. at < end
    BY PopClaimFindsTicket
  <2> QED
    BY <1>0, <2>1
<1>2. \A q \in Filling : tkt[q] # at + 1 - 1
  <2>1. at # at + 1 /\ at = at + 1 - 1
    BY <1>0
  <2>2. \A q \in Filling : seq[Slot(tkt[q])] = tkt[q]
    BY DEF Ledger, FillingLedger
  <2>3. \A q \in Filling : tkt[q] # at
    BY <1>0, <2>1, <2>2
  <2> QED
    BY <2>1, <2>3
<1>3. Cells[1] = [val |-> data[Slot(at)], by |-> None]
  <2>1. 1 \in 1..(end - at) /\ at + 1 - 1 = at
    BY <1>0, <1>1
  <2>2. Cells[1] = [val |-> data[Slot(at + 1 - 1)], by |-> None]
    BY <1>2, <2>1 DEF CellsKnown
  <2> QED
    BY <2>1, <2>2
<1>4. ASSUME NEW i \in 1..(end - at - 1) PROVE Cells'[i] = Cells[i + 1]
  <2>1. i \in 1..(end' - at') /\ i + 1 \in 1..(end - at) /\ at' + i - 1 = at + (i + 1) - 1
    BY <1>0, <1>1
  <2>2. CASE \E q \in Filling : tkt[q] = at + (i + 1) - 1
    <3>1. PICK q \in Filling : tkt[q] = at + (i + 1) - 1
      BY <2>2
    <3>2. q \in Filling' /\ tkt'[q] = at' + i - 1 /\ arg'[q] = arg[q]
      BY <1>0, <2>1, <3>1
    <3>3. Cells[i + 1] = [val |-> arg[q], by |-> q] /\ Cells'[i] = [val |-> arg'[q], by |-> q]
      BY <2>1, <3>1, <3>2 DEF CellsKnown
    <3> QED
      BY <3>2, <3>3
  <2>3. CASE \A q \in Filling : tkt[q] # at + (i + 1) - 1
    <3>1. Cells[i + 1] = [val |-> data[Slot(at + (i + 1) - 1)], by |-> None]
      BY <2>1, <2>3 DEF CellsKnown
    <3>2. \A q \in Filling' : tkt'[q] # at' + i - 1
      BY <1>0, <2>1, <2>3
    <3>3. Cells'[i] = [val |-> data'[Slot(at' + i - 1)], by |-> None]
      BY <2>1, <3>2 DEF CellsKnown, Slot
    <3> QED
      BY <1>0, <2>1, <3>1, <3>3
  <2> QED
    BY <2>2, <2>3
<1>5. /\ Cells \in Seq(CellType) /\ Cells' \in Seq(CellType)
      /\ Len(Cells) = end - at /\ Len(Cells') = end - at - 1
  BY <1>0 DEF CellsKnown, CellType
<1>6. Taken[c] = None /\ Taken' = [Taken EXCEPT ![c] = data[Slot(at)]]
  BY <1>0 DEF Taken, Payloads
<1> HIDE DEF Cells
<1>7. Cells # <<>> /\ Head(Cells) = [val |-> data[Slot(at)], by |-> None]
  BY <1>1, <1>3, <1>5
<1>8. Cells' = Tail(Cells)
  <2>1. /\ Tail(Cells) \in Seq(CellType) /\ Len(Tail(Cells)) = end - at - 1
        /\ \A i \in 1..Len(Tail(Cells)) : Tail(Cells)[i] = Cells[i + 1]
    BY <1>5, <1>7, HeadTailProperties
  <2>2. \A i \in 1..Len(Tail(Cells)) : Cells'[i] = Tail(Cells)[i]
    BY <1>4, <2>1
  <2> QED
    BY <1>5, <2>1, <2>2, SeqEqual
<1>9. Taken' = [Taken EXCEPT ![c] = Head(Cells).val] /\ Head(Cells).by = None
  <2>1. Head(Cells).val = data[Slot(at)] /\ Head(Cells).by = None
    BY <1>7
  <2> HIDE DEF Taken
  <2> QED
    BY <1>6, <2>1
<1> QED
  BY <1>6, <1>7, <1>8, <1>9 DEF Fifo!Take, Cells, Taken

\* The release store of pop_tqueue hands the value to the caller.
LEMMA PopStoreReturns ==
    ASSUME Capacity >= 2, TypeOK, Ledger, Payloads, CellsKnown, CellsKnown',
           NEW c \in Consumers, PopStore(c)
    PROVE  Fifo!Return(c)
<1> USE ThreadsAssumption
<1>0. /\ UNCHANGED <<at, end, data, arg>> /\ Filling' = Filling
      /\ pc \in [Threads -> {"idle", "reload", "check", "cas", "copy", "store"}]
      /\ pc[c] = "store" /\ pc' = [pc EXCEPT ![c] = "idle"] /\ Consumers \subseteq Threads
      /\ tkt \in [Threads -> Nat] /\ tkt' = [tkt EXCEPT ![c] = 0]
      /\ got \in [Consumers -> Values \cup {None}] /\ got' = [got EXCEPT ![c] = None]
      /\ Filling \subseteq Producers /\ Producers \subseteq Threads
  BY DEF TypeOK, PopStore, Goto, Filling, Threads
<1>1. \A q \in Filling : tkt'[q] = tkt[q] /\ arg'[q] = arg[q]
  BY <1>0
<1>2. Cells' = Cells
  BY <1>0, <1>1, CellsFrame
<1>3. Taken[c] # None /\ Taken' = [Taken EXCEPT ![c] = None]
  BY <1>0, NoneAssumption DEF Taken, Payloads
<1> QED
  BY <1>2, <1>3 DEF Fifo!Return, Cells, Taken

\* Every step of utils/tqueue.c is a step of ReserveFifo, or is invisible to its
\* callers: with at least two slots the queue never loses, duplicates, reorders or
\* overwrites a value, for any number of threads and pushes.
THEOREM ImplementsFifoHolds ==
    ASSUME Capacity >= 2
    PROVE  Spec => ImplementsFifo
<1>1. Init => Fifo!FInit
  <2> SUFFICES ASSUME Init PROVE Cells = <<>> /\ Taken = [c \in Consumers |-> None]
    BY DEF Fifo!FInit, Cells, Taken
  <2>1. 1..(end - at) = {}
    BY DEF Init
  <2> QED
    BY <2>1 DEF Init, Cells, Taken, Threads
<1>2. Init => Payloads
  BY NoneAssumption DEF Init, Payloads, Threads
<1>3. TypeOK /\ Ledger /\ Payloads /\ [Next]_vars => Payloads'
  BY PayloadsStep
<1>4. TypeOK /\ Ledger => CellsKnown
  BY CellsAreKnown
<1>5. ASSUME TypeOK, Ledger, Payloads, CellsKnown, [Next]_vars, CellsKnown', Ledger'
      PROVE  [Fifo!FNext]_Fifo!fvars
  <2>1. ASSUME NEW p \in Producers, PushClaim(p) PROVE Fifo!FNext
    <3>1. arg[p] \in Values
      BY <1>5, <2>1 DEF PushClaim, Payloads
    <3> QED
      BY <1>5, <2>1, <3>1, PushClaimReserves DEF Fifo!FNext
  <2>2. ASSUME NEW p \in Producers, PushStore(p) PROVE Fifo!FNext
    BY <1>5, <2>2, PushStorePublishes DEF Fifo!FNext
  <2>3. ASSUME NEW c \in Consumers, PopClaim(c) PROVE Fifo!FNext
    BY <1>5, <2>3, PopClaimTakes DEF Fifo!FNext
  <2>4. ASSUME NEW c \in Consumers, PopStore(c) PROVE Fifo!FNext
    BY <1>5, <2>4, PopStoreReturns DEF Fifo!FNext
  <2>5. CASE \/ \E p \in Producers :
                   \/ \E v \in Values : PushCall(p, v)
                   \/ PushReload(p) \/ PushCheck(p) \/ PushClaimFail(p) \/ PushCopy(p)
             \/ \E c \in Consumers :
                   PopCall(c) \/ PopReload(c) \/ PopCheck(c) \/ PopClaimFail(c) \/ PopCopy(c)
             \/ Estimate \/ UNCHANGED vars
    <3>1. Cells' = Cells /\ Taken' = Taken
      BY <1>5, <2>5, QuietStutter
    <3> QED
      BY <3>1 DEF Fifo!fvars, Cells, Taken
  <2> QED
    BY <1>5, <2>1, <2>2, <2>3, <2>4, <2>5 DEF Next, PushStep, PopStep
<1>6. Spec => [](TypeOK /\ Ledger /\ Payloads /\ CellsKnown)
  BY <1>2, <1>3, <1>4, TypeCorrect, LedgerInvariant, PTL DEF Spec
<1>7. Spec => Fifo!FSpec
  BY <1>1, <1>5, <1>6, PTL DEF Spec, Fifo!FSpec
<1> QED
  BY <1>7 DEF ImplementsFifo
=============================================================================
