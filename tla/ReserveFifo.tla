----------------------------- MODULE ReserveFifo -----------------------------
(***************************************************************************)
(* What utils/tqueue.c promises its callers, without tickets or sequence   *)
(* numbers: a bounded first-in first-out queue in which a producer first   *)
(* reserves the next place (fixing its position) and later publishes it,   *)
(* and a consumer takes the oldest place only once it is published.        *)
(*                                                                         *)
(* The transaction queue and the queues of the I/O threads are used        *)
(* through this interface by the modules TxPipeline and IOPath.            *)
(***************************************************************************)
EXTENDS Naturals, Sequences

CONSTANTS Producers, Consumers, Capacity, Values, None

VARIABLES
    cells,   \* the places in order: [val, by], by = None once published
    taken    \* per consumer, the value it took and has not yet returned

fvars == <<cells, taken>>

Cell == [val : Values, by : Producers \cup {None}]

FTypeOK ==
    /\ cells \in Seq(Cell)
    /\ Len(cells) <= Capacity
    /\ taken \in [Consumers -> Values \cup {None}]

FInit ==
    /\ cells = <<>>
    /\ taken = [c \in Consumers |-> None]

\* A push that succeeds, at the moment its position in the order is fixed.
Reserve(p, v) ==
    /\ Len(cells) < Capacity
    /\ \A i \in DOMAIN cells : cells[i].by # p
    /\ cells' = Append(cells, [val |-> v, by |-> p])
    /\ UNCHANGED taken

\* The value becomes visible to the consumers.
Publish(p) ==
    \E i \in DOMAIN cells :
        /\ cells[i].by = p
        /\ cells' = [cells EXCEPT ![i].by = None]
        /\ UNCHANGED taken

\* A pop that succeeds: only the oldest place, and only if it is published.
Take(c) ==
    /\ cells # <<>>
    /\ Head(cells).by = None
    /\ taken[c] = None
    /\ cells' = Tail(cells)
    /\ taken' = [taken EXCEPT ![c] = Head(cells).val]

\* The pop returns to its caller.
Return(c) ==
    /\ taken[c] # None
    /\ taken' = [taken EXCEPT ![c] = None]
    /\ UNCHANGED cells

FNext ==
    \/ \E p \in Producers, v \in Values : Reserve(p, v)
    \/ \E p \in Producers : Publish(p)
    \/ \E c \in Consumers : Take(c) \/ Return(c)

FSpec == FInit /\ [][FNext]_fvars
=============================================================================
