----------------------------- MODULE HashTable -----------------------------
(***************************************************************************)
(* utils/hashtable.c: open addressing with linear probing, growth by       *)
(* doubling, and deletion that shifts later elements back instead of       *)
(* leaving tombstones.  Databases and hash table values are such tables;   *)
(* utils/hashset.c repeats the scheme for addresses.                       *)
(*                                                                         *)
(* A call is one step, except that deletion takes one step per slot its    *)
(* repair loop looks at: the loop is what could fail to end, and what      *)
(* leaves the table in states no test looks at.                            *)
(***************************************************************************)
EXTENDS Integers, FiniteSets, FiniteSetsExt, Functions

CONSTANTS
    Keys, Values,
    HashValues,        \* what the hash function may return
    InitialCapacities, \* the capacities tables are created with
    MaxCapacity,       \* bound: the table is not grown past this
    Leftover,          \* what a slot of a newly allocated array may hold
    CountMax,          \* the largest count: UINT64_MAX, or a smaller stand-in
    NULL, NoAnswer

ASSUME HashTableAssumption ==
    /\ HashValues \subseteq Nat /\ MaxCapacity \in Nat
    /\ InitialCapacities \subseteq 1..MaxCapacity
    /\ CountMax \in Nat /\ MaxCapacity < CountMax
    /\ Leftover \subseteq [key : Keys \cup {NULL}, value : Values \cup {NULL}]
    /\ NULL \notin Keys \cup Values
    /\ NULL \notin Nat /\ NULL \notin [deletion : Nat, current : Nat]
    /\ NoAnswer \notin Values \cup BOOLEAN \cup {NULL}

VARIABLES
    hash,      \* the hash of every key; never changes
    capacity, count,
    elements,  \* slot -> [key, value]; key = NULL in an empty slot
    repair,    \* the deletion in progress: [deletion, current], or NULL
    answer,    \* what the last call returned
    zeroed     \* history: every array since creation, or since the last clear, was
               \* allocated in zeroed memory

vars == <<hash, capacity, count, elements, repair, answer, zeroed>>

Slots == 0..(capacity - 1)
Empty == [key |-> NULL, value |-> NULL]
Occupied(els) == {i \in DOMAIN els : els[i].key # NULL}

TypeOK ==
    /\ hash \in [Keys -> HashValues]
    /\ capacity \in 1..MaxCapacity
    /\ elements \in [Slots -> [key : Keys \cup {NULL}, value : Values \cup {NULL}]]
    /\ count \in 0..CountMax
    /\ zeroed \in BOOLEAN
    /\ zeroed => count <= capacity
    /\ repair \in [deletion : Slots, current : Slots] \cup {NULL}
    /\ answer \in Values \cup BOOLEAN \cup {NULL, NoAnswer}

-----------------------------------------------------------------------------
(* Probing. *)

\* The slot d places after the home slot of k in an array of n slots.
Nth(k, d, n) == (hash[k] + d) % n

\* How far a lookup of k goes: to k, to an empty slot, or round the array (n).
LookupEnds(els, k, n) ==
    {d \in 0..(n - 1) : els[Nth(k, d, n)].key \in {k, NULL}}

\* Seeded fault: a lookup that does not wrap around at the end of the array.
LookupNoWrap(k) ==
    LET ends == {i \in (hash[k] % capacity)..(capacity - 1) : elements[i].key \in {k, NULL}}
    IN  IF ends = {} THEN NULL
        ELSE IF elements[Min(ends)].key = k THEN Min(ends) ELSE NULL

Lookup(k) ==
    LET ends == LookupEnds(elements, k, capacity)
    IN  IF ends = {} THEN NULL
        ELSE LET i == Nth(k, Min(ends), capacity)
             IN  IF elements[i].key = k THEN i ELSE NULL

\* Where element e goes in array els of n slots: the first empty slot.
Place(els, e, n) ==
    LET free == {d \in 0..(n - 1) : els[Nth(e.key, d, n)].key = NULL}
    IN  [els EXCEPT ![Nth(e.key, Min(free), n)] = e]

-----------------------------------------------------------------------------
Init ==
    /\ hash \in [Keys -> HashValues]
    /\ capacity \in InitialCapacities
    /\ elements = [i \in Slots |-> Empty]
    /\ count = 0
    /\ repair = NULL
    /\ answer = NoAnswer
    /\ zeroed = TRUE

\* The count is a uint64_t: on the stale elements of a reused array it may wrap.
Incremented == IF count = CountMax THEN 0 ELSE count + 1
Decremented == IF count = 0 THEN CountMax ELSE count - 1

\* Seeded fault: the load factor is left out, an array grows once it is past full.
MustGrowLate == count > capacity

\* grow_hashtable's test: count < capacity * HASHTABLE_GROW_LOAD_FACTOR (0.75).
MustGrow == 4 * count >= 3 * capacity

\* The rehashed elements: old slots 0..i-1 placed into the new array.
Rehashed(fresh, n) ==
    LET placed[i \in 0..capacity] ==
            IF i = 0 THEN fresh
            ELSE IF elements[i - 1].key = NULL THEN placed[i - 1]
            ELSE Place(placed[i - 1], elements[i - 1], n)
    IN  placed[capacity]

\* insert_into_hashtable from its probing on, in an array els of n slots.
InsertInto(els, n, k, v) ==
    LET ends == LookupEnds(els, k, n)
        i    == Nth(k, Min(ends), n)
    IN  /\ ends # {}
        /\ capacity' = n
        /\ IF els[i].key = k
           THEN /\ elements' = els
                /\ answer' = els[i].value
                /\ UNCHANGED count
           ELSE /\ elements' = [els EXCEPT ![i] = [key |-> k, value |-> v]]
                /\ answer' = v
                /\ count' = Incremented
        /\ UNCHANGED <<hash, repair>>

InsertHere(k, v) ==
    /\ repair = NULL
    /\ ~MustGrow
    /\ InsertInto(elements, capacity, k, v)
    /\ UNCHANGED zeroed

\* The new array is not initialised: each slot holds some leftover.  With fewer
\* empty slots than elements the loop at line 47 does not end.
InsertGrowing(k, v) ==
    /\ repair = NULL
    /\ MustGrow
    /\ 2 * capacity <= MaxCapacity
    /\ \E fresh \in [0..(2 * capacity - 1) -> Leftover] :
          /\ Cardinality(Occupied(fresh)) + Cardinality(Occupied(elements)) <= 2 * capacity
          /\ zeroed' = (zeroed /\ \A i \in DOMAIN fresh : fresh[i] = Empty)
          /\ InsertInto(Rehashed(fresh, 2 * capacity), 2 * capacity, k, v)

InsertGrowFails ==
    /\ repair = NULL
    /\ MustGrow
    /\ answer' = NULL
    /\ UNCHANGED <<hash, capacity, count, elements, repair, zeroed>>

\* Seeded fault: the count goes down although nothing was found.
DeleteCounts(k) ==
    /\ repair = NULL
    /\ Lookup(k) = NULL
    /\ answer' = FALSE
    /\ count' = Decremented
    /\ UNCHANGED <<hash, capacity, elements, repair, zeroed>>

\* delete_from_hashtable up to its first clearing of a slot.
Delete(k) ==
    LET i == Lookup(k)
    IN  /\ repair = NULL
        /\ answer' = (i # NULL)
        /\ IF i = NULL THEN UNCHANGED <<count, elements, repair>>
           ELSE /\ count' = Decremented
                /\ elements' = [elements EXCEPT ![i] = Empty]
                /\ repair' = [deletion |-> i, current |-> i]
        /\ UNCHANGED <<hash, capacity, zeroed>>

\* Seeded fault: the interval test forgets the wrap-around.
MayStayNoWrap(del, cur, ideal) == del < ideal /\ ideal <= cur

\* The element at cur may stay: its home slot lies in (del, cur], cyclically.
MayStay(del, cur, ideal) ==
    IF del <= cur THEN del < ideal /\ ideal <= cur
                  ELSE del < ideal \/ ideal <= cur

\* Seeded fault: the moved element is not removed from where it was.
RepairCopies ==
    /\ repair # NULL
    /\ LET del == repair.deletion
           cur == (repair.current + 1) % capacity
           key == elements[cur].key
       IN  IF key = NULL THEN repair' = NULL /\ UNCHANGED elements
           ELSE IF MayStay(del, cur, hash[key] % capacity)
           THEN repair' = [repair EXCEPT !.current = cur] /\ UNCHANGED elements
           ELSE /\ repair' = [deletion |-> cur, current |-> cur]
                /\ elements' = [elements EXCEPT ![del] = elements[cur]]
    /\ UNCHANGED <<hash, capacity, count, answer, zeroed>>

\* One round of the inner loop: look at the next slot; stop, move it, or go on.
Repair ==
    /\ repair # NULL
    /\ LET del == repair.deletion
           cur == (repair.current + 1) % capacity
           key == elements[cur].key
       IN  IF key = NULL THEN repair' = NULL /\ UNCHANGED elements
           ELSE IF MayStay(del, cur, hash[key] % capacity)
           THEN repair' = [repair EXCEPT !.current = cur] /\ UNCHANGED elements
           ELSE /\ repair' = [deletion |-> cur, current |-> cur]
                /\ elements' = [elements EXCEPT ![del] = elements[cur], ![cur] = Empty]
    /\ UNCHANGED <<hash, capacity, count, answer, zeroed>>

\* get_from_hashtable; exist_in_hashtable is the same probe.
Get(k) ==
    /\ repair = NULL
    /\ answer' = IF Lookup(k) = NULL THEN NULL ELSE elements[Lookup(k)].value
    /\ UNCHANGED <<hash, capacity, count, elements, repair, zeroed>>

\* clear_hashtable: every element destroyed, the capacity kept.
Clear ==
    /\ repair = NULL
    /\ elements' = [i \in Slots |-> Empty]
    /\ count' = 0
    /\ answer' = NoAnswer
    /\ zeroed' = TRUE
    /\ UNCHANGED <<hash, capacity, repair>>

Next ==
    \/ \E k \in Keys, v \in Values : InsertHere(k, v) \/ InsertGrowing(k, v)
    \/ \E k \in Keys : Delete(k) \/ Get(k)
    \/ InsertGrowFails \/ Repair \/ Clear

\* A call that was made returns: the calling thread keeps running.
Spec == Init /\ [][Next]_vars /\ WF_vars(Repair)

-----------------------------------------------------------------------------
(* Properties. *)

\* What the table holds, wherever in the array it is.
Contents ==
    [k \in {elements[i].key : i \in Occupied(elements)} |->
        (CHOOSE e \in Range(elements) : e.key = k).value]

Map == INSTANCE KVMap WITH map <- Contents

\* As long as the memory of its arrays was zeroed, which grow_hashtable relies on
\* and amalloc does not promise, a table answers every call as a map would: what
\* was inserted and not deleted is found with the value it was first inserted
\* with, through any growth and any repair, and nothing else is (insert_into,
\* delete_from, get_from).  clear_hashtable restores that whatever came before.
ImplementsMap == Map!Init /\ [][zeroed' => Map!Next]_(Map!vars)

\* In such a table no key is in two slots, not even while a deletion moves
\* elements, and `count`, on which growth, HLEN and the saved file depend, is the
\* number of occupied slots.
CountExact ==
    zeroed => /\ count = Cardinality(Occupied(elements))
              /\ \A i, j \in Occupied(elements) : elements[i].key = elements[j].key => i = j

\* "Guaranteed that capacity is enough": an insertion that need not grow has
\* an empty slot to end its search, so the loop at line 71 ends.
RoomLeft == MustGrow \/ \E i \in Slots : elements[i].key = NULL

\* The capacity is enough in zeroed memory.
InsertionHasRoom == zeroed => RoomLeft

\* The repair loop of delete_from_hashtable, which has no bound, ends, whatever
\* memory the array was allocated in.
DeletionEnds == (repair # NULL) ~> (repair = NULL)
=============================================================================
