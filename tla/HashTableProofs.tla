-------------------------- MODULE HashTableProofs ---------------------------
(***************************************************************************)
(* Proofs about HashTable: for any hash function, any capacities and any   *)
(* keys, linear probing with back-shift deletion and growth keeps the      *)
(* count exact, no key twice, room for an insertion, and answers as a map  *)
(* does, provided that the array of a growth is empty.                     *)
(***************************************************************************)
EXTENDS HashTable, FiniteSetTheorems, WellFoundedInduction, TLAPS

-----------------------------------------------------------------------------
(***************************************************************************)
(* Facts about remainders and least elements.                              *)
(***************************************************************************)

\* Division leaves one quotient and one remainder.
LEMMA RemainderUnique ==
    ASSUME NEW n \in Nat \ {0}, NEW p \in Int, NEW q \in Int,
           NEW r \in 0..(n - 1), NEW s \in 0..(n - 1), n * p + r = n * q + s
    PROVE  p = q /\ r = s
<1>1. ASSUME p < q PROVE FALSE
  <2>1. q - p >= 1
    BY <1>1
  <2>2. n * (q - p) >= n
    BY <2>1
  <2>3. n * q = n * p + n * (q - p)
    OBVIOUS
  <2> QED
    BY <2>2, <2>3
<1>2. ASSUME q < p PROVE FALSE
  <2>1. p - q >= 1
    BY <1>2
  <2>2. n * (p - q) >= n
    BY <2>1
  <2>3. n * p = n * q + n * (p - q)
    OBVIOUS
  <2> QED
    BY <2>2, <2>3
<1> QED
  BY <1>1, <1>2

\* What \div and % compute.
LEMMA RemainderOf ==
    ASSUME NEW a \in Nat, NEW n \in Nat \ {0}
    PROVE  a = n * (a \div n) + (a % n) /\ a \div n \in Int /\ a % n \in 0..(n - 1)
  OBVIOUS

\* Counting on from a number, wrapping at most once.
LEMMA Wrap ==
    ASSUME NEW a \in Nat, NEW n \in Nat \ {0}, NEW d \in 0..(n - 1)
    PROVE  (a + d) % n = IF (a % n) + d < n THEN (a % n) + d ELSE (a % n) + d - n
<1>0. a + d \in Nat
  OBVIOUS
<1>1. PICK p, r : p = a \div n /\ r = a % n
  OBVIOUS
<1>2. PICK q, s : q = (a + d) \div n /\ s = (a + d) % n
  OBVIOUS
<1>3. p \in Int /\ r \in 0..(n - 1) /\ a = n * p + r
  BY <1>1, RemainderOf
<1>4. q \in Int /\ s \in 0..(n - 1) /\ a + d = n * q + s
  BY <1>0, <1>2, RemainderOf
<1>5. r \in Int /\ s \in Int /\ n * p \in Int /\ n * q \in Int
  BY <1>3, <1>4
<1>6. CASE r + d < n
  <2>1. r + d \in 0..(n - 1) /\ n * p + (r + d) = n * q + s
    BY <1>3, <1>4, <1>5, <1>6
  <2>2. r + d = s
    BY <1>3, <1>4, <2>1, RemainderUnique
  <2> QED
    BY <1>1, <1>2, <1>6, <2>2
<1>7. CASE r + d >= n
  <2>1. n * (p + 1) = n * p + n
    BY <1>3
  <2>2. r + d - n \in 0..(n - 1) /\ p + 1 \in Int
    BY <1>3, <1>7
  <2>3. n * (p + 1) + (r + d - n) = n * q + s
    BY <1>3, <1>4, <1>5, <2>1
  <2>4. r + d - n = s
    <3>1. PICK t, u : t = r + d - n /\ u = p + 1
      OBVIOUS
    <3>2. t \in 0..(n - 1) /\ u \in Int /\ n * u + t = n * q + s
      BY <2>2, <2>3, <3>1
    <3>3. t = s
      BY ONLY n \in Nat \ {0}, <1>4, <3>2, RemainderUnique
    <3> QED
      BY <3>1, <3>3
  <2> QED
    BY <1>1, <1>2, <1>3, <1>7, <2>4
<1> QED
  BY <1>3, <1>6, <1>7

\* A number below the divisor is its own remainder.
LEMMA SmallRemainder ==
    ASSUME NEW n \in Nat \ {0}, NEW a \in 0..(n - 1)
    PROVE  a % n = a
<1>1. a = n * (a \div n) + (a % n) /\ a \div n \in Int /\ a % n \in 0..(n - 1)
  BY RemainderOf
<1>2. n * 0 + a = a
  OBVIOUS
<1> QED
  BY <1>1, <1>2, RemainderUnique

\* The next slot of a circle of n.
LEMMA NextSlot ==
    ASSUME NEW n \in Nat \ {0}, NEW c \in 0..(n - 1)
    PROVE  (c + 1) % n = IF c = n - 1 THEN 0 ELSE c + 1
<1>1. CASE n = 1
  <2>1. c + 1 = 1 * 1 + 0 /\ (c + 1) % 1 \in 0..0
    BY <1>1
  <2> QED
    BY <1>1, <2>1
<1>2. CASE n # 1
  <2>1. c % n = c
    BY SmallRemainder
  <2>2. 1 \in 0..(n - 1) /\ c \in Nat
    BY <1>2
  <2>3. (c + 1) % n = IF (c % n) + 1 < n THEN (c % n) + 1 ELSE (c % n) + 1 - n
    BY <2>2, Wrap
  <2> QED
    BY <2>1, <2>3
<1> QED
  BY <1>1, <1>2

\* A set of naturals that is not empty has a least element.
LEMMA HasMin ==
    ASSUME NEW S \in SUBSET Nat, S # {}
    PROVE  Min(S) \in S /\ \A y \in S : Min(S) <= y
<1> DEFINE R == OpToRel(<, Nat)
<1> HIDE DEF R
<1>1. IsWellFoundedOn(R, Nat)
  BY NatLessThanWellFounded DEF R
<1>2. PICK x \in S : \A y \in S : ~(<<y, x>> \in R)
  BY <1>1, WFMin
<1>3. \A y \in S : ~(y < x)
  BY <1>2 DEF R, OpToRel
<1>4. \A y \in S : x <= y
  BY <1>3
<1> QED
  BY <1>4 DEF Min

-----------------------------------------------------------------------------
(***************************************************************************)
(* Slots in a circle.                                                      *)
(***************************************************************************)
\* Slot x is on the way from h, included, to s, not included.
Within(h, x, s) == IF h <= s THEN h <= x /\ x < s ELSE h <= x \/ x < s

Home(k, n) == hash[k] % n

\* The d-th slot a probe looks at, and which slots come before it.
LEMMA Probing ==
    ASSUME hash \in [Keys -> Nat], NEW k \in Keys, NEW n \in Nat \ {0}
    PROVE  /\ Home(k, n) \in 0..(n - 1)
           /\ \A d \in 0..(n - 1) : Nth(k, d, n) \in 0..(n - 1)
           /\ \A s \in 0..(n - 1) : \E e \in 0..(n - 1) : Nth(k, e, n) = s
           /\ \A d, e \in 0..(n - 1) :
                 d < e => (Nth(k, d, n) # Nth(k, e, n) /\ Within(Home(k, n), Nth(k, d, n), Nth(k, e, n)))
           /\ \A e, x \in 0..(n - 1) :
                 Within(Home(k, n), x, Nth(k, e, n)) => \E d \in 0..(n - 1) : d < e /\ Nth(k, d, n) = x
<1> DEFINE h == Home(k, n)
<1>1. h \in 0..(n - 1)
  BY RemainderOf DEF Home
<1>2. \A d \in 0..(n - 1) : Nth(k, d, n) = IF h + d < n THEN h + d ELSE h + d - n
  BY Wrap DEF Nth, Home
<1> HIDE DEF h
<1>3. \A d \in 0..(n - 1) : Nth(k, d, n) \in 0..(n - 1)
  BY <1>1, <1>2
<1>4. ASSUME NEW s \in 0..(n - 1)
      PROVE  \E e \in 0..(n - 1) : Nth(k, e, n) = s
  <2>1. CASE h <= s
    <3>1. s - h \in 0..(n - 1) /\ Nth(k, s - h, n) = s
      BY <1>1, <1>2, <2>1
    <3> QED
      BY <3>1
  <2>2. CASE s < h
    <3>1. s - h + n \in 0..(n - 1) /\ Nth(k, s - h + n, n) = s
      BY <1>1, <1>2, <2>2
    <3> QED
      BY <3>1
  <2> QED
    BY <1>1, <2>1, <2>2
<1>5. ASSUME NEW d \in 0..(n - 1), NEW e \in 0..(n - 1), d < e
      PROVE  Nth(k, d, n) # Nth(k, e, n) /\ Within(h, Nth(k, d, n), Nth(k, e, n))
  BY <1>1, <1>2, <1>5 DEF Within
<1>6. ASSUME NEW e \in 0..(n - 1), NEW x \in 0..(n - 1), Within(h, x, Nth(k, e, n))
      PROVE  \E d \in 0..(n - 1) : d < e /\ Nth(k, d, n) = x
  <2>1. PICK d \in 0..(n - 1) : Nth(k, d, n) = x
    BY <1>4
  <2>2. d < e
    BY <1>1, <1>2, <1>6, <2>1 DEF Within
  <2> QED
    BY <2>1, <2>2
<1> QED
  BY <1>1, <1>3, <1>4, <1>5, <1>6 DEF h

\* The circle of the repair loop: `del` is the hole, `cur` the slot it has looked
\* at, `nxt` the next one; h is the home and s the place of an element.
LEMMA Circle ==
    ASSUME NEW n \in Nat \ {0}, NEW del \in 0..(n - 1), NEW cur \in 0..(n - 1),
           NEW s \in 0..(n - 1), NEW h \in 0..(n - 1), NEW nxt,
           nxt = IF cur = n - 1 THEN 0 ELSE cur + 1
    PROVE  /\ nxt \in 0..(n - 1)
           /\ (Within(h, del, s) /\ ~MayStay(del, cur, s) /\ s # nxt /\ nxt # del)
                 => Within(h, nxt, s)
           /\ (nxt = del /\ s # del) => MayStay(del, cur, s)
           /\ (MayStay(del, nxt, s) /\ nxt # del) => (MayStay(del, cur, s) \/ s = nxt)
           /\ MayStay(del, nxt, h) => ~Within(h, del, nxt)
           /\ \A x \in 0..(n - 1) :
                 (~MayStay(del, nxt, h) /\ nxt # del /\ Within(h, x, del)) => Within(h, x, nxt)
           /\ ~Within(h, s, s)
           /\ ~MayStay(del, del, s)
  BY DEF Within, MayStay

-----------------------------------------------------------------------------
(***************************************************************************)
(* Arrays that can be probed.                                              *)
(***************************************************************************)
Element == [key : Keys \cup {NULL}, value : Values \cup {NULL}]

Array(els, n)    == els \in [0..(n - 1) -> Element]
Distinct(els, n) == \A i, j \in 0..(n - 1) :
                        (els[i].key # NULL /\ els[i].key = els[j].key) => i = j
\* No empty slot lies on the way from an element's home to the element.
Paths(els, n)    == \A s \in 0..(n - 1) : els[s].key # NULL =>
                        \A x \in 0..(n - 1) : Within(Home(els[s].key, n), x, s) => els[x].key # NULL
Good(els, n)     == Array(els, n) /\ Distinct(els, n) /\ Paths(els, n)

Entries(els) == {els[i] : i \in Occupied(els)}

\* The slot at which a lookup ends.
PlaceOf(els, k, n) == Nth(k, Min(LookupEnds(els, k, n)), n)

LEMMA HashTyped == TypeOK => hash \in [Keys -> Nat]
  BY HashTableAssumption DEF TypeOK

LEMMA ElementKey ==
    ASSUME NEW n, NEW els, Array(els, n), NEW i \in 0..(n - 1)
    PROVE  els[i] \in Element /\ (els[i].key = NULL \/ els[i].key \in Keys)
  BY DEF Array, Element

\* A lookup that ends ends at the key, if it is anywhere in the array, and
\* otherwise at an empty slot that the key may be put into.
LEMMA LookupIs ==
    ASSUME hash \in [Keys -> Nat], NEW n \in Nat \ {0}, NEW els, Good(els, n), NEW k \in Keys,
           LookupEnds(els, k, n) # {}, NEW i, i = PlaceOf(els, k, n)
    PROVE  /\ i \in 0..(n - 1) /\ els[i].key \in {k, NULL}
           /\ els[i].key = NULL => \A j \in 0..(n - 1) : els[j].key # k
           /\ \A x \in 0..(n - 1) : Within(Home(k, n), x, i) => els[x].key # NULL
<1> DEFINE ends == LookupEnds(els, k, n)
<1>1. ends \subseteq 0..(n - 1) /\ ends \in SUBSET Nat
  BY DEF LookupEnds
<1>2. PICK m : m = Min(ends)
  OBVIOUS
<1>3. m \in ends /\ \A y \in ends : m <= y
  <2> HIDE DEF ends
  <2> QED
    BY <1>1, <1>2, HasMin DEF ends
<1>4. m \in 0..(n - 1) /\ i = Nth(k, m, n) /\ els[i].key \in {k, NULL}
  BY <1>2, <1>3 DEF LookupEnds, PlaceOf
<1>5. \A d \in 0..(n - 1) : d < m => els[Nth(k, d, n)].key \notin {k, NULL}
  BY <1>3, <1>4 DEF LookupEnds
<1>6. i \in 0..(n - 1)
  BY <1>4, Probing
<1>7. ASSUME NEW x \in 0..(n - 1), Within(Home(k, n), x, i)
      PROVE  els[x].key # NULL
  <2>1. PICK d \in 0..(n - 1) : d < m /\ Nth(k, d, n) = x
    BY <1>4, <1>7, Probing
  <2> QED
    BY <1>5, <2>1
<1>8. ASSUME els[i].key = NULL, NEW j \in 0..(n - 1), els[j].key = k
      PROVE  FALSE
  <2>1. PICK e \in 0..(n - 1) : Nth(k, e, n) = j
    BY Probing
  <2>2. e \in ends
    BY <1>8, <2>1 DEF LookupEnds
  <2>3. NULL # k
    BY HashTableAssumption
  <2>4. m < e
    <3>1. m <= e /\ m # e
      BY <1>3, <1>4, <1>8, <2>1, <2>2, <2>3
    <3> QED
      BY <1>4, <3>1
  <2>5. Within(Home(k, n), i, j)
    BY <1>4, <2>1, <2>4, Probing
  <2> QED
    BY <1>6, <1>8, <2>3, <2>5 DEF Good, Paths
<1> QED
  BY <1>4, <1>6, <1>7, <1>8

\* A lookup that does not end has gone round a full array without the key.
LEMMA LookupRound ==
    ASSUME hash \in [Keys -> Nat], NEW n \in Nat \ {0}, NEW els, NEW k \in Keys,
           LookupEnds(els, k, n) = {}
    PROVE  \A j \in 0..(n - 1) : els[j].key \notin {k, NULL}
<1> SUFFICES ASSUME NEW j \in 0..(n - 1), els[j].key \in {k, NULL}
             PROVE  FALSE
  OBVIOUS
<1>1. PICK e \in 0..(n - 1) : Nth(k, e, n) = j
  BY Probing
<1>2. e \in LookupEnds(els, k, n)
  BY <1>1 DEF LookupEnds
<1> QED
  BY <1>2

LEMMA OccupiedIs ==
    ASSUME NEW n \in Nat, NEW els, Array(els, n)
    PROVE  /\ Occupied(els) = {i \in 0..(n - 1) : els[i].key # NULL}
           /\ IsFiniteSet(Occupied(els)) /\ Cardinality(Occupied(els)) \in 0..n
           /\ Cardinality(Occupied(els)) < n => \E i \in 0..(n - 1) : els[i].key = NULL
<1> DEFINE S == 0..(n - 1)
<1>1. Occupied(els) = {i \in 0..(n - 1) : els[i].key # NULL}
  BY DEF Occupied, Array
<1>2. IsFiniteSet(S) /\ Cardinality(S) = n
  BY FS_Interval
<1>3. Occupied(els) \in SUBSET S
  BY <1>1
<1> HIDE DEF S
<1>4. IsFiniteSet(Occupied(els)) /\ Cardinality(Occupied(els)) <= n
  BY <1>2, <1>3, FS_Subset
<1>5. Cardinality(Occupied(els)) \in Nat
  BY <1>4, FS_CardinalityType
<1>6. ASSUME \A i \in S : els[i].key # NULL
      PROVE  Cardinality(Occupied(els)) = n
  <2>1. Occupied(els) = S
    BY <1>1, <1>6 DEF S
  <2> QED
    BY <1>2, <2>1
<1> QED
  BY <1>1, <1>4, <1>5, <1>6 DEF S

\* Slot i is empty, and the end of the probe of e, whose key is nowhere in els.
Fits(els, n, e, i) ==
    /\ e \in Element /\ e.key # NULL
    /\ i \in 0..(n - 1) /\ els[i].key = NULL
    /\ \A j \in 0..(n - 1) : els[j].key # e.key
    /\ \A x \in 0..(n - 1) : Within(Home(e.key, n), x, i) => els[x].key # NULL

\* Array u is els with one more element, e.
Added(els, n, e, u) ==
    /\ Good(u, n)
    /\ Cardinality(Occupied(u)) = Cardinality(Occupied(els)) + 1
    /\ Entries(u) = Entries(els) \cup {e}

\* An element is put into an empty slot at the end of its probe.
LEMMA PutGood ==
    ASSUME NEW n \in Nat \ {0}, NEW els, Good(els, n), NEW e, NEW i, Fits(els, n, e, i)
    PROVE  Added(els, n, e, [els EXCEPT ![i] = e])
<1>0. PICK u : u = [els EXCEPT ![i] = e]
  OBVIOUS
<1>a. /\ e \in Element /\ e.key # NULL /\ i \in 0..(n - 1) /\ els[i].key = NULL
      /\ \A j \in 0..(n - 1) : els[j].key # e.key
      /\ \A x \in 0..(n - 1) : Within(Home(e.key, n), x, i) => els[x].key # NULL
  BY DEF Fits
<1>1. Array(u, n) /\ u[i] = e /\ \A x \in 0..(n - 1) : x # i => u[x] = els[x]
  BY <1>0, <1>a DEF Good, Array
<1>2. Distinct(u, n)
  BY <1>1, <1>a DEF Good, Distinct
<1>3. Paths(u, n)
  <2> SUFFICES ASSUME NEW s \in 0..(n - 1), u[s].key # NULL, NEW x \in 0..(n - 1),
                      Within(Home(u[s].key, n), x, s)
               PROVE  u[x].key # NULL
    BY DEF Paths
  <2>1. CASE x = i
    BY <1>1, <1>a, <2>1
  <2>2. CASE x # i /\ s = i
    BY <1>1, <1>a, <2>2
  <2>3. CASE x # i /\ s # i
    <3>1. u[s] = els[s] /\ u[x] = els[x]
      BY <1>1, <2>3
    <3> QED
      BY <3>1 DEF Good, Paths
  <2> QED
    BY <2>1, <2>2, <2>3
<1>4. /\ Occupied(els) = {j \in 0..(n - 1) : els[j].key # NULL}
      /\ Occupied(u) = {j \in 0..(n - 1) : u[j].key # NULL}
      /\ IsFiniteSet(Occupied(els))
  <2>1. n \in Nat /\ Array(els, n) /\ Array(u, n)
    BY <1>1 DEF Good
  <2>2. Occupied(els) = {j \in 0..(n - 1) : els[j].key # NULL} /\ IsFiniteSet(Occupied(els))
    BY ONLY <2>1, OccupiedIs
  <2>3. Occupied(u) = {j \in 0..(n - 1) : u[j].key # NULL}
    BY ONLY <2>1, OccupiedIs
  <2> QED
    BY <2>2, <2>3
<1>5. Occupied(u) = Occupied(els) \cup {i} /\ i \notin Occupied(els)
  <2>1. \A j \in 0..(n - 1) : u[j].key # NULL <=> (els[j].key # NULL \/ j = i)
    BY <1>1, <1>a
  <2> QED
    BY <1>4, <1>a, <2>1
<1>6. Cardinality(Occupied(u)) = Cardinality(Occupied(els)) + 1
  BY <1>4, <1>5, FS_AddElement
<1>7. Entries(u) = Entries(els) \cup {e}
  <2>1. ASSUME NEW z \in Entries(u)
        PROVE  z \in Entries(els) \cup {e}
    <3>1. PICK j \in Occupied(u) : z = u[j]
      BY DEF Entries
    <3>2. CASE j = i
      BY <1>1, <3>1, <3>2
    <3>3. CASE j # i
      <4>1. j \in Occupied(els) /\ z = els[j]
        BY <1>1, <1>4, <1>5, <3>1, <3>3
      <4> QED
        BY <4>1 DEF Entries
    <3> QED
      BY <3>2, <3>3
  <2>2. ASSUME NEW z \in Entries(els)
        PROVE  z \in Entries(u)
    <3>1. PICK j \in Occupied(els) : z = els[j]
      BY DEF Entries
    <3>2. j \in Occupied(u) /\ u[j] = z
      BY <1>1, <1>4, <1>5, <3>1
    <3> QED
      BY <3>2 DEF Entries
  <2>3. e \in Entries(u)
    BY <1>1, <1>5 DEF Entries
  <2> QED
    BY <2>1, <2>2, <2>3
<1> QED
  BY <1>0, <1>1, <1>2, <1>3, <1>6, <1>7 DEF Good, Added

\* grow_hashtable puts an element into the first empty slot.
LEMMA PlaceGood ==
    ASSUME hash \in [Keys -> Nat], NEW n \in Nat \ {0}, NEW els, Good(els, n),
           NEW e \in Element, e.key # NULL, \A j \in 0..(n - 1) : els[j].key # e.key,
           Cardinality(Occupied(els)) < n
    PROVE  Added(els, n, e, Place(els, e, n))
<1>1. e.key \in Keys
  BY DEF Element
<1>2. PICK k : k = e.key
  OBVIOUS
<1> DEFINE free == {d \in 0..(n - 1) : els[Nth(k, d, n)].key = NULL}
<1>3. free # {}
  <2>0. Array(els, n) /\ n \in Nat
    BY DEF Good
  <2>1. PICK j \in 0..(n - 1) : els[j].key = NULL
    BY ONLY <2>0, Cardinality(Occupied(els)) < n, OccupiedIs, Zenon
  <2>2. k \in Keys
    BY <1>1, <1>2
  <2>3. \A s \in 0..(n - 1) : \E d \in 0..(n - 1) : Nth(k, d, n) = s
    BY ONLY hash \in [Keys -> Nat], n \in Nat \ {0}, <2>2, Probing
  <2>4. PICK d \in 0..(n - 1) : Nth(k, d, n) = j
    BY <2>3
  <2> QED
    BY <2>1, <2>4
<1>4. free \in SUBSET Nat
  OBVIOUS
<1>5. PICK m : m = Min(free)
  OBVIOUS
<1>6. m \in free /\ \A y \in free : m <= y
  <2> HIDE DEF free
  <2> QED
    BY <1>3, <1>4, <1>5, HasMin
<1>7. PICK i : i = Nth(k, m, n)
  OBVIOUS
<1>8. m \in 0..(n - 1) /\ i \in 0..(n - 1) /\ els[i].key = NULL
  BY <1>1, <1>2, <1>6, <1>7, Probing
<1>9. \A d \in 0..(n - 1) : d < m => els[Nth(k, d, n)].key # NULL
  BY <1>6, <1>8
<1>10. ASSUME NEW x \in 0..(n - 1), Within(Home(k, n), x, i)
       PROVE  els[x].key # NULL
  <2>1. PICK d \in 0..(n - 1) : d < m /\ Nth(k, d, n) = x
    BY <1>1, <1>2, <1>7, <1>8, <1>10, Probing
  <2> QED
    BY <1>9, <2>1
<1>11. PICK u : u = Place(els, e, n)
  OBVIOUS
<1>12. u = [els EXCEPT ![i] = e]
  BY <1>2, <1>5, <1>7, <1>11 DEF Place
<1> HIDE DEF free
<1>13. \A x \in 0..(n - 1) : Within(Home(e.key, n), x, i) => els[x].key # NULL
  BY <1>2, <1>10
<1>14. Fits(els, n, e, i)
  BY <1>8, <1>13 DEF Fits
<1>15. Added(els, n, e, [els EXCEPT ![i] = e])
  BY ONLY <1>14, n \in Nat \ {0}, Good(els, n), PutGood
<1> QED
  BY <1>11, <1>12, <1>15

-----------------------------------------------------------------------------
(***************************************************************************)
(* Growth.                                                                 *)
(***************************************************************************)
\* The array after old slot i has been looked at, when it was els before.
Moved(els, i, n) == IF elements[i].key = NULL THEN els ELSE Place(els, elements[i], n)

\* The loop of grow_hashtable: some sequence of arrays leads from the fresh one
\* to the result, one per slot of the old array.
LEMMA RehashedSteps ==
    ASSUME capacity \in Nat, NEW n, NEW fresh
    PROVE  \E p : /\ Rehashed(fresh, n) = p[capacity]
                  /\ p[0] = fresh
                  /\ \A i \in 0..(capacity - 1) : p[i + 1] = Moved(p[i], i, n)
<1> DEFINE IsRun(g, m) == g = [i \in 0..m |-> IF i = 0 THEN fresh ELSE Moved(g[i - 1], i - 1, n)]
           Missing == {m \in 0..capacity : ~\E g : IsRun(g, m)}
<1>1. ASSUME Missing # {} PROVE FALSE
  <2>1. PICK m : m = Min(Missing)
    OBVIOUS
  <2>2. Missing \in SUBSET Nat
    OBVIOUS
  <2>3. m \in Missing /\ \A y \in Missing : m <= y
    <3> HIDE DEF Missing
    <3> QED
      BY <1>1, <2>1, <2>2, HasMin
  <2>4. CASE m = 0
    <3>1. IsRun([i \in 0..0 |-> fresh], 0)
      OBVIOUS
    <3> QED
      BY <2>3, <2>4, <3>1
  <2>5. CASE m # 0
    <3>1. m \in 0..capacity /\ m - 1 \in 0..capacity /\ m - 1 \notin Missing
      BY <2>3, <2>5
    <3>2. PICK g : IsRun(g, m - 1)
      BY <3>1
    <3> DEFINE h == [i \in 0..m |-> IF i < m THEN g[i] ELSE Moved(g[m - 1], m - 1, n)]
    <3>3. \A i \in 0..(m - 1) : h[i] = g[i]
      BY <3>1
    <3>4. h[m] = Moved(g[m - 1], m - 1, n)
      BY <3>1
    <3>5. \A i \in 0..(m - 1) : g[i] = IF i = 0 THEN fresh ELSE Moved(g[i - 1], i - 1, n)
      BY <3>1, <3>2
    <3>6. \A i \in 0..m : h[i] = IF i = 0 THEN fresh ELSE Moved(h[i - 1], i - 1, n)
      <4> SUFFICES ASSUME NEW i \in 0..m
                   PROVE  h[i] = IF i = 0 THEN fresh ELSE Moved(h[i - 1], i - 1, n)
        OBVIOUS
      <4> HIDE DEF h
      <4>1. CASE i = m
        <5>1. h[i - 1] = g[i - 1]
          BY <2>5, <3>1, <3>3, <4>1
        <5> QED
          BY <2>5, <3>4, <4>1, <5>1
      <4>2. CASE i # m
        <5>1. i \in 0..(m - 1)
          BY <3>1, <4>2
        <5>2. i = 0 \/ (i - 1 \in 0..(m - 1) /\ h[i - 1] = g[i - 1])
          BY <3>1, <3>3, <5>1
        <5> QED
          BY <3>3, <3>5, <5>1, <5>2
      <4> QED
        BY <4>1, <4>2
    <3>7. IsRun(h, m)
      BY <3>6
    <3> QED
      BY <2>3, <3>7
  <2> QED
    BY <2>4, <2>5
<1>2. \E g : IsRun(g, capacity)
  <2>1. capacity \in 0..capacity /\ capacity \notin Missing
    BY <1>1
  <2> HIDE DEF IsRun
  <2> QED
    BY <2>1
<1>3. \E g : g = [i \in 0..capacity |->
                   IF i = 0 THEN fresh
                   ELSE IF elements[i - 1].key = NULL THEN g[i - 1]
                   ELSE Place(g[i - 1], elements[i - 1], n)]
  BY <1>2 DEF Moved
<1>4. PICK p : /\ p = CHOOSE g : g = [i \in 0..capacity |->
                   IF i = 0 THEN fresh
                   ELSE IF elements[i - 1].key = NULL THEN g[i - 1]
                   ELSE Place(g[i - 1], elements[i - 1], n)]
  OBVIOUS
<1>5. p = [i \in 0..capacity |->
                   IF i = 0 THEN fresh
                   ELSE IF elements[i - 1].key = NULL THEN p[i - 1]
                   ELSE Place(p[i - 1], elements[i - 1], n)]
  BY <1>3, <1>4, Zenon
<1>6. Rehashed(fresh, n) = p[capacity]
  BY <1>4 DEF Rehashed
<1>7. p[0] = fresh
  BY <1>5
<1>8. \A i \in 0..(capacity - 1) : p[i + 1] = Moved(p[i], i, n)
  BY <1>5 DEF Moved
<1> QED
  BY <1>6, <1>7, <1>8

\* Rehashing into an empty array keeps every element, once.
LEMMA RehashGood ==
    ASSUME hash \in [Keys -> Nat], capacity \in Nat \ {0},
           Array(elements, capacity), Distinct(elements, capacity),
           NEW n \in Nat \ {0}, n = 2 * capacity, NEW fresh, fresh = [i \in 0..(n - 1) |-> Empty]
    PROVE  /\ Good(Rehashed(fresh, n), n)
           /\ Cardinality(Occupied(Rehashed(fresh, n))) = Cardinality(Occupied(elements))
           /\ Entries(Rehashed(fresh, n)) = Entries(elements)
<1>0. capacity \in Nat
  OBVIOUS
<1>1. PICK p : /\ Rehashed(fresh, n) = p[capacity]
               /\ p[0] = fresh
               /\ \A i \in 0..(capacity - 1) : p[i + 1] = Moved(p[i], i, n)
  BY ONLY <1>0, RehashedSteps
<1> DEFINE Before(i) == {j \in 0..(i - 1) : elements[j].key # NULL}
           Reached(i) == /\ Good(p[i], n)
                         /\ Cardinality(Occupied(p[i])) = Cardinality(Before(i))
                         /\ Entries(p[i]) = {elements[j] : j \in Before(i)}
           Missed == {i \in 0..capacity : ~Reached(i)}
<1>2. Reached(0)
  <2>1. Array(fresh, n)
    BY DEF Array, Empty, Element
  <2>2. Distinct(fresh, n) /\ Paths(fresh, n)
    BY DEF Distinct, Paths, Empty
  <2>3. Occupied(fresh) = {}
    BY DEF Occupied, Empty
  <2>4. Before(0) = {}
    OBVIOUS
  <2>5. Entries(fresh) = {}
    BY <2>3 DEF Entries
  <2> QED
    BY <1>1, <2>1, <2>2, <2>3, <2>4, <2>5 DEF Good
<1>3. ASSUME NEW i \in 0..(capacity - 1), Reached(i)
      PROVE  Reached(i + 1)
  <2>1. p[i + 1] = Moved(p[i], i, n)
    BY <1>1
  <2>2. CASE elements[i].key = NULL
    <3>1. p[i + 1] = p[i]
      BY <2>1, <2>2 DEF Moved
    <3>2. Before(i + 1) = Before(i)
      <4>1. ASSUME NEW j \in Before(i + 1) PROVE j \in Before(i)
        <5>1. j \in 0..i /\ j # i
          BY <2>2, <4>1
        <5> QED
          BY <4>1, <5>1
      <4>2. ASSUME NEW j \in Before(i) PROVE j \in Before(i + 1)
        BY <4>2
      <4> HIDE DEF Before
      <4> QED
        BY <4>1, <4>2
    <3> HIDE DEF Before
    <3> QED
      BY <1>3, <3>1, <3>2
  <2>3. CASE elements[i].key # NULL
    <3>1. p[i + 1] = Place(p[i], elements[i], n)
      BY <2>1, <2>3 DEF Moved
    <3>2. Before(i + 1) = Before(i) \cup {i} /\ i \notin Before(i)
      BY <2>3
    <3>3. IsFiniteSet(0..(i - 1)) /\ Cardinality(0..(i - 1)) = i
      <4>1. PICK b : b = i - 1
        OBVIOUS
      <4>2. 0 \in Int /\ b \in Int
        BY <4>1
      <4>3. IsFiniteSet(0..b) /\ Cardinality(0..b) = IF 0 > b THEN 0 ELSE b - 0 + 1
        BY ONLY <4>2, FS_Interval
      <4> QED
        BY <4>1, <4>2, <4>3
    <3>4. IsFiniteSet(Before(i)) /\ Cardinality(Before(i)) <= i
      <4>1. Before(i) \in SUBSET (0..(i - 1))
        OBVIOUS
      <4> HIDE DEF Before
      <4> QED
        BY <3>3, <4>1, FS_Subset
    <3>5. Cardinality(Before(i + 1)) = Cardinality(Before(i)) + 1
      <4> HIDE DEF Before
      <4> QED
        BY <3>2, <3>4, FS_AddElement
    <3>6. PICK els, e : els = p[i] /\ e = elements[i]
      OBVIOUS
    <3>7. e \in Element /\ e.key # NULL
      BY <2>3, <3>6 DEF Array
    <3>8. Cardinality(Occupied(els)) < n
      <4>1. Cardinality(Before(i)) \in Nat
        BY <3>4, FS_CardinalityType
      <4> HIDE DEF Before
      <4> QED
        BY <1>3, <3>4, <3>6, <4>1
    <3>9. ASSUME NEW j \in 0..(n - 1), els[j].key = e.key
          PROVE  FALSE
      <4>1. Array(els, n)
        BY <1>3, <3>6 DEF Good
      <4>2. j \in Occupied(els)
        BY <3>7, <3>9, <4>1 DEF Occupied, Array
      <4>3. els[j] \in Entries(els)
        BY <4>2 DEF Entries
      <4>4. PICK m \in Before(i) : els[j] = elements[m]
        BY <1>3, <3>6, <4>3
      <4>5. m \in 0..(capacity - 1) /\ m # i
        BY <4>4
      <4>6. elements[m].key = elements[i].key
        BY <3>6, <3>9, <4>4
      <4> QED
        BY <2>3, <4>5, <4>6 DEF Distinct
    <3>10. Good(els, n)
      BY <1>3, <3>6
    <3>11. Added(els, n, e, Place(els, e, n))
      BY ONLY hash \in [Keys -> Nat], n \in Nat \ {0}, <3>7, <3>8, <3>9, <3>10, PlaceGood
    <3>12. Added(els, n, e, p[i + 1])
      BY <3>1, <3>6, <3>11
    <3>13. {elements[j] : j \in Before(i + 1)} = {elements[j] : j \in Before(i)} \cup {e}
      <4> HIDE DEF Before
      <4> QED
        BY <3>2, <3>6
    <3> HIDE DEF Before
    <3> QED
      BY <1>3, <3>5, <3>6, <3>12, <3>13 DEF Added
  <2> QED
    BY <2>2, <2>3
<1>4. Missed = {}
  <2> SUFFICES ASSUME Missed # {} PROVE FALSE
    OBVIOUS
  <2>1. Missed \in SUBSET Nat
    OBVIOUS
  <2>2. PICK m : m = Min(Missed)
    OBVIOUS
  <2> HIDE DEF Reached
  <2>3. m \in Missed /\ \A y \in Missed : m <= y
    <3> HIDE DEF Missed
    <3> QED
      BY <2>1, <2>2, HasMin
  <2>4. m \in 0..capacity /\ m # 0
    BY <1>2, <2>3
  <2>5. m - 1 \in 0..(capacity - 1) /\ m - 1 \notin Missed
    BY <2>3, <2>4
  <2>6. Reached(m - 1)
    BY <2>5
  <2>7. Reached((m - 1) + 1)
    BY <1>3, <2>5, <2>6
  <2>8. (m - 1) + 1 = m
    BY <2>4
  <2> QED
    BY <2>3, <2>7, <2>8
<1>5. Reached(capacity)
  <2> HIDE DEF Reached
  <2>1. capacity \in 0..capacity
    OBVIOUS
  <2> QED
    BY <1>4, <2>1
<1>6. Before(capacity) = Occupied(elements)
  BY DEF Occupied, Array
<1> HIDE DEF Before
<1>7. /\ Good(p[capacity], n)
      /\ Cardinality(Occupied(p[capacity])) = Cardinality(Before(capacity))
      /\ Entries(p[capacity]) = {elements[j] : j \in Before(capacity)}
  BY <1>5
<1>8. Entries(elements) = {elements[j] : j \in Before(capacity)}
  BY <1>6 DEF Entries
<1> QED
  BY <1>1, <1>6, <1>7, <1>8

-----------------------------------------------------------------------------
(***************************************************************************)
(* The inductive invariant.  A deletion leaves a hole; what its loop has   *)
(* looked at since is occupied, and the hole is on the way only to         *)
(* elements that the loop has not come to.                                 *)
(***************************************************************************)
Filled(els, n, del, cur) ==
    \A x \in 0..(n - 1) : MayStay(del, cur, x) => els[x].key # NULL

PathsBut(els, n, del, cur) ==
    \A s \in 0..(n - 1) : els[s].key # NULL =>
        \A x \in 0..(n - 1) : Within(Home(els[s].key, n), x, s) =>
            (els[x].key # NULL \/ (x = del /\ ~MayStay(del, cur, s)))

Hole(els, n, del, cur) ==
    /\ del \in 0..(n - 1) /\ cur \in 0..(n - 1)
    /\ els[del].key = NULL
    /\ Filled(els, n, del, cur)
    /\ PathsBut(els, n, del, cur)

Stored ==
    /\ hash \in [Keys -> HashValues]
    /\ capacity \in 1..MaxCapacity
    /\ Array(elements, capacity)
    /\ Distinct(elements, capacity)
    /\ count = Cardinality(Occupied(elements))
    /\ answer \in Values \cup BOOLEAN \cup {NULL, NoAnswer}

Findable ==
    \/ repair = NULL /\ Paths(elements, capacity)
    \/ \E del, cur \in 0..(capacity - 1) :
          repair = [deletion |-> del, current |-> cur] /\ Hole(elements, capacity, del, cur)

Inv == Stored /\ Findable

\* What holds in reused memory too.
Typed ==
    /\ hash \in [Keys -> HashValues]
    /\ capacity \in 1..MaxCapacity
    /\ Array(elements, capacity)
    /\ count \in 0..CountMax
    /\ repair \in [deletion : 0..(capacity - 1), current : 0..(capacity - 1)] \cup {NULL}
    /\ answer \in Values \cup BOOLEAN \cup {NULL, NoAnswer}
    /\ zeroed \in BOOLEAN

-----------------------------------------------------------------------------
(***************************************************************************)
(* What an array holds, as a map.                                          *)
(***************************************************************************)
ContentsOf(els) ==
    [k \in {els[i].key : i \in Occupied(els)} |-> (CHOOSE e \in Range(els) : e.key = k).value]

LEMMA ContentsAre == Contents = ContentsOf(elements) /\ Contents' = ContentsOf(elements')
  BY DEF Contents, ContentsOf, Occupied

\* The map's keys are the entries' keys, each with its entry's value.
LEMMA ContentsIs ==
    ASSUME NEW n, NEW els, Array(els, n), Distinct(els, n)
    PROVE  /\ DOMAIN ContentsOf(els) = {e.key : e \in Entries(els)}
           /\ \A e \in Entries(els) : ContentsOf(els)[e.key] = e.value
           /\ \A e \in Entries(els) : e \in Element /\ e.key \in Keys /\ e.key # NULL
           /\ \A e, f \in Entries(els) : e.key = f.key => e = f
<1>1. Occupied(els) = {i \in 0..(n - 1) : els[i].key # NULL}
  BY DEF Occupied, Array
<1>2. {els[i].key : i \in Occupied(els)} = {e.key : e \in Entries(els)}
  BY DEF Entries
<1>3. DOMAIN ContentsOf(els) = {e.key : e \in Entries(els)}
  BY <1>2 DEF ContentsOf
<1>4. ASSUME NEW e \in Entries(els)
      PROVE  e \in Element /\ e.key \in Keys /\ e.key # NULL
  <2>1. PICK i \in 0..(n - 1) : e = els[i] /\ els[i].key # NULL
    BY <1>1 DEF Entries
  <2> QED
    BY <2>1 DEF Array, Element
<1>5. ASSUME NEW e \in Entries(els), NEW f \in Entries(els), e.key = f.key
      PROVE  e = f
  <2>1. PICK i \in 0..(n - 1) : e = els[i] /\ els[i].key # NULL
    BY <1>1 DEF Entries
  <2>2. PICK j \in 0..(n - 1) : f = els[j] /\ els[j].key # NULL
    BY <1>1 DEF Entries
  <2> QED
    BY <1>5, <2>1, <2>2 DEF Distinct
<1>6. ASSUME NEW e \in Entries(els)
      PROVE  ContentsOf(els)[e.key] = e.value
  <2>1. PICK k : k = e.key
    OBVIOUS
  <2>2. k \in {els[i].key : i \in Occupied(els)}
    BY <1>2, <2>1
  <2>3. ContentsOf(els)[k] = (CHOOSE f \in Range(els) : f.key = k).value
    BY <2>2 DEF ContentsOf
  <2>4. PICK f : f = CHOOSE g \in Range(els) : g.key = k
    OBVIOUS
  <2>5. e \in Range(els)
    BY <1>1 DEF Entries, Range, Array
  <2>6. f \in Range(els) /\ f.key = k
    BY <2>1, <2>4, <2>5
  <2>7. f \in Entries(els)
    BY <1>1, <1>4, <2>1, <2>6 DEF Entries, Range, Array
  <2>8. f = e
    BY <1>5, <2>1, <2>6, <2>7
  <2> QED
    BY <2>1, <2>3, <2>4, <2>8
<1> QED
  BY <1>3, <1>4, <1>5, <1>6

LEMMA ContentsFunction ==
    ASSUME NEW els
    PROVE  ContentsOf(els) = [k \in DOMAIN ContentsOf(els) |-> ContentsOf(els)[k]]
  BY DEF ContentsOf

\* Where the elements lie in their arrays does not matter.
LEMMA SameContents ==
    ASSUME NEW n, NEW a, Array(a, n), Distinct(a, n),
           NEW m, NEW b, Array(b, m), Distinct(b, m), Entries(a) = Entries(b)
    PROVE  ContentsOf(a) = ContentsOf(b)
<1> DEFINE f == ContentsOf(a)
           g == ContentsOf(b)
<1>1. DOMAIN f = {e.key : e \in Entries(a)} /\ \A e \in Entries(a) : f[e.key] = e.value
  BY ContentsIs
<1>2. DOMAIN g = {e.key : e \in Entries(a)} /\ \A e \in Entries(a) : g[e.key] = e.value
  <2>1. DOMAIN g = {e.key : e \in Entries(b)} /\ \A e \in Entries(b) : g[e.key] = e.value
    BY ContentsIs
  <2> QED
    BY <2>1
<1>3. f = [k \in DOMAIN f |-> f[k]] /\ g = [k \in DOMAIN g |-> g[k]]
  BY ContentsFunction
<1> HIDE DEF f, g
<1>4. \A k \in DOMAIN f : f[k] = g[k]
  BY <1>1, <1>2
<1>5. f = g
  BY <1>1, <1>2, <1>3, <1>4
<1> QED
  BY <1>5 DEF f, g

\* One more entry is one more key.
LEMMA AddedContents ==
    ASSUME NEW n, NEW a, Array(a, n), Distinct(a, n), NEW b, Array(b, n), Distinct(b, n),
           NEW e0, Entries(b) = Entries(a) \cup {e0}, \A e \in Entries(a) : e.key # e0.key,
           NEW k, k = e0.key
    PROVE  /\ k \notin DOMAIN ContentsOf(a)
           /\ ContentsOf(b) = [j \in DOMAIN ContentsOf(a) \cup {k} |->
                                  IF j = k THEN e0.value ELSE ContentsOf(a)[j]]
<1> DEFINE f == ContentsOf(a)
           g == ContentsOf(b)
<1>1. DOMAIN f = {e.key : e \in Entries(a)} /\ \A e \in Entries(a) : f[e.key] = e.value
  BY ContentsIs
<1>2. DOMAIN g = {e.key : e \in Entries(b)} /\ \A e \in Entries(b) : g[e.key] = e.value
  BY ContentsIs
<1>3. g = [j \in DOMAIN g |-> g[j]]
  BY ContentsFunction
<1> HIDE DEF f, g
<1>4. k \notin DOMAIN f
  BY <1>1
<1>5. e0.key = k /\ e0 \in Entries(b)
  OBVIOUS
<1>6. g[k] = e0.value
  BY <1>2, <1>5
<1>7. DOMAIN g = DOMAIN f \cup {k}
  BY <1>1, <1>2, <1>5
<1>8. \A j \in DOMAIN f : g[j] = f[j]
  BY <1>1, <1>2
<1>9. g = [j \in DOMAIN f \cup {k} |-> IF j = k THEN e0.value ELSE f[j]]
  BY <1>3, <1>4, <1>6, <1>7, <1>8
<1> QED
  BY <1>4, <1>9 DEF f, g

\* One entry fewer is one key fewer.
LEMMA RemovedContents ==
    ASSUME NEW n, NEW a, Array(a, n), Distinct(a, n), NEW b, Array(b, n), Distinct(b, n),
           NEW e0 \in Entries(a), Entries(b) = Entries(a) \ {e0}
    PROVE  /\ e0.key \in DOMAIN ContentsOf(a)
           /\ ContentsOf(b) = Restrict(ContentsOf(a), DOMAIN ContentsOf(a) \ {e0.key})
<1> DEFINE f == ContentsOf(a)
           g == ContentsOf(b)
<1>1. /\ DOMAIN f = {e.key : e \in Entries(a)} /\ \A e \in Entries(a) : f[e.key] = e.value
      /\ \A d, e \in Entries(a) : d.key = e.key => d = e
  BY ContentsIs
<1>2. DOMAIN g = {e.key : e \in Entries(b)} /\ \A e \in Entries(b) : g[e.key] = e.value
  BY ContentsIs
<1>3. g = [j \in DOMAIN g |-> g[j]]
  BY ContentsFunction
<1> HIDE DEF f, g
<1>4. e0.key \in DOMAIN f
  BY <1>1
<1>5. DOMAIN g = DOMAIN f \ {e0.key}
  BY <1>1, <1>2
<1>6. \A j \in DOMAIN g : g[j] = f[j]
  BY <1>1, <1>2
<1>7. g = Restrict(f, DOMAIN f \ {e0.key})
  BY <1>3, <1>5, <1>6 DEF Restrict
<1> QED
  BY <1>4, <1>7 DEF f, g

-----------------------------------------------------------------------------
(***************************************************************************)
(* Every call keeps the invariant and answers as the map does.             *)
(***************************************************************************)
LEMMA StoredFacts ==
    ASSUME Stored
    PROVE  /\ hash \in [Keys -> Nat] /\ capacity \in Nat \ {0}
           /\ Array(elements, capacity) /\ Distinct(elements, capacity)
<1>1. hash \in [Keys -> HashValues] /\ HashValues \subseteq Nat
  BY HashTableAssumption DEF Stored
<1>2. hash \in [Keys -> Nat]
  BY <1>1
<1>3. capacity \in Nat \ {0}
  BY HashTableAssumption DEF Stored
<1> QED
  BY <1>2, <1>3 DEF Stored

LEMMA InvNoRepair ==
    ASSUME Inv, repair = NULL
    PROVE  Stored /\ Good(elements, capacity)
<1>0. capacity \in Nat
  BY StoredFacts DEF Inv
<1>1. ASSUME NEW del \in 0..(capacity - 1), NEW cur \in 0..(capacity - 1)
      PROVE  [deletion |-> del, current |-> cur] # NULL
  <2>1. del \in Nat /\ cur \in Nat
    BY <1>0
  <2>2. [deletion |-> del, current |-> cur] \in [deletion : Nat, current : Nat]
    BY <2>1
  <2> QED
    BY <2>2, HashTableAssumption
<1> QED
  BY <1>1 DEF Inv, Findable, Good, Stored

LEMMA LookupFinds ==
    ASSUME Inv, repair = NULL, NEW k \in Keys
    PROVE  /\ Lookup(k) = NULL => (\A j \in 0..(capacity - 1) : elements[j].key # k)
           /\ Lookup(k) # NULL =>
                 Lookup(k) \in 0..(capacity - 1) /\ elements[Lookup(k)].key = k
<1>1. Stored /\ Good(elements, capacity)
  BY InvNoRepair
<1>2. hash \in [Keys -> Nat] /\ capacity \in Nat \ {0}
  BY <1>1, StoredFacts
<1>3. CASE LookupEnds(elements, k, capacity) = {}
  <2>1. Lookup(k) = NULL
    BY <1>3 DEF Lookup
  <2>2. \A j \in 0..(capacity - 1) : elements[j].key \notin {k, NULL}
    BY ONLY <1>2, <1>3, k \in Keys, LookupRound
  <2> QED
    BY <2>1, <2>2
<1>4. CASE LookupEnds(elements, k, capacity) # {}
  <2>1. PICK i : i = PlaceOf(elements, k, capacity)
    OBVIOUS
  <2>2. /\ i \in 0..(capacity - 1) /\ elements[i].key \in {k, NULL}
        /\ elements[i].key = NULL => \A j \in 0..(capacity - 1) : elements[j].key # k
    BY ONLY <1>1, <1>2, <1>4, <2>1, k \in Keys, LookupIs
  <2>3. Lookup(k) = IF elements[i].key = k THEN i ELSE NULL
    BY <1>4, <2>1 DEF Lookup, PlaceOf
  <2>4. i # NULL
    BY <2>2, HashTableAssumption
  <2> QED
    BY <2>2, <2>3, <2>4
<1> QED
  BY <1>3, <1>4

\* An array that holds what the table holds, with n slots.
Ready(els, n) ==
    /\ n \in 1..MaxCapacity
    /\ Good(els, n)
    /\ Entries(els) = Entries(elements)
    /\ Cardinality(Occupied(els)) = count

LEMMA InsertIntoGood ==
    ASSUME Inv, repair = NULL, NEW els, NEW n, Ready(els, n), NEW k \in Keys, NEW v \in Values,
           InsertInto(els, n, k, v)
    PROVE  Inv' /\ Map!Insert(k, v)
<1>1. Stored /\ Good(elements, capacity)
  BY InvNoRepair
<1>2. hash \in [Keys -> Nat] /\ n \in Nat \ {0} /\ Good(els, n)
  BY <1>1, StoredFacts, HashTableAssumption DEF Ready
<1>3. PICK i : i = PlaceOf(els, k, n)
  OBVIOUS
<1>4. LookupEnds(els, k, n) # {}
  BY DEF InsertInto
<1>5. /\ i \in 0..(n - 1) /\ els[i].key \in {k, NULL}
      /\ els[i].key = NULL => \A j \in 0..(n - 1) : els[j].key # k
      /\ \A x \in 0..(n - 1) : Within(Home(k, n), x, i) => els[x].key # NULL
  BY ONLY <1>2, <1>3, <1>4, k \in Keys, LookupIs
<1>6. k # NULL
  BY HashTableAssumption
<1>7. capacity' = n /\ hash' = hash /\ repair' = NULL
  BY DEF InsertInto
<1>8. Array(els, n) /\ Distinct(els, n) /\ Paths(els, n)
  BY <1>2 DEF Good
<1>9. ContentsOf(els) = Contents
  <2>1. Array(elements, capacity) /\ Distinct(elements, capacity) /\ Entries(els) = Entries(elements)
    BY <1>1 DEF Good, Ready
  <2>2. ContentsOf(els) = ContentsOf(elements)
    BY ONLY <1>8, <2>1, SameContents
  <2> QED
    BY <2>2, ContentsAre
<1>10. ASSUME Array(elements', n), Distinct(elements', n), Paths(elements', n),
              Cardinality(Occupied(elements')) = count', answer' \in Values \cup {NULL}
       PROVE  Inv'
  <2>1. hash' \in [Keys -> HashValues] /\ n \in 1..MaxCapacity
    BY <1>1, <1>7 DEF Stored, Ready
  <2>2. Occupied(elements)' = Occupied(elements')
    BY DEF Occupied
  <2>3. Stored'
    BY <1>7, <1>10, <2>1, <2>2 DEF Stored, Array, Distinct
  <2>4. Paths(elements, capacity)'
    BY <1>7, <1>10 DEF Paths, Home
  <2>5. Findable'
    BY <1>7, <2>4 DEF Findable
  <2> QED
    BY <2>3, <2>5 DEF Inv
<1>11. CASE els[i].key = k
  <2>1. elements' = els /\ answer' = els[i].value /\ count' = count
    BY <1>3, <1>11 DEF InsertInto, PlaceOf
  <2>2. els[i] \in Element
    BY <1>5, <1>8 DEF Array
  <2>3. answer' \in Values \cup {NULL}
    BY <2>1, <2>2 DEF Element
  <2>4. Cardinality(Occupied(elements')) = count'
    BY <2>1 DEF Ready
  <2>5. Inv'
    BY <1>8, <1>10, <2>1, <2>3, <2>4
  <2>6. els[i] \in Entries(els)
    BY <1>5, <1>6, <1>8, <1>11 DEF Entries, Occupied, Array
  <2>7. k \in DOMAIN Contents /\ Contents[k] = els[i].value
    <3>1. /\ DOMAIN ContentsOf(els) = {e.key : e \in Entries(els)}
          /\ \A e \in Entries(els) : ContentsOf(els)[e.key] = e.value
      BY ONLY <1>8, ContentsIs
    <3> QED
      BY <1>9, <1>11, <2>6, <3>1
  <2>8. Contents' = Contents
    BY <1>9, <2>1, ContentsAre
  <2> QED
    BY <2>1, <2>5, <2>7, <2>8 DEF Map!Insert
<1>12. CASE els[i].key # k
  <2>1. PICK e : e = [key |-> k, value |-> v]
    OBVIOUS
  <2>2. elements' = [els EXCEPT ![i] = e] /\ answer' = v /\ count' = Incremented
    BY <1>3, <1>12, <2>1 DEF InsertInto, PlaceOf
  <2>3. e \in Element /\ e.key = k
    BY <2>1 DEF Element
  <2>4. Fits(els, n, e, i)
    BY <1>5, <1>6, <1>12, <2>3 DEF Fits
  <2>5. Added(els, n, e, elements')
    <3>1. Added(els, n, e, [els EXCEPT ![i] = e])
      BY ONLY <1>2, <2>4, PutGood
    <3> QED
      BY <2>2, <3>1
  <2>a. PICK w, c : w = elements' /\ c = Cardinality(Occupied(els))
    OBVIOUS
  <2>b. Array(w, n) /\ n \in Nat /\ Cardinality(Occupied(w)) = c + 1 /\ c \in 0..n /\ c = count
    <3>1. c \in 0..n
      BY ONLY <1>2, <1>8, <2>a, OccupiedIs
    <3> QED
      BY <1>2, <2>a, <2>5, <3>1 DEF Added, Good, Ready
  <2>c. c + 1 \in 0..n
    <3>1. Cardinality(Occupied(w)) \in 0..n
      BY ONLY <2>b, OccupiedIs
    <3> QED
      BY <2>b, <3>1
  <2>d. count' = c + 1
    <3>1. c # CountMax
      BY <2>b, <2>c, HashTableAssumption DEF Ready
    <3> QED
      BY <2>2, <2>b, <3>1 DEF Incremented
  <2>6. /\ Array(elements', n) /\ Distinct(elements', n) /\ Paths(elements', n)
        /\ Cardinality(Occupied(elements')) = count'
        /\ Entries(elements') = Entries(els) \cup {e}
    BY <2>2, <2>5, <2>a, <2>d, <2>b DEF Added, Good, Ready
  <2>7. Inv'
    BY <1>10, <2>2, <2>6
  <2>8. \A f \in Entries(els) : f.key # k
    BY <1>5, <1>8, <1>12 DEF Entries, Occupied, Array
  <2>9. /\ k \notin DOMAIN ContentsOf(els)
        /\ ContentsOf(elements') = [j \in DOMAIN ContentsOf(els) \cup {k} |->
                                       IF j = k THEN v ELSE ContentsOf(els)[j]]
    <3>1. PICK u : u = elements'
      OBVIOUS
    <3>2. Array(u, n) /\ Distinct(u, n) /\ Entries(u) = Entries(els) \cup {e}
      BY <2>6, <3>1
    <3>a. k = e.key /\ v = e.value /\ \A f \in Entries(els) : f.key # e.key
      BY <2>1, <2>8
    <3>3. /\ k \notin DOMAIN ContentsOf(els)
          /\ ContentsOf(u) = [j \in DOMAIN ContentsOf(els) \cup {k} |->
                                       IF j = k THEN e.value ELSE ContentsOf(els)[j]]
      <4>1. /\ e.key \notin DOMAIN ContentsOf(els)
            /\ ContentsOf(u) = [j \in DOMAIN ContentsOf(els) \cup {e.key} |->
                                         IF j = e.key THEN e.value ELSE ContentsOf(els)[j]]
        BY ONLY <1>8, <3>2, <3>a, AddedContents
      <4> QED
        BY ONLY <3>a, <4>1
    <3> QED
      BY <3>1, <3>3, <3>a
  <2>10. /\ k \notin DOMAIN Contents
         /\ Contents' = [j \in DOMAIN Contents \cup {k} |-> IF j = k THEN v ELSE Contents[j]]
    BY <1>9, <2>9, ContentsAre
  <2>11. Contents'[k] = v
    BY <2>10
  <2> QED
    BY <2>2, <2>7, <2>10, <2>11 DEF Map!Insert
<1> QED
  BY <1>11, <1>12

LEMMA InsertHereGood ==
    ASSUME Inv, NEW k \in Keys, NEW v \in Values, InsertHere(k, v)
    PROVE  Inv' /\ Map!Insert(k, v)
<1>1. repair = NULL /\ InsertInto(elements, capacity, k, v)
  BY DEF InsertHere
<1>2. Stored /\ Good(elements, capacity)
  BY <1>1, InvNoRepair
<1>3. Ready(elements, capacity)
  BY <1>2 DEF Ready, Stored
<1> QED
  BY <1>1, <1>3, InsertIntoGood

LEMMA InsertGrowingGood ==
    ASSUME Inv, NEW k \in Keys, NEW v \in Values, InsertGrowing(k, v), zeroed'
    PROVE  Inv' /\ Map!Insert(k, v)
<1>1. PICK n : n = 2 * capacity
  OBVIOUS
<1>2. repair = NULL /\ n <= MaxCapacity
  BY <1>1 DEF InsertGrowing
<1>3. PICK fresh \in [0..(n - 1) -> Leftover] :
         /\ zeroed' = (zeroed /\ \A i \in DOMAIN fresh : fresh[i] = Empty)
         /\ InsertInto(Rehashed(fresh, n), n, k, v)
  BY <1>1 DEF InsertGrowing
<1>4. Stored
  BY DEF Inv
<1>5. hash \in [Keys -> Nat] /\ capacity \in Nat \ {0}
      /\ Array(elements, capacity) /\ Distinct(elements, capacity)
  BY <1>4, StoredFacts
<1>6. n \in Nat \ {0} /\ n \in 1..MaxCapacity
  BY <1>1, <1>2, <1>5, HashTableAssumption
<1>7. fresh = [i \in 0..(n - 1) |-> Empty]
  <2>1. \A i \in DOMAIN fresh : fresh[i] = Empty
    BY <1>3
  <2> QED
    BY <1>3, <2>1
<1>8. /\ Good(Rehashed(fresh, n), n)
      /\ Cardinality(Occupied(Rehashed(fresh, n))) = Cardinality(Occupied(elements))
      /\ Entries(Rehashed(fresh, n)) = Entries(elements)
  BY ONLY <1>1, <1>5, <1>6, <1>7, RehashGood
<1>9. Ready(Rehashed(fresh, n), n)
  BY <1>4, <1>6, <1>8 DEF Ready, Stored
<1> QED
  BY <1>2, <1>3, <1>9, InsertIntoGood

\* A step that leaves the array and the repair alone keeps the invariant.
LEMMA SameTable ==
    ASSUME Inv, UNCHANGED <<hash, capacity, count, elements, repair>>,
           answer' \in Values \cup BOOLEAN \cup {NULL, NoAnswer}
    PROVE  Inv' /\ Contents' = Contents
<1>1. Stored'
  BY DEF Inv, Stored, Array, Distinct, Occupied
<1>2. Findable'
  BY DEF Inv, Findable, Paths, Hole, Filled, PathsBut, Home
<1> QED
  BY <1>1, <1>2, ContentsAre DEF Inv

LEMMA InsertGrowFailsGood ==
    ASSUME Inv, InsertGrowFails
    PROVE  Inv' /\ Map!InsertRefused
<1>1. UNCHANGED <<hash, capacity, count, elements, repair>> /\ answer' = NULL
  BY DEF InsertGrowFails
<1>2. Inv' /\ Contents' = Contents
  BY <1>1, SameTable
<1> QED
  BY <1>1, <1>2 DEF Map!InsertRefused

\* An element of the array is an entry of the map, and the converse.
LEMMA InMap ==
    ASSUME Stored, NEW k \in Keys
    PROVE  /\ \A i \in 0..(capacity - 1) : elements[i].key = k =>
                 (k \in DOMAIN Contents /\ Contents[k] = elements[i].value
                  /\ elements[i] \in Entries(elements))
           /\ (\A i \in 0..(capacity - 1) : elements[i].key # k) => k \notin DOMAIN Contents
<1>1. Array(elements, capacity) /\ Distinct(elements, capacity)
  BY StoredFacts
<1>2. /\ DOMAIN Contents = {e.key : e \in Entries(elements)}
      /\ \A e \in Entries(elements) : Contents[e.key] = e.value
  BY <1>1, ContentsIs, ContentsAre
<1>3. k # NULL
  BY HashTableAssumption
<1>4. Entries(elements) = {elements[i] : i \in {j \in 0..(capacity - 1) : elements[j].key # NULL}}
  BY <1>1 DEF Entries, Occupied, Array
<1>5. ASSUME NEW i \in 0..(capacity - 1), elements[i].key = k
      PROVE  k \in DOMAIN Contents /\ Contents[k] = elements[i].value
             /\ elements[i] \in Entries(elements)
  BY <1>2, <1>3, <1>4, <1>5
<1>6. ASSUME \A i \in 0..(capacity - 1) : elements[i].key # k
      PROVE  k \notin DOMAIN Contents
  BY <1>2, <1>4, <1>6
<1> QED
  BY <1>5, <1>6

LEMMA GetGood ==
    ASSUME Inv, NEW k \in Keys, Get(k)
    PROVE  Inv' /\ Map!Get(k)
<1>1. repair = NULL /\ UNCHANGED <<hash, capacity, count, elements, repair>>
  BY DEF Get
<1>2. Stored /\ Good(elements, capacity)
  BY <1>1, InvNoRepair
<1>3. PICK i : i = Lookup(k)
  OBVIOUS
<1>4. /\ i = NULL => (\A j \in 0..(capacity - 1) : elements[j].key # k)
      /\ i # NULL => (i \in 0..(capacity - 1) /\ elements[i].key = k)
  BY <1>1, <1>3, LookupFinds
<1>5. answer' = IF i = NULL THEN NULL ELSE elements[i].value
  BY <1>3 DEF Get
<1>6. answer' = IF k \in DOMAIN Contents THEN Contents[k] ELSE NULL
  BY <1>2, <1>4, <1>5, InMap
<1>7. answer' \in Values \cup {NULL}
  <2>1. CASE i = NULL
    BY <1>5, <2>1
  <2>2. CASE i # NULL
    <3>1. elements[i] \in Element
      BY <1>2, <1>4, <2>2 DEF Good, Array
    <3> QED
      BY <1>5, <2>2, <3>1 DEF Element
  <2> QED
    BY <2>1, <2>2
<1>8. Inv' /\ Contents' = Contents
  BY <1>1, <1>7, SameTable
<1> QED
  BY <1>6, <1>8 DEF Map!Get

LEMMA EmptyArray ==
    ASSUME NEW n \in Nat \ {0}, NEW els, els = [i \in 0..(n - 1) |-> Empty]
    PROVE  /\ Array(els, n) /\ Distinct(els, n) /\ Paths(els, n)
           /\ Cardinality(Occupied(els)) = 0
           /\ ContentsOf(els) = << >>
<1>1. Occupied(els) = {}
  BY DEF Occupied, Empty
<1>2. Array(els, n)
  BY DEF Array, Empty, Element
<1>3. Distinct(els, n) /\ Paths(els, n)
  BY DEF Distinct, Paths, Empty
<1>4. DOMAIN ContentsOf(els) = {}
  BY <1>1 DEF ContentsOf
<1>5. ContentsOf(els) = << >>
  <2>1. PICK f : f = ContentsOf(els)
    OBVIOUS
  <2>2. f = [x \in DOMAIN f |-> f[x]]
    BY <2>1, ContentsFunction
  <2>3. f = [x \in {} |-> f[x]]
    BY <1>4, <2>1, <2>2
  <2>4. f = << >>
    BY ONLY <2>3
  <2> QED
    BY <2>1, <2>4
<1> QED
  BY <1>1, <1>2, <1>3, <1>5, FS_EmptySet

LEMMA ClearGood ==
    ASSUME Typed, Clear
    PROVE  Inv' /\ Map!Clear
<1>1. /\ repair = NULL /\ count' = 0 /\ answer' = NoAnswer
      /\ hash' = hash /\ capacity' = capacity /\ repair' = repair
      /\ elements' = [i \in 0..(capacity - 1) |-> Empty]
  BY DEF Clear, Slots
<1>2. hash \in [Keys -> HashValues] /\ capacity \in 1..MaxCapacity
  BY DEF Typed
<1>3. PICK n, u : n = capacity /\ u = elements'
  OBVIOUS
<1>4. n \in Nat \ {0} /\ u = [i \in 0..(n - 1) |-> Empty]
  BY <1>1, <1>2, <1>3, HashTableAssumption
<1>5. /\ Array(u, n) /\ Distinct(u, n) /\ Paths(u, n)
      /\ Cardinality(Occupied(u)) = 0 /\ ContentsOf(u) = << >>
  BY ONLY <1>4, EmptyArray
<1>6. Stored'
  BY <1>1, <1>2, <1>3, <1>5 DEF Stored, Array, Distinct, Occupied
<1>7. Findable'
  BY <1>1, <1>3, <1>5 DEF Findable, Paths, Home
<1>8. Contents' = << >>
  BY <1>3, <1>5, ContentsAre
<1> QED
  BY <1>1, <1>6, <1>7, <1>8 DEF Inv, Map!Clear

\* delete_from_hashtable makes a hole, and nothing has been looked at yet.
LEMMA DeleteGood ==
    ASSUME Inv, NEW k \in Keys, Delete(k)
    PROVE  Inv' /\ Map!Delete(k)
<1>1. repair = NULL /\ hash' = hash /\ capacity' = capacity
  BY DEF Delete
<1>2. Stored /\ Good(elements, capacity)
  BY <1>1, InvNoRepair
<1>3. PICK i : i = Lookup(k)
  OBVIOUS
<1>4. /\ i = NULL => (\A j \in 0..(capacity - 1) : elements[j].key # k)
      /\ i # NULL => (i \in 0..(capacity - 1) /\ elements[i].key = k)
  BY <1>1, <1>3, LookupFinds
<1>5. CASE i = NULL
  <2>1. answer' = FALSE /\ UNCHANGED <<hash, capacity, count, elements, repair>>
    BY <1>3, <1>5 DEF Delete
  <2>2. Inv' /\ Contents' = Contents
    BY <2>1, SameTable
  <2>3. k \notin DOMAIN Contents
    BY <1>2, <1>4, <1>5, InMap
  <2>4. Contents = [j \in DOMAIN Contents |-> Contents[j]]
    BY ContentsFunction, ContentsAre
  <2>5. Contents' = Restrict(Contents, DOMAIN Contents \ {k})
    <3>1. DOMAIN Contents \ {k} = DOMAIN Contents
      BY <2>3
    <3>2. PICK f : f = Contents
      OBVIOUS
    <3> QED
      BY <2>2, <2>4, <3>1, <3>2 DEF Restrict
  <2>6. answer' = (k \in DOMAIN Contents)
    <3>1. (k \in DOMAIN Contents) = FALSE
      BY <2>3
    <3> QED
      BY <2>1, <3>1, Zenon
  <2> QED
    BY <2>2, <2>5, <2>6, Zenon DEF Map!Delete, Restrict, Map!Restrict
<1>6. CASE i # NULL
  <2>1. /\ answer' = TRUE /\ count' = Decremented
        /\ elements' = [elements EXCEPT ![i] = Empty]
        /\ repair' = [deletion |-> i, current |-> i]
    BY <1>3, <1>6 DEF Delete
  <2>2. PICK n, a, u : n = capacity /\ a = elements /\ u = elements'
    OBVIOUS
  <2>3. /\ n \in Nat \ {0} /\ Array(a, n) /\ Distinct(a, n) /\ Paths(a, n)
        /\ i \in 0..(n - 1) /\ a[i].key = k /\ k # NULL
    BY <1>2, <1>4, <1>6, <2>2, StoredFacts, HashTableAssumption DEF Good
  <2>4. Array(u, n) /\ u[i] = Empty /\ \A x \in 0..(n - 1) : x # i => u[x] = a[x]
    BY <2>1, <2>2, <2>3 DEF Array, Empty, Element
  <2>5. Distinct(u, n)
    BY <2>3, <2>4 DEF Distinct, Empty
  <2>6. u[i].key = NULL
    BY <2>4 DEF Empty
  <2>7. Occupied(a) = {j \in 0..(n - 1) : a[j].key # NULL} /\ IsFiniteSet(Occupied(a))
    BY <2>3, OccupiedIs
  <2>8. Occupied(u) = Occupied(a) \ {i} /\ i \in Occupied(a)
    <3>1. Occupied(u) = {j \in 0..(n - 1) : u[j].key # NULL}
      BY <2>4 DEF Occupied, Array
    <3> QED
      BY <2>3, <2>4, <2>6, <2>7, <3>1
  <2>9. Cardinality(Occupied(u)) = Cardinality(Occupied(a)) - 1
    BY <2>7, <2>8, FS_RemoveElement
  <2>10. Stored'
    <3>a. Cardinality(Occupied(a)) \in Nat /\ Cardinality(Occupied(u)) \in Nat
      BY ONLY <2>3, <2>4, n \in Nat \ {0}, OccupiedIs
    <3>1. count' = Cardinality(Occupied(u))
      BY <1>2, <2>1, <2>2, <2>9, <3>a DEF Stored, Decremented
    <3> QED
      BY <1>1, <1>2, <2>1, <2>2, <2>4, <2>5, <3>1 DEF Stored, Array, Distinct, Occupied
  <2>11. \A s \in 0..(n - 1) : ~MayStay(i, i, s)
    BY <2>3 DEF MayStay
  <2>12. ASSUME NEW s \in 0..(n - 1), u[s].key # NULL, NEW x \in 0..(n - 1),
                Within(Home(u[s].key, n), x, s)
         PROVE  u[x].key # NULL \/ (x = i /\ ~MayStay(i, i, s))
    <3>1. s # i /\ u[s] = a[s]
      BY <2>4, <2>6, <2>12
    <3>2. a[x].key # NULL
      BY <2>3, <2>12, <3>1 DEF Paths
    <3> QED
      BY <2>4, <2>11, <3>2
  <2>13. Hole(u, n, i, i)
    BY <2>3, <2>6, <2>11, <2>12 DEF Hole, Filled, PathsBut
  <2>14. Findable'
    <3>1. Hole(elements, capacity, i, i)'
      BY <1>1, <2>2, <2>13 DEF Hole, Filled, PathsBut, Home
    <3> QED
      BY <1>1, <2>1, <2>2, <2>3, <3>1 DEF Findable
  <2>15. PICK e : e = a[i]
    OBVIOUS
  <2>16. e \in Entries(a) /\ e.key = k
    BY <2>3, <2>8, <2>15 DEF Entries
  <2>17. Entries(u) = Entries(a) \ {e}
    <3>1. ASSUME NEW z \in Entries(u) PROVE z \in Entries(a) \ {e}
      <4>1. PICK j \in Occupied(u) : z = u[j]
        BY DEF Entries
      <4>2. j \in Occupied(a) /\ j # i /\ z = a[j] /\ j \in 0..(n - 1)
        BY <2>4, <2>7, <2>8, <4>1
      <4>3. a[j] # a[i]
        BY <2>3, <4>2 DEF Distinct
      <4> QED
        BY <2>15, <4>2, <4>3 DEF Entries
    <3>2. ASSUME NEW z \in Entries(a) \ {e} PROVE z \in Entries(u)
      <4>1. PICK j \in Occupied(a) : z = a[j]
        BY DEF Entries
      <4>2. j # i /\ j \in 0..(n - 1)
        BY <2>7, <2>15, <4>1
      <4>3. j \in Occupied(u) /\ z = u[j]
        BY <2>4, <2>8, <4>1, <4>2
      <4> QED
        BY <4>3 DEF Entries
    <3> QED
      BY <3>1, <3>2
  <2>18. /\ e.key \in DOMAIN ContentsOf(a)
         /\ ContentsOf(u) = Restrict(ContentsOf(a), DOMAIN ContentsOf(a) \ {e.key})
    BY ONLY <2>3, <2>4, <2>5, <2>16, <2>17, RemovedContents
  <2>19. k \in DOMAIN Contents /\ Contents' = Restrict(Contents, DOMAIN Contents \ {k})
    BY <2>2, <2>16, <2>18, ContentsAre
  <2>20. answer' = (k \in DOMAIN Contents)
    BY <2>1, <2>19
  <2> QED
    BY <2>10, <2>14, <2>19, <2>20, Zenon DEF Inv, Map!Delete, Restrict, Map!Restrict
<1> QED
  BY <1>5, <1>6

\* An element is moved into the hole, and leaves a hole where it was.
Shift(a, del, nxt) == [a EXCEPT ![del] = a[nxt], ![nxt] = Empty]

LEMMA MoveGood ==
    ASSUME NEW n \in Nat \ {0}, NEW a, Array(a, n), Distinct(a, n),
           NEW del \in 0..(n - 1), a[del].key = NULL, NEW nxt \in 0..(n - 1), a[nxt].key # NULL,
           NEW u, u = Shift(a, del, nxt)
    PROVE  /\ Array(u, n) /\ Distinct(u, n)
           /\ Cardinality(Occupied(u)) = Cardinality(Occupied(a))
           /\ Entries(u) = Entries(a)
           /\ u[del] = a[nxt] /\ u[nxt].key = NULL
           /\ \A x \in 0..(n - 1) : (x # del /\ x # nxt) => u[x] = a[x]
<1>1. del # nxt
  OBVIOUS
<1>2. /\ u[del] = a[nxt] /\ u[nxt] = Empty
      /\ \A x \in 0..(n - 1) : (x # del /\ x # nxt) => u[x] = a[x]
  BY <1>1 DEF Array, Shift
<1>3. Array(u, n)
  <2>1. Empty \in Element /\ a[nxt] \in Element
    BY DEF Array, Empty, Element
  <2> QED
    BY <2>1 DEF Array, Shift
<1>4. u[nxt].key = NULL
  BY <1>2 DEF Empty
<1>5. Distinct(u, n)
  BY <1>1, <1>2, <1>4 DEF Distinct
<1>6. Occupied(a) = {j \in 0..(n - 1) : a[j].key # NULL} /\ IsFiniteSet(Occupied(a))
  BY OccupiedIs
<1>7. Occupied(u) = {j \in 0..(n - 1) : u[j].key # NULL}
  BY <1>3 DEF Occupied, Array
<1>8. PICK S : S = Occupied(a) \ {nxt}
  OBVIOUS
<1>9. Occupied(u) = S \cup {del} /\ del \notin S /\ nxt \in Occupied(a)
  <2>1. \A j \in 0..(n - 1) : u[j].key # NULL <=> ((a[j].key # NULL /\ j # nxt) \/ j = del)
    BY <1>1, <1>2, <1>4
  <2> QED
    BY <1>6, <1>7, <1>8, <2>1
<1>10. IsFiniteSet(S) /\ Cardinality(S) = Cardinality(Occupied(a)) - 1
  BY <1>6, <1>8, <1>9, FS_RemoveElement
<1>11. Cardinality(Occupied(u)) = Cardinality(S) + 1
  BY <1>9, <1>10, FS_AddElement
<1>12. Cardinality(Occupied(a)) \in Nat
  BY <1>6, FS_CardinalityType
<1>13. Cardinality(Occupied(u)) = Cardinality(Occupied(a))
  BY <1>10, <1>11, <1>12
<1>14. ASSUME NEW z \in Entries(u) PROVE z \in Entries(a)
  <2>1. PICK j \in Occupied(u) : z = u[j]
    BY DEF Entries
  <2>2. CASE j = del
    BY <1>2, <1>9, <2>1, <2>2 DEF Entries
  <2>3. CASE j # del
    <3>1. j \in Occupied(a) /\ j # nxt /\ z = a[j]
      BY <1>2, <1>6, <1>8, <1>9, <2>1, <2>3
    <3> QED
      BY <3>1 DEF Entries
  <2> QED
    BY <2>2, <2>3
<1>15. ASSUME NEW z \in Entries(a) PROVE z \in Entries(u)
  <2>1. PICK j \in Occupied(a) : z = a[j]
    BY DEF Entries
  <2>2. CASE j = nxt
    <3>1. del \in Occupied(u) /\ z = u[del]
      BY <1>2, <1>9, <2>1, <2>2
    <3> QED
      BY <3>1 DEF Entries
  <2>3. CASE j # nxt
    <3>1. j \in Occupied(u) /\ z = u[j]
      BY <1>2, <1>6, <1>8, <1>9, <2>1, <2>3
    <3> QED
      BY <3>1 DEF Entries
  <2> QED
    BY <2>2, <2>3
<1>16. Entries(u) = Entries(a)
  BY <1>14, <1>15
<1> QED
  BY <1>2, <1>3, <1>4, <1>5, <1>13, <1>16

\* The three cases of the loop, for an array a with a hole at del, whose slots up
\* to cur have been looked at: the next slot is empty, stays, or fills the hole.
LEMMA LoopStops ==
    ASSUME hash \in [Keys -> Nat], NEW n \in Nat \ {0}, NEW a, Array(a, n), NEW del, NEW cur,
           Hole(a, n, del, cur), NEW nxt, nxt = (cur + 1) % n, a[nxt].key = NULL
    PROVE  Paths(a, n)
<1>1. del \in 0..(n - 1) /\ cur \in 0..(n - 1) /\ a[del].key = NULL
  BY DEF Hole
<1>2. nxt = IF cur = n - 1 THEN 0 ELSE cur + 1
  BY <1>1, NextSlot
<1> SUFFICES ASSUME NEW s \in 0..(n - 1), a[s].key # NULL, NEW x \in 0..(n - 1),
                    Within(Home(a[s].key, n), x, s), a[x].key = NULL
             PROVE  FALSE
  BY DEF Paths
<1>3. PICK h : h = Home(a[s].key, n)
  OBVIOUS
<1>4. h \in 0..(n - 1)
  <2>1. a[s].key \in Keys
    BY ElementKey
  <2> QED
    BY <1>3, <2>1, Probing
<1>5. x = del /\ ~MayStay(del, cur, s)
  BY DEF Hole, PathsBut
<1>6. nxt \in 0..(n - 1)
  BY <1>1, <1>2
<1>7. nxt # del
  BY <1>1, <1>2, <1>4, <1>5, Circle
<1>8. Within(h, nxt, s)
  <2>1. Within(h, del, s) /\ s # nxt
    BY <1>3, <1>5
  <2> QED
    BY <1>1, <1>2, <1>4, <1>5, <1>7, <2>1, Circle, SMTT(30)
<1> QED
  BY <1>3, <1>6, <1>7, <1>8 DEF Hole, PathsBut

LEMMA LoopGoesOn ==
    ASSUME hash \in [Keys -> Nat], NEW n \in Nat \ {0}, NEW a, Array(a, n), NEW del, NEW cur,
           Hole(a, n, del, cur), NEW nxt, nxt = (cur + 1) % n, a[nxt].key # NULL,
           MayStay(del, nxt, Home(a[nxt].key, n))
    PROVE  Hole(a, n, del, nxt)
<1>1. del \in 0..(n - 1) /\ cur \in 0..(n - 1) /\ a[del].key = NULL
  BY DEF Hole
<1>2. nxt = IF cur = n - 1 THEN 0 ELSE cur + 1
  BY <1>1, NextSlot
<1>3. nxt \in 0..(n - 1) /\ nxt # del
  BY <1>1, <1>2
<1>4. \A s \in 0..(n - 1) : MayStay(del, nxt, s) => (MayStay(del, cur, s) \/ s = nxt)
  BY <1>1, <1>2, <1>3, Circle
<1>5. Filled(a, n, del, nxt)
  BY <1>4 DEF Hole, Filled
<1>6. PICK h : h = Home(a[nxt].key, n)
  OBVIOUS
<1>7. h \in 0..(n - 1) /\ MayStay(del, nxt, h)
  <2>1. a[nxt].key \in Keys
    BY <1>3, ElementKey
  <2> QED
    BY <1>6, <2>1, Probing
<1>8. ~Within(h, del, nxt)
  BY <1>1, <1>2, <1>7, Circle
<1>9. PathsBut(a, n, del, nxt)
  <2> SUFFICES ASSUME NEW s \in 0..(n - 1), a[s].key # NULL, NEW x \in 0..(n - 1),
                      Within(Home(a[s].key, n), x, s), a[x].key = NULL
               PROVE  x = del /\ ~MayStay(del, nxt, s)
    BY DEF PathsBut
  <2>1. x = del /\ ~MayStay(del, cur, s)
    BY DEF Hole, PathsBut
  <2>2. s # nxt
    BY <1>6, <1>8, <2>1
  <2> QED
    BY <1>4, <2>1, <2>2
<1> QED
  BY <1>1, <1>3, <1>5, <1>9 DEF Hole

LEMMA LoopMoves ==
    ASSUME hash \in [Keys -> Nat], NEW n \in Nat \ {0}, NEW a, Array(a, n), Distinct(a, n),
           NEW del, NEW cur, Hole(a, n, del, cur), NEW nxt, nxt = (cur + 1) % n, a[nxt].key # NULL,
           ~MayStay(del, nxt, Home(a[nxt].key, n)),
           NEW u, u = Shift(a, del, nxt)
    PROVE  /\ Array(u, n) /\ Distinct(u, n)
           /\ Cardinality(Occupied(u)) = Cardinality(Occupied(a))
           /\ Entries(u) = Entries(a)
           /\ Hole(u, n, nxt, nxt)
<1>1. del \in 0..(n - 1) /\ cur \in 0..(n - 1) /\ a[del].key = NULL
  BY DEF Hole
<1>2. nxt = IF cur = n - 1 THEN 0 ELSE cur + 1
  BY <1>1, NextSlot
<1>3. nxt \in 0..(n - 1) /\ nxt # del
  BY <1>1, <1>2
<1>4. /\ Array(u, n) /\ Distinct(u, n)
      /\ Cardinality(Occupied(u)) = Cardinality(Occupied(a))
      /\ Entries(u) = Entries(a)
      /\ u[del] = a[nxt] /\ u[nxt].key = NULL
      /\ \A x \in 0..(n - 1) : (x # del /\ x # nxt) => u[x] = a[x]
  BY ONLY <1>1, <1>3, n \in Nat \ {0}, Array(a, n), Distinct(a, n), a[nxt].key # NULL,
          u = Shift(a, del, nxt), MoveGood
<1>5. \A s \in 0..(n - 1) : ~MayStay(nxt, nxt, s)
  BY <1>3 DEF MayStay
<1>6. Filled(u, n, nxt, nxt)
  BY <1>5 DEF Filled
<1>7. PathsBut(u, n, nxt, nxt)
  <2> SUFFICES ASSUME NEW s \in 0..(n - 1), u[s].key # NULL, NEW x \in 0..(n - 1),
                      Within(Home(u[s].key, n), x, s), x # nxt
               PROVE  u[x].key # NULL
    BY <1>5 DEF PathsBut
  <2>1. CASE x = del
    BY <1>4, <2>1
  <2>2. CASE x # del /\ s = del
    <3>1. PICK h : h = Home(a[nxt].key, n)
      OBVIOUS
    <3>2. h \in 0..(n - 1) /\ ~MayStay(del, nxt, h)
      <4>1. a[nxt].key \in Keys
        BY <1>3, ElementKey
      <4> QED
        BY <3>1, <4>1, Probing
    <3>3. Within(h, x, del)
      BY <1>4, <2>2, <3>1
    <3>4. Within(h, x, nxt)
      BY <1>1, <1>2, <1>3, <3>2, <3>3, Circle, SMTT(30)
    <3>5. a[x].key # NULL
      BY <1>3, <2>2, <3>1, <3>4 DEF Hole, PathsBut
    <3> QED
      BY <1>4, <2>2, <3>5
  <2>3. CASE x # del /\ s # del
    <3>1. s # nxt /\ u[s] = a[s] /\ u[x] = a[x]
      BY <1>4, <2>3
    <3> QED
      BY <2>3, <3>1 DEF Hole, PathsBut
  <2> QED
    BY <2>1, <2>2, <2>3
<1> QED
  BY <1>3, <1>4, <1>6, <1>7 DEF Hole

LEMMA RepairGood ==
    ASSUME Inv, Repair
    PROVE  Inv' /\ UNCHANGED <<Contents, answer>>
<1>1. repair # NULL /\ hash' = hash /\ capacity' = capacity /\ count' = count /\ answer' = answer
  BY DEF Repair
<1>2. PICK del, cur \in 0..(capacity - 1) :
         repair = [deletion |-> del, current |-> cur] /\ Hole(elements, capacity, del, cur)
  BY <1>1 DEF Inv, Findable
<1>3. PICK n, a, u, nxt : n = capacity /\ a = elements /\ u = elements' /\ nxt = (cur + 1) % n
  OBVIOUS
<1>4. Stored
  BY DEF Inv
<1>5. hash \in [Keys -> Nat] /\ n \in Nat \ {0} /\ Array(a, n) /\ Distinct(a, n)
  BY <1>3, <1>4, StoredFacts
<1>6. Hole(a, n, del, cur) /\ del \in 0..(n - 1) /\ cur \in 0..(n - 1)
  BY <1>2, <1>3
<1>7. repair.deletion = del /\ repair.current = cur
  BY <1>2
<1>8. nxt \in 0..(n - 1)
  BY <1>3, <1>5, <1>6, NextSlot
<1>9. ASSUME UNCHANGED elements PROVE Stored' /\ Contents' = Contents
  <2>1. Stored'
    BY <1>1, <1>4, <1>9 DEF Stored, Array, Distinct, Occupied
  <2> QED
    BY <1>9, <2>1, ContentsAre
<1>10. CASE a[nxt].key = NULL
  <2>1. repair' = NULL /\ UNCHANGED elements
    BY <1>3, <1>7, <1>10 DEF Repair
  <2>2. Paths(a, n)
    BY ONLY <1>3, <1>5, <1>6, <1>10, LoopStops
  <2>3. Findable'
    BY <1>1, <1>3, <2>1, <2>2 DEF Findable, Paths, Home
  <2> QED
    BY <1>1, <1>9, <2>1, <2>3 DEF Inv
<1>11. CASE a[nxt].key # NULL /\ MayStay(del, nxt, Home(a[nxt].key, n))
  <2>1. repair' = [repair EXCEPT !.current = nxt] /\ UNCHANGED elements
    BY <1>3, <1>7, <1>11 DEF Repair, Home
  <2>2. repair' = [deletion |-> del, current |-> nxt]
    BY <1>2, <2>1
  <2>3. Hole(a, n, del, nxt)
    BY ONLY <1>3, <1>5, <1>6, <1>11, LoopGoesOn
  <2>4. Hole(elements, capacity, del, nxt)'
    BY <1>1, <1>3, <2>1, <2>3 DEF Hole, Filled, PathsBut, Home
  <2>5. Findable'
    BY <1>1, <1>3, <1>6, <1>8, <2>2, <2>4 DEF Findable
  <2> QED
    BY <1>1, <1>9, <2>1, <2>5 DEF Inv
<1>12. CASE a[nxt].key # NULL /\ ~MayStay(del, nxt, Home(a[nxt].key, n))
  <2>1. /\ repair' = [deletion |-> nxt, current |-> nxt]
        /\ u = Shift(a, del, nxt)
    BY <1>3, <1>7, <1>12 DEF Repair, Home, Shift
  <2>2. /\ Array(u, n) /\ Distinct(u, n)
        /\ Cardinality(Occupied(u)) = Cardinality(Occupied(a))
        /\ Entries(u) = Entries(a)
        /\ Hole(u, n, nxt, nxt)
    BY ONLY <1>3, <1>5, <1>6, <1>12, <2>1, LoopMoves
  <2>3. count' = Cardinality(Occupied(u))
    BY <1>1, <1>3, <1>4, <2>2 DEF Stored
  <2>4. Stored'
    BY <1>1, <1>3, <1>4, <2>2, <2>3 DEF Stored, Array, Distinct, Occupied
  <2>5. Hole(elements, capacity, nxt, nxt)'
    BY <1>1, <1>3, <2>2 DEF Hole, Filled, PathsBut, Home
  <2>6. Findable'
    BY <1>1, <1>3, <1>8, <2>1, <2>5 DEF Findable
  <2>7. ContentsOf(u) = ContentsOf(a)
    BY ONLY <1>5, <2>2, SameContents
  <2>8. Contents' = Contents
    BY <1>3, <2>7, ContentsAre
  <2> QED
    BY <1>1, <2>4, <2>6, <2>8 DEF Inv
<1> QED
  BY <1>10, <1>11, <1>12

LEMMA InitGood == Init => Inv /\ Map!Init
<1> SUFFICES ASSUME Init PROVE Inv /\ Map!Init
  OBVIOUS
<1>1. /\ hash \in [Keys -> HashValues] /\ capacity \in InitialCapacities
      /\ elements = [i \in 0..(capacity - 1) |-> Empty]
      /\ count = 0 /\ repair = NULL /\ answer = NoAnswer
  BY DEF Init, Slots
<1>2. capacity \in 1..MaxCapacity /\ capacity \in Nat \ {0}
  BY <1>1, HashTableAssumption
<1>3. /\ Array(elements, capacity) /\ Distinct(elements, capacity) /\ Paths(elements, capacity)
      /\ Cardinality(Occupied(elements)) = 0 /\ ContentsOf(elements) = << >>
  BY <1>1, <1>2, EmptyArray
<1>4. Stored /\ Findable
  BY <1>1, <1>2, <1>3 DEF Stored, Findable
<1> QED
  BY <1>1, <1>3, <1>4, ContentsAre DEF Inv, Map!Init

\* A step in zeroed memory: only a growth leaves it, and only clear_hashtable
\* comes back to it.
LEMMA NextGood ==
    ASSUME Typed, zeroed => Inv, [Next]_vars, zeroed'
    PROVE  Inv' /\ [Map!Next]_(Map!vars)
<1>0. zeroed = TRUE \/ Clear
  <2>1. ASSUME NEW k \in Keys, NEW v \in Values, InsertGrowing(k, v) PROVE zeroed
    BY <2>1 DEF InsertGrowing
  <2>2. ASSUME ~Clear, ~\E k \in Keys, v \in Values : InsertGrowing(k, v) PROVE zeroed' = zeroed
    BY <2>2 DEF Next, vars, InsertHere, Delete, Get, InsertGrowFails, Repair
  <2> QED
    BY <2>1, <2>2 DEF Typed
<1>1. CASE UNCHANGED vars
  <2>1. UNCHANGED <<hash, capacity, count, elements, repair, answer, zeroed>>
    BY <1>1 DEF vars
  <2>2. Inv /\ answer' \in Values \cup BOOLEAN \cup {NULL, NoAnswer}
    BY <2>1 DEF Inv, Stored
  <2>3. Inv' /\ Contents' = Contents
    BY <2>1, <2>2, SameTable
  <2> QED
    BY <2>1, <2>3 DEF Map!vars
<1>2. ASSUME ~Clear, NEW k \in Keys, NEW v \in Values, InsertHere(k, v) \/ InsertGrowing(k, v)
      PROVE  Inv' /\ Map!Next
  BY <1>0, <1>2, InsertHereGood, InsertGrowingGood DEF Map!Next
<1>3. ASSUME ~Clear, NEW k \in Keys, Delete(k) \/ Get(k)
      PROVE  Inv' /\ Map!Next
  BY <1>0, <1>3, DeleteGood, GetGood DEF Map!Next
<1>4. CASE ~Clear /\ InsertGrowFails
  BY <1>0, <1>4, InsertGrowFailsGood DEF Map!Next
<1>5. CASE ~Clear /\ Repair
  BY <1>0, <1>5, RepairGood DEF Map!vars
<1>6. CASE Clear
  BY <1>6, ClearGood DEF Map!Next
<1> QED
  BY <1>1, <1>2, <1>3, <1>4, <1>5, <1>6 DEF Next

-----------------------------------------------------------------------------
(***************************************************************************)
(* Types, in any memory.                                                   *)
(***************************************************************************)
LEMMA TypedFacts ==
    ASSUME Typed
    PROVE  hash \in [Keys -> Nat] /\ capacity \in Nat \ {0} /\ CountMax \in Nat /\ count \in Nat
<1>1. hash \in [Keys -> HashValues] /\ HashValues \subseteq Nat
  BY HashTableAssumption DEF Typed
<1>2. hash \in [Keys -> Nat]
  BY <1>1
<1> QED
  BY <1>2, HashTableAssumption DEF Typed

LEMMA CountWraps ==
    ASSUME Typed PROVE Incremented \in 0..CountMax /\ Decremented \in 0..CountMax
  BY TypedFacts DEF Typed, Incremented, Decremented

\* A probe that ends ends at a slot of the array.
LEMMA ProbeEnds ==
    ASSUME hash \in [Keys -> Nat], NEW n \in Nat \ {0}, NEW els, NEW k \in Keys,
           LookupEnds(els, k, n) # {}, NEW i, i = PlaceOf(els, k, n)
    PROVE  i \in 0..(n - 1)
<1> DEFINE ends == LookupEnds(els, k, n)
<1>1. ends \subseteq 0..(n - 1) /\ ends \in SUBSET Nat
  BY DEF LookupEnds
<1>2. PICK m : m = Min(ends)
  OBVIOUS
<1>3. m \in ends
  <2> HIDE DEF ends
  <2> QED
    BY <1>1, <1>2, HasMin DEF ends
<1>4. m \in 0..(n - 1) /\ i = Nth(k, m, n)
  BY <1>1, <1>2, <1>3 DEF PlaceOf
<1> QED
  BY <1>4, Probing

\* Whatever the new array held, it holds elements and leftovers.
LEMMA RehashTyped ==
    ASSUME capacity \in Nat \ {0}, Array(elements, capacity), NEW n \in Nat \ {0}, NEW fresh, Array(fresh, n)
    PROVE  Array(Rehashed(fresh, n), n)
<1>0. capacity \in Nat
  OBVIOUS
<1>1. PICK p : /\ Rehashed(fresh, n) = p[capacity]
               /\ p[0] = fresh
               /\ \A i \in 0..(capacity - 1) : p[i + 1] = Moved(p[i], i, n)
  BY ONLY <1>0, RehashedSteps
<1> DEFINE Missed == {i \in 0..capacity : ~Array(p[i], n)}
<1>2. ASSUME Missed # {} PROVE FALSE
  <2>1. PICK m : m = Min(Missed)
    OBVIOUS
  <2>2. Missed \in SUBSET Nat
    OBVIOUS
  <2>3. m \in Missed /\ \A y \in Missed : m <= y
    <3> HIDE DEF Missed
    <3> QED
      BY <1>2, <2>1, <2>2, HasMin
  <2>4. m # 0
    BY <1>1, <2>3
  <2>5. PICK j : j = m - 1
    OBVIOUS
  <2>6. j \in 0..(capacity - 1) /\ j + 1 = m /\ j \notin Missed /\ j \in 0..capacity
    BY <2>3, <2>4, <2>5
  <2>7. PICK a, u, e : a = p[j] /\ u = p[m] /\ e = elements[j]
    OBVIOUS
  <2>8. Array(a, n) /\ u = Moved(a, j, n)
    BY <1>1, <2>6, <2>7
  <2>9. e \in Element
    BY <2>6, <2>7 DEF Array
  <2>10. \A i : [a EXCEPT ![i] = e] \in [0..(n - 1) -> Element]
    BY <2>8, <2>9 DEF Array
  <2>11. Array(Place(a, e, n), n)
    BY <2>10 DEF Array, Place
  <2>12. Array(u, n)
    BY <2>7, <2>8, <2>11 DEF Moved
  <2> QED
    BY <2>3, <2>7, <2>12
<1>3. capacity \in 0..capacity /\ capacity \notin Missed
  BY <1>2
<1> QED
  BY <1>1, <1>3

\* A step that leaves the array alone.
LEMMA SameTyped ==
    ASSUME Typed, UNCHANGED <<hash, capacity, elements>>, count' \in 0..CountMax, zeroed' \in BOOLEAN,
           repair' \in [deletion : 0..(capacity - 1), current : 0..(capacity - 1)] \cup {NULL},
           answer' \in Values \cup BOOLEAN \cup {NULL, NoAnswer}
    PROVE  Typed'
  BY DEF Typed, Array

LEMMA InsertIntoTyped ==
    ASSUME Typed, repair = NULL, NEW els, NEW n \in 1..MaxCapacity, Array(els, n),
           NEW k \in Keys, NEW v \in Values, InsertInto(els, n, k, v), zeroed' \in BOOLEAN
    PROVE  Typed'
<1>1. hash \in [Keys -> Nat] /\ n \in Nat \ {0}
  BY TypedFacts, HashTableAssumption
<1>2. PICK i : i = PlaceOf(els, k, n)
  OBVIOUS
<1>3. LookupEnds(els, k, n) # {}
  BY DEF InsertInto
<1>4. i \in 0..(n - 1)
  BY ONLY <1>1, <1>2, <1>3, k \in Keys, ProbeEnds
<1>5. els[i] \in Element
  BY <1>4 DEF Array
<1>6. capacity' = n /\ hash' = hash /\ repair' = NULL
  BY DEF InsertInto
<1>7. CASE els[i].key = k
  <2>1. elements' = els /\ answer' = els[i].value /\ count' = count
    BY <1>2, <1>7 DEF InsertInto, PlaceOf
  <2>2. answer' \in Values \cup {NULL}
    BY <1>5, <2>1 DEF Element
  <2> QED
    BY <1>6, <2>1, <2>2 DEF Typed, Array
<1>8. CASE els[i].key # k
  <2>1. PICK e : e = [key |-> k, value |-> v]
    OBVIOUS
  <2>2. elements' = [els EXCEPT ![i] = e] /\ answer' = v /\ count' = Incremented
    BY <1>2, <1>8, <2>1 DEF InsertInto, PlaceOf
  <2>3. e \in Element
    BY <2>1 DEF Element
  <2>4. elements' \in [0..(n - 1) -> Element]
    BY <2>2, <2>3 DEF Array
  <2> QED
    BY <1>6, <2>2, <2>4, CountWraps DEF Typed, Array
<1> QED
  BY <1>7, <1>8

LEMMA LookupTyped ==
    ASSUME Typed, NEW k \in Keys PROVE Lookup(k) \in 0..(capacity - 1) \cup {NULL}
<1>1. hash \in [Keys -> Nat] /\ capacity \in Nat \ {0}
  BY TypedFacts
<1>2. PICK n, els, i : n = capacity /\ els = elements /\ i = PlaceOf(els, k, n)
  OBVIOUS
<1>3. CASE LookupEnds(els, k, n) # {}
  <2>1. i \in 0..(n - 1)
    BY <1>1, <1>2, <1>3, ProbeEnds
  <2> QED
    BY <1>2, <2>1 DEF Lookup, PlaceOf
<1>4. CASE LookupEnds(els, k, n) = {}
  BY <1>2, <1>4 DEF Lookup
<1> QED
  BY <1>3, <1>4

LEMMA NextTyped == ASSUME Typed, [Next]_vars PROVE Typed'
<1>0. hash \in [Keys -> Nat] /\ capacity \in Nat \ {0}
  BY TypedFacts
<1>1. CASE UNCHANGED vars \/ InsertGrowFails
  BY <1>1, SameTyped DEF vars, InsertGrowFails, Typed
<1>2. ASSUME NEW k \in Keys, NEW v \in Values, InsertHere(k, v) PROVE Typed'
  <2>1. /\ repair = NULL /\ InsertInto(elements, capacity, k, v) /\ zeroed' \in BOOLEAN
        /\ capacity \in 1..MaxCapacity /\ Array(elements, capacity)
    BY <1>2 DEF InsertHere, Typed
  <2> QED
    BY <2>1, InsertIntoTyped
<1>3. ASSUME NEW k \in Keys, NEW v \in Values, InsertGrowing(k, v) PROVE Typed'
  <2>1. PICK n : n = 2 * capacity
    OBVIOUS
  <2>2. PICK fresh \in [0..(n - 1) -> Leftover] :
           /\ zeroed' = (zeroed /\ \A i \in DOMAIN fresh : fresh[i] = Empty)
           /\ InsertInto(Rehashed(fresh, n), n, k, v)
    BY <1>3, <2>1 DEF InsertGrowing
  <2>3. repair = NULL /\ n \in 1..MaxCapacity /\ n \in Nat \ {0} /\ zeroed' \in BOOLEAN
    BY <1>0, <1>3, <2>1, <2>2, HashTableAssumption DEF InsertGrowing
  <2>4. Array(fresh, n)
    <3>1. Leftover \subseteq Element
      BY HashTableAssumption DEF Element
    <3> QED
      BY <2>2, <3>1 DEF Array
  <2>5. Array(elements, capacity)
    BY DEF Typed
  <2>6. Array(Rehashed(fresh, n), n)
    BY ONLY <1>0, <2>3, <2>4, <2>5, RehashTyped
  <2> QED
    BY <2>2, <2>3, <2>6, InsertIntoTyped
<1>4. ASSUME NEW k \in Keys, Get(k) PROVE Typed'
  <2>1. PICK i : i = Lookup(k)
    OBVIOUS
  <2>2. /\ UNCHANGED <<hash, capacity, count, elements, repair, zeroed>>
        /\ answer' = IF i = NULL THEN NULL ELSE elements[i].value
    BY <1>4, <2>1 DEF Get
  <2>3. answer' \in Values \cup {NULL}
    <3>1. i = NULL \/ elements[i] \in Element
      BY <2>1, LookupTyped DEF Typed, Array
    <3> QED
      BY <2>2, <3>1 DEF Element
  <2> QED
    BY <2>2, <2>3, SameTyped DEF Typed
<1>5. ASSUME NEW k \in Keys, Delete(k) PROVE Typed'
  <2>1. PICK i : i = Lookup(k)
    OBVIOUS
  <2>2. /\ UNCHANGED <<hash, capacity, zeroed>> /\ answer' \in BOOLEAN
        /\ IF i = NULL THEN UNCHANGED <<count, elements, repair>>
           ELSE /\ count' = Decremented
                /\ elements' = [elements EXCEPT ![i] = Empty]
                /\ repair' = [deletion |-> i, current |-> i]
    BY <1>5, <2>1 DEF Delete
  <2>3. CASE i = NULL
    BY <2>2, <2>3, SameTyped DEF Typed
  <2>4. CASE i # NULL
    <3>1. i \in 0..(capacity - 1)
      BY <2>1, <2>4, LookupTyped
    <3>2. Empty \in Element
      BY DEF Empty, Element
    <3>3. elements' \in [0..(capacity - 1) -> Element]
      BY <2>2, <2>4, <3>2 DEF Typed, Array
    <3>4. repair' \in [deletion : 0..(capacity - 1), current : 0..(capacity - 1)]
      BY <2>2, <2>4, <3>1
    <3> QED
      BY <2>2, <2>4, <3>3, <3>4, CountWraps DEF Typed, Array
  <2> QED
    BY <2>3, <2>4
<1>6. CASE Repair
  <2>1. repair \in [deletion : 0..(capacity - 1), current : 0..(capacity - 1)]
    BY <1>6 DEF Repair, Typed
  <2>2. PICK del, nxt : del = repair.deletion /\ nxt = (repair.current + 1) % capacity
    OBVIOUS
  <2>3. del \in 0..(capacity - 1) /\ nxt \in 0..(capacity - 1)
    BY <1>0, <2>1, <2>2, NextSlot
  <2>4. /\ UNCHANGED <<hash, capacity, count, answer, zeroed>>
        /\ \/ repair' = NULL /\ UNCHANGED elements
           \/ repair' = [repair EXCEPT !.current = nxt] /\ UNCHANGED elements
           \/ /\ repair' = [deletion |-> nxt, current |-> nxt]
              /\ elements' = [elements EXCEPT ![del] = elements[nxt], ![nxt] = Empty]
    BY <1>6, <2>2 DEF Repair
  <2>5. repair' \in [deletion : 0..(capacity - 1), current : 0..(capacity - 1)] \cup {NULL}
    BY <2>1, <2>3, <2>4
  <2>6. elements' \in [0..(capacity - 1) -> Element]
    <3>1. elements[nxt] \in Element /\ Empty \in Element
      BY <2>3 DEF Typed, Array, Empty, Element
    <3> QED
      BY <2>4, <3>1 DEF Typed, Array
  <2> QED
    BY <2>4, <2>5, <2>6 DEF Typed, Array
<1>7. CASE Clear
  <2>1. Empty \in Element
    BY DEF Empty, Element
  <2>2. /\ elements' \in [0..(capacity - 1) -> Element] /\ count' = 0 /\ answer' = NoAnswer
        /\ zeroed' = TRUE /\ UNCHANGED <<hash, capacity, repair>>
    BY <1>7, <2>1 DEF Clear, Slots
  <2> QED
    BY <2>2, TypedFacts DEF Typed, Array
<1> QED
  BY <1>1, <1>2, <1>3, <1>4, <1>5, <1>6, <1>7 DEF Next

-----------------------------------------------------------------------------
(***************************************************************************)
(* The theorems.  They hold whatever an allocation returns; what they say  *)
(* of a table is for one whose memory was zeroed, and again once it has    *)
(* been cleared.                                                           *)
(***************************************************************************)
Sound == Typed /\ (zeroed => Inv)

LEMMA Invariant == Spec => []Sound
<1>1. Init => Sound
  <2> SUFFICES ASSUME Init PROVE Sound
    OBVIOUS
  <2>1. Inv
    BY InitGood
  <2>2. count = 0 /\ repair = NULL /\ zeroed = TRUE
    BY DEF Init
  <2> QED
    BY <2>1, <2>2, HashTableAssumption DEF Sound, Typed, Inv, Stored
<1>2. Sound /\ [Next]_vars => Sound'
  <2> SUFFICES ASSUME Sound, [Next]_vars PROVE Sound'
    OBVIOUS
  <2>1. Typed'
    BY NextTyped DEF Sound
  <2>2. zeroed' => Inv'
    BY NextGood DEF Sound
  <2> QED
    BY <2>1, <2>2 DEF Sound
<1> QED
  BY <1>1, <1>2, PTL DEF Spec

LEMMA SoundTypeOK == Sound => TypeOK
<1> SUFFICES ASSUME Sound PROVE TypeOK
  OBVIOUS
<1>1. Typed
  BY DEF Sound
<1>2. zeroed => count <= capacity
  <2> SUFFICES ASSUME zeroed PROVE count <= capacity
    OBVIOUS
  <2>1. Stored /\ Array(elements, capacity) /\ capacity \in Nat
    BY <1>1, TypedFacts DEF Sound, Inv, Stored
  <2>2. PICK n, a : n = capacity /\ a = elements
    OBVIOUS
  <2>3. n \in Nat /\ Array(a, n)
    BY <2>1, <2>2
  <2>4. Cardinality(Occupied(a)) \in 0..n
    BY ONLY <2>3, OccupiedIs
  <2> QED
    BY <2>1, <2>2, <2>4 DEF Stored
<1>3. repair \in [deletion : Slots, current : Slots] \cup {NULL}
  BY <1>1 DEF Typed, Slots
<1>4. elements \in [Slots -> [key : Keys \cup {NULL}, value : Values \cup {NULL}]]
  BY <1>1 DEF Typed, Array, Element, Slots
<1> QED
  BY <1>1, <1>2, <1>3, <1>4 DEF TypeOK, Typed

LEMMA InvCountExact == Sound => CountExact
<1> SUFFICES ASSUME Inv
             PROVE  /\ count = Cardinality(Occupied(elements))
                    /\ \A i, j \in Occupied(elements) : elements[i].key = elements[j].key => i = j
  BY DEF Sound, CountExact
<1>1. Stored /\ Array(elements, capacity) /\ Distinct(elements, capacity)
  BY StoredFacts DEF Inv
<1>2. Occupied(elements) = {i \in 0..(capacity - 1) : elements[i].key # NULL}
  BY <1>1 DEF Occupied, Array
<1>3. \A i, j \in Occupied(elements) : elements[i].key = elements[j].key => i = j
  BY <1>1, <1>2 DEF Distinct
<1> QED
  BY <1>1, <1>3 DEF Stored

LEMMA InvInsertionHasRoom == Sound => InsertionHasRoom
<1> SUFFICES ASSUME Inv, ~MustGrow PROVE \E i \in Slots : elements[i].key = NULL
  BY DEF Sound, InsertionHasRoom, RoomLeft
<1>1. Stored /\ capacity \in Nat \ {0} /\ Array(elements, capacity)
  BY StoredFacts DEF Inv
<1>2. PICK n, a : n = capacity /\ a = elements
  OBVIOUS
<1>3. n \in Nat /\ Array(a, n)
  BY <1>1, <1>2
<1>4. /\ Cardinality(Occupied(a)) \in 0..n
      /\ Cardinality(Occupied(a)) < n => \E i \in 0..(n - 1) : a[i].key = NULL
  BY ONLY <1>3, OccupiedIs
<1>5. count = Cardinality(Occupied(a)) /\ ~(4 * count >= 3 * n)
  BY <1>1, <1>2 DEF Stored, MustGrow
<1>6. count < n
  BY <1>1, <1>2, <1>4, <1>5
<1> QED
  BY <1>2, <1>4, <1>5, <1>6 DEF Slots

\* The table's fields keep their types whatever memory an allocation returns: no
\* probe, move or repair leaves the array.  In zeroed memory the count also stays
\* within the capacity.
THEOREM TypeCorrect == Spec => []TypeOK
  BY Invariant, SoundTypeOK, PTL

\* `count` is the number of occupied slots and no key is in two slots, also between
\* the rounds of a deletion's loop and after any growth into zeroed memory, and
\* again after clear_hashtable (hashtable.c).
THEOREM CountExactInvariant == Spec => []CountExact
  BY Invariant, InvCountExact, PTL

\* In a table whose arrays were zeroed, an insertion that need not grow finds an
\* empty slot, so its search ends.
THEOREM InsertionHasRoomInvariant == Spec => []InsertionHasRoom
  BY Invariant, InvInsertionHasRoom, PTL

\* Whatever the hashes, capacities, keys and order of calls, insert_into, get_from,
\* delete_from and clear answer as a map does until a growth gets memory that is
\* not zeroed, and again from the next clear on.
THEOREM ImplementsMapHolds == Spec => ImplementsMap
<1>1. Init => Map!Init
  BY InitGood
<1>2. Sound /\ [Next]_vars => [zeroed' => Map!Next]_(Map!vars)
  BY NextGood DEF Sound
<1>3. Spec => []Sound
  BY Invariant
<1> QED
  BY <1>1, <1>2, <1>3, PTL DEF Spec, ImplementsMap
=============================================================================
