------------------------- MODULE QueryBufferProofs --------------------------
(***************************************************************************)
(* Proofs about QueryBuffer: the reference count of the query buffers and  *)
(* the arguments that point into them, for any number of buffers, any      *)
(* buffer size and any commands.                                           *)
(***************************************************************************)
EXTENDS QueryBuffer, SequenceTheorems, FiniteSetTheorems, TLAPS

-----------------------------------------------------------------------------
(***************************************************************************)
(* Records and their updates.                                              *)
(***************************************************************************)
Fate   == {"intact", "lost", "moved"}
Buffer == [live : BOOLEAN, refs : Nat, size : Nat]
Tx     == [id : Nat, arg : Buffers, from : Nat, tail : BOOLEAN, args : Fate, held : Buffers]

\* What becomes of a transaction's arguments leaves the rest of it alone.
LEMMA TxUpdate ==
    ASSUME NEW t \in Tx, NEW x \in Fate, NEW u, u = [t EXCEPT !.args = x]
    PROVE  /\ u \in Tx /\ u.id = t.id /\ u.held = t.held /\ u.arg = t.arg /\ u.tail = t.tail
           /\ u.args = x
  BY DEF Tx

\* The same for the command that is being parsed.
LEMMA CommandFate ==
    ASSUME NEW c \in Parsed, NEW x \in Fate, NEW u, u = [c EXCEPT !.args = x]
    PROVE  u \in Parsed /\ u.arg = c.arg /\ u.tail = c.tail /\ u.args = x
  BY DEF Parsed, Fate

\* The parser has taken a piece.
LEMMA CommandTaken ==
    ASSUME NEW c \in Parsed, NEW m \in Buffers, NEW u, u = [c EXCEPT !.n = @ + 1, !.arg = m]
    PROVE  u \in Parsed /\ u.arg = m /\ u.tail = c.tail /\ u.args = c.args
<1>1. u = [[c EXCEPT !.n = c.n + 1] EXCEPT !.arg = m]
  BY DEF Parsed
<1>2. PICK v : v = [c EXCEPT !.n = c.n + 1]
  OBVIOUS
<1>3. v \in Parsed /\ v.tail = c.tail /\ v.args = c.args
  BY <1>2 DEF Parsed
<1> QED
  BY <1>1, <1>2, <1>3 DEF Parsed

\* The parser starts afresh.
LEMMA CommandNone ==
    ASSUME mine \in Buffers, NEW k \in Nat, NEW u,
           u = [NoCommand EXCEPT !.from = k] \/ u = NoCommand \/ u = [NoCommand EXCEPT !.arg = mine]
    PROVE  u \in Parsed /\ u.arg = mine /\ u.tail = FALSE /\ u.args = "intact"
<1> DEFINE v == [n |-> 0, arg |-> mine, from |-> 0, tail |-> FALSE, args |-> "intact"]
<1>1. v \in Parsed /\ v.arg = mine /\ v.tail = FALSE /\ v.args = "intact"
  BY DEF Parsed
<1>2. NoCommand = v
  BY DEF NoCommand
<1> HIDE DEF v
<1>3. CASE u = [NoCommand EXCEPT !.from = k]
  BY <1>1, <1>2, <1>3 DEF Parsed
<1>4. CASE u = NoCommand
  BY <1>1, <1>2, <1>4
<1>5. CASE u = [NoCommand EXCEPT !.arg = mine]
  BY <1>1, <1>2, <1>5 DEF Parsed
<1> QED
  BY <1>3, <1>4, <1>5

\* A buffer changes its size or its references.
LEMMA BufferUpdate ==
    ASSUME NEW f \in [Buffers -> Buffer], NEW b \in Buffers, NEW n \in Nat, NEW u,
           u = [f EXCEPT ![b].refs = n] \/ u = [f EXCEPT ![b].size = n]
    PROVE  /\ u \in [Buffers -> Buffer]
           /\ u[b].live = f[b].live
           /\ u = [f EXCEPT ![b].refs = n] => u[b].refs = n
           /\ u = [f EXCEPT ![b].size = n] => u[b].refs = f[b].refs
           /\ \A x \in Buffers \ {b} : u[x] = f[x]
<1>1. f[b] \in Buffer
  OBVIOUS
<1>2. ASSUME NEW v \in Buffer, u = [f EXCEPT ![b] = v]
      PROVE  u \in [Buffers -> Buffer] /\ u[b] = v /\ \A x \in Buffers \ {b} : u[x] = f[x]
  BY <1>2
<1>3. ASSUME u = [f EXCEPT ![b].refs = n]
      PROVE  /\ u \in [Buffers -> Buffer] /\ u[b].live = f[b].live /\ u[b].refs = n
             /\ \A x \in Buffers \ {b} : u[x] = f[x]
  <2>1. u = [f EXCEPT ![b] = [f[b] EXCEPT !.refs = n]]
    BY <1>3
  <2>2. PICK v : v = [f[b] EXCEPT !.refs = n]
    OBVIOUS
  <2>3. v \in Buffer /\ v.live = f[b].live /\ v.refs = n
    BY <1>1, <2>2 DEF Buffer
  <2> QED
    BY <2>1, <2>2, <2>3, <1>2
<1>4. ASSUME u = [f EXCEPT ![b].size = n]
      PROVE  /\ u \in [Buffers -> Buffer] /\ u[b].live = f[b].live /\ u[b].refs = f[b].refs
             /\ \A x \in Buffers \ {b} : u[x] = f[x]
  <2>1. u = [f EXCEPT ![b] = [f[b] EXCEPT !.size = n]]
    BY <1>4
  <2>2. PICK v : v = [f[b] EXCEPT !.size = n]
    OBVIOUS
  <2>3. v \in Buffer /\ v.live = f[b].live /\ v.refs = f[b].refs
    BY <1>1, <2>2 DEF Buffer
  <2> QED
    BY <2>1, <2>2, <2>3, <1>2
<1> QED
  BY <1>3, <1>4

\* A reference is given up, and the buffer freed with the last one.
LEMMA BufferDropped ==
    ASSUME buf \in [Buffers -> Buffer], NEW b \in Buffers, buf[b].refs > 0, NEW T, Drop(b, T)
    PROVE  /\ buf' \in [Buffers -> Buffer]
           /\ buf'[b].refs = buf[b].refs - 1
           /\ buf'[b].live <=> buf[b].refs # 1
           /\ \A x \in Buffers \ {b} : buf'[x] = buf[x]
<1>1. buf[b] \in Buffer
  OBVIOUS
<1>2. PICK l \in BOOLEAN : l = (buf[b].refs # 1)
  OBVIOUS
<1>3. buf' = [buf EXCEPT ![b] = [[buf[b] EXCEPT !.refs = buf[b].refs - 1] EXCEPT !.live = l]]
  BY <1>2 DEF Drop
<1>4. PICK v : v = [buf[b] EXCEPT !.refs = buf[b].refs - 1]
  OBVIOUS
<1>5. v \in Buffer /\ v.refs = buf[b].refs - 1
  BY <1>1, <1>4 DEF Buffer
<1>6. PICK w : w = [v EXCEPT !.live = l]
  OBVIOUS
<1>7. w \in Buffer /\ w.refs = buf[b].refs - 1 /\ w.live = l
  BY <1>5, <1>6 DEF Buffer
<1>8. buf' = [buf EXCEPT ![b] = w]
  BY <1>3, <1>4, <1>6
<1>9. buf' \in [Buffers -> Buffer] /\ buf'[b] = w /\ \A x \in Buffers \ {b} : buf'[x] = buf[x]
  BY <1>7, <1>8
<1> QED
  BY <1>2, <1>7, <1>9

\* A reference is given up for a new buffer.
LEMMA BufferLeft ==
    ASSUME buf \in [Buffers -> Buffer], mine \in Buffers, NEW c \in Buffers, mine # c,
           buf[mine].refs > 0, Leave(c)
    PROVE  /\ buf' \in [Buffers -> Buffer]
           /\ buf'[mine].refs = buf[mine].refs - 1 /\ buf'[mine].live = buf[mine].live
           /\ buf'[c].live = TRUE /\ buf'[c].refs = 1
           /\ \A x \in Buffers \ {mine, c} : buf'[x] = buf[x]
<1>1. PICK v : v = [live |-> TRUE, refs |-> 1, size |-> BufSize]
  OBVIOUS
<1>2. v \in Buffer /\ v.live = TRUE /\ v.refs = 1
  BY <1>1, QueryAssumption DEF Buffer
<1>3. PICK g : g = [buf EXCEPT ![c] = v]
  OBVIOUS
<1>4. g \in [Buffers -> Buffer] /\ g[c] = v /\ \A x \in Buffers \ {c} : g[x] = buf[x]
  BY <1>2, <1>3
<1>5. PICK n : n = buf[mine].refs - 1
  OBVIOUS
<1>6. n \in Nat
  BY <1>5 DEF Buffer
<1>7. buf' = [g EXCEPT ![mine].refs = n]
  <2>1. buf' = [buf EXCEPT ![c] = v, ![mine].refs = n]
    BY <1>1, <1>5 DEF Leave
  <2> QED
    BY <1>3, <2>1
<1>8. PICK b : b = mine
  OBVIOUS
<1>9. PICK u : u = buf'
  OBVIOUS
<1>10. /\ u \in [Buffers -> Buffer] /\ u[b].live = g[b].live /\ u[b].refs = n
       /\ \A x \in Buffers \ {b} : u[x] = g[x]
  BY ONLY <1>4, <1>6, <1>7, <1>8, <1>9, mine \in Buffers, BufferUpdate
<1> QED
  BY <1>2, <1>4, <1>5, <1>8, <1>9, <1>10

-----------------------------------------------------------------------------
(***************************************************************************)
(* Counting the transactions that hold a reference.                        *)
(***************************************************************************)
Holders(T, b) == {t \in T : t.held = b}
Users(T, b)   == Cardinality(Holders(T, b))
Queue(T)      == /\ T \subseteq Tx /\ IsFiniteSet(T)
                 /\ \A t, u \in T : t.id = u.id => t = u

LEMMA UsersType ==
    ASSUME NEW T, Queue(T), NEW b
    PROVE  /\ IsFiniteSet(Holders(T, b)) /\ Users(T, b) \in Nat
           /\ Users(T, b) = 0 <=> \A t \in T : t.held # b
<1>1. IsFiniteSet(Holders(T, b))
  <2>1. Holders(T, b) \in SUBSET T
    BY DEF Holders
  <2> QED
    BY <2>1, FS_Subset DEF Queue
<1>2. Users(T, b) \in Nat
  BY <1>1, FS_CardinalityType DEF Users
<1>3. Users(T, b) = 0 <=> Holders(T, b) = {}
  BY <1>1, FS_EmptySet DEF Users
<1> QED
  BY <1>1, <1>2, <1>3 DEF Holders

LEMMA UsersEmpty == Queue({}) /\ \A b : Users({}, b) = 0
<1>1. Queue({})
  BY FS_EmptySet DEF Queue
<1> QED
  BY <1>1, UsersType

\* What becomes of the arguments leaves the references alone.
LEMMA UsersMapped ==
    ASSUME NEW T, Queue(T), NEW f \in [T -> Tx],
           \A t \in T : f[t].id = t.id /\ f[t].held = t.held,
           NEW U, U = {f[t] : t \in T}
    PROVE  Queue(U) /\ \A b : Users(U, b) = Users(T, b)
<1>1. f \in Surjection(T, U)
  BY DEF Surjection
<1>2. IsFiniteSet(U)
  BY <1>1, FS_Surjection DEF Queue
<1>3. \A t, u \in T : f[t] = f[u] => t = u
  BY DEF Queue
<1>4. Queue(U)
  <2>1. U \subseteq Tx
    OBVIOUS
  <2>2. ASSUME NEW x \in U, NEW y \in U, x.id = y.id
        PROVE  x = y
    <3>1. PICK t \in T : x = f[t]
      OBVIOUS
    <3>2. PICK u \in T : y = f[u]
      OBVIOUS
    <3> QED
      BY <2>2, <3>1, <3>2 DEF Queue
  <2> QED
    BY <1>2, <2>1, <2>2 DEF Queue
<1>5. ASSUME NEW b
      PROVE  Users(U, b) = Users(T, b)
  <2> DEFINE S == Holders(T, b)
             R == Holders(U, b)
  <2>1. PICK g : g = [t \in S |-> f[t]]
    OBVIOUS
  <2>2. \A t \in S : t \in T /\ g[t] = f[t] /\ g[t] \in R
    BY <2>1 DEF Holders
  <2>3. \A x \in R : \E t \in S : g[t] = x
    <3>1. ASSUME NEW x \in R
          PROVE  \E t \in S : f[t] = x
      BY DEF Holders
    <3> QED
      BY <2>1, <3>1
  <2> HIDE DEF S, R
  <2>4. g \in [S -> R]
    BY <2>1, <2>2
  <2>5. g \in Bijection(S, R)
    <3>1. \A t, u \in S : g[t] = g[u] => t = u
      BY <1>3, <2>2
    <3> QED
      BY <2>3, <2>4, <3>1 DEF Bijection, Injection, Surjection, IsInjective
  <2>6. ExistsBijection(S, R)
    BY <2>5 DEF ExistsBijection
  <2>7. IsFiniteSet(S)
    BY UsersType DEF S
  <2> QED
    BY <2>6, <2>7, FS_Bijection DEF Users, S, R
<1> QED
  BY <1>4, <1>5

\* A transaction is queued.
LEMMA UsersAdded ==
    ASSUME NEW T, Queue(T), NEW x \in Tx, \A t \in T : t.id # x.id, NEW U, U = T \cup {x}
    PROVE  /\ Queue(U) /\ Users(U, x.held) = Users(T, x.held) + 1
           /\ \A b : b # x.held => Users(U, b) = Users(T, b)
<1>1. Queue(U)
  <2>1. IsFiniteSet(U)
    BY FS_AddElement DEF Queue
  <2> QED
    BY <2>1 DEF Queue
<1>2. Users(U, x.held) = Users(T, x.held) + 1
  <2> DEFINE S == Holders(T, x.held)
  <2>1. Holders(U, x.held) = S \cup {x} /\ x \notin S
    BY DEF Holders
  <2>2. IsFiniteSet(S)
    BY UsersType
  <2> HIDE DEF S
  <2> QED
    BY <2>1, <2>2, FS_AddElement DEF Users, S
<1>3. ASSUME NEW b, b # x.held
      PROVE  Holders(U, b) = Holders(T, b)
  BY <1>3 DEF Holders
<1> QED
  BY <1>1, <1>2, <1>3 DEF Users

\* A transaction is released.
LEMMA UsersRemoved ==
    ASSUME NEW T, Queue(T), NEW x \in T, NEW U, U = T \ {x}
    PROVE  /\ Queue(U) /\ Users(U, x.held) = Users(T, x.held) - 1
           /\ \A b : b # x.held => Users(U, b) = Users(T, b)
<1>1. Queue(U)
  <2>1. IsFiniteSet(U)
    BY FS_RemoveElement DEF Queue
  <2> QED
    BY <2>1 DEF Queue
<1>2. Users(U, x.held) = Users(T, x.held) - 1
  <2> DEFINE S == Holders(T, x.held)
  <2>1. Holders(U, x.held) = S \ {x} /\ x \in S
    BY DEF Holders
  <2>2. IsFiniteSet(S)
    BY UsersType
  <2> HIDE DEF S
  <2> QED
    BY <2>1, <2>2, FS_RemoveElement DEF Users, S
<1>3. ASSUME NEW b, b # x.held
      PROVE  Holders(U, b) = Holders(T, b)
  BY <1>3 DEF Holders
<1> QED
  BY <1>1, <1>2, <1>3 DEF Users

\* There is always an id that no transaction has.
LEMMA IdIsNew ==
    ASSUME Queue(txs)
    PROVE  NewId \in Nat /\ \A t \in txs : t.id # NewId
<1> DEFINE k == Cardinality(txs)
<1>1. k \in Nat
  BY FS_CardinalityType DEF Queue
<1>2. \E i \in 1..(k + 1) : \A t \in txs : t.id # i
  <2> SUFFICES ASSUME \A i \in 1..(k + 1) : \E t \in txs : t.id = i
               PROVE  FALSE
    OBVIOUS
  <2>1. PICK f : f = [i \in 1..(k + 1) |-> CHOOSE t \in txs : t.id = i]
    OBVIOUS
  <2>2. \A i \in 1..(k + 1) : f[i] \in txs /\ f[i].id = i
    BY <2>1
  <2> DEFINE I == 1..(k + 1)
  <2>3. f \in [I -> txs]
    BY <2>1, <2>2
  <2>4. IsFiniteSet(I) /\ Cardinality(I) = k + 1
    BY <1>1, FS_Interval
  <2> HIDE DEF I, k
  <2>5. k < Cardinality(I)
    BY <1>1, <2>4
  <2>6. \E x, y \in I : x # y /\ f[x] = f[y]
    BY <2>3, <2>4, <2>5, FS_PigeonHole DEF Queue, k
  <2> QED
    BY <2>2, <2>6 DEF I
<1>3. NewId \in 1..(k + 1) /\ \A t \in txs : t.id # NewId
  BY <1>2 DEF NewId
<1> QED
  BY <1>1, <1>3

-----------------------------------------------------------------------------
(***************************************************************************)
(* The inductive invariant.                                                *)
(***************************************************************************)
\* What the peer, the main thread and the parser keep.
Flow == /\ socket \in Seq(Piece) /\ rest \in Seq(Piece)
        /\ sent \in 0..MaxCommands /\ hung \in BOOLEAN /\ edge \in BOOLEAN /\ jobs \in Nat
        /\ cells \in Seq(Piece) /\ at \in 0..Len(cells) /\ ending \in BOOLEAN
        /\ pc \in {"idle", "unshare", "read", "take", "reunshare", "reread", "route", "gone"}
        /\ asked \in BOOLEAN

Shapes == /\ buf \in [Buffers -> Buffer] /\ mine \in Buffers
          /\ command \in Parsed /\ Queue(txs)

Own(b) == IF mine = b /\ pc # "gone" THEN 1 ELSE 0

Counted == \A b \in Buffers : /\ buf[b].live => buf[b].refs = Users(txs, b) + Own(b)
                              /\ Users(txs, b) + Own(b) > 0 => buf[b].live

\* Nobody points into the buffer that is about to be read into; the command that
\* is parsed or routed points into the client's buffer, and a queued one into the
\* buffer it holds, unless it ended a full buffer.
Unread  == pc \in {"read", "reread"} => \A t \in txs : t.held # mine
Ended   == /\ pc \in {"reunshare", "reread"} => command.tail
           /\ pc = "take" => ~command.tail
Pointed == /\ (pc \in {"take", "route"} /\ ~command.tail)
                => (command.arg = mine /\ command.args # "lost")
           /\ \A t \in txs : ~t.tail => (t.arg = t.held /\ t.args # "lost")

Guarded == Shapes /\ Counted /\ Unread /\ Ended /\ Pointed
Inv     == Flow /\ Guarded

\* Inv gives the properties.
LEMMA InvGives == Inv => TypeOK /\ ReferencesCounted /\ ArgumentsIntact
<1> SUFFICES ASSUME Inv PROVE TypeOK /\ ReferencesCounted /\ ArgumentsIntact
  OBVIOUS
<1>1. TypeOK
  <2>1. \A t \in txs : t.held \in Buffers /\ t.arg \in Buffers
    BY DEF Inv, Guarded, Shapes, Queue, Tx
  <2> QED
    BY <2>1 DEF Inv, Guarded, Shapes, Flow, TypeOK, Buffer
<1>2. ReferencesCounted
  BY DEF Inv, Guarded, Counted, Users, Holders, Own, ReferencesCounted
<1>3. ArgumentsIntact
  BY DEF Inv, Guarded, Pointed, ArgumentsIntact
<1> QED
  BY <1>1, <1>2, <1>3

\* The client's buffer is live and counted while the client is there.
LEMMA MineLive ==
    ASSUME Shapes, Counted, pc # "gone"
    PROVE  /\ buf[mine].live /\ Users(txs, mine) \in Nat
           /\ buf[mine].refs = Users(txs, mine) + 1
  BY UsersType DEF Shapes, Counted, Own

LEMMA InitInv == Init => Inv
<1> SUFFICES ASSUME Init PROVE Inv
  OBVIOUS
<1>1. PICK b \in Buffers :
        /\ mine = b
        /\ buf = [x \in Buffers |-> [live |-> x = b, refs |-> IF x = b THEN 1 ELSE 0,
                                     size |-> BufSize]]
  BY DEF Init
<1>2. buf \in [Buffers -> Buffer]
  <2>1. \A x \in Buffers : [live |-> x = b, refs |-> IF x = b THEN 1 ELSE 0, size |-> BufSize] \in Buffer
    BY QueryAssumption DEF Buffer
  <2> QED
    BY <1>1, <2>1
<1>3. Queue(txs) /\ \A x : Users(txs, x) = 0
  BY UsersEmpty DEF Init
<1>4. Flow
  <2>1. << >> \in Seq(Piece) /\ Len(<< >>) = 0
    BY EmptySeq
  <2>2. sent \in 0..MaxCommands /\ 0 \in 0..0 /\ at = 0
    BY QueryAssumption DEF Init
  <2> QED
    BY <2>1, <2>2 DEF Init, Flow
<1>5. command \in Parsed
  BY <1>1, CommandNone DEF Init
<1>6. Counted
  <2> SUFFICES ASSUME NEW x \in Buffers
               PROVE  /\ buf[x].live => buf[x].refs = Users(txs, x) + Own(x)
                      /\ Users(txs, x) + Own(x) > 0 => buf[x].live
    BY DEF Counted
  <2>1. /\ buf[x].live <=> x = b
        /\ buf[x].refs = IF x = b THEN 1 ELSE 0
    BY <1>1
  <2> QED
    BY <1>1, <1>3, <2>1 DEF Own, Init
<1>7. Unread /\ Ended /\ Pointed
  BY DEF Init, Unread, Ended, Pointed
<1> QED
  BY <1>1, <1>2, <1>3, <1>4, <1>5, <1>6, <1>7 DEF Inv, Guarded, Shapes

-----------------------------------------------------------------------------
(***************************************************************************)
(* What a step leaves of the invariant when it keeps the references.       *)
(***************************************************************************)
\* The counts are the same.
LEMMA CountedKept ==
    ASSUME Counted, pc # "gone", pc' # "gone" \/ pc' = pc,
           mine' = mine, \A b \in Buffers : buf'[b].live = buf[b].live /\ buf'[b].refs = buf[b].refs,
           \A b \in Buffers : Users(txs', b) = Users(txs, b)
    PROVE  Counted'
<1>1. ASSUME NEW b \in Buffers
      PROVE  Own(b)' = Own(b) /\ (Users(txs, b))' = Users(txs, b)
  BY DEF Own, Users, Holders
<1> QED
  BY <1>1 DEF Counted

\* The peer and the main thread do not touch what read_command keeps.
LEMMA GuardedSame ==
    ASSUME Guarded, UNCHANGED <<buf, mine, command, txs, pc>>
    PROVE  Guarded'
<1>1. Shapes'
  BY DEF Guarded, Shapes
<1>2. Counted'
  BY DEF Guarded, Counted, Own
<1>3. Unread' /\ Ended' /\ Pointed'
  BY DEF Guarded, Unread, Ended, Pointed
<1> QED
  BY <1>1, <1>2, <1>3 DEF Guarded

\* Growing moves arguments at most.
LEMMA GrownKeeps ==
    ASSUME Inv, Grown, pc # "gone", mine' = mine
    PROVE  /\ buf' \in [Buffers -> Buffer] /\ Queue(txs')
           /\ \A b \in Buffers : buf'[b].live = buf[b].live /\ buf'[b].refs = buf[b].refs
           /\ \A b \in Buffers : Users(txs', b) = Users(txs, b)
           /\ \A t \in txs' : ~t.tail => (t.arg = t.held /\ t.args # "lost")
           /\ (\A t \in txs : t.held # mine) => \A t \in txs' : t.held # mine
<1> USE DEF Inv, Guarded
<1>1. CASE Len(cells) < buf[mine].size
  BY <1>1 DEF Grown, Shapes, Pointed
<1>2. CASE ~(Len(cells) < buf[mine].size)
  <2>1. PICK n \in Nat : n = Len(cells) + 1
    BY LenProperties DEF Flow
  <2>2. buf' = [buf EXCEPT ![mine].size = n]
    BY <1>2, <2>1 DEF Grown
  <2>3. /\ buf' \in [Buffers -> Buffer]
        /\ \A b \in Buffers : buf'[b].live = buf[b].live /\ buf'[b].refs = buf[b].refs
    BY <2>2, BufferUpdate DEF Shapes
  <2>4. CASE txs' = txs
    BY <2>3, <2>4 DEF Shapes, Pointed
  <2>5. CASE txs' = {Moved(t) : t \in txs}
    <3>1. PICK f : f = [t \in txs |-> Moved(t)]
      OBVIOUS
    <3>2. ASSUME NEW t \in txs
          PROVE  /\ f[t] \in Tx /\ f[t].id = t.id /\ f[t].held = t.held
                 /\ f[t].arg = t.arg /\ f[t].tail = t.tail
                 /\ f[t].args = "lost" => t.args = "lost"
      <4>1. t \in Tx /\ "moved" \in Fate
        BY DEF Shapes, Queue, Fate
      <4>2. f[t] = t \/ f[t] = [t EXCEPT !.args = "moved"]
        BY <3>1 DEF Moved
      <4> QED
        BY <4>1, <4>2, TxUpdate
    <3>3. f \in [txs -> Tx] /\ txs' = {f[t] : t \in txs}
      BY <2>5, <3>1, <3>2
    <3>4. Queue(txs') /\ \A b : Users(txs', b) = Users(txs, b)
      BY <3>2, <3>3, UsersMapped, ZenonT(30) DEF Shapes
    <3> QED
      BY <2>3, <3>2, <3>3, <3>4 DEF Pointed
  <2> QED
    BY <1>2, <2>4, <2>5 DEF Grown
<1> QED
  BY <1>1, <1>2

-----------------------------------------------------------------------------
(***************************************************************************)
(* The peer and the main thread.                                           *)
(***************************************************************************)
LEMMA PeerStep ==
    ASSUME Inv,
           \/ \E n \in 1..MaxLen : \E k \in 1..n : Send(n, k)
           \/ Arrive \/ HangUp \/ Event
    PROVE  Inv'
<1> USE DEF Inv
<1>1. Guarded'
  <2>1. UNCHANGED <<buf, mine, command, txs, pc>>
    BY DEF Send, Arrive, HangUp, Event, parser
  <2> QED
    BY <2>1, GuardedSame
<1>2. UNCHANGED <<cells, at, ending, pc>>
  BY DEF Send, Arrive, HangUp, Event, parser
<1>3. ASSUME NEW n \in 1..MaxLen, NEW k \in 1..n, Send(n, k)
      PROVE  Flow'
  <2>1. n \in Nat /\ k \in Nat /\ k <= n
    BY QueryAssumption
  <2>2. PICK p : p = Pieces(n)
    OBVIOUS
  <2>3. \A i \in 1..n : p[i] \in Piece
    BY <2>2 DEF Pieces, Piece
  <2>4. SubSeq(p, 1, k) \in Seq(Piece)
    <3>1. \A i \in 1..k : p[i] \in Piece
      BY <2>1, <2>3
    <3> QED
      BY <2>1, <3>1, SubSeqProperties
  <2>5. SubSeq(p, k + 1, n) \in Seq(Piece)
    <3>1. \A i \in (k + 1)..n : p[i] \in Piece
      BY <2>1, <2>3
    <3>2. k + 1 \in Int /\ n \in Int
      BY <2>1
    <3> QED
      BY <3>1, <3>2, SubSeqProperties
  <2>6. socket' \in Seq(Piece)
    BY <1>3, <2>2, <2>4, ConcatProperties DEF Send, Flow
  <2>7. rest' \in Seq(Piece)
    BY <1>3, <2>2, <2>5 DEF Send
  <2>8. sent' \in 0..MaxCommands
    BY <1>3, QueryAssumption DEF Send, Flow
  <2> QED
    BY <1>2, <1>3, <2>6, <2>7, <2>8 DEF Send, Flow
<1>4. ASSUME Arrive
      PROVE  Flow'
  <2>1. socket' \in Seq(Piece) /\ rest' \in Seq(Piece)
    BY <1>4, ConcatProperties, EmptySeq DEF Arrive, Flow
  <2> QED
    BY <1>2, <1>4, <2>1 DEF Arrive, Flow
<1>5. ASSUME HangUp
      PROVE  Flow'
  <2>1. rest' \in Seq(Piece)
    BY <1>5, EmptySeq DEF HangUp
  <2> QED
    BY <1>2, <1>5, <2>1 DEF HangUp, Flow
<1>6. ASSUME Event
      PROVE  Flow'
  <2>1. jobs' \in Nat /\ asked' \in BOOLEAN
    BY <1>6 DEF Event, Flow
  <2> QED
    BY <1>2, <1>6, <2>1 DEF Event, Flow
<1> QED
  BY <1>1, <1>3, <1>4, <1>5, <1>6

-----------------------------------------------------------------------------
(***************************************************************************)
(* read_command up to the read.                                            *)
(***************************************************************************)
LEMMA ReadStartStep ==
    ASSUME Inv, ReadStart
    PROVE  Inv'
<1> USE DEF Inv, Guarded
<1>1. Flow'
  <2>1. jobs' \in Nat
    BY DEF ReadStart, Flow
  <2>2. pc' \in {"unshare", "read"}
    BY DEF ReadStart
  <2> QED
    BY <2>1, <2>2 DEF ReadStart, Flow, parser
<1>2. UNCHANGED <<buf, mine, command, txs>> /\ pc = "idle" /\ pc' \in {"unshare", "read"}
  BY DEF ReadStart, parser
<1>3. Shapes'
  BY <1>2 DEF Shapes
<1>4. Counted'
  BY <1>2, CountedKept
<1>5. Unread'
  <2> SUFFICES ASSUME pc' = "read"
               PROVE  \A t \in txs : t.held # mine
    BY <1>2 DEF Unread
  <2>1. ~(buf[mine].refs > 1)
    BY DEF ReadStart, Shared
  <2>2. /\ buf[mine].refs = Users(txs, mine) + 1 /\ Users(txs, mine) \in Nat
    BY <1>2, MineLive
  <2>3. Users(txs, mine) = 0
    BY <2>1, <2>2
  <2> QED
    BY <2>3, UsersType DEF Shapes
<1>6. Ended' /\ Pointed'
  BY <1>2 DEF Ended, Pointed
<1> QED
  BY <1>1, <1>3, <1>4, <1>5, <1>6

LEMMA UnshareStep ==
    ASSUME Inv, Unshare
    PROVE  Inv'
<1> USE DEF Inv, Guarded
<1>1. UNCHANGED <<peer, cells, at, ending, command, txs, asked>>
  BY DEF Unshare, parser
<1>2. /\ pc \in {"unshare", "reunshare"}
      /\ pc' = IF pc = "unshare" THEN "read" ELSE "reread"
  BY DEF Unshare
<1>3. Flow'
  BY <1>1, <1>2 DEF Flow, peer
<1>4. PICK b \in Buffers : ~buf[b].live /\ Leave(b)
  BY DEF Unshare
<1>5. /\ buf[mine].live /\ Users(txs, mine) \in Nat
      /\ buf[mine].refs = Users(txs, mine) + 1
  BY <1>2, MineLive
<1>6. b # mine /\ mine \in Buffers /\ mine' = b
  BY <1>4, <1>5 DEF Shapes, Leave
<1>7. /\ buf' \in [Buffers -> Buffer]
      /\ buf'[mine].refs = buf[mine].refs - 1 /\ buf'[mine].live = buf[mine].live
      /\ buf'[b].live = TRUE /\ buf'[b].refs = 1
      /\ \A x \in Buffers \ {mine, b} : buf'[x] = buf[x]
  <2>1. buf[mine].refs > 0
    BY <1>5
  <2> QED
    BY <1>4, <1>6, <2>1, BufferLeft DEF Shapes
<1>8. Shapes'
  BY <1>1, <1>6, <1>7 DEF Shapes
<1>9. Users(txs, b) = 0
  <2>1. Users(txs, b) \in Nat /\ ~(Users(txs, b) + Own(b) > 0)
    BY <1>4, UsersType DEF Shapes, Counted
  <2> QED
    BY <2>1, <1>6 DEF Own
<1>10. Counted'
  <2> SUFFICES ASSUME NEW x \in Buffers
               PROVE  /\ buf'[x].live => buf'[x].refs = Users(txs, x) + Own(x)'
                      /\ Users(txs, x) + Own(x)' > 0 => buf'[x].live
    BY <1>1 DEF Counted
  <2>1. Users(txs, x) \in Nat
    BY UsersType DEF Shapes
  <2>2. CASE x = b
    <3>1. Own(x)' = 1
      BY <1>2, <1>6, <2>2 DEF Own
    <3> QED
      BY <1>7, <1>9, <2>2, <3>1
  <2>3. CASE x = mine
    <3>1. Own(x)' = 0
      BY <1>6, <2>3 DEF Own
    <3>2. buf'[mine].live
      BY <1>5, <1>7
    <3>3. buf'[mine].refs = Users(txs, mine)
      BY <1>5, <1>7
    <3> QED
      BY <2>1, <2>3, <3>1, <3>2, <3>3
  <2>4. CASE x # b /\ x # mine
    <3>1. Own(x)' = 0 /\ Own(x) = 0
      BY <1>6, <2>4 DEF Own
    <3>2. buf'[x] = buf[x]
      BY <1>7, <2>4
    <3> QED
      BY <3>1, <3>2 DEF Counted
  <2> QED
    BY <2>2, <2>3, <2>4
<1>11. Unread'
  <2>1. \A t \in txs : t.held # b
    BY <1>9, UsersType DEF Shapes
  <2> QED
    BY <1>1, <1>6, <2>1 DEF Unread
<1>12. Ended' /\ Pointed'
  BY <1>1, <1>2 DEF Ended, Pointed
<1> QED
  BY <1>3, <1>8, <1>10, <1>11, <1>12
\* What is read is put over the buffer: the only arguments in it are those of the
\* command that ended it.
LEMMA OverwrittenKeeps ==
    ASSUME Shapes, NEW n \in Nat, NEW U, U = {Overwritten(t, n) : t \in txs}
    PROVE  /\ Queue(U) /\ \A b : Users(U, b) = Users(txs, b)
           /\ ((\A t \in txs : t.held # mine) /\ Pointed)
                => \A t \in U : ~t.tail => (t.arg = t.held /\ t.args # "lost")
<1>1. PICK f : f = [t \in txs |-> Overwritten(t, n)]
  OBVIOUS
<1>2. ASSUME NEW t \in txs
      PROVE  /\ f[t] \in Tx /\ f[t].id = t.id /\ f[t].held = t.held
             /\ f[t].arg = t.arg /\ f[t].tail = t.tail
             /\ t.arg # mine => f[t].args = t.args
  <2>1. t \in Tx /\ "lost" \in Fate
    BY DEF Shapes, Queue, Fate
  <2>2. f[t] = t \/ (t.arg = mine /\ f[t] = [t EXCEPT !.args = "lost"])
    BY <1>1 DEF Overwritten
  <2> QED
    BY <2>1, <2>2, TxUpdate
<1>3. f \in [txs -> Tx] /\ U = {f[t] : t \in txs}
  BY <1>1, <1>2
<1>4. Queue(U) /\ \A b : Users(U, b) = Users(txs, b)
  <2>1. Queue(txs)
    BY DEF Shapes
  <2> QED
    BY ONLY <1>2, <1>3, <2>1, UsersMapped
<1>5. ASSUME \A t \in txs : t.held # mine, Pointed
      PROVE  \A t \in U : ~t.tail => (t.arg = t.held /\ t.args # "lost")
  BY <1>2, <1>3, <1>5 DEF Pointed
<1> QED
  BY <1>4, <1>5

LEMMA ReadStep ==
    ASSUME Inv, Read
    PROVE  Inv'
<1> USE DEF Inv, Guarded
<1>1. UNCHANGED <<rest, sent, hung, edge, jobs, buf, mine>> /\ pc \in {"read", "reread"}
  BY DEF Read
<1>2. PICK n : n = IF Len(socket) < buf[mine].size THEN Len(socket) ELSE buf[mine].size
  OBVIOUS
<1>3. n \in Nat /\ n <= Len(socket) /\ Len(socket) \in Nat
  <2>1. Len(socket) \in Nat
    BY LenProperties DEF Flow
  <2>2. buf[mine].size \in Nat
    BY DEF Shapes, Buffer
  <2> QED
    BY <1>2, <2>1, <2>2
<1>4. /\ cells' = SubSeq(socket, 1, n)
      /\ socket' = SubSeq(socket, n + 1, Len(socket))
      /\ at' = 0
      /\ txs' = {Overwritten(t, n) : t \in txs}
      /\ command' = IF pc = "read" THEN [NoCommand EXCEPT !.from = 1] ELSE Overwritten(command, n)
  BY <1>2 DEF Read
<1>5. PICK error \in BOOLEAN :
         /\ ending' = (error /\ pc = "reread")
         /\ asked' = (asked \/ (pc = "read" /\ n = 0 /\ ~error))
         /\ pc' = IF pc = "reread" THEN "route" ELSE IF n = 0 THEN "idle" ELSE "take"
  BY <1>2 DEF Read
<1>6. Flow'
  <2>1. \A i \in 1..Len(socket) : socket[i] \in Piece
    BY ElementOfSeq DEF Flow
  <2>2. cells' \in Seq(Piece)
    <3>1. \A i \in 1..n : socket[i] \in Piece
      BY <1>3, <2>1
    <3> QED
      BY <1>3, <1>4, <3>1, SubSeqProperties
  <2>3. socket' \in Seq(Piece)
    <3>1. \A i \in (n + 1)..Len(socket) : socket[i] \in Piece
      BY <1>3, <2>1
    <3>2. n + 1 \in Int /\ Len(socket) \in Int
      BY <1>3
    <3> QED
      BY <1>4, <3>1, <3>2, SubSeqProperties
  <2>4. at' \in 0..Len(cells')
    BY <1>4, <2>2, LenProperties
  <2>5. ending' \in BOOLEAN /\ asked' \in BOOLEAN
    BY <1>5 DEF Flow
  <2>6. pc' \in {"route", "idle", "take"}
    BY <1>5
  <2> QED
    BY <1>1, <2>2, <2>3, <2>4, <2>5, <2>6 DEF Flow
<1>7. \A t \in txs : t.held # mine
  BY <1>1 DEF Unread
<1>8. /\ Queue(txs') /\ \A b : Users(txs', b) = Users(txs, b)
      /\ \A t \in txs' : ~t.tail => (t.arg = t.held /\ t.args # "lost")
  <2>1. PICK U : U = txs'
    OBVIOUS
  <2>2. U = {Overwritten(t, n) : t \in txs} /\ Shapes /\ Pointed
    BY <1>4, <2>1
  <2>3. /\ Queue(U) /\ \A b : Users(U, b) = Users(txs, b)
        /\ \A t \in U : ~t.tail => (t.arg = t.held /\ t.args # "lost")
    <3>1. n \in Nat
      BY <1>3
    <3> HIDE DEF Shapes, Pointed, Inv, Guarded
    <3> QED
      BY ONLY <1>7, <2>2, <3>1, OverwrittenKeeps, Zenon
  <2> QED
    BY <2>1, <2>3
<1>9. /\ command' \in Parsed
      /\ pc = "read" => (command'.tail = FALSE /\ command'.arg = mine /\ command'.args = "intact")
      /\ pc = "reread" => command'.tail = TRUE
  <2>1. ASSUME pc = "read"
        PROVE  command' \in Parsed /\ command'.tail = FALSE /\ command'.arg = mine
               /\ command'.args = "intact"
    <3>1. command' = [NoCommand EXCEPT !.from = 1] /\ mine \in Buffers /\ 1 \in Nat
      BY <1>4, <2>1 DEF Shapes
    <3> QED
      BY <3>1, CommandNone
  <2>2. ASSUME pc = "reread"
        PROVE  command' \in Parsed /\ command'.tail = TRUE
    <3>1. command \in Parsed /\ command.tail = TRUE
      BY <2>2 DEF Shapes, Ended, Parsed
    <3>2. command' = command \/ command' = [command EXCEPT !.args = "lost"]
      BY <1>4, <2>2 DEF Overwritten
    <3>3. "lost" \in Fate
      BY DEF Fate
    <3> QED
      BY <3>1, <3>2, <3>3, CommandFate
  <2> QED
    BY <1>1, <2>1, <2>2
<1>10. Shapes'
  BY <1>1, <1>8, <1>9 DEF Shapes
<1>11. Counted'
  BY <1>1, <1>5, <1>8, CountedKept
<1>12. Unread'
  BY <1>5 DEF Unread
<1>13. Ended' /\ Pointed'
  BY <1>1, <1>5, <1>8, <1>9 DEF Ended, Pointed
<1> QED
  BY <1>6, <1>10, <1>11, <1>12, <1>13

-----------------------------------------------------------------------------
(***************************************************************************)
(* get_command_data.                                                       *)
(***************************************************************************)
LEMMA TakenKeeps ==
    ASSUME Inv, pc = "take", NEW p, NEW size, Taken(p, size), mine' = mine
    PROVE  /\ at' = at + 1 /\ ending' \in BOOLEAN
           /\ pc' \in {"take", "route", "reunshare", "reread"}
           /\ command' \in Parsed /\ Ended'
           /\ (pc' \in {"take", "route"} /\ ~command'.tail)
                => (command'.arg = mine /\ command'.args # "lost")
           /\ pc' = "reread" => ~Shared(mine)
<1> USE DEF Inv, Guarded
<1>1. command \in Parsed /\ mine \in Buffers /\ command.tail = FALSE /\ command.args # "lost"
  BY DEF Shapes, Ended, Pointed, Parsed
<1>2. PICK outcome \in {"more", "done", "bad"} :
        /\ at' = at + 1
        /\ command' = CASE outcome = "more" -> [command EXCEPT !.n = @ + 1, !.arg = mine]
                        [] outcome = "done" -> [command EXCEPT !.n = @ + 1, !.arg = mine,
                                                  !.tail = at' = size /\ size = buf'[mine].size]
                        [] outcome = "bad"  -> [NoCommand EXCEPT !.from = at' + 1]
        /\ ending' = (outcome = "done" /\ at' = size /\ size # buf'[mine].size)
        /\ pc' = IF outcome # "done" THEN "take"
                 ELSE IF ~command'.tail THEN "route"
                 ELSE IF Shared(mine) THEN "reunshare" ELSE "reread"
  BY Zenon DEF Taken, Outcomes
<1>3. at \in Nat
  BY LenProperties DEF Flow
<1>4. CASE outcome = "more"
  <2>1. command' = [command EXCEPT !.n = @ + 1, !.arg = mine]
    BY <1>2, <1>4
  <2>2. command' \in Parsed /\ command'.arg = mine /\ command'.tail = FALSE /\ command'.args # "lost"
    <3>1. PICK c, m, u : c = command /\ m = mine /\ u = command'
      OBVIOUS
    <3>2. c \in Parsed /\ m \in Buffers /\ u = [c EXCEPT !.n = @ + 1, !.arg = m]
      BY <1>1, <2>1, <3>1
    <3>3. u \in Parsed /\ u.arg = m /\ u.tail = c.tail /\ u.args = c.args
      BY ONLY <3>2, CommandTaken, ZenonT(30)
    <3> QED
      BY ONLY <1>1, <3>1, <3>3
  <2>3. pc' = "take"
    BY <1>2, <1>4
  <2> QED
    BY <1>2, <2>2, <2>3 DEF Ended
<1>5. CASE outcome = "done"
  <2>1. PICK l \in BOOLEAN : l = (at' = size /\ size = buf'[mine].size)
    OBVIOUS
  <2>2. command' = [command EXCEPT !.n = @ + 1, !.arg = mine, !.tail = l]
    BY <1>2, <1>5, <2>1
  <2>3. command' \in Parsed /\ command'.arg = mine /\ command'.tail = l /\ command'.args # "lost"
    <3>1. command' = [[command EXCEPT !.n = @ + 1, !.arg = mine] EXCEPT !.tail = l]
      <4>1. ASSUME NEW c \in Parsed, NEW m \in Buffers
            PROVE  [c EXCEPT !.n = @ + 1, !.arg = m, !.tail = l]
                     = [[c EXCEPT !.n = @ + 1, !.arg = m] EXCEPT !.tail = l]
        BY DEF Parsed
      <4>2. PICK c, m : c = command /\ m = mine
        OBVIOUS
      <4>3. c \in Parsed /\ m \in Buffers
        BY <1>1, <4>2
      <4>4. command' = [c EXCEPT !.n = @ + 1, !.arg = m, !.tail = l]
        BY <2>2, <4>2
      <4>5. command' = [[c EXCEPT !.n = @ + 1, !.arg = m] EXCEPT !.tail = l]
        BY ONLY <4>1, <4>3, <4>4
      <4> QED
        BY <4>2, <4>5
    <3>2. PICK v : v = [command EXCEPT !.n = @ + 1, !.arg = mine]
      OBVIOUS
    <3>3. v \in Parsed /\ v.arg = mine /\ v.args = command.args
      <4>1. PICK c, m : c = command /\ m = mine
        OBVIOUS
      <4>2. c \in Parsed /\ m \in Buffers /\ v = [c EXCEPT !.n = @ + 1, !.arg = m]
        BY <1>1, <3>2, <4>1
      <4>3. v \in Parsed /\ v.arg = m /\ v.args = c.args
        BY ONLY <4>2, CommandTaken, ZenonT(30)
      <4> QED
        BY <4>1, <4>3
    <3>4. command' = [v EXCEPT !.tail = l]
      BY <3>1, <3>2
    <3> QED
      BY <1>1, <3>3, <3>4 DEF Parsed
  <2>4. pc' = IF ~command'.tail THEN "route"
              ELSE IF Shared(mine) THEN "reunshare" ELSE "reread"
    BY <1>2, <1>5
  <2> QED
    BY <1>2, <2>3, <2>4 DEF Ended
<1>6. CASE outcome = "bad"
  <2>1. command' = [NoCommand EXCEPT !.from = at' + 1] /\ at' + 1 \in Nat
    BY <1>2, <1>3, <1>6
  <2>2. command' \in Parsed /\ command'.arg = mine /\ command'.tail = FALSE
        /\ command'.args = "intact"
    BY <1>1, <2>1, CommandNone
  <2>3. pc' = "take"
    BY <1>2, <1>6
  <2> QED
    BY <1>2, <2>2, <2>3 DEF Ended
<1> QED
  BY <1>4, <1>5, <1>6

\* The buffer is read again only if no transaction holds it.
LEMMA UnsharedFree ==
    ASSUME Inv, pc # "gone", ~Shared(mine)
    PROVE  \A t \in txs : t.held # mine
<1> USE DEF Inv, Guarded
<1>1. buf[mine].refs = Users(txs, mine) + 1 /\ Users(txs, mine) \in Nat
  BY MineLive
<1>2. Users(txs, mine) = 0
  BY <1>1 DEF Shared
<1> QED
  BY <1>2, UsersType DEF Shapes

LEMMA TakeStep ==
    ASSUME Inv, Take
    PROVE  Inv'
<1> USE DEF Inv, Guarded
<1>1. UNCHANGED <<peer, mine, cells, txs, asked, buf>> /\ pc = "take" /\ at < Len(cells)
  BY DEF Take
<1>2. /\ at' = at + 1 /\ ending' \in BOOLEAN
      /\ pc' \in {"take", "route", "reunshare", "reread"}
      /\ command' \in Parsed /\ Ended'
      /\ (pc' \in {"take", "route"} /\ ~command'.tail)
            => (command'.arg = mine /\ command'.args # "lost")
      /\ pc' = "reread" => ~Shared(mine)
  <2>1. PICK p : p = cells[at + 1]
    OBVIOUS
  <2>2. PICK size : size = Len(cells)
    OBVIOUS
  <2>3. Taken(p, size)
    BY <2>1, <2>2 DEF Take
  <2> QED
    BY <1>1, <2>3, TakenKeeps
<1>3. Flow'
  <2>1. at' \in 0..Len(cells)
    <3>1. Len(cells) \in Nat /\ at \in Nat
      BY LenProperties DEF Flow
    <3> QED
      BY <1>1, <1>2, <3>1
  <2> QED
    BY <1>1, <1>2, <2>1 DEF Flow, peer
<1>4. Shapes'
  BY <1>1, <1>2 DEF Shapes
<1>5. Counted'
  BY <1>1, <1>2, CountedKept
<1>6. Unread'
  BY <1>1, <1>2, UnsharedFree DEF Unread
<1>7. Pointed'
  BY <1>1, <1>2 DEF Pointed
<1> QED
  BY <1>2, <1>3, <1>4, <1>5, <1>6, <1>7

LEMMA TakeMoreStep ==
    ASSUME Inv, TakeMore
    PROVE  Inv'
<1> USE DEF Inv, Guarded
<1>1. UNCHANGED <<sent, hung, edge, jobs, mine, asked>> /\ pc = "take" /\ at = Len(cells) /\ Grown
  BY DEF TakeMore
<1>2. Len(cells) \in Nat
  BY LenProperties DEF Flow
<1>3. PICK p \in Piece :
         /\ socket' \in Seq(Piece) /\ rest' \in Seq(Piece)
         /\ cells' = Append(cells, p)
         /\ Taken(p, Len(cells) + 1)
  <2>1. CASE /\ socket # << >>
             /\ socket' = Tail(socket) /\ UNCHANGED rest
             /\ cells' = Append(cells, Head(socket))
             /\ Taken(Head(socket), Len(cells) + 1)
    <3>1. Head(socket) \in Piece /\ Tail(socket) \in Seq(Piece)
      BY <2>1, HeadTailProperties DEF Flow
    <3> QED
      BY <2>1, <3>1 DEF Flow
  <2>2. CASE /\ socket = << >> /\ rest # << >> /\ ~Head(rest).junk
             /\ rest' = <<Junk>> \o Tail(rest) /\ UNCHANGED socket
             /\ cells' = Append(cells, Junk)
             /\ Taken(Junk, Len(cells) + 1)
    <3>1. Junk \in Piece
      BY DEF Junk, Piece
    <3>2. Tail(rest) \in Seq(Piece)
      BY <2>2, HeadTailProperties DEF Flow
    <3>3. <<Junk>> \in Seq(Piece)
      BY <3>1
    <3>4. rest' \in Seq(Piece)
      BY <2>2, <3>2, <3>3, ConcatProperties
    <3> QED
      BY <2>2, <3>1, <3>4 DEF Flow
  <2> QED
    BY <2>1, <2>2 DEF TakeMore
<1>4. /\ at' = at + 1 /\ ending' \in BOOLEAN
      /\ pc' \in {"take", "route", "reunshare", "reread"}
      /\ command' \in Parsed /\ Ended'
      /\ (pc' \in {"take", "route"} /\ ~command'.tail)
            => (command'.arg = mine /\ command'.args # "lost")
      /\ pc' = "reread" => ~Shared(mine)
  BY <1>1, <1>3, TakenKeeps
<1>5. Flow'
  <2>1. cells' \in Seq(Piece) /\ Len(cells') = Len(cells) + 1
    BY <1>3, AppendProperties DEF Flow
  <2>2. at' \in 0..Len(cells')
    BY <1>1, <1>2, <1>4, <2>1
  <2> QED
    BY <1>1, <1>3, <1>4, <2>1, <2>2 DEF Flow
<1>6. /\ buf' \in [Buffers -> Buffer] /\ Queue(txs')
      /\ \A b \in Buffers : buf'[b].live = buf[b].live /\ buf'[b].refs = buf[b].refs
      /\ \A b \in Buffers : Users(txs', b) = Users(txs, b)
      /\ \A t \in txs' : ~t.tail => (t.arg = t.held /\ t.args # "lost")
      /\ (\A t \in txs : t.held # mine) => \A t \in txs' : t.held # mine
  BY <1>1, GrownKeeps
<1>7. Shapes'
  BY <1>1, <1>4, <1>6 DEF Shapes
<1>8. Counted'
  BY <1>1, <1>4, <1>6, CountedKept
<1>9. Unread'
  BY <1>1, <1>4, <1>6, UnsharedFree DEF Unread
<1>10. Pointed'
  BY <1>1, <1>4, <1>6 DEF Pointed
<1> QED
  BY <1>4, <1>5, <1>7, <1>8, <1>9, <1>10

LEMMA TakeNothingStep ==
    ASSUME Inv, TakeNothing
    PROVE  Inv'
<1> USE DEF Inv, Guarded
<1>1. UNCHANGED <<peer, mine, cells, at, ending, pc, asked>> /\ pc = "take" /\ Grown
  BY DEF TakeNothing
<1>2. Flow'
  BY <1>1 DEF Flow, peer
<1>3. /\ buf' \in [Buffers -> Buffer] /\ Queue(txs')
      /\ \A b \in Buffers : buf'[b].live = buf[b].live /\ buf'[b].refs = buf[b].refs
      /\ \A b \in Buffers : Users(txs', b) = Users(txs, b)
      /\ \A t \in txs' : ~t.tail => (t.arg = t.held /\ t.args # "lost")
  BY <1>1, GrownKeeps
<1>4. command' \in Parsed /\ command'.arg = mine /\ command'.tail = FALSE
      /\ command'.args = "intact"
  <2>1. at + 1 \in Nat /\ mine \in Buffers
    BY LenProperties DEF Flow, Shapes
  <2> QED
    BY <2>1, CommandNone DEF TakeNothing
<1>5. Shapes'
  BY <1>1, <1>3, <1>4 DEF Shapes
<1>6. Counted'
  BY <1>1, <1>3, CountedKept
<1>7. Unread' /\ Ended' /\ Pointed'
  BY <1>1, <1>3, <1>4 DEF Unread, Ended, Pointed
<1> QED
  BY <1>2, <1>5, <1>6, <1>7
-----------------------------------------------------------------------------
(***************************************************************************)
(* The rest of the loop's body.                                            *)
(***************************************************************************)
LEMMA LoopedKeeps ==
    ASSUME Inv, Looped \/ Return, mine' = mine
    PROVE  /\ cells' \in Seq(Piece) /\ at' \in 0..Len(cells') /\ ending' \in BOOLEAN
           /\ pc' \in {"idle", "take"}
           /\ command' \in Parsed /\ command'.arg = mine /\ command'.tail = FALSE
           /\ command'.args = "intact"
<1> USE DEF Inv, Guarded
<1>1. at \in Nat /\ mine \in Buffers /\ 0 \in Nat
  BY LenProperties DEF Flow, Shapes
<1>2. ASSUME Return
      PROVE  /\ cells' \in Seq(Piece) /\ at' \in 0..Len(cells') /\ ending' \in BOOLEAN
             /\ pc' \in {"idle", "take"}
             /\ command' \in Parsed /\ command'.arg = mine /\ command'.tail = FALSE
             /\ command'.args = "intact"
  <2>1. cells' \in Seq(Piece) /\ Len(cells') = 0
    BY <1>2, EmptySeq DEF Return
  <2>2. command' \in Parsed /\ command'.arg = mine /\ command'.tail = FALSE
        /\ command'.args = "intact"
    BY <1>1, <1>2, CommandNone DEF Return
  <2>3. at' = 0 /\ ending' = FALSE /\ pc' = "idle"
    BY <1>2 DEF Return
  <2>4. at' \in 0..Len(cells')
    BY <2>1, <2>3
  <2> QED
    BY <2>1, <2>2, <2>3, <2>4
<1>3. CASE ~ending /\ pc' = "take" /\ command' = [NoCommand EXCEPT !.from = at + 1]
           /\ UNCHANGED <<cells, at, ending>>
  <2>1. at + 1 \in Nat
    BY <1>1
  <2>2. command' \in Parsed /\ command'.arg = mine /\ command'.tail = FALSE
        /\ command'.args = "intact"
    BY <1>1, <1>3, <2>1, CommandNone
  <2> QED
    BY <1>3, <2>2 DEF Flow
<1> QED
  BY <1>2, <1>3 DEF Looped

LEMMA RouteRefusedStep ==
    ASSUME Inv, RouteRefused \/ RouteFails
    PROVE  Inv'
<1> USE DEF Inv, Guarded
<1>1. UNCHANGED <<peer, buf, mine, txs, asked>> /\ pc = "route" /\ (Looped \/ Return)
  BY DEF RouteRefused, RouteFails
<1>2. /\ cells' \in Seq(Piece) /\ at' \in 0..Len(cells') /\ ending' \in BOOLEAN
      /\ pc' \in {"idle", "take"}
      /\ command' \in Parsed /\ command'.arg = mine /\ command'.tail = FALSE
      /\ command'.args = "intact"
  BY <1>1, LoopedKeeps
<1>3. Flow'
  BY <1>1, <1>2 DEF Flow, peer
<1>4. Shapes'
  BY <1>1, <1>2 DEF Shapes
<1>5. Counted'
  BY <1>1, <1>2, CountedKept
<1>6. Unread' /\ Ended' /\ Pointed'
  BY <1>1, <1>2 DEF Unread, Ended, Pointed
<1> QED
  BY <1>3, <1>4, <1>5, <1>6

LEMMA RouteQueuedStep ==
    ASSUME Inv, RouteQueued
    PROVE  Inv'
<1> USE DEF Inv, Guarded
<1>1. UNCHANGED <<peer, mine, asked>> /\ pc = "route" /\ Looped
  BY DEF RouteQueued
<1>2. /\ cells' \in Seq(Piece) /\ at' \in 0..Len(cells') /\ ending' \in BOOLEAN
      /\ pc' \in {"idle", "take"}
      /\ command' \in Parsed /\ command'.arg = mine /\ command'.tail = FALSE
      /\ command'.args = "intact"
  BY <1>1, LoopedKeeps
<1>3. Flow'
  BY <1>1, <1>2 DEF Flow, peer
<1>4. /\ buf[mine].live /\ Users(txs, mine) \in Nat
      /\ buf[mine].refs = Users(txs, mine) + 1
  BY <1>1, MineLive
<1>5. /\ buf' \in [Buffers -> Buffer]
      /\ buf'[mine].live = buf[mine].live /\ buf'[mine].refs = Users(txs, mine) + 2
      /\ \A x \in Buffers \ {mine} : buf'[x] = buf[x]
  <2>1. PICK n : n = Users(txs, mine) + 2
    OBVIOUS
  <2>2. PICK b, u : b = mine /\ u = buf'
    OBVIOUS
  <2>3. n \in Nat /\ b \in Buffers /\ buf \in [Buffers -> Buffer]
    BY <1>4, <2>1, <2>2 DEF Shapes
  <2>4. u = [buf EXCEPT ![b].refs = n]
    <3>1. u = [buf EXCEPT ![b].refs = buf[b].refs + 1]
      BY <2>2, <2>3 DEF RouteQueued, Prepare
    <3>2. buf[b].refs + 1 = n
      BY <1>4, <2>1, <2>2
    <3> QED
      BY <3>1, <3>2
  <2>5. /\ u \in [Buffers -> Buffer] /\ u[b].live = buf[b].live /\ u[b].refs = n
        /\ \A x \in Buffers \ {b} : u[x] = buf[x]
    BY ONLY <2>3, <2>4, BufferUpdate
  <2> QED
    BY <2>1, <2>2, <2>5
<1>6. PICK x : x = [id |-> NewId, arg |-> command.arg, from |-> command.from,
                    tail |-> command.tail, args |-> command.args, held |-> mine]
  OBVIOUS
<1>7. /\ x \in Tx /\ x.held = mine /\ x.arg = command.arg /\ x.tail = command.tail
      /\ x.args = command.args /\ \A t \in txs : t.id # x.id
  <2>1. NewId \in Nat /\ \A t \in txs : t.id # NewId
    BY IdIsNew DEF Shapes
  <2>2. /\ command.arg \in Buffers /\ command.from \in Nat /\ command.tail \in BOOLEAN
        /\ command.args \in Fate /\ mine \in Buffers
    BY DEF Shapes, Parsed, Fate
  <2> HIDE DEF NewId
  <2> QED
    BY <1>6, <2>1, <2>2 DEF Tx
<1>8. txs' = txs \cup {x}
  BY <1>6 DEF RouteQueued
<1>9. /\ Queue(txs') /\ Users(txs', mine) = Users(txs, mine) + 1
      /\ \A b : b # mine => Users(txs', b) = Users(txs, b)
  <2>1. Queue(txs)
    BY DEF Shapes
  <2>2. PICK U : U = txs'
    OBVIOUS
  <2>3. /\ Queue(U) /\ Users(U, x.held) = Users(txs, x.held) + 1
        /\ \A b : b # x.held => Users(U, b) = Users(txs, b)
    <3>1. U = txs \cup {x}
      BY <1>8, <2>2
    <3> QED
      BY ONLY <1>7, <2>1, <3>1, UsersAdded
  <2> QED
    BY <1>7, <2>2, <2>3
<1>10. Shapes'
  BY <1>1, <1>2, <1>5, <1>9 DEF Shapes
<1>11. Counted'
  <2> SUFFICES ASSUME NEW b \in Buffers
               PROVE  /\ buf'[b].live => buf'[b].refs = Users(txs', b) + Own(b)'
                      /\ Users(txs', b) + Own(b)' > 0 => buf'[b].live
    BY DEF Counted
  <2>1. CASE b = mine
    <3>1. Own(b)' = 1
      BY <1>1, <1>2, <2>1 DEF Own
    <3>2. buf'[mine].live
      BY <1>4, <1>5
    <3> QED
      BY <1>4, <1>5, <1>9, <2>1, <3>1, <3>2
  <2>2. CASE b # mine
    <3>1. Own(b)' = 0 /\ Own(b) = 0
      BY <1>1, <2>2 DEF Own
    <3>2. buf'[b] = buf[b] /\ Users(txs', b) = Users(txs, b)
      BY <1>5, <1>9, <2>2
    <3> QED
      BY <3>1, <3>2 DEF Counted
  <2> QED
    BY <2>1, <2>2
<1>12. Unread' /\ Ended'
  BY <1>2 DEF Unread, Ended
<1>13. Pointed'
  <2>1. \A t \in txs' : ~t.tail => (t.arg = t.held /\ t.args # "lost")
    BY <1>1, <1>7, <1>8 DEF Pointed
  <2> QED
    BY <1>1, <1>2, <2>1 DEF Pointed
<1> QED
  BY <1>3, <1>10, <1>11, <1>12, <1>13

-----------------------------------------------------------------------------
(***************************************************************************)
(* Release of the references.                                              *)
(***************************************************************************)
\* U is T, but for arguments in buffer b.
SameBut(U, T, b) == \A u \in U : \E t \in T :
                        /\ u.tail = t.tail /\ u.arg = t.arg /\ u.held = t.held
                        /\ t.arg # b => u.args = t.args

\* Freeing a buffer that nobody holds loses no arguments but those of commands
\* that ended a full buffer.
LEMMA FreedKeeps ==
    ASSUME NEW T, Queue(T), NEW b \in Buffers, NEW U, U = {Freed(b, t) : t \in T}
    PROVE  Queue(U) /\ (\A x : Users(U, x) = Users(T, x)) /\ SameBut(U, T, b)
<1>1. PICK f : f = [t \in T |-> Freed(b, t)]
  OBVIOUS
<1>2. ASSUME NEW t \in T
      PROVE  /\ f[t] \in Tx /\ f[t].id = t.id /\ f[t].held = t.held
             /\ f[t].arg = t.arg /\ f[t].tail = t.tail
             /\ t.arg # b => f[t].args = t.args
  <2>1. t \in Tx /\ "lost" \in Fate
    BY DEF Queue, Fate
  <2>2. f[t] = t \/ (t.arg = b /\ f[t] = [t EXCEPT !.args = "lost"])
    BY <1>1 DEF Freed
  <2> QED
    BY <2>1, <2>2, TxUpdate
<1>3. f \in [T -> Tx] /\ U = {f[t] : t \in T}
  BY <1>1, <1>2
<1>4. Queue(U) /\ \A x : Users(U, x) = Users(T, x)
  BY ONLY <1>2, <1>3, Queue(T), UsersMapped
<1>5. ASSUME NEW u \in U
      PROVE  \E t \in T : /\ u.tail = t.tail /\ u.arg = t.arg /\ u.held = t.held
                          /\ t.arg # b => u.args = t.args
  BY <1>2, <1>3
<1> QED
  BY <1>4, <1>5 DEF SameBut

\* A reference that is counted is given up: the transactions left are counted as
\* before, and the arguments in buffers that somebody still refers to are kept.
LEMMA DropKeeps ==
    ASSUME Shapes, NEW b \in Buffers, buf[b].refs > 0, NEW T, Queue(T), Drop(b, T)
    PROVE  /\ buf' \in [Buffers -> Buffer]
           /\ buf'[b].refs = buf[b].refs - 1
           /\ buf'[b].live <=> buf[b].refs # 1
           /\ \A x \in Buffers \ {b} : buf'[x] = buf[x]
           /\ Queue(txs') /\ \A x : Users(txs', x) = Users(T, x)
           /\ \A u \in txs' : \E t \in T :
                /\ u.tail = t.tail /\ u.arg = t.arg /\ u.held = t.held
                /\ (t.arg # b \/ buf[b].refs # 1) => u.args = t.args
           /\ command' \in Parsed /\ command'.tail = command.tail /\ command'.arg = command.arg
           /\ (command.arg # b \/ buf[b].refs # 1) => command'.args = command.args
<1>1. /\ buf' \in [Buffers -> Buffer]
      /\ buf'[b].refs = buf[b].refs - 1
      /\ buf'[b].live <=> buf[b].refs # 1
      /\ \A x \in Buffers \ {b} : buf'[x] = buf[x]
  BY BufferDropped DEF Shapes, Drop
<1>2. CASE buf[b].refs = 1
  <2>1. txs' = {Freed(b, t) : t \in T} /\ command' = Freed(b, command)
    BY <1>2 DEF Drop
  <2>2. PICK U : U = txs'
    OBVIOUS
  <2>3. Queue(U) /\ (\A x : Users(U, x) = Users(T, x)) /\ SameBut(U, T, b)
    <3>1. U = {Freed(b, t) : t \in T}
      BY <2>1, <2>2
    <3> QED
      BY ONLY <3>1, Queue(T), b \in Buffers, FreedKeeps, Zenon
  <2>4. command' = command \/ (command.arg = b /\ command' = [command EXCEPT !.args = "lost"])
    BY <2>1 DEF Freed
  <2>5. /\ command' \in Parsed /\ command'.tail = command.tail /\ command'.arg = command.arg
        /\ command.arg # b => command'.args = command.args
    <3>1. command \in Parsed /\ "lost" \in Fate
      BY DEF Shapes, Fate
    <3> QED
      BY <2>4, <3>1, CommandFate
  <2> QED
    BY <1>1, <1>2, <2>2, <2>3, <2>5 DEF SameBut
<1>3. CASE buf[b].refs # 1
  <2>1. txs' = T /\ command' = command
    BY <1>3 DEF Drop
  <2> QED
    BY <1>1, <2>1 DEF Shapes
<1> QED
  BY <1>2, <1>3

LEMMA ReleaseStep ==
    ASSUME Inv, NEW t \in txs, Release(t)
    PROVE  Inv'
<1> USE DEF Inv, Guarded
<1>1. UNCHANGED <<peer, mine, cells, at, ending, pc, asked>>
  BY DEF Release
<1>2. Flow'
  BY <1>1 DEF Flow, peer
<1>3. PICK b : b = t.held
  OBVIOUS
<1>4. b \in Buffers
  BY <1>3 DEF Shapes, Queue, Tx
<1>5. PICK T : T = txs \ {t}
  OBVIOUS
<1>6. /\ Queue(T) /\ Users(T, b) = Users(txs, b) - 1
      /\ \A x : x # b => Users(T, x) = Users(txs, x)
  <2>1. Queue(txs)
    BY DEF Shapes
  <2> QED
    BY ONLY <1>3, <1>5, <2>1, t \in txs, UsersRemoved
<1>7. Users(T, b) \in Nat /\ Users(txs, b) \in Nat
  BY <1>6, UsersType DEF Shapes
<1>8. Own(b) \in {0, 1}
  BY DEF Own
<1>9. buf[b].live /\ buf[b].refs = Users(txs, b) + Own(b)
  BY <1>4, <1>6, <1>7, <1>8 DEF Counted
<1>10. buf[b].refs > 0
  BY <1>6, <1>7, <1>8, <1>9
<1>11. /\ buf' \in [Buffers -> Buffer]
       /\ buf'[b].refs = buf[b].refs - 1
       /\ buf'[b].live <=> buf[b].refs # 1
       /\ \A x \in Buffers \ {b} : buf'[x] = buf[x]
       /\ Queue(txs') /\ \A x : Users(txs', x) = Users(T, x)
       /\ \A u \in txs' : \E v \in T :
                /\ u.tail = v.tail /\ u.arg = v.arg /\ u.held = v.held
                /\ (v.arg # b \/ buf[b].refs # 1) => u.args = v.args
       /\ command' \in Parsed /\ command'.tail = command.tail /\ command'.arg = command.arg
       /\ (command.arg # b \/ buf[b].refs # 1) => command'.args = command.args
  <2>1. Drop(b, T)
    BY <1>3, <1>5 DEF Release
  <2>2. Shapes
    OBVIOUS
  <2> QED
    BY ONLY <1>4, <1>6, <1>10, <2>1, <2>2, DropKeeps
<1>12. Shapes'
  BY <1>1, <1>11 DEF Shapes
<1>13. Counted'
  <2> SUFFICES ASSUME NEW x \in Buffers
               PROVE  /\ buf'[x].live => buf'[x].refs = Users(txs', x) + Own(x)'
                      /\ Users(txs', x) + Own(x)' > 0 => buf'[x].live
    BY DEF Counted
  <2>1. Own(x)' = Own(x) /\ Users(txs', x) = Users(T, x)
    BY <1>1, <1>11 DEF Own
  <2>2. CASE x = b
    <3>1. buf'[b].refs = Users(T, b) + Own(b)
      BY <1>6, <1>7, <1>8, <1>9, <1>11
    <3>2. Users(T, b) + Own(b) > 0 => buf[b].refs # 1
      BY <1>6, <1>7, <1>8, <1>9
    <3> QED
      BY <1>11, <2>1, <2>2, <3>1, <3>2
  <2>3. CASE x # b
    <3>1. buf'[x] = buf[x] /\ Users(T, x) = Users(txs, x)
      BY <1>6, <1>11, <2>3
    <3> QED
      BY <2>1, <3>1 DEF Counted
  <2> QED
    BY <2>2, <2>3
<1>14. buf[b].refs = 1 => /\ \A v \in T : v.held # b
                          /\ mine = b => pc = "gone"
  <2> SUFFICES ASSUME buf[b].refs = 1
               PROVE  (\A v \in T : v.held # b) /\ (mine = b => pc = "gone")
    OBVIOUS
  <2>1. Users(T, b) = 0 /\ Own(b) = 0
    BY <1>6, <1>7, <1>8, <1>9
  <2> QED
    BY <1>6, <2>1, UsersType DEF Own
<1>15. Unread'
  BY <1>1, <1>5, <1>11 DEF Unread
<1>16. Ended'
  BY <1>1, <1>11 DEF Ended
<1>17. Pointed'
  <2>1. ASSUME NEW u \in txs', ~u.tail
        PROVE  u.arg = u.held /\ u.args # "lost"
    <3>1. PICK v \in T : /\ u.tail = v.tail /\ u.arg = v.arg /\ u.held = v.held
                         /\ (v.arg # b \/ buf[b].refs # 1) => u.args = v.args
      BY <1>11
    <3>2. v.arg = v.held /\ v.args # "lost"
      BY <1>5, <2>1, <3>1 DEF Pointed
    <3> QED
      BY <1>14, <3>1, <3>2
  <2>2. ASSUME pc \in {"take", "route"}, ~command'.tail
        PROVE  command'.arg = mine /\ command'.args # "lost"
    <3>1. command.arg = mine /\ command.args # "lost"
      BY <1>11, <2>2 DEF Pointed
    <3>2. command.arg # b \/ buf[b].refs # 1
      BY <1>14, <2>2, <3>1
    <3> QED
      BY <1>11, <3>1, <3>2
  <2> QED
    BY <1>1, <2>1, <2>2 DEF Pointed
<1> QED
  BY <1>2, <1>12, <1>13, <1>15, <1>16, <1>17

LEMMA TerminateStep ==
    ASSUME Inv, Terminate
    PROVE  Inv'
<1> USE DEF Inv, Guarded
<1>1. UNCHANGED <<peer, mine, cells, at, ending, asked>> /\ pc = "idle" /\ pc' = "gone"
  BY DEF Terminate
<1>2. Flow'
  BY <1>1 DEF Flow, peer
<1>3. PICK b : b = mine
  OBVIOUS
<1>4. b \in Buffers /\ Queue(txs)
  BY <1>3 DEF Shapes
<1>5. /\ buf[b].live /\ Users(txs, b) \in Nat
      /\ buf[b].refs = Users(txs, b) + 1
  BY <1>1, <1>3, MineLive
<1>6. buf[b].refs > 0
  BY <1>5
<1>7. /\ buf' \in [Buffers -> Buffer]
      /\ buf'[b].refs = buf[b].refs - 1
      /\ buf'[b].live <=> buf[b].refs # 1
      /\ \A x \in Buffers \ {b} : buf'[x] = buf[x]
      /\ Queue(txs') /\ \A x : Users(txs', x) = Users(txs, x)
      /\ \A u \in txs' : \E v \in txs :
               /\ u.tail = v.tail /\ u.arg = v.arg /\ u.held = v.held
               /\ (v.arg # b \/ buf[b].refs # 1) => u.args = v.args
      /\ command' \in Parsed
  <2>1. PICK T : T = txs
    OBVIOUS
  <2>2. Drop(b, T) /\ Queue(T)
    BY <1>3, <1>4, <2>1 DEF Terminate
  <2>3. Shapes
    OBVIOUS
  <2> QED
    BY ONLY <1>4, <1>6, <2>1, <2>2, <2>3, DropKeeps
<1>8. Shapes'
  BY <1>1, <1>7 DEF Shapes
<1>9. Counted'
  <2> SUFFICES ASSUME NEW x \in Buffers
               PROVE  /\ buf'[x].live => buf'[x].refs = Users(txs', x) + Own(x)'
                      /\ Users(txs', x) + Own(x)' > 0 => buf'[x].live
    BY DEF Counted
  <2>1. Own(x)' = 0 /\ Users(txs', x) = Users(txs, x)
    BY <1>1, <1>7 DEF Own
  <2>2. CASE x = b
    BY <1>5, <1>7, <2>1, <2>2
  <2>3. CASE x # b
    <3>1. buf'[x] = buf[x] /\ Own(x) = 0
      BY <1>3, <1>7, <2>3 DEF Own
    <3> QED
      BY <2>1, <3>1 DEF Counted
  <2> QED
    BY <2>2, <2>3
<1>10. Unread' /\ Ended'
  BY <1>1 DEF Unread, Ended
<1>11. Pointed'
  <2>1. ASSUME NEW u \in txs', ~u.tail
        PROVE  u.arg = u.held /\ u.args # "lost"
    <3>1. PICK v \in txs : /\ u.tail = v.tail /\ u.arg = v.arg /\ u.held = v.held
                           /\ (v.arg # b \/ buf[b].refs # 1) => u.args = v.args
      BY <1>7
    <3>2. v.arg = v.held /\ v.args # "lost"
      BY <2>1, <3>1 DEF Pointed
    <3>3. buf[b].refs = 1 => v.held # b
      <4>1. buf[b].refs = 1 => Users(txs, b) = 0
        BY <1>5
      <4> QED
        BY <1>4, <4>1, UsersType
    <3> QED
      BY <3>1, <3>2, <3>3
  <2> QED
    BY <1>1, <2>1 DEF Pointed
<1> QED
  BY <1>2, <1>8, <1>9, <1>10, <1>11

-----------------------------------------------------------------------------
(***************************************************************************)
(* The theorems.                                                           *)
(***************************************************************************)
LEMMA NextInv == Inv /\ [Next]_vars => Inv'
<1> SUFFICES ASSUME Inv, [Next]_vars PROVE Inv'
  OBVIOUS
<1>1. CASE UNCHANGED vars
  <2>1. Flow'
    BY <1>1 DEF Inv, Flow, vars, peer, parser
  <2>2. Guarded'
    BY <1>1, GuardedSame DEF Inv, vars, parser
  <2> QED
    BY <2>1, <2>2 DEF Inv
<1>2. CASE Next
  BY <1>2, PeerStep, ReadStartStep, UnshareStep, ReadStep, TakeStep, TakeMoreStep, TakeNothingStep,
     RouteQueuedStep, RouteRefusedStep, ReleaseStep, TerminateStep DEF Next
<1> QED
  BY <1>1, <1>2

\* The state of read_command, its buffers and the transactions that share them has
\* the types the module declares, whatever is sent, however it is cut on the way.
THEOREM TypeCorrect == Spec => []TypeOK
  BY InitInv, NextInv, InvGives, PTL DEF Spec

\* The reference count of a live buffer is the number of those who refer to it and
\* nobody refers to a freed one, though the I/O thread tests the count and gives
\* its reference up in two steps while the transaction thread gives up others.
THEOREM ReferencesCountedInvariant == Spec => []ReferencesCounted
  BY InitInv, NextInv, InvGives, PTL DEF Spec

\* No read of read_command, no growth of the buffer and no release takes the
\* arguments of a queued transaction away, unless its command ended a full buffer.
THEOREM ArgumentsIntactInvariant == Spec => []ArgumentsIntact
  BY InitInv, NextInv, InvGives, PTL DEF Spec
=============================================================================
