--------------------------- MODULE KeyspaceProofs ---------------------------
(***************************************************************************)
(* Proofs about Keyspace, for any keys, fields, words and numbers.         *)
(***************************************************************************)
EXTENDS Keyspace, SequenceTheorems, TLAPS

-----------------------------------------------------------------------------
(***************************************************************************)
(* What a key may hold.  A command may compute a Result; one that is within *)
(* bounds is a Value.                                                      *)
(***************************************************************************)
Unbounded ==
         [type : {"int", "double"}, v : Int] \cup [type : {"str"}, v : Nat \ {0}]
    \cup [type : {"bool"}, v : {0, 1}] \cup [type : {"null"}, v : {0}]
FieldMap  == UNION {[F -> Scalars] : F \in SUBSET Fields}
Lists     == [type : {"list"}, items : Seq(Scalars) \ {<< >>}, head : Links, tail : Links]
Tables    == [type : {"hashtable"}, fields : FieldMap \ {<< >>}]

Result == Unbounded \cup Lists \cup Tables
Value  == {x \in Scalars \cup Lists \cup Tables : WithinBounds(x)}

Data   == UNION {[K -> Value] : K \in SUBSET Keys}
Draft  == UNION {[K -> Result] : K \in SUBSET Keys}

Inv ==
    /\ databases \in Seq([name : Names, data : Data])
    /\ database \in DOMAIN databases

-----------------------------------------------------------------------------
LEMMA NumbersFacts ==
    /\ Numbers \subseteq Int /\ 0 \in Numbers /\ 1 \in Numbers
    /\ MaxLength \in Nat /\ MaxLength >= 1 /\ 1 \in 1..MaxLength
    /\ \A w \in Words : w.kind \in WordKinds /\ w.n \in Numbers
<1>1. Numbers \subseteq Int /\ 0 \in Numbers /\ 1 \in Numbers
  BY KeyspaceAssumption
<1>2. MaxLength \in Nat /\ MaxLength >= 1 /\ 1 \in 1..MaxLength
  BY KeyspaceAssumption
<1>3. ASSUME NEW w \in Words PROVE w.kind \in WordKinds /\ w.n \in Numbers
  BY KeyspaceAssumption
<1> QED
  BY <1>1, <1>2, <1>3

LEMMA ScalarsFit == Scalars \subseteq Unbounded
<1>1. 1..MaxLength \subseteq Nat \ {0} /\ Numbers \subseteq Int
  BY NumbersFacts
<1> QED
  BY <1>1 DEF Scalars, Unbounded

LEMMA ScalarBounded == \A x \in Scalars : WithinBounds(x) /\ x.type \notin {"list", "hashtable"}
  BY NumbersFacts DEF Scalars, WithinBounds

\* A result within bounds is a value.
LEMMA Bounded ==
    ASSUME NEW x \in Result, WithinBounds(x)
    PROVE  x \in Value
<1>1. CASE x \in Lists \/ x \in Tables
  BY <1>1 DEF Value
<1>2. CASE x \in [type : {"int", "double"}, v : Int]
  BY <1>2 DEF Value, Scalars, WithinBounds
<1>3. CASE x \in [type : {"str"}, v : Nat \ {0}]
  <2>1. x.type = "str" /\ x.v \in Nat \ {0} /\ x.v <= MaxLength
    BY <1>3 DEF WithinBounds
  <2>2. x.v \in 1..MaxLength
    BY <2>1, NumbersFacts
  <2> QED
    BY <1>3, <2>2 DEF Value, Scalars
<1>4. CASE x \in [type : {"bool"}, v : {0, 1}] \cup [type : {"null"}, v : {0}]
  BY <1>4 DEF Value, Scalars
<1> QED
  BY <1>1, <1>2, <1>3, <1>4 DEF Result, Unbounded

LEMMA ValueKinds ==
    ASSUME NEW x \in Value
    PROVE  /\ x \in Result
           /\ x.type = "list" => x \in Lists
           /\ x.type = "hashtable" => x \in Tables
           /\ x.type \notin {"list", "hashtable"} => x \in Scalars
  BY ScalarsFit DEF Value, Result, Lists, Tables, Scalars

\* How a word is typed.
LEMMA TypedScalars ==
    ASSUME NEW w \in Words, NEW f \in Framings
    PROVE  Typed(w, f) \subseteq Scalars /\ Typed(w, f) # {}
<1>1. ReadNumber(w, f) \subseteq Numbers /\ ReadNumber(w, f) # {}
  BY NumbersFacts DEF ReadNumber
<1>2. w.kind \in WordKinds
  BY NumbersFacts
<1>3. CASE w.kind \in {"int", "double"}
  <2>1. Typed(w, f) = {Scalar(w.kind, n) : n \in ReadNumber(w, f)}
    BY <1>3 DEF Typed
  <2>2. \A n \in ReadNumber(w, f) : Scalar(w.kind, n) \in Scalars
    BY <1>1, <1>3 DEF Scalar, Scalars
  <2> QED
    BY <1>1, <2>1, <2>2
<1>4. CASE w.kind \in {"true", "false"}
  <2>1. Typed(w, f) = {Scalar("bool", IF w.kind = "true" THEN 1 ELSE 0)}
    BY <1>4 DEF Typed
  <2> QED
    BY <2>1 DEF Scalar, Scalars
<1>5. CASE w.kind = "null"
  <2>1. Typed(w, f) = {Scalar("null", 0)}
    BY <1>5 DEF Typed
  <2> QED
    BY <2>1 DEF Scalar, Scalars
<1>6. CASE w.kind = "text"
  <2>1. Typed(w, f) = {Scalar("str", 1)}
    BY <1>6 DEF Typed
  <2> QED
    BY <2>1, NumbersFacts DEF Scalar, Scalars
<1> QED
  BY <1>2, <1>3, <1>4, <1>5, <1>6 DEF WordKinds

LEMMA SetValueScalar ==
    ASSUME NEW w \in Words, NEW type
    PROVE  SetValue(w, type) \in Scalars
<1>1. Typed(w, "inline") \subseteq Scalars /\ Typed(w, "inline") # {}
  BY TypedScalars DEF Framings
<1>2. (CHOOSE s \in Typed(w, "inline") : TRUE) \in Scalars
  BY <1>1
<1>3. Scalar("str", 1) \in Scalars /\ Scalar("null", 0) \in Scalars
  BY NumbersFacts DEF Scalar, Scalars
<1> QED
  BY <1>2, <1>3 DEF SetValue

-----------------------------------------------------------------------------
(***************************************************************************)
(* The changes that commands make.                                         *)
(***************************************************************************)
LEMMA DataIsDraft ==
    ASSUME NEW data \in Data
    PROVE  /\ data \in Draft /\ DOMAIN data \subseteq Keys
           /\ \A k \in DOMAIN data : data[k] \in Value
           /\ data = [k \in DOMAIN data |-> data[k]]
<1>1. PICK K \in SUBSET Keys : data \in [K -> Value]
  BY DEF Data
<1>2. data \in [K -> Result]
  BY <1>1, ValueKinds
<1> QED
  BY <1>1, <1>2 DEF Draft

LEMMA PutDraft ==
    ASSUME NEW data \in Draft, NEW k \in Keys, NEW v \in Result
    PROVE  Put(data, k, v) \in Draft
<1>1. PICK K \in SUBSET Keys : data \in [K -> Result]
  BY DEF Draft
<1>2. Put(data, k, v) \in [K \cup {k} -> Result]
  BY <1>1 DEF Put
<1> QED
  BY <1>2 DEF Draft

LEMMA DropDraft ==
    ASSUME NEW data \in Draft, NEW K
    PROVE  Drop(data, K) \in Draft
<1>1. PICK L \in SUBSET Keys : data \in [L -> Result]
  BY DEF Draft
<1>2. Drop(data, K) \in [L \ K -> Result]
  BY <1>1 DEF Drop
<1> QED
  BY <1>2 DEF Draft

\* What every command keeps: its outcome is a draft, and no error changes data.
Keeps(outcomes, data) ==
    \A o \in outcomes : o.data \in Draft /\ (o.reply = "error" => o.data = data)

LEMMA OutcomeKeeps ==
    ASSUME NEW data, NEW e \in Draft, NEW r, NEW client, r = "error" => e = data
    PROVE  Keeps({Outcome(e, r, client)}, data)
  BY DEF Keeps, Outcome

LEMMA FaultKeeps ==
    ASSUME NEW data \in Draft, NEW why
    PROVE  Keeps({Fault(data, why)}, data)
  BY DEF Keeps, Fault

LEMMA SetDataKeeps ==
    ASSUME NEW data \in Draft, NEW k \in Keys, NEW v \in Result, NEW client
    PROVE  Keeps({SetData(data, k, v, "ok", client)}, data)
<1>1. Put(data, k, v) \in Draft
  BY PutDraft
<1> QED
  BY <1>1, OutcomeKeeps, FaultKeeps DEF SetData

LEMMA DeleteDataKeeps ==
    ASSUME NEW data \in Draft, NEW K, NEW client
    PROVE  Keeps({DeleteData(data, K, "ok", client)}, data)
<1>1. Drop(data, K) \in Draft
  BY DropDraft
<1> QED
  BY <1>1, OutcomeKeeps, FaultKeeps DEF DeleteData

-----------------------------------------------------------------------------
(***************************************************************************)
(* Key-value commands.                                                     *)
(***************************************************************************)
LEMMA SETKeeps ==
    ASSUME NEW data \in Data, NEW k \in Keys, NEW w \in Words, NEW opt, NEW f, NEW client
    PROVE  Keeps(SET(data, k, w, opt, f, client), data)
<1> DEFINE type == ParseOptions(opt, w, f)
<1>1. data \in Draft
  BY DataIsDraft
<1>2. SetValue(w, type) \in Result
  BY SetValueScalar, ScalarsFit DEF Result
<1>3. Keeps({Outcome(data, "error", client)}, data)
  BY <1>1, OutcomeKeeps
<1>4. Keeps({SetData(data, k, SetValue(w, type), "ok", client)}, data)
  BY <1>1, <1>2, SetDataKeeps
<1>5. Keeps({Outcome(data, "error", client)} \cup {Fault(data, "unreachable")}, data)
  <2>1. Keeps({Fault(data, "unreachable")}, data)
    BY <1>1, FaultKeeps
  <2> QED
    BY <1>3, <2>1 DEF Keeps
<1> QED
  BY <1>3, <1>4, <1>5 DEF SET

LEMMA ReadsKeep ==
    ASSUME NEW data \in Data, NEW k, NEW client
    PROVE  /\ Keeps(GET(data, k, client), data)
           /\ Keeps(TYPE(data, k, client), data)
           /\ Keeps(EXISTS(data, k, client), data)
           /\ Keeps(LLEN(data, k, client), data)
  BY DataIsDraft, OutcomeKeeps DEF GET, TYPE, EXISTS, LLEN

LEMMA RENAMEKeeps ==
    ASSUME NEW data \in Data, NEW k \in Keys, NEW new \in Keys, NEW client
    PROVE  Keeps(RENAME(data, k, new, client), data)
<1> DEFINE rest == Drop(data, {k})
<1>1. data \in Draft /\ rest \in Draft
  BY DataIsDraft, DropDraft
<1>2. CASE ~Present(data, k)
  BY <1>1, <1>2, OutcomeKeeps DEF RENAME
<1>3. CASE Present(data, k) /\ Present(rest, new)
  BY <1>1, <1>3, OutcomeKeeps DEF RENAME
<1>4. CASE Present(data, k) /\ ~Present(rest, new)
  <2>1. data[k] \in Result
    BY <1>4, DataIsDraft, ValueKinds DEF Present
  <2>2. Put(rest, new, data[k]) \in Draft
    BY <1>1, <2>1, PutDraft
  <2>3. Keeps({Outcome(Put(rest, new, data[k]), "ok", client)}, data)
    BY <2>2, OutcomeKeeps
  <2> QED
    BY <1>4, <2>3 DEF RENAME
<1> QED
  BY <1>2, <1>3, <1>4

LEMMA APPENDKeeps ==
    ASSUME NEW data \in Data, NEW k \in Keys, NEW client
    PROVE  Keeps(APPEND(data, k, client), data)
<1>1. data \in Draft
  BY DataIsDraft
<1>2. CASE ~Present(data, k)
  <2>1. Scalar("str", 1) \in Result
    BY DEF Scalar, Result, Unbounded
  <2>2. Put(data, k, Scalar("str", 1)) \in Draft
    BY <1>1, <2>1, PutDraft
  <2> QED
    BY <1>2, <2>2, OutcomeKeeps DEF APPEND
<1>3. CASE Present(data, k) /\ data[k].type # "str"
  BY <1>1, <1>3, OutcomeKeeps DEF APPEND
<1>4. CASE Present(data, k) /\ data[k].type = "str"
  <2>1. PICK K \in SUBSET Keys : data \in [K -> Result]
    BY <1>1 DEF Draft
  <2>2. k \in K /\ data[k] \in [type : {"str"}, v : Nat \ {0}]
    BY <1>4, <2>1 DEF Present, Result, Unbounded, Lists, Tables
  <2>3. [data[k] EXCEPT !.v = @ + 1] \in [type : {"str"}, v : Nat \ {0}]
    BY <2>2
  <2>4. [data[k] EXCEPT !.v = @ + 1] \in Result
    BY <2>3 DEF Result, Unbounded
  <2>5. [data EXCEPT ![k].v = @ + 1] \in [K -> Result]
    BY <2>1, <2>2, <2>4
  <2>6. [data EXCEPT ![k].v = @ + 1] \in Draft
    BY <2>5 DEF Draft
  <2> QED
    BY <1>4, <2>6, OutcomeKeeps DEF APPEND
<1> QED
  BY <1>2, <1>3, <1>4

LEMMA BumpDraft ==
    ASSUME NEW data \in Draft, NEW k \in Keys, NEW by \in Int
    PROVE  Bump(data, k, by) \in Draft
<1>1. PICK K \in SUBSET Keys : data \in [K -> Result]
  BY DEF Draft
<1>2. CASE ~Present(data, k)
  <2>1. Scalar("int", 0) \in Result
    BY DEF Scalar, Result, Unbounded
  <2> QED
    BY <1>2, <2>1, PutDraft DEF Bump
<1>3. CASE Present(data, k) /\ IsNumber(data[k])
  <2>1. k \in K /\ data[k] \in [type : {"int", "double"}, v : Int]
    BY <1>1, <1>3 DEF Present, IsNumber, Result, Unbounded, Lists, Tables
  <2>2. [data[k] EXCEPT !.v = @ + by] \in [type : {"int", "double"}, v : Int]
    BY <2>1
  <2>3. [data[k] EXCEPT !.v = @ + by] \in Result
    BY <2>2 DEF Result, Unbounded
  <2>4. [data EXCEPT ![k].v = @ + by] \in [K -> Result]
    BY <1>1, <2>1, <2>3
  <2> QED
    BY <1>3, <2>4 DEF Bump, Draft
<1>4. CASE Present(data, k) /\ ~IsNumber(data[k])
  BY <1>4 DEF Bump
<1> QED
  BY <1>2, <1>3, <1>4

LEMMA BumpAllIs ==
    ASSUME NEW data, NEW ks \in KeySeqs, NEW by
    PROVE  \/ Len(ks) = 1 /\ BumpAll(data, ks, by) = Bump(data, ks[1], by)
           \/ Len(ks) = 2 /\ BumpAll(data, ks, by) = Bump(Bump(data, ks[1], by), ks[2], by)
<1> DEFINE n == Len(ks)
<1> DEFINE After(g) == [i \in 0..n |-> IF i = 0 THEN data ELSE Bump(g[i - 1], ks[i], by)]
<1> DEFINE after == CHOOSE g : g = After(g)
<1> DEFINE w == [i \in 0..n |-> IF i = 0 THEN data
                             ELSE IF i = 1 THEN Bump(data, ks[1], by)
                             ELSE Bump(Bump(data, ks[1], by), ks[2], by)]
<1>1. n \in {1, 2}
  BY DEF KeySeqs
<1>a. \A i \in 0..n : i \in {0, 1, 2}
  <2>1. \A m \in {1, 2} : \A i \in 0..m : i \in {0, 1, 2}
    OBVIOUS
  <2> QED
    BY ONLY <1>1, <2>1
<1>2. w = After(w)
  <2>1. ASSUME NEW i \in 0..n PROVE w[i] = IF i = 0 THEN data ELSE Bump(w[i - 1], ks[i], by)
    <3>1. i \in {0, 1, 2}
      BY ONLY <1>a, i \in 0..n
    <3>2. i = 2 => w[i - 1] = Bump(data, ks[1], by)
      BY <1>1
    <3>3. i = 1 => w[i - 1] = data
      BY <1>1
    <3> QED
      BY <3>1, <3>2, <3>3
  <2> QED
    BY <2>1
<1>3. after = After(after)
  <2> HIDE DEF After, w
  <2> QED
    BY <1>2
<1>4. BumpAll(data, ks, by) = after[n]
  BY DEF BumpAll
<1> HIDE DEF after
<1>5. after[0] = data
  BY <1>1, <1>3
<1>6. after[1] = Bump(after[1 - 1], ks[1], by)
  BY <1>1, <1>3
<1>7. n = 2 => after[2] = Bump(after[2 - 1], ks[2], by)
  BY <1>1, <1>3
<1>8. after[1] = Bump(data, ks[1], by)
  BY <1>5, <1>6
<1>9. n = 2 => after[2] = Bump(Bump(data, ks[1], by), ks[2], by)
  BY <1>7, <1>8
<1> QED
  BY <1>1, <1>4, <1>8, <1>9

LEMMA INCRKeeps ==
    ASSUME NEW data \in Data, NEW ks \in KeySeqs, NEW client
    PROVE  Keeps(INCR(data, ks, client), data) /\ Keeps(DECR(data, ks, client), data)
<1>1. data \in Draft
  BY DataIsDraft
<1>2. ks[1] \in Keys /\ (Len(ks) = 2 => ks[2] \in Keys)
  BY DEF KeySeqs
<1>3. ASSUME NEW by \in Int PROVE BumpAll(data, ks, by) \in Draft
  <2>1. Bump(data, ks[1], by) \in Draft
    BY <1>1, <1>2, BumpDraft
  <2>2. Len(ks) = 2 => Bump(Bump(data, ks[1], by), ks[2], by) \in Draft
    BY <1>2, <2>1, BumpDraft
  <2> QED
    BY <2>1, <2>2, BumpAllIs
<1>4. BumpAll(data, ks, 1) \in Draft /\ BumpAll(data, ks, -1) \in Draft
  BY <1>3
<1> QED
  BY <1>1, <1>4, OutcomeKeeps, FaultKeeps DEF INCR, DECR

LEMMA AddToKeeps ==
    ASSUME NEW data \in Data, NEW k \in Keys, Present(data, k), NEW w \in Words,
           NEW n \in Int, NEW client
    PROVE  Keeps({AddTo(data, k, w, n, client)}, data)
<1>1. data \in Draft
  BY DataIsDraft
<1>2. CASE ~IsNumber(data[k])
  BY <1>1, <1>2, OutcomeKeeps, FaultKeeps DEF AddTo
<1>3. CASE IsNumber(data[k])
  <2> DEFINE type == IF w.kind = "double" THEN "double" ELSE data[k].type
  <2>1. data[k] \in [type : {"int", "double"}, v : Int]
    <3>1. data[k] \in Result
      BY DataIsDraft, ValueKinds DEF Present
    <3> QED
      BY <1>3, <3>1 DEF IsNumber, Result, Unbounded, Lists, Tables
  <2>2. Scalar(type, data[k].v + n) \in [type : {"int", "double"}, v : Int]
    BY <2>1 DEF Scalar
  <2>3. Put(data, k, Scalar(type, data[k].v + n)) \in Draft
    BY <1>1, <2>2, PutDraft DEF Result, Unbounded
  <2> QED
    BY <1>3, <2>3, OutcomeKeeps DEF AddTo
<1> QED
  BY <1>2, <1>3

LEMMA INCRBYKeeps ==
    ASSUME NEW data \in Data, NEW k \in Keys, NEW w \in Words, NEW f, NEW client
    PROVE  Keeps(INCRBY(data, k, w, f, client), data) /\ Keeps(DECRBY(data, k, w, f, client), data)
<1>1. data \in Draft /\ ReadNumber(w, f) \subseteq Int
  BY DataIsDraft, NumbersFacts DEF ReadNumber
<1>2. CASE w.kind \notin {"int", "double"}
  BY <1>1, <1>2, OutcomeKeeps DEF INCRBY, DECRBY
<1>3. CASE w.kind \in {"int", "double"} /\ Present(data, k)
  <2>1. \A n \in ReadNumber(w, f) : Keeps({AddTo(data, k, w, n, client)}, data)
    BY <1>1, <1>3, AddToKeeps
  <2>2. \A n \in ReadNumber(w, f) : Keeps({AddTo(data, k, w, -n, client)}, data)
    <3>1. \A n \in ReadNumber(w, f) : -n \in Int
      BY <1>1
    <3> QED
      BY <1>3, <3>1, AddToKeeps
  <2>3. INCRBY(data, k, w, f, client) = {AddTo(data, k, w, n, client) : n \in ReadNumber(w, f)}
        /\ DECRBY(data, k, w, f, client) = {AddTo(data, k, w, -n, client) : n \in ReadNumber(w, f)}
    BY <1>3 DEF INCRBY, DECRBY
  <2> QED
    BY <2>1, <2>2, <2>3 DEF Keeps
<1>4. CASE w.kind \in {"int", "double"} /\ ~Present(data, k)
  <2>1. \A n \in ReadNumber(w, f) :
            /\ Scalar("int", n) \in [type : {"int", "double"}, v : Int]
            /\ Scalar(w.kind, -n) \in [type : {"int", "double"}, v : Int]
    BY <1>1, <1>4 DEF Scalar
  <2>2. \A n \in ReadNumber(w, f) : Scalar("int", n) \in Result /\ Scalar(w.kind, -n) \in Result
    BY <2>1 DEF Result, Unbounded
  <2>3. \A n \in ReadNumber(w, f) :
            /\ Put(data, k, Scalar("int", n)) \in Draft
            /\ Put(data, k, Scalar(w.kind, -n)) \in Draft
    BY <1>1, <2>2, PutDraft
  <2>4. \A n \in ReadNumber(w, f) :
            /\ Keeps({Outcome(Put(data, k, Scalar("int", n)), "ok", client)}, data)
            /\ Keeps({Outcome(Put(data, k, Scalar(w.kind, -n)), "ok", client)}, data)
    BY <2>3, OutcomeKeeps
  <2>5. Keeps(DECRBY(data, k, w, f, client), data)
    <3>1. DECRBY(data, k, w, f, client) =
              {Outcome(Put(data, k, Scalar(w.kind, -n)), "ok", client) : n \in ReadNumber(w, f)}
      BY <1>4 DEF DECRBY
    <3> QED
      BY <2>4, <3>1 DEF Keeps
  <2>6. CASE w.kind = "double"
    BY <1>1, <1>4, <2>5, <2>6, OutcomeKeeps DEF INCRBY
  <2>7. CASE w.kind # "double"
    <3>1. INCRBY(data, k, w, f, client) =
              {Outcome(Put(data, k, Scalar("int", n)), "ok", client) : n \in ReadNumber(w, f)}
      BY <1>4, <2>7 DEF INCRBY
    <3> QED
      BY <2>4, <2>5, <3>1 DEF Keeps
  <2> QED
    BY <2>6, <2>7
<1> QED
  BY <1>2, <1>3, <1>4

-----------------------------------------------------------------------------
(***************************************************************************)
(* List commands.                                                          *)
(***************************************************************************)

\* A list is stored if its elements are scalars and there is one.
LEMMA ListDraft ==
    ASSUME NEW data \in Draft, NEW k \in Keys, NEW s \in Seq(Scalars), s # << >>,
           NEW h \in Links, NEW l \in Links
    PROVE  Put(data, k, List(s, h, l)) \in Draft
<1>1. List(s, h, l) \in Lists
  BY DEF List, Lists
<1> QED
  BY <1>1, PutDraft DEF Result

\* What a list command finds.
LEMMA StoredList ==
    ASSUME NEW data \in Data, NEW k, Present(data, k), data[k].type = "list"
    PROVE  /\ data[k].items \in Seq(Scalars) /\ data[k].items # << >>
           /\ data[k].head \in Links /\ data[k].tail \in Links
<1>1. data[k] \in Lists
  BY DataIsDraft, ValueKinds DEF Present
<1> QED
  BY <1>1 DEF Lists

LEMMA ListToPush ==
    ASSUME NEW data \in Data, NEW k, ~(Present(data, k) /\ data[k].type # "list")
    PROVE  /\ ListAt(data, k).items \in Seq(Scalars)
           /\ ListAt(data, k).head \in Links /\ ListAt(data, k).tail \in Links
<1>1. CASE Present(data, k)
  BY <1>1, StoredList DEF ListAt
<1>2. CASE ~Present(data, k)
  <2>1. ListAt(data, k) = List(<< >>, "NULL", "NULL")
    BY <1>2 DEF ListAt
  <2>2. << >> \in Seq(Scalars)
    OBVIOUS
  <2> QED
    BY <2>1, <2>2 DEF List, Links
<1> QED
  BY <1>1, <1>2

LEMMA ReadingsAre ==
    ASSUME NEW ws \in WordSeqs, NEW f, NEW ss \in Readings(ws, f)
    PROVE  /\ ss \in Seq(Scalars) /\ ss # << >>
           /\ Reverse(ss) \in Seq(Scalars) /\ Reverse(ss) # << >>
<1>1. DOMAIN ws \in {1..1, 1..2}
  BY DEF WordSeqs
<1>2. ss \in [DOMAIN ws -> Scalars]
  BY DEF Readings
<1>3. PICK m \in {1, 2} : DOMAIN ws = 1..m
  BY <1>1
<1>4. ss \in Seq(Scalars) /\ Len(ss) = m
  BY <1>2, <1>3
<1>5. Reverse(ss) \in Seq(Scalars) /\ Len(Reverse(ss)) = m
  BY <1>4 DEF Reverse
<1> QED
  BY <1>4, <1>5

LEMMA JoinLists ==
    ASSUME NEW S, NEW s \in Seq(S), NEW r \in Seq(S), s # << >>
    PROVE  /\ s \o r \in Seq(S) /\ s \o r # << >>
           /\ r \o s \in Seq(S) /\ r \o s # << >>
<1>1. Len(s) > 0 /\ Len(s) \in Nat /\ Len(r) \in Nat
  OBVIOUS
<1>2. s \o r \in Seq(S) /\ Len(s \o r) = Len(s) + Len(r)
  OBVIOUS
<1>3. r \o s \in Seq(S) /\ Len(r \o s) = Len(r) + Len(s)
  OBVIOUS
<1> QED
  BY <1>1, <1>2, <1>3

LEMMA PUSHKeep ==
    ASSUME NEW data \in Data, NEW k \in Keys, NEW ws \in WordSeqs, NEW f, NEW client
    PROVE  Keeps(LPUSH(data, k, ws, f, client), data) /\ Keeps(RPUSH(data, k, ws, f, client), data)
<1>1. data \in Draft
  BY DataIsDraft
<1>2. CASE Present(data, k) /\ data[k].type # "list"
  BY <1>1, <1>2, OutcomeKeeps DEF LPUSH, RPUSH
<1>3. CASE ~(Present(data, k) /\ data[k].type # "list")
  <2> DEFINE old == ListAt(data, k)
             Left(ss) == Put(data, k, List(Reverse(ss) \o old.items, "NULL", old.tail))
             Right(ss) == Put(data, k, List(old.items \o ss, old.head, "NULL"))
  <2>1. old.items \in Seq(Scalars) /\ old.head \in Links /\ old.tail \in Links /\ "NULL" \in Links
    BY <1>3, ListToPush DEF Links
  <2>2. ASSUME NEW ss \in Readings(ws, f) PROVE Left(ss) \in Draft /\ Right(ss) \in Draft
    <3> HIDE DEF old
    <3>1. /\ ss \in Seq(Scalars) /\ ss # << >>
          /\ Reverse(ss) \in Seq(Scalars) /\ Reverse(ss) # << >>
      BY <2>2, ReadingsAre
    <3>2. /\ Reverse(ss) \o old.items \in Seq(Scalars) /\ Reverse(ss) \o old.items # << >>
          /\ old.items \o ss \in Seq(Scalars) /\ old.items \o ss # << >>
      BY <2>1, <3>1, JoinLists
    <3> QED
      BY <1>1, <2>1, <3>2, ListDraft
  <2>3. LPUSH(data, k, ws, f, client) = {Outcome(Left(ss), "ok", client) : ss \in Readings(ws, f)}
        /\ RPUSH(data, k, ws, f, client) = {Outcome(Right(ss), "ok", client) : ss \in Readings(ws, f)}
    BY <1>3 DEF LPUSH, RPUSH
  <2> HIDE DEF Left, Right
  <2>4. \A ss \in Readings(ws, f) : /\ Keeps({Outcome(Left(ss), "ok", client)}, data)
                                    /\ Keeps({Outcome(Right(ss), "ok", client)}, data)
    BY <2>2, OutcomeKeeps
  <2> QED
    BY <2>3, <2>4 DEF Keeps
<1> QED
  BY <1>2, <1>3

LEMMA ShorterLists ==
    ASSUME NEW S, NEW s \in Seq(S), s # << >>, Len(s) # 1
    PROVE  /\ Tail(s) \in Seq(S) /\ Tail(s) # << >>
           /\ Front(s) \in Seq(S) /\ Front(s) # << >>
<1>1. PICK n : n = Len(s) - 1
  OBVIOUS
<1>2. n \in Nat /\ n # 0 /\ Len(s) = n + 1
  <2>1. PICK m : m = Len(s)
    OBVIOUS
  <2>2. m \in Nat /\ m # 0
    BY <2>1
  <2>3. m # 1
    BY <2>1
  <2>4. n = m - 1
    BY <1>1, <2>1
  <2>5. n \in Nat /\ n # 0 /\ m = n + 1
    BY ONLY <2>2, <2>3, <2>4
  <2> QED
    BY <2>1, <2>5
<1>3. Tail(s) \in Seq(S) /\ Len(Tail(s)) = n
  BY <1>2
<1>4. Front(s) \in Seq(S) /\ Len(Front(s)) = n
  <2>1. \A i \in 1..n : s[i] \in S
    BY <1>2
  <2>2. 1 \in Int /\ n \in Int /\ n - 1 + 1 = n /\ 1 <= n
    BY <1>2
  <2>3. SubSeq(s, 1, n) \in Seq(S) /\ Len(SubSeq(s, 1, n)) = n
    BY ONLY <2>1, <2>2, SubSeqProperties
  <2> QED
    BY <1>1, <2>3 DEF Front
<1>5. ASSUME NEW r \in Seq(S), Len(r) = n PROVE r # << >>
  BY <1>2, <1>5
<1> QED
  BY <1>3, <1>4, <1>5

LEMMA POPKeep ==
    ASSUME NEW data \in Data, NEW k \in Keys, NEW client
    PROVE  Keeps(LPOP(data, k, client), data) /\ Keeps(RPOP(data, k, client), data)
<1>1. data \in Draft
  BY DataIsDraft
<1>2. CASE ~Present(data, k) \/ data[k].type # "list"
  BY <1>1, <1>2, OutcomeKeeps DEF LPOP, RPOP
<1>3. CASE Present(data, k) /\ data[k].type = "list" /\ Len(data[k].items) = 1
  BY <1>1, <1>3, DeleteDataKeeps DEF LPOP, RPOP
<1>4. CASE Present(data, k) /\ data[k].type = "list" /\ Len(data[k].items) # 1
  <2>1. PICK s, h, l : s = data[k].items /\ h = data[k].head /\ l = data[k].tail
    OBVIOUS
  <2>2. s \in Seq(Scalars) /\ s # << >> /\ h \in Links /\ l \in Links /\ "freed" \in Links
    BY <1>4, <2>1, StoredList DEF Links
  <2>3. Tail(s) \in Seq(Scalars) /\ Tail(s) # << >> /\ Front(s) \in Seq(Scalars) /\ Front(s) # << >>
    BY <1>4, <2>1, <2>2, ShorterLists
  <2>4. Put(data, k, List(Tail(s), "freed", l)) \in Draft /\ Put(data, k, List(Front(s), h, "freed")) \in Draft
    BY <1>1, <2>2, <2>3, ListDraft
  <2>5. /\ LPOP(data, k, client) = {Outcome(Put(data, k, List(Tail(s), "freed", l)), "ok", client)}
        /\ RPOP(data, k, client) = {Outcome(Put(data, k, List(Front(s), h, "freed")), "ok", client)}
    BY <1>4, <2>1 DEF LPOP, RPOP
  <2> QED
    BY <2>4, <2>5, OutcomeKeeps
<1> QED
  BY <1>2, <1>3, <1>4

LEMMA IndexKeeps ==
    ASSUME NEW data \in Data, NEW k, NEW i, NEW j, NEW client
    PROVE  /\ Keeps(LINDEX(data, k, i, client), data)
           /\ Keeps(LTYPE(data, k, i, client), data)
           /\ Keeps(LRANGE(data, k, i, j, client), data)
<1>1. data \in Draft
  BY DataIsDraft
<1>2. Keeps(ElementAt(data, k, i, client), data)
  BY <1>1, OutcomeKeeps, FaultKeeps DEF ElementAt
<1>3. Keeps(LRANGE(data, k, i, j, client), data)
  BY <1>1, OutcomeKeeps, FaultKeeps DEF LRANGE
<1> QED
  BY <1>2, <1>3 DEF LINDEX, LTYPE

-----------------------------------------------------------------------------
(***************************************************************************)
(* Hash table commands.                                                    *)
(***************************************************************************)
LEMMA NoFields == << >> \in [{} -> Scalars] /\ << >> \in FieldMap
<1>1. DOMAIN << >> = {}
  OBVIOUS
<1>2. << >> = [x \in {} |-> 0]
  BY <1>1
<1>3. << >> \in [{} -> Scalars]
  BY <1>2
<1> QED
  BY <1>3 DEF FieldMap

LEMMA TableDraft ==
    ASSUME NEW data \in Draft, NEW k \in Keys, NEW m \in FieldMap, m # << >>
    PROVE  Put(data, k, Table(m)) \in Draft
<1>1. Table(m) \in Tables
  BY DEF Table, Tables
<1> QED
  BY <1>1, PutDraft DEF Result

LEMMA StoredFields ==
    ASSUME NEW data \in Data, NEW k, ~(Present(data, k) /\ data[k].type # "hashtable")
    PROVE  FieldsAt(data, k) \in FieldMap
<1>1. CASE Present(data, k)
  <2>1. data[k] \in Tables
    BY <1>1, DataIsDraft, ValueKinds DEF Present
  <2> QED
    BY <1>1, <2>1 DEF FieldsAt, Tables
<1>2. CASE ~Present(data, k)
  BY <1>2, NoFields DEF FieldsAt
<1> QED
  BY <1>1, <1>2

LEMMA PutField ==
    ASSUME NEW m \in FieldMap, NEW x \in Fields, NEW s \in Scalars
    PROVE  Put(m, x, s) \in FieldMap /\ Put(m, x, s) # << >>
<1>1. PICK F \in SUBSET Fields : m \in [F -> Scalars]
  BY DEF FieldMap
<1>2. Put(m, x, s) \in [F \cup {x} -> Scalars]
  BY <1>1 DEF Put
<1>3. x \in DOMAIN Put(m, x, s)
  BY <1>2
<1>4. DOMAIN << >> = {}
  OBVIOUS
<1>5. Put(m, x, s) # << >>
  BY ONLY <1>3, <1>4
<1>6. F \cup {x} \in SUBSET Fields
  BY <1>1
<1> QED
  BY <1>2, <1>5, <1>6 DEF FieldMap

LEMMA HSETKeeps ==
    ASSUME NEW data \in Data, NEW k \in Keys, NEW x \in Fields, NEW w \in Words, NEW f \in Framings,
           NEW client
    PROVE  Keeps(HSET(data, k, x, w, f, client), data)
<1>1. data \in Draft
  BY DataIsDraft
<1>2. CASE Present(data, k) /\ data[k].type # "hashtable"
  BY <1>1, <1>2, OutcomeKeeps DEF HSET
<1>3. CASE ~(Present(data, k) /\ data[k].type # "hashtable") /\ x \in DOMAIN FieldsAt(data, k)
  BY <1>1, <1>3, OutcomeKeeps DEF HSET
<1>4. CASE ~(Present(data, k) /\ data[k].type # "hashtable") /\ x \notin DOMAIN FieldsAt(data, k)
  <2>1. HashTyped(w, f) \subseteq Scalars
    <3>1. Scalar("str", 1) \in Scalars
      BY NumbersFacts DEF Scalar, Scalars
    <3> QED
      BY <3>1, TypedScalars DEF HashTyped
  <2>2. PICK m : m = FieldsAt(data, k)
    OBVIOUS
  <2>3. m \in FieldMap
    BY <1>4, <2>2, StoredFields
  <2>4. \A s \in HashTyped(w, f) : Put(m, x, s) \in FieldMap /\ Put(m, x, s) # << >>
    BY <2>1, <2>3, PutField
  <2>5. \A s \in HashTyped(w, f) : Put(data, k, Table(Put(m, x, s))) \in Draft
    BY <1>1, <2>4, TableDraft
  <2>6. \A s \in HashTyped(w, f) :
            Keeps({Outcome(Put(data, k, Table(Put(m, x, s))), "ok", client)}, data)
    BY <2>5, OutcomeKeeps
  <2>7. HSET(data, k, x, w, f, client) =
            {Outcome(Put(data, k, Table(Put(m, x, s))), "ok", client) : s \in HashTyped(w, f)}
    BY <1>4, <2>2 DEF HSET
  <2> QED
    BY <2>6, <2>7 DEF Keeps
<1> QED
  BY <1>2, <1>3, <1>4

LEMMA HDELKeeps ==
    ASSUME NEW data \in Data, NEW k \in Keys, NEW X, NEW mayRead, NEW client
    PROVE  Keeps(HDEL(data, k, X, mayRead, client), data)
<1>1. data \in Draft
  BY DataIsDraft
<1>2. CASE ~Present(data, k)
  BY <1>1, <1>2, OutcomeKeeps DEF HDEL
<1>3. CASE Present(data, k) /\ (data[k].type # "hashtable" \/ ~mayRead)
  BY <1>1, <1>3, OutcomeKeeps DEF HDEL
<1>4. CASE Present(data, k) /\ ~(data[k].type # "hashtable" \/ ~mayRead)
  <2>1. PICK m : m = Drop(data[k].fields, X)
    OBVIOUS
  <2>2. m \in FieldMap
    <3>1. data[k] \in Tables
      BY <1>4, DataIsDraft, ValueKinds DEF Present
    <3>2. PICK F \in SUBSET Fields : data[k].fields \in [F -> Scalars]
      BY <3>1 DEF Tables, FieldMap
    <3>3. Drop(data[k].fields, X) \in [F \ X -> Scalars]
      BY <3>2 DEF Drop
    <3> QED
      BY <2>1, <3>3 DEF FieldMap
  <2>3. CASE m = << >>
    <3>1. HDEL(data, k, X, mayRead, client) = {DeleteData(data, {k}, "ok", client)}
      BY <1>4, <2>1, <2>3 DEF HDEL
    <3> QED
      BY <1>1, <3>1, DeleteDataKeeps
  <2>4. CASE m # << >>
    <3>1. HDEL(data, k, X, mayRead, client) = {Outcome(Put(data, k, Table(m)), "ok", client)}
      BY <1>4, <2>1, <2>4 DEF HDEL
    <3>2. Put(data, k, Table(m)) \in Draft
      BY <1>1, <2>2, <2>4, TableDraft
    <3> QED
      BY <3>1, <3>2, OutcomeKeeps
  <2> QED
    BY <2>3, <2>4
<1> QED
  BY <1>2, <1>3, <1>4

LEMMA TableReadsKeep ==
    ASSUME NEW data \in Data, NEW k, NEW x, NEW client
    PROVE  /\ Keeps(HGET(data, k, x, client), data) /\ Keeps(HTYPE(data, k, x, client), data)
           /\ Keeps(HLEN(data, k, client), data) /\ Keeps(HKEYS(data, k, client), data)
           /\ Keeps(HVALS(data, k, client), data) /\ Keeps(HGETALL(data, k, client), data)
<1>1. data \in Draft
  BY DataIsDraft
<1>2. \A absent : Keeps(ReadTable(data, k, absent, client), data)
  BY <1>1, OutcomeKeeps DEF ReadTable
<1>3. Keeps(ReadField(data, k, x, client), data)
  BY <1>1, <1>2, OutcomeKeeps DEF ReadField
<1> QED
  BY <1>2, <1>3 DEF HGET, HTYPE, HLEN, HKEYS, HVALS, HGETALL

-----------------------------------------------------------------------------
(***************************************************************************)
(* Execution.                                                              *)
(***************************************************************************)
DatabaseSet == [name : Names, data : Data]

LEMMA DataAt ==
    ASSUME Inv, NEW d \in DOMAIN databases
    PROVE  databases[d].data \in Data
<1>1. databases \in Seq(DatabaseSet)
  BY DEF Inv, DatabaseSet
<1>2. databases[d] \in DatabaseSet
  BY <1>1
<1> QED
  BY <1>2 DEF DatabaseSet

LEMMA DraftBounded ==
    ASSUME NEW e \in Draft, \A k \in DOMAIN e : WithinBounds(e[k])
    PROVE  e \in Data
<1>1. PICK K \in SUBSET Keys : e \in [K -> Result]
  BY DEF Draft
<1>2. \A k \in K : e[k] \in Value
  BY <1>1, Bounded
<1>3. e \in [K -> Value]
  BY <1>1, <1>2
<1> QED
  BY <1>3 DEF Data

LEMMA FinishKeeps ==
    ASSUME Inv, NEW d \in DOMAIN databases, NEW outcomes,
           Keeps(outcomes, databases[d].data), Finish(d, outcomes)
    PROVE  Inv' /\ (reply' = "error" => databases' = databases)
<1>1. databases \in Seq(DatabaseSet) /\ database \in DOMAIN databases
  BY DEF Inv, DatabaseSet
<1>2. PICK o \in outcomes :
          /\ \A k \in DOMAIN o.data : WithinBounds(o.data[k])
          /\ databases' = [databases EXCEPT ![d].data = o.data]
          /\ reply' = o.reply
          /\ UNCHANGED database
  BY DEF Finish
<1>3. PICK e : e = o.data
  OBVIOUS
<1>4. e \in Draft /\ (o.reply = "error" => e = databases[d].data)
  BY <1>3 DEF Keeps
<1>5. e \in Data
  BY <1>2, <1>3, <1>4, DraftBounded
<1>6. databases[d] \in DatabaseSet
  BY <1>1
<1>7. PICK b : b = [databases[d] EXCEPT !.data = e]
  OBVIOUS
<1>8. b \in DatabaseSet
  BY <1>5, <1>6, <1>7 DEF DatabaseSet
<1>9. databases' = [databases EXCEPT ![d] = b]
  BY <1>2, <1>3, <1>7
<1>10. databases' \in Seq(DatabaseSet) /\ DOMAIN databases' = DOMAIN databases
  BY <1>1, <1>8, <1>9
<1>11. Inv'
  BY <1>1, <1>2, <1>10 DEF Inv, DatabaseSet
<1>12. ASSUME reply' = "error" PROVE databases' = databases
  <2>1. e = databases[d].data
    BY <1>2, <1>4, <1>12
  <2>2. b = databases[d]
    BY <1>6, <1>7, <2>1 DEF DatabaseSet
  <2> QED
    BY <1>1, <1>9, <2>2
<1> QED
  BY <1>11, <1>12

LEMMA KvKeeps ==
    ASSUME Inv, NEW d \in DOMAIN databases, NEW client \in BOOLEAN,
           KvCommand(databases[d].data, d, client)
    PROVE  Inv' /\ (reply' = "error" => databases' = databases)
<1>1. PICK data : data = databases[d].data
  OBVIOUS
<1>2. data \in Data
  BY <1>1, DataAt
<1> DEFINE Fine(outcomes) == Keeps(outcomes, databases[d].data) /\ Finish(d, outcomes)
<1>3. \E outcomes : Fine(outcomes)
  <2>1. CASE \E k \in Keys, w \in Words, f \in Framings, opt \in SetOptions :
                Finish(d, SET(data, k, w, opt, f, client))
    BY <1>1, <1>2, <2>1, SETKeeps
  <2>2. CASE \E k \in Keys, w \in Words, f \in Framings :
                \/ Finish(d, INCRBY(data, k, w, f, client))
                \/ Finish(d, DECRBY(data, k, w, f, client))
    BY <1>1, <1>2, <2>2, INCRBYKeeps
  <2>3. CASE \E k \in Keys : \/ Finish(d, GET(data, k, client))
                            \/ Finish(d, TYPE(data, k, client))
                            \/ Finish(d, EXISTS(data, k, client))
    BY <1>1, <1>2, <2>3, ReadsKeep
  <2>4. CASE \E k \in Keys : Finish(d, APPEND(data, k, client))
    BY <1>1, <1>2, <2>4, APPENDKeeps
  <2>5. CASE \E k, new \in Keys : Finish(d, RENAME(data, k, new, client))
    BY <1>1, <1>2, <2>5, RENAMEKeeps
  <2>6. CASE \E K \in (SUBSET Keys) \ {{}} : Finish(d, DEL(data, K, client))
    BY <1>1, <1>2, <2>6, DataIsDraft, DeleteDataKeeps DEF DEL
  <2>7. CASE \E ks \in KeySeqs : Finish(d, INCR(data, ks, client)) \/ Finish(d, DECR(data, ks, client))
    BY <1>1, <1>2, <2>7, INCRKeeps
  <2> QED
    BY <1>1, <2>1, <2>2, <2>3, <2>4, <2>5, <2>6, <2>7 DEF KvCommand
<1>4. PICK outcomes : Keeps(outcomes, databases[d].data) /\ Finish(d, outcomes)
  BY <1>3
<1> QED
  BY <1>4, FinishKeeps

LEMMA ListKeeps ==
    ASSUME Inv, NEW d \in DOMAIN databases, NEW client \in BOOLEAN,
           ListCommand(databases[d].data, d, client)
    PROVE  Inv' /\ (reply' = "error" => databases' = databases)
<1>1. PICK data : data = databases[d].data
  OBVIOUS
<1>2. data \in Data
  BY <1>1, DataAt
<1> DEFINE Fine(outcomes) == Keeps(outcomes, databases[d].data) /\ Finish(d, outcomes)
<1>3. PICK k \in Keys :
        \/ \E ws \in WordSeqs, f \in Framings :
              \/ Finish(d, LPUSH(data, k, ws, f, client))
              \/ Finish(d, RPUSH(data, k, ws, f, client))
        \/ Finish(d, LPOP(data, k, client))
        \/ Finish(d, RPOP(data, k, client))
        \/ Finish(d, LLEN(data, k, client))
        \/ \E i \in Indexes :
              \/ Finish(d, LINDEX(data, k, i, client))
              \/ Finish(d, LTYPE(data, k, i, client))
              \/ \E j \in Indexes : Finish(d, LRANGE(data, k, i, j, client))
  BY <1>1 DEF ListCommand
<1>4. \E outcomes : Fine(outcomes)
  BY <1>1, <1>2, <1>3, PUSHKeep, POPKeep, ReadsKeep, IndexKeeps
<1>5. PICK outcomes : Keeps(outcomes, databases[d].data) /\ Finish(d, outcomes)
  BY <1>4
<1> QED
  BY <1>5, FinishKeeps

LEMMA HashKeeps ==
    ASSUME Inv, NEW d \in DOMAIN databases, NEW client \in BOOLEAN,
           HashCommand(databases[d].data, d, client)
    PROVE  Inv' /\ (reply' = "error" => databases' = databases)
<1>1. PICK data : data = databases[d].data
  OBVIOUS
<1>2. data \in Data
  BY <1>1, DataAt
<1> DEFINE Fine(outcomes) == Keeps(outcomes, databases[d].data) /\ Finish(d, outcomes)
<1>3. PICK k \in Keys :
        \/ \E x \in Fields :
              \/ \E w \in Words, f \in Framings : Finish(d, HSET(data, k, x, w, f, client))
              \/ Finish(d, HGET(data, k, x, client))
              \/ Finish(d, HTYPE(data, k, x, client))
        \/ \E X \in (SUBSET Fields) \ {{}}, mayRead \in BOOLEAN :
              Finish(d, HDEL(data, k, X, mayRead, client))
        \/ Finish(d, HLEN(data, k, client))
        \/ Finish(d, HKEYS(data, k, client))
        \/ Finish(d, HVALS(data, k, client))
        \/ Finish(d, HGETALL(data, k, client))
  BY <1>1 DEF HashCommand
<1>4. \E outcomes : Fine(outcomes)
  BY <1>1, <1>2, <1>3, HSETKeeps, HDELKeeps, TableReadsKeep
<1>5. PICK outcomes : Keeps(outcomes, databases[d].data) /\ Finish(d, outcomes)
  BY <1>4
<1> QED
  BY <1>5, FinishKeeps

LEMMA NoData == << >> \in Data
<1>1. DOMAIN << >> = {}
  OBVIOUS
<1>2. << >> = [x \in {} |-> 0]
  BY <1>1
<1>3. << >> \in [{} -> Value]
  BY <1>2
<1> QED
  BY <1>3 DEF Data

LEMMA SELECTKeeps ==
    ASSUME Inv, NEW name \in Names, SELECT(name)
    PROVE  Inv' /\ (reply' = "error" => databases' = databases)
<1>1. databases \in Seq(DatabaseSet) /\ database \in DOMAIN databases
  BY DEF Inv, DatabaseSet
<1>2. Len(databases) \in Nat /\ Len(databases) >= 1 /\ DOMAIN databases = 1..Len(databases)
  BY <1>1
<1>3. reply' = "ok"
  BY DEF SELECT
<1>4. CASE GetDatabase(name) # 0
  <2>1. database' = Len(databases) /\ databases' = databases
    BY <1>4 DEF SELECT, GetDatabase
  <2> QED
    BY <1>1, <1>2, <1>3, <2>1 DEF Inv, DatabaseSet
<1>5. CASE GetDatabase(name) = 0
  <2>1. PICK b : b = [name |-> name, data |-> << >>]
    OBVIOUS
  <2>2. b \in DatabaseSet
    BY <2>1, NoData DEF DatabaseSet
  <2>3. databases' = Append(databases, b) /\ database' = Len(databases')
    BY <1>5, <2>1 DEF SELECT
  <2>4. databases' \in Seq(DatabaseSet) /\ Len(databases') = Len(databases) + 1
    BY <1>1, <2>2, <2>3
  <2>5. database' \in DOMAIN databases'
    BY <1>2, <2>3, <2>4
  <2> QED
    BY <1>3, <2>4, <2>5 DEF Inv, DatabaseSet
<1> QED
  BY <1>4, <1>5

LEMMA FLUSHALLKeeps ==
    ASSUME Inv, NEW client \in BOOLEAN, FLUSHALL(client)
    PROVE  Inv' /\ (reply' = "error" => databases' = databases)
<1>1. databases \in Seq(DatabaseSet) /\ database \in DOMAIN databases
  BY DEF Inv, DatabaseSet
<1>2. reply' # "error" /\ database' = database
  BY DEF FLUSHALL
<1>3. CASE databases' = databases
  BY <1>1, <1>2, <1>3 DEF Inv, DatabaseSet
<1>4. CASE databases' = [d \in DOMAIN databases |-> [databases[d] EXCEPT !.data = << >>]]
  <2>1. \A d \in DOMAIN databases : [databases[d] EXCEPT !.data = << >>] \in DatabaseSet
    <3>1. ASSUME NEW b \in DatabaseSet PROVE [b EXCEPT !.data = << >>] \in DatabaseSet
      BY NoData DEF DatabaseSet
    <3>2. \A d \in DOMAIN databases : databases[d] \in DatabaseSet
      BY <1>1
    <3> QED
      BY <3>1, <3>2
  <2>2. PICK n : n = Len(databases)
    OBVIOUS
  <2>3. n \in Nat /\ DOMAIN databases = 1..n
    BY <1>1, <2>2
  <2>4. databases' \in [1..n -> DatabaseSet]
    BY <1>4, <2>1, <2>3
  <2>5. databases' \in Seq(DatabaseSet) /\ DOMAIN databases' = 1..n
    BY <2>3, <2>4
  <2> QED
    BY <1>1, <1>2, <2>3, <2>5 DEF Inv, DatabaseSet
<1> QED
  BY <1>3, <1>4 DEF FLUSHALL

LEMMA NextKeeps ==
    ASSUME Inv, [Next]_vars
    PROVE  Inv' /\ (reply' = "error" => (databases' = databases \/ UNCHANGED vars))
<1>1. CASE \E d \in DOMAIN databases, client \in BOOLEAN :
             \/ KvCommand(databases[d].data, d, client)
             \/ ListCommand(databases[d].data, d, client)
             \/ HashCommand(databases[d].data, d, client)
  BY <1>1, KvKeeps, ListKeeps, HashKeeps
<1>2. CASE \E d \in DOMAIN databases, client \in BOOLEAN : Finish(d, FLUSHDB(databases[d].data, client))
  <2>1. PICK d \in DOMAIN databases, client \in BOOLEAN : Finish(d, FLUSHDB(databases[d].data, client))
    BY <1>2
  <2>2. databases[d].data \in Draft
    BY DataAt, DataIsDraft
  <2>3. Keeps(FLUSHDB(databases[d].data, client), databases[d].data)
    BY <2>2, DeleteDataKeeps DEF FLUSHDB
  <2>4. PICK outcomes : outcomes = FLUSHDB(databases[d].data, client)
    OBVIOUS
  <2>5. Keeps(outcomes, databases[d].data) /\ Finish(d, outcomes)
    BY <2>1, <2>3, <2>4
  <2> QED
    BY <2>5, FinishKeeps
<1>3. CASE \E name \in Names : SELECT(name) \/ DBSIZE(name)
  <2>1. ASSUME NEW name \in Names, DBSIZE(name) PROVE Inv' /\ databases' = databases
    BY <2>1 DEF DBSIZE, Inv
  <2> QED
    BY <1>3, <2>1, SELECTKeeps
<1>4. CASE \E client \in BOOLEAN : FLUSHALL(client) \/ WrongArguments(client) \/ Denied(client)
  <2>1. ASSUME NEW client \in BOOLEAN, WrongArguments(client) \/ Denied(client)
        PROVE  Inv' /\ databases' = databases
    BY <2>1 DEF WrongArguments, Denied, Inv
  <2> QED
    BY <1>4, <2>1, FLUSHALLKeeps
<1>5. CASE UNCHANGED vars
  BY <1>5 DEF vars, Inv
<1> QED
  BY <1>1, <1>2, <1>3, <1>4, <1>5 DEF Next

LEMMA Invariant == Spec => []Inv
<1>1. ASSUME Init PROVE Inv
  <2>1. [name |-> Initial, data |-> << >>] \in DatabaseSet
    BY NoData, KeyspaceAssumption DEF DatabaseSet
  <2> QED
    BY <1>1, <2>1 DEF Init, Inv, DatabaseSet
<1>2. Inv /\ [Next]_vars => Inv'
  BY NextKeeps
<1> QED
  BY <1>1, <1>2, PTL DEF Spec

-----------------------------------------------------------------------------
(***************************************************************************)
(* What the invariant gives.                                               *)
(***************************************************************************)
LEMMA ValueIsValue ==
    ASSUME NEW x \in Value
    PROVE  /\ IsValue(x)
           /\ x.type = "list" => x.items # << >>
           /\ x.type = "hashtable" => x.fields # << >>
<1>1. CASE x.type \notin {"list", "hashtable"}
  BY <1>1, ValueKinds DEF IsValue
<1>2. CASE x.type = "list"
  <2>1. x \in Lists /\ WithinBounds(x)
    BY <1>2, ValueKinds DEF Value
  <2>2. x.items \in Seq(Scalars) /\ x.items # << >> /\ x.head \in Links /\ x.tail \in Links
    BY <2>1 DEF Lists
  <2>3. Len(x.items) <= MaxLength
    BY <1>2, <2>1 DEF WithinBounds
  <2>4. Range(x.items) \subseteq Scalars
    BY <2>2 DEF Range
  <2> QED
    BY <1>2, <2>2, <2>3, <2>4 DEF IsValue
<1>3. CASE x.type = "hashtable"
  <2>1. x \in Tables
    BY <1>3, ValueKinds
  <2>2. x.fields # << >>
    BY <2>1 DEF Tables
  <2>3. PICK F \in SUBSET Fields : x.fields \in [F -> Scalars]
    BY <2>1 DEF Tables, FieldMap
  <2>4. DOMAIN x.fields \subseteq Fields /\ Range(x.fields) \subseteq Scalars
    BY <2>3 DEF Range
  <2> QED
    BY <1>3, <2>2, <2>4 DEF IsValue
<1> QED
  BY <1>1, <1>2, <1>3

\* Every reachable database holds well-formed values only: whatever the commands
\* do to one another's results, no key ends up with a value whose content does
\* not fit its type tag.
THEOREM TypeCorrect == Spec => []TypeOK
<1>1. ASSUME Inv PROVE TypeOK
  <2>1. database \in DOMAIN databases
    BY <1>1 DEF Inv
  <2>2. ASSUME NEW d \in DOMAIN databases
        PROVE  /\ databases[d].name \in Names
               /\ DOMAIN databases[d].data \subseteq Keys
               /\ \A k \in DOMAIN databases[d].data : IsValue(databases[d].data[k])
    <3>1. databases[d].name \in Names
      <4>1. databases \in Seq(DatabaseSet)
        BY <1>1 DEF Inv, DatabaseSet
      <4>2. databases[d] \in DatabaseSet
        BY <4>1
      <4> QED
        BY <4>2 DEF DatabaseSet
    <3>2. PICK data : data = databases[d].data
      OBVIOUS
    <3>3. data \in Data
      BY <1>1, <3>2, DataAt
    <3> QED
      BY <3>1, <3>2, <3>3, DataIsDraft, ValueIsValue
  <2> QED
    BY <2>1, <2>2 DEF TypeOK
<1>2. Inv => TypeOK
  BY <1>1
<1> QED
  BY <1>2, Invariant, PTL

\* No sequence of pushes, pops, deletions of fields, renamings and flushes leaves
\* an empty list or hash table under a key: LPOP and RPOP may take the first
\* node of a list they find without looking at its size.
THEOREM CollectionsNotEmptyInvariant == Spec => []CollectionsNotEmpty
<1>1. ASSUME Inv PROVE CollectionsNotEmpty
  <2> SUFFICES ASSUME NEW d \in DOMAIN databases, NEW k \in DOMAIN databases[d].data
               PROVE  /\ databases[d].data[k].type = "list" => databases[d].data[k].items # << >>
                      /\ databases[d].data[k].type = "hashtable" => databases[d].data[k].fields # << >>
    BY DEF CollectionsNotEmpty
  <2>1. databases[d].data[k] \in Value
    BY <1>1, DataAt, DataIsDraft
  <2> QED
    BY <2>1, ValueIsValue
<1>2. Inv => CollectionsNotEmpty
  BY <1>1
<1> QED
  BY <1>2, Invariant, PTL

\* A command that is answered with an error has left every database as it was.
THEOREM ErrorsChangeNothingHolds == Spec => ErrorsChangeNothing
<1>1. Inv /\ [Next]_vars => [reply' = "error" => UNCHANGED databases]_vars
  BY NextKeeps
<1>2. Spec => [][reply' = "error" => UNCHANGED databases]_vars
  BY <1>1, Invariant, PTL DEF Spec
<1> QED
  BY <1>2 DEF ErrorsChangeNothing

-----------------------------------------------------------------------------
(***************************************************************************)
(* Commands of clients that have gone.                                     *)
(***************************************************************************)
LEMMA SameOutcome ==
    ASSUME NEW e, NEW r, r \notin Faults
    PROVE  DataOf({Outcome(e, r, FALSE)}) \subseteq DataOf({Outcome(e, r, TRUE)})
<1>1. PICK o : o = Outcome(e, r, TRUE)
  OBVIOUS
<1>2. o.data = e /\ o.reply \notin Faults
  BY <1>1 DEF Outcome
<1>3. e \in DataOf({o})
  BY <1>2 DEF DataOf
<1>4. Outcome(e, r, FALSE).data = e
  BY DEF Outcome
<1>5. \A y \in DataOf({Outcome(e, r, FALSE)}) : y = e
  BY <1>4 DEF DataOf
<1> QED
  BY <1>1, <1>3, <1>5

LEMMA SameOutcomes ==
    ASSUME NEW A, NEW B, \A a \in A : \E b \in B : DataOf({a}) \subseteq DataOf({b})
    PROVE  DataOf(A) \subseteq DataOf(B)
<1> SUFFICES ASSUME NEW a \in A, a.reply \notin Faults PROVE a.data \in DataOf(B)
  BY DEF DataOf
<1>1. a.data \in DataOf({a})
  BY DEF DataOf
<1>2. PICK b \in B : DataOf({a}) \subseteq DataOf({b})
  OBVIOUS
<1>3. a.data = b.data /\ b.reply \notin Faults
  BY <1>1, <1>2 DEF DataOf
<1> QED
  BY <1>3 DEF DataOf

LEMMA FaultHasNoData ==
    ASSUME NEW e, NEW why \in Faults
    PROVE  DataOf({Fault(e, why)}) = {}
  BY DEF DataOf, Fault

LEMMA Answers == "ok" \notin Faults /\ "error" \notin Faults /\ "null" \notin Faults
                 /\ "freed node" \in Faults /\ "null client" \in Faults /\ "unreachable" \in Faults
  BY DEF Faults

LEMMA SameStore ==
    ASSUME NEW data, NEW k, NEW v, NEW K
    PROVE  /\ DataOf({SetData(data, k, v, "ok", FALSE)}) \subseteq DataOf({SetData(data, k, v, "ok", TRUE)})
           /\ DataOf({DeleteData(data, K, "ok", FALSE)}) \subseteq DataOf({DeleteData(data, K, "ok", TRUE)})
<1>1. DataOf({SetData(data, k, v, "ok", FALSE)}) \subseteq DataOf({SetData(data, k, v, "ok", TRUE)})
  BY SameOutcome, FaultHasNoData, Answers DEF SetData
<1>2. DataOf({DeleteData(data, K, "ok", FALSE)}) \subseteq DataOf({DeleteData(data, K, "ok", TRUE)})
  BY SameOutcome, FaultHasNoData, Answers DEF DeleteData
<1> QED
  BY <1>1, <1>2

LEMMA SameKv ==
    ASSUME NEW data, NEW k, NEW new, NEW w, NEW f, NEW opt
    PROVE  /\ DataOf(SET(data, k, w, opt, f, FALSE)) \subseteq DataOf(SET(data, k, w, opt, f, TRUE))
           /\ DataOf(DEL(data, {k}, FALSE)) \subseteq DataOf(DEL(data, {k}, TRUE))
           /\ DataOf(RENAME(data, k, new, FALSE)) \subseteq DataOf(RENAME(data, k, new, TRUE))
           /\ DataOf(APPEND(data, k, FALSE)) \subseteq DataOf(APPEND(data, k, TRUE))
<1>1. DataOf(SET(data, k, w, opt, f, FALSE)) \subseteq DataOf(SET(data, k, w, opt, f, TRUE))
  <2> DEFINE type == ParseOptions(opt, w, f)
             E(c) == {Outcome(data, "error", c)}
             U(c) == E(c) \cup {Fault(data, "unreachable")}
  <2>1. DataOf(E(FALSE)) \subseteq DataOf(E(TRUE))
    BY SameOutcome, Answers
  <2>2. DataOf(U(FALSE)) \subseteq DataOf(U(TRUE))
    <3>1. DataOf({Fault(data, "unreachable")}) = {}
      BY FaultHasNoData, Answers
    <3>2. \A c \in BOOLEAN : DataOf(U(c)) = DataOf(E(c)) \cup DataOf({Fault(data, "unreachable")})
      BY DEF DataOf
    <3> QED
      BY <2>1, <3>1, <3>2
  <2>3. CASE type = "invalid"
    BY <2>1, <2>3 DEF SET
  <2>4. CASE type = "undefined"
    BY <2>2, <2>4 DEF SET
  <2>5. CASE type \notin {"invalid", "undefined"}
    BY <2>5, SameStore DEF SET
  <2> QED
    BY <2>3, <2>4, <2>5
<1>2. DataOf(DEL(data, {k}, FALSE)) \subseteq DataOf(DEL(data, {k}, TRUE))
  BY SameStore DEF DEL
<1>3. DataOf(RENAME(data, k, new, FALSE)) \subseteq DataOf(RENAME(data, k, new, TRUE))
  BY SameOutcome, Answers DEF RENAME
<1>4. DataOf(APPEND(data, k, FALSE)) \subseteq DataOf(APPEND(data, k, TRUE))
  BY SameOutcome, Answers DEF APPEND
<1> QED
  BY <1>1, <1>2, <1>3, <1>4

LEMMA SameAddTo ==
    ASSUME NEW data, NEW k, NEW w, NEW n
    PROVE  DataOf({AddTo(data, k, w, n, FALSE)}) \subseteq DataOf({AddTo(data, k, w, n, TRUE)})
  BY SameOutcome, FaultHasNoData, Answers DEF AddTo

LEMMA SameSum ==
    ASSUME NEW data, NEW k, NEW w, NEW f
    PROVE  /\ DataOf(INCRBY(data, k, w, f, FALSE)) \subseteq DataOf(INCRBY(data, k, w, f, TRUE))
           /\ DataOf(DECRBY(data, k, w, f, FALSE)) \subseteq DataOf(DECRBY(data, k, w, f, TRUE))
<1>1. CASE w.kind \notin {"int", "double"}
  BY <1>1, SameOutcome, Answers DEF INCRBY, DECRBY
<1>2. CASE w.kind \in {"int", "double"} /\ Present(data, k)
  <2> DEFINE I(c) == {AddTo(data, k, w, n, c) : n \in ReadNumber(w, f)}
             D(c) == {AddTo(data, k, w, -n, c) : n \in ReadNumber(w, f)}
  <2>1. \A c \in BOOLEAN : INCRBY(data, k, w, f, c) = I(c) /\ DECRBY(data, k, w, f, c) = D(c)
    BY <1>2 DEF INCRBY, DECRBY
  <2>2. \A a \in I(FALSE) : \E b \in I(TRUE) : DataOf({a}) \subseteq DataOf({b})
    BY SameAddTo
  <2>3. \A a \in D(FALSE) : \E b \in D(TRUE) : DataOf({a}) \subseteq DataOf({b})
    BY SameAddTo
  <2> HIDE DEF I, D
  <2> QED
    BY <2>1, <2>2, <2>3, SameOutcomes
<1>3. CASE w.kind \in {"int", "double"} /\ ~Present(data, k)
  <2> DEFINE I(c) == {Outcome(Put(data, k, Scalar("int", n)), "ok", c) : n \in ReadNumber(w, f)}
             D(c) == {Outcome(Put(data, k, Scalar(w.kind, -n)), "ok", c) : n \in ReadNumber(w, f)}
  <2>1. \A c \in BOOLEAN : DECRBY(data, k, w, f, c) = D(c)
    BY <1>3 DEF DECRBY
  <2>2. \A a \in I(FALSE) : \E b \in I(TRUE) : DataOf({a}) \subseteq DataOf({b})
    BY SameOutcome, Answers
  <2>3. \A a \in D(FALSE) : \E b \in D(TRUE) : DataOf({a}) \subseteq DataOf({b})
    BY SameOutcome, Answers
  <2>4. CASE w.kind = "double"
    <3>1. \A c \in BOOLEAN : INCRBY(data, k, w, f, c) = {Outcome(data, "error", c)}
      BY <1>3, <2>4 DEF INCRBY
    <3> HIDE DEF I, D
    <3> QED
      BY <2>1, <2>3, <3>1, SameOutcomes, SameOutcome, Answers
  <2>5. CASE w.kind # "double"
    <3>1. \A c \in BOOLEAN : INCRBY(data, k, w, f, c) = I(c)
      BY <1>3, <2>5 DEF INCRBY
    <3> HIDE DEF I, D
    <3> QED
      BY <2>1, <2>2, <2>3, <3>1, SameOutcomes
  <2> QED
    BY <2>4, <2>5
<1> QED
  BY <1>1, <1>2, <1>3

LEMMA SamePop ==
    ASSUME NEW data, NEW k
    PROVE  /\ DataOf(LPOP(data, k, FALSE)) \subseteq DataOf(LPOP(data, k, TRUE))
           /\ DataOf(RPOP(data, k, FALSE)) \subseteq DataOf(RPOP(data, k, TRUE))
<1>1. DataOf(LPOP(data, k, FALSE)) \subseteq DataOf(LPOP(data, k, TRUE))
  BY SameOutcome, SameStore, Answers DEF LPOP
<1>2. DataOf(RPOP(data, k, FALSE)) \subseteq DataOf(RPOP(data, k, TRUE))
  BY SameOutcome, SameStore, Answers DEF RPOP
<1> QED
  BY <1>1, <1>2

LEMMA SameHash ==
    ASSUME NEW data, NEW k, NEW x, NEW w, NEW f, NEW X, NEW r
    PROVE  /\ DataOf(HSET(data, k, x, w, f, FALSE)) \subseteq DataOf(HSET(data, k, x, w, f, TRUE))
           /\ DataOf(HDEL(data, k, X, r, FALSE)) \subseteq DataOf(HDEL(data, k, X, r, TRUE))
<1>1. DataOf(HDEL(data, k, X, r, FALSE)) \subseteq DataOf(HDEL(data, k, X, r, TRUE))
  BY SameOutcome, SameStore, Answers DEF HDEL
<1> DEFINE H(c) == {Outcome(Put(data, k, Table(Put(FieldsAt(data, k), x, s))), "ok", c) : s \in HashTyped(w, f)}
<1>2. \A a \in H(FALSE) : \E b \in H(TRUE) : DataOf({a}) \subseteq DataOf({b})
  BY SameOutcome, Answers
<1>4. CASE Present(data, k) /\ data[k].type # "hashtable"
  BY <1>1, <1>4, SameOutcome, Answers DEF HSET
<1>5. CASE ~(Present(data, k) /\ data[k].type # "hashtable") /\ x \in DOMAIN FieldsAt(data, k)
  BY <1>1, <1>5, SameOutcome, Answers DEF HSET
<1>6. CASE ~(Present(data, k) /\ data[k].type # "hashtable") /\ x \notin DOMAIN FieldsAt(data, k)
  <2>1. \A c \in BOOLEAN : HSET(data, k, x, w, f, c) = H(c)
    BY <1>6 DEF HSET
  <2> HIDE DEF H
  <2> QED
    BY <1>1, <1>2, <2>1, SameOutcomes
<1> QED
  BY <1>4, <1>5, <1>6

\* A queued command whose client has gone does nothing to the data that it would
\* not have done for a connected client, whatever is stored.
THEOREM SameEffectInvariant == Spec => []SameEffectWithoutClient
<1>1. SameEffectWithoutClient
  <2> SUFFICES ASSUME NEW d \in DOMAIN databases, NEW k \in Keys
               PROVE
        LET data == databases[d].data
            Same(with, without) == DataOf(without) \subseteq DataOf(with)
        IN  /\ Same(LPOP(data, k, TRUE), LPOP(data, k, FALSE))
            /\ Same(RPOP(data, k, TRUE), RPOP(data, k, FALSE))
            /\ Same(DEL(data, {k}, TRUE), DEL(data, {k}, FALSE))
            /\ Same(APPEND(data, k, TRUE), APPEND(data, k, FALSE))
            /\ \A new \in Keys : Same(RENAME(data, k, new, TRUE), RENAME(data, k, new, FALSE))
            /\ \A X \in SUBSET Fields, r \in BOOLEAN :
                  Same(HDEL(data, k, X, r, TRUE), HDEL(data, k, X, r, FALSE))
            /\ \A w \in Words, f \in Framings :
                  /\ \A opt \in SetOptions :
                        Same(SET(data, k, w, opt, f, TRUE), SET(data, k, w, opt, f, FALSE))
                  /\ Same(INCRBY(data, k, w, f, TRUE), INCRBY(data, k, w, f, FALSE))
                  /\ Same(DECRBY(data, k, w, f, TRUE), DECRBY(data, k, w, f, FALSE))
                  /\ \A x \in Fields : Same(HSET(data, k, x, w, f, TRUE), HSET(data, k, x, w, f, FALSE))
    BY DEF SameEffectWithoutClient
  <2>1. PICK data : data = databases[d].data
    OBVIOUS
  <2>2. /\ DataOf(LPOP(data, k, FALSE)) \subseteq DataOf(LPOP(data, k, TRUE))
        /\ DataOf(RPOP(data, k, FALSE)) \subseteq DataOf(RPOP(data, k, TRUE))
    BY SamePop
  <2>3. /\ DataOf(DEL(data, {k}, FALSE)) \subseteq DataOf(DEL(data, {k}, TRUE))
        /\ DataOf(APPEND(data, k, FALSE)) \subseteq DataOf(APPEND(data, k, TRUE))
        /\ \A new \in Keys : DataOf(RENAME(data, k, new, FALSE)) \subseteq DataOf(RENAME(data, k, new, TRUE))
    BY SameKv
  <2>4. \A X \in SUBSET Fields, r \in BOOLEAN :
            DataOf(HDEL(data, k, X, r, FALSE)) \subseteq DataOf(HDEL(data, k, X, r, TRUE))
    BY SameHash
  <2>5. ASSUME NEW w \in Words, NEW f \in Framings
        PROVE  /\ \A opt \in SetOptions :
                     DataOf(SET(data, k, w, opt, f, FALSE)) \subseteq DataOf(SET(data, k, w, opt, f, TRUE))
               /\ DataOf(INCRBY(data, k, w, f, FALSE)) \subseteq DataOf(INCRBY(data, k, w, f, TRUE))
               /\ DataOf(DECRBY(data, k, w, f, FALSE)) \subseteq DataOf(DECRBY(data, k, w, f, TRUE))
               /\ \A x \in Fields :
                     DataOf(HSET(data, k, x, w, f, FALSE)) \subseteq DataOf(HSET(data, k, x, w, f, TRUE))
    BY SameKv, SameSum, SameHash
  <2> QED
    BY ONLY <2>1, <2>2, <2>3, <2>4, <2>5, Zenon
<1> QED
  BY <1>1, PTL
=============================================================================
