--------------------------- MODULE SaveFileProofs ---------------------------
(***************************************************************************)
(* Proofs about SaveFile, for any lines, names and passwords, any size of  *)
(* a block and any number of threads of BGSAVE.                            *)
(***************************************************************************)
EXTENDS SaveFile, SequenceTheorems, FiniteSetTheorems, WellFoundedInduction, TLAPS

-----------------------------------------------------------------------------
(***************************************************************************)
(* Sums over finite sets.  What SumFunctionOnSet computes is shown from    *)
(* the least counterexample, by the size of the set.                       *)
(***************************************************************************)

\* A set of naturals that is not empty has a least element.
LEMMA HasMin ==
    ASSUME NEW S \in SUBSET Nat, S # {}
    PROVE  Min(S) \in S /\ \A y \in S : Min(S) <= y
<1> DEFINE R == OpToRel(<, Nat)
<1> HIDE DEF R
<1>1. IsWellFoundedOn(R, Nat)
  BY NatLessThanWellFounded DEF R
<1>2. PICK x \in S : \A y \in S : ~(<<y, x>> \in R)
  BY <1>1, WFMin
<1>3. \A y \in S : ~(y < x)
  BY <1>2 DEF R, OpToRel
<1>4. \A y \in S : x <= y
  BY <1>3
<1> QED
  BY <1>4 DEF Min

\* Induction, for a property given as the set of those that have it.
LEMMA NatSetInduction ==
    ASSUME NEW P \in SUBSET Nat, 0 \in P, \A n \in P : n + 1 \in P
    PROVE  P = Nat
<1> SUFFICES ASSUME Nat \ P # {} PROVE FALSE
  OBVIOUS
<1>1. PICK m : m = Min(Nat \ P) /\ m \in Nat \ P /\ \A y \in Nat \ P : m <= y
  BY HasMin
<1>2. m # 0 /\ m - 1 \in Nat
  BY <1>1
<1>3. m - 1 \in P
  BY <1>1, <1>2
<1> QED
  BY <1>1, <1>2, <1>3

Pick(s) == CHOOSE x \in s : TRUE

\* The equation of the recursive function behind SumFunctionOnSet, on the subsets in D.
Adds(f, D, g) ==
    g = [s \in D |-> IF s = {} THEN 0 ELSE f[Pick(s)] + g[s \ {Pick(s)}]]

Sums(f, S, g) == Adds(f, SUBSET S, g)
TheSum(f, S) == CHOOSE g : Sums(f, S, g)

LEMMA SumUnfolded ==
    ASSUME NEW f, NEW S
    PROVE  SumFunctionOnSet(f, S) = TheSum(f, S)[S]
  BY DEF SumFunctionOnSet, FoldFunctionOnSet, MapThenFoldSet, TheSum, Sums, Adds, Pick

\* A function that satisfies the equation exists, built up by the size of the sets.
LEMMA SumExists ==
    ASSUME NEW f, NEW S, IsFiniteSet(S)
    PROVE  Sums(f, S, TheSum(f, S))
<1> DEFINE Small(n) == {s \in SUBSET S : Cardinality(s) <= n}
           P == {n \in Nat : \E g : Adds(f, Small(n), g)}
<1>0. \A s \in SUBSET S : IsFiniteSet(s) /\ Cardinality(s) \in Nat
  BY FS_Subset, FS_CardinalityType
<1>1. 0 \in P
  <2>1. \A s \in Small(0) : s = {}
    BY <1>0, FS_EmptySet
  <2>2. [s \in Small(0) |-> 0] =
          [s \in Small(0) |-> IF s = {} THEN 0
             ELSE f[Pick(s)] + [t \in Small(0) |-> 0][s \ {Pick(s)}]]
    BY <2>1
  <2> QED
    BY <2>2 DEF Adds
<1>2. ASSUME NEW n \in P PROVE n + 1 \in P
  <2>1. PICK g : Adds(f, Small(n), g)
    OBVIOUS
  <2> DEFINE h == [s \in Small(n + 1) |-> IF s = {} THEN 0 ELSE f[Pick(s)] + g[s \ {Pick(s)}]]
  <2>2. \A s \in Small(n) : s \in Small(n + 1) /\ h[s] = g[s]
    <3>1. \A s \in Small(n) : s \in Small(n + 1)
      BY <1>0
    <3>2. \A s \in Small(n) : g[s] = IF s = {} THEN 0 ELSE f[Pick(s)] + g[s \ {Pick(s)}]
      <4> HIDE DEF Small
      <4> QED
        BY <2>1 DEF Adds
    <3> HIDE DEF Small
    <3> QED
      BY <3>1, <3>2
  <2>3. \A s \in Small(n + 1) : s # {} => s \ {Pick(s)} \in Small(n)
    <3> SUFFICES ASSUME NEW s \in Small(n + 1), s # {} PROVE s \ {Pick(s)} \in Small(n)
      OBVIOUS
    <3>1. Pick(s) \in s
      BY DEF Pick
    <3>2. Cardinality(s \ {Pick(s)}) = Cardinality(s) - 1
      BY <1>0, <3>1, FS_RemoveElement
    <3> QED
      BY <1>0, <3>2
  <2>4. h = [s \in Small(n + 1) |-> IF s = {} THEN 0 ELSE f[Pick(s)] + h[s \ {Pick(s)}]]
    <3> HIDE DEF Small
    <3> QED
      BY <2>2, <2>3
  <2>5. Adds(f, Small(n + 1), h)
    <3> HIDE DEF Small, h
    <3> QED
      BY <2>4 DEF Adds
  <2>6. n + 1 \in Nat
    OBVIOUS
  <2> HIDE DEF Small, h
  <2> QED
    BY <2>5, <2>6
<1>3. P = Nat
  <2> HIDE DEF P
  <2>1. P \subseteq Nat
    BY DEF P
  <2> QED
    BY <1>1, <1>2, <2>1, NatSetInduction
<1>4. Cardinality(S) \in Nat /\ Small(Cardinality(S)) = SUBSET S
  BY FS_Subset, FS_CardinalityType
<1>5. \E g : Adds(f, SUBSET S, g)
  <2>1. Cardinality(S) \in P
    <3> HIDE DEF P
    <3> QED
      BY <1>3, <1>4
  <2>2. PICK g : Adds(f, Small(Cardinality(S)), g)
    BY <2>1
  <2> HIDE DEF Small, P
  <2> QED
    BY <1>4, <2>2
<1> QED
  BY <1>5 DEF TheSum, Sums

\* Two functions that satisfy the equation agree on what they both sum, if what
\* they sum does.
LEMMA SumUnique ==
    ASSUME NEW f, NEW e, NEW S, NEW T, NEW g, NEW h, IsFiniteSet(S), S \subseteq T,
           \A x \in S : f[x] = e[x], Sums(f, S, g), Sums(e, T, h)
    PROVE  \A s \in SUBSET S : g[s] = h[s]
<1> DEFINE P == {n \in Nat : \A s \in SUBSET S : Cardinality(s) = n => g[s] = h[s]}
<1>0. \A s \in SUBSET S : IsFiniteSet(s) /\ Cardinality(s) \in Nat
  BY FS_Subset, FS_CardinalityType
<1>1. \A s \in SUBSET S :
         /\ g[s] = IF s = {} THEN 0 ELSE f[Pick(s)] + g[s \ {Pick(s)}]
         /\ h[s] = IF s = {} THEN 0 ELSE e[Pick(s)] + h[s \ {Pick(s)}]
  BY DEF Sums, Adds
<1>2. 0 \in P
  BY <1>0, <1>1, FS_EmptySet
<1>3. ASSUME NEW n \in P PROVE n + 1 \in P
  <2> SUFFICES ASSUME NEW s \in SUBSET S, Cardinality(s) = n + 1 PROVE g[s] = h[s]
    OBVIOUS
  <2>0. n + 1 # 0 /\ s # {}
    <3>1. Cardinality({}) = 0
      BY FS_EmptySet
    <3>2. n + 1 # 0
      OBVIOUS
    <3> QED
      BY <3>1, <3>2
  <2>1. s # {} /\ Pick(s) \in s
    BY <2>0 DEF Pick
  <2>2. s \ {Pick(s)} \in SUBSET S /\ Cardinality(s \ {Pick(s)}) = n
    <3>1. Cardinality(s \ {Pick(s)}) = Cardinality(s) - 1
      BY <1>0, <2>1, FS_RemoveElement
    <3> QED
      BY <3>1
  <2>3. g[s \ {Pick(s)}] = h[s \ {Pick(s)}] /\ f[Pick(s)] = e[Pick(s)]
    BY <2>1, <2>2
  <2> QED
    BY <1>1, <2>1, <2>3
<1>4. P = Nat
  <2> HIDE DEF P
  <2>1. P \subseteq Nat
    BY DEF P
  <2> QED
    BY <1>2, <1>3, <2>1, NatSetInduction
<1> QED
  BY <1>0, <1>4

\* A sum depends on nothing but the numbers that are added.
LEMMA SumAgree ==
    ASSUME NEW f, NEW e, NEW S, IsFiniteSet(S), \A x \in S : f[x] = e[x]
    PROVE  SumFunctionOnSet(f, S) = SumFunctionOnSet(e, S)
<1>1. Sums(f, S, TheSum(f, S)) /\ Sums(e, S, TheSum(e, S)) /\ S \subseteq S
  BY SumExists
<1>2. \A s \in SUBSET S : TheSum(f, S)[s] = TheSum(e, S)[s]
  <2>1. PICK g, h : g = TheSum(f, S) /\ h = TheSum(e, S)
    OBVIOUS
  <2>2. Sums(f, S, g) /\ Sums(e, S, h)
    BY <1>1, <2>1
  <2>3. \A s \in SUBSET S : g[s] = h[s]
    BY <1>1, <2>2, SumUnique
  <2> QED
    BY <2>1, <2>3
<1> QED
  BY <1>2, SumUnfolded

LEMMA SumEmpty ==
    ASSUME NEW f
    PROVE  SumFunctionOnSet(f, {}) = 0
<1>1. Sums(f, {}, TheSum(f, {}))
  BY SumExists, FS_EmptySet
<1>2. TheSum(f, {})[{}] = 0
  BY <1>1 DEF Sums, Adds
<1> QED
  BY <1>2, SumUnfolded

\* The defining equation, for the sums themselves.
LEMMA SumStep ==
    ASSUME NEW f, NEW S, IsFiniteSet(S), S # {}
    PROVE  Pick(S) \in S /\
           SumFunctionOnSet(f, S) = f[Pick(S)] + SumFunctionOnSet(f, S \ {Pick(S)})
<1> DEFINE T == S \ {Pick(S)}
<1>1. Sums(f, S, TheSum(f, S)) /\ Sums(f, T, TheSum(f, T)) /\ IsFiniteSet(T)
  BY SumExists, FS_RemoveElement
<1>2. TheSum(f, S)[S] = f[Pick(S)] + TheSum(f, S)[T]
  BY <1>1 DEF Sums, Adds
<1>3. TheSum(f, T)[T] = TheSum(f, S)[T]
  <2> HIDE DEF T
  <2>1. T \subseteq S
    BY DEF T
  <2>2. PICK g, h : g = TheSum(f, T) /\ h = TheSum(f, S)
    OBVIOUS
  <2>3. Sums(f, T, g) /\ Sums(f, S, h)
    BY <1>1, <2>2
  <2>4. \A s \in SUBSET T : g[s] = h[s]
    BY <1>1, <2>1, <2>3, SumUnique
  <2> QED
    BY <2>2, <2>4
<1> QED
  BY <1>2, <1>3, SumUnfolded DEF Pick

LEMMA SumType ==
    ASSUME NEW S, IsFiniteSet(S), NEW f, \A x \in S : f[x] \in Nat
    PROVE  SumFunctionOnSet(f, S) \in Nat
<1> DEFINE P == {n \in Nat : \A s \in SUBSET S : Cardinality(s) = n => SumFunctionOnSet(f, s) \in Nat}
<1>0. \A s \in SUBSET S : IsFiniteSet(s) /\ Cardinality(s) \in Nat
  BY FS_Subset, FS_CardinalityType
<1>1. 0 \in P
  BY <1>0, SumEmpty, FS_EmptySet
<1>2. ASSUME NEW n \in P PROVE n + 1 \in P
  <2> SUFFICES ASSUME NEW s \in SUBSET S, Cardinality(s) = n + 1
               PROVE  SumFunctionOnSet(f, s) \in Nat
    OBVIOUS
  <2>1. s # {}
    BY FS_EmptySet
  <2>2. Pick(s) \in s /\ SumFunctionOnSet(f, s) = f[Pick(s)] + SumFunctionOnSet(f, s \ {Pick(s)})
    BY <1>0, <2>1, SumStep
  <2>3. s \ {Pick(s)} \in SUBSET S /\ Cardinality(s \ {Pick(s)}) = Cardinality(s) - 1
    BY <1>0, <2>2, FS_RemoveElement
  <2>4. Cardinality(s \ {Pick(s)}) = n
    BY <2>3
  <2> QED
    BY <2>2, <2>3, <2>4
<1>3. P = Nat
  <2> HIDE DEF P
  <2>1. P \subseteq Nat
    BY DEF P
  <2> QED
    BY <1>1, <1>2, <2>1, NatSetInduction
<1> QED
  BY <1>0, <1>3

\* An element may be added last, whichever one the recursion takes first.
LEMMA SumAddElement ==
    ASSUME NEW S, IsFiniteSet(S), NEW z, z \notin S,
           NEW f, \A x \in S \cup {z} : f[x] \in Nat
    PROVE  SumFunctionOnSet(f, S \cup {z}) = SumFunctionOnSet(f, S) + f[z]
<1> DEFINE Sum(s) == SumFunctionOnSet(f, s)
           P == {n \in Nat : \A s \in SUBSET (S \cup {z}) : \A x \in (S \cup {z}) \ s :
                    Cardinality(s) = n => Sum(s \cup {x}) = Sum(s) + f[x]}
<1>0. \A s \in SUBSET (S \cup {z}) :
         IsFiniteSet(s) /\ Cardinality(s) \in Nat /\ Sum(s) \in Nat
  <2>1. IsFiniteSet(S \cup {z})
    BY FS_AddElement
  <2> QED
    BY <2>1, FS_Subset, FS_CardinalityType, SumType
<1>1. \A s : IsFiniteSet(s) /\ s # {} =>
         Pick(s) \in s /\ Sum(s) = f[Pick(s)] + Sum(s \ {Pick(s)})
  BY SumStep
<1>2. Sum({}) = 0
  BY SumEmpty
<1> HIDE DEF Sum
<1>3. 0 \in P
  <2> SUFFICES ASSUME NEW s \in SUBSET (S \cup {z}), NEW x \in (S \cup {z}) \ s, Cardinality(s) = 0
               PROVE  Sum(s \cup {x}) = Sum(s) + f[x]
    OBVIOUS
  <2>1. s = {} /\ IsFiniteSet({x})
    BY <1>0, FS_EmptySet, FS_Singleton
  <2>2. Pick({x}) = x /\ {x} \ {x} = {}
    BY DEF Pick
  <2>3. Sum({x}) = f[x] + Sum({})
    BY <1>1, <2>1, <2>2
  <2> QED
    BY <1>2, <2>1, <2>3
<1>4. ASSUME NEW n \in P PROVE n + 1 \in P
  <2> SUFFICES ASSUME NEW s \in SUBSET (S \cup {z}), NEW x \in (S \cup {z}) \ s,
                      Cardinality(s) = n + 1
               PROVE  Sum(s \cup {x}) = Sum(s) + f[x]
    OBVIOUS
  <2> DEFINE t == s \cup {x}
             p == Pick(t)
             u == s \ {p}
  <2>1. t \in SUBSET (S \cup {z}) /\ t # {} /\ IsFiniteSet(t)
    BY <1>0
  <2>2. p \in t /\ Sum(t) = f[p] + Sum(t \ {p})
    BY <1>1, <2>1
  <2>3. CASE p = x
    <3>1. t \ {p} = s
      BY <2>3
    <3> QED
      BY <1>0, <2>2, <2>3, <3>1
  <2>4. CASE p # x
    <3>1. p \in s /\ t \ {p} = u \cup {x} /\ s = u \cup {p}
      BY <2>2, <2>4
    <3>2. u \in SUBSET (S \cup {z}) /\ p \in (S \cup {z}) \ u /\ x \in (S \cup {z}) \ u
      BY <3>1
    <3>3. Cardinality(u) = n
      <4>1. Cardinality(u) = Cardinality(s) - 1
        <5>1. IsFiniteSet(s) /\ p \in s
          BY <1>0, <3>1
        <5> QED
          BY <5>1, FS_RemoveElement
      <4> QED
        BY <4>1
    <3>4. Sum(u \cup {x}) = Sum(u) + f[x] /\ Sum(u \cup {p}) = Sum(u) + f[p]
      <4> HIDE DEF u, p, t
      <4> QED
        BY <3>2, <3>3
    <3>5. Sum(u) \in Nat /\ f[p] \in Nat /\ f[x] \in Nat
      BY <1>0, <3>2
    <3> HIDE DEF u, p, t
    <3>6. Sum(t) = f[p] + (Sum(u) + f[x]) /\ Sum(s) = Sum(u) + f[p]
      BY <2>2, <3>1, <3>4
    <3>7. Sum(t) = Sum(s) + f[x]
      BY <3>5, <3>6
    <3> QED
      BY <3>7 DEF t
  <2> QED
    BY <2>3, <2>4
<1>5. P = Nat
  <2> HIDE DEF P
  <2>1. P \subseteq Nat
    BY DEF P
  <2> QED
    BY <1>3, <1>4, <2>1, NatSetInduction
<1>6. Sum(S \cup {z}) = Sum(S) + f[z]
  BY <1>0, <1>5
<1> QED
  BY <1>6 DEF Sum

-----------------------------------------------------------------------------
(***************************************************************************)
(* Sizes.                                                                  *)
(***************************************************************************)

LEMMA BitCountType ==
    ASSUME NEW n
    PROVE  BitCount(n) \in Nat /\ ByteCount(n) \in Nat
<1> DEFINE bits == {b \in 0..30 : 2^b <= n}
<1>1. IsFiniteSet(0..30)
  <2>1. PICK a \in Int, c \in Int : a = 0 /\ c = 30
    OBVIOUS
  <2>2. IsFiniteSet(a..c)
    BY FS_Interval
  <2> QED
    BY <2>1, <2>2
<1>2. bits \subseteq 0..30
  OBVIOUS
<1> HIDE DEF bits
<1>3. Cardinality(bits) \in Nat
  BY <1>1, <1>2, FS_Subset, FS_CardinalityType
<1>4. BitCount(n) = IF n = 0 THEN 0 ELSE Cardinality(bits)
  BY Zenon DEF BitCount, bits
<1>5. BitCount(n) \in Nat
  BY <1>3, <1>4
<1> QED
  BY <1>5 DEF ByteCount

LEMMA StringSizeType ==
    ASSUME NEW len \in Nat
    PROVE  StringSize(len) \in Nat /\ StringSize(len) >= 1
  BY BitCountType DEF StringSize

LEMMA ScalarSizeType ==
    ASSUME NEW v \in Scalars \cup Fields
    PROVE  ScalarSize(v) \in Nat
<1>1. v.type \in {"str", "int", "double", "bool", "null"}
  BY DEF Scalars, Fields
<1>2. v.type \in {"str", "int", "double"} => v.len \in Nat
  BY DEF Scalars, Fields
<1> QED
  BY <1>1, <1>2, StringSizeType DEF ScalarSize

\* A sum of naturals along a sequence.
LEMMA SeqSumType ==
    ASSUME NEW n \in Nat, NEW f \in [1..n -> Nat]
    PROVE  SumFunction(f) \in Nat
<1>1. DOMAIN f = 1..n /\ IsFiniteSet(1..n)
  BY FS_Interval
<1> QED
  BY <1>1, SumType DEF SumFunction

LEMMA LineSizeType ==
    ASSUME NEW k \in Keys
    PROVE  LineSize(k) \in Nat
<1> DEFINE v == Lines[k].value
<1>1. Lines[k] \in [key : Nat, value : Values]
  <2>1. PICK R : R = [key : Nat, value : Values]
    OBVIOUS
  <2>2. Lines \in Seq(R) /\ k \in 1..Len(Lines)
    BY <2>1, SaveFileAssumption DEF Keys
  <2> QED
    BY <2>1, <2>2, ElementOfSeq
<1>2. Lines[k].key \in Nat /\ v \in Values
  BY <1>1
<1>3. StringSize(Lines[k].key) \in Nat
  BY <1>2, StringSizeType
<1> HIDE DEF v
<1>4. CASE v \in Scalars
  <2>1. ScalarSize(v) \in Nat /\ v.type \notin {"list", "hashtable"}
    BY <1>4, ScalarSizeType DEF Scalars
  <2>2. LineSize(k) \in {0, StringSize(Lines[k].key) + 1 + ScalarSize(v)}
    BY <2>1 DEF LineSize, v
  <2> QED
    BY <1>3, <2>1, <2>2
<1>5. CASE v \in [type : {"list"}, items : Seq(Scalars)]
  <2>1. v.type = "list" /\ v.items \in Seq(Scalars)
    BY <1>5
  <2>2. PICK s \in Seq(Scalars) : s = v.items
    BY <2>1
  <2>3. Len(s) \in Nat /\ DOMAIN s = 1..Len(s) /\ \A i \in 1..Len(s) : s[i] \in Scalars
    BY LenProperties, ElementOfSeq
  <2>4. \A i \in 1..Len(s) : ScalarSize(s[i]) \in Nat
    BY <2>3, ScalarSizeType
  <2>5. SumFunction([i \in 1..Len(s) |-> 1 + ScalarSize(s[i])]) \in Nat
    <3>1. PICK f : f = [i \in 1..Len(s) |-> 1 + ScalarSize(s[i])]
      OBVIOUS
    <3>2. f \in [1..Len(s) -> Nat]
      BY <2>4, <3>1
    <3> QED
      BY <2>3, <3>1, <3>2, SeqSumType
  <2>6. LineSize(k) = StringSize(Lines[k].key) + 9 + SumFunction([i \in 1..Len(s) |-> 1 + ScalarSize(s[i])])
    BY <2>1, <2>2, <2>3 DEF LineSize, SumOver, v
  <2> QED
    BY <1>3, <2>5, <2>6
<1>6. CASE v \in [type : {"hashtable"}, items : Seq(Fields)]
  <2>1. v.type = "hashtable" /\ v.items \in Seq(Fields)
    BY <1>6
  <2>2. PICK s \in Seq(Fields) : s = v.items
    BY <2>1
  <2>3. Len(s) \in Nat /\ DOMAIN s = 1..Len(s) /\ \A i \in 1..Len(s) : s[i] \in Fields
    BY LenProperties, ElementOfSeq
  <2>4. \A i \in 1..Len(s) : ScalarSize(s[i]) \in Nat /\ StringSize(s[i].name) \in Nat
    <3>1. \A i \in 1..Len(s) : s[i].name \in Nat
      BY <2>3 DEF Fields
    <3> QED
      BY <2>3, <3>1, ScalarSizeType, StringSizeType
  <2>5. SumFunction([i \in 1..Len(s) |-> 1 + StringSize(s[i].name) + ScalarSize(s[i])]) \in Nat
    <3>1. PICK f : f = [i \in 1..Len(s) |-> 1 + StringSize(s[i].name) + ScalarSize(s[i])]
      OBVIOUS
    <3>2. f \in [1..Len(s) -> Nat]
      BY <2>4, <3>1
    <3> QED
      BY <2>3, <3>1, <3>2, SeqSumType
  <2>6. LineSize(k) = StringSize(Lines[k].key) + 10
          + SumFunction([i \in 1..Len(s) |-> 1 + StringSize(s[i].name) + ScalarSize(s[i])])
    BY <2>1, <2>2, <2>3 DEF LineSize, SumOver, v
  <2> QED
    BY <1>3, <2>5, <2>6
<1> QED
  BY <1>2, <1>4, <1>5, <1>6 DEF Values

\* What a database and a file are put out as.
DbOuts == [name : DOMAIN Names, count : Nat, lines : SUBSET Keys]
Outs   == [passwords : 0..MaxPasswords, dbs : Seq(DbOuts)]

LinesSize(S) == SumFunctionOnSet([k \in Keys |-> LineSize(k)], S)
Total(dbs)   == SumFunction([i \in DOMAIN dbs |-> DbSize(dbs[i])])

LEMMA KeysFinite ==
    /\ Keys \subseteq Nat \ {0}
    /\ \A S \in SUBSET Keys : IsFiniteSet(S) /\ Cardinality(S) \in Nat
<1>1. PICK R : R = [key : Nat, value : Values]
  OBVIOUS
<1>2. Lines \in Seq(R)
  BY <1>1, SaveFileAssumption
<1>3. Len(Lines) \in Nat /\ Keys = 1..Len(Lines)
  BY <1>2, LenProperties DEF Keys
<1>4. IsFiniteSet(Keys)
  BY <1>3, FS_Interval
<1>5. Keys \subseteq Nat \ {0}
  BY <1>3
<1>6. ASSUME NEW S \in SUBSET Keys PROVE IsFiniteSet(S) /\ Cardinality(S) \in Nat
  BY <1>4, FS_Subset, FS_CardinalityType
<1> QED
  BY <1>5, <1>6

LEMMA LinesSizeType ==
    ASSUME NEW S \in SUBSET Keys
    PROVE  LinesSize(S) \in Nat
<1>1. PICK f : f = [k \in Keys |-> LineSize(k)]
  OBVIOUS
<1>2. \A x \in S : f[x] \in Nat
  BY <1>1, LineSizeType
<1>3. SumFunctionOnSet(f, S) \in Nat
  BY <1>2, KeysFinite, SumType
<1> QED
  BY <1>1, <1>3 DEF LinesSize

LEMMA LinesSizeAdd ==
    ASSUME NEW S \in SUBSET Keys, NEW k \in Keys \ S
    PROVE  LinesSize(S \cup {k}) = LinesSize(S) + LineSize(k)
<1>1. PICK f : f = [l \in Keys |-> LineSize(l)]
  OBVIOUS
<1>2. (\A x \in S \cup {k} : f[x] \in Nat) /\ f[k] = LineSize(k)
  BY <1>1, LineSizeType
<1>3. SumFunctionOnSet(f, S \cup {k}) = SumFunctionOnSet(f, S) + f[k]
  BY <1>2, KeysFinite, SumAddElement
<1> QED
  BY <1>1, <1>2, <1>3 DEF LinesSize

\* The size of a database does not depend on its count.
LEMMA DbSizeType ==
    ASSUME NEW db, db.name \in DOMAIN Names, db.lines \in SUBSET Keys
    PROVE  /\ DbSize(db) = NameSize(db.name) + LinesSize(db.lines)
           /\ DbSize(db) \in Nat /\ DbSize(db) >= 9 /\ NameSize(db.name) \in Nat
<1>1. DbSize(db) = NameSize(db.name) + LinesSize(db.lines)
  BY DEF DbSize, LinesSize
<1>2. Names[db.name] \in Nat
  BY SaveFileAssumption
<1>3. NameSize(db.name) \in Nat /\ NameSize(db.name) >= 9
  BY <1>2, StringSizeType DEF NameSize
<1> QED
  BY <1>1, <1>3, LinesSizeType

\* Sequences of databases, with or without counts.
Sized(dbs) ==
    /\ Len(dbs) \in Nat /\ DOMAIN dbs = 1..Len(dbs)
    /\ \A i \in 1..Len(dbs) : dbs[i].name \in DOMAIN Names /\ dbs[i].lines \in SUBSET Keys

LEMMA SizedOuts ==
    ASSUME NEW dbs \in Seq(DbOuts)
    PROVE  Sized(dbs)
<1>1. Len(dbs) \in Nat /\ DOMAIN dbs = 1..Len(dbs) /\ \A i \in 1..Len(dbs) : dbs[i] \in DbOuts
  BY LenProperties, ElementOfSeq
<1> QED
  BY <1>1 DEF Sized, DbOuts

LEMMA TotalType ==
    ASSUME NEW dbs, Sized(dbs)
    PROVE  Total(dbs) \in Nat
<1>1. PICK f : f = [i \in DOMAIN dbs |-> DbSize(dbs[i])]
  OBVIOUS
<1>2. f \in [1..Len(dbs) -> Nat]
  BY <1>1, DbSizeType DEF Sized
<1>3. SumFunction(f) \in Nat
  BY <1>2, SeqSumType DEF Sized
<1> QED
  BY <1>1, <1>3 DEF Total

LEMMA TotalAgree ==
    ASSUME NEW r, NEW s, Sized(r), Sized(s), Len(r) = Len(s),
           \A i \in 1..Len(r) : r[i].name = s[i].name /\ r[i].lines = s[i].lines
    PROVE  Total(r) = Total(s)
<1>1. \A i \in 1..Len(r) : DbSize(r[i]) = DbSize(s[i])
  BY DEF DbSize
<1>2. [i \in DOMAIN r |-> DbSize(r[i])] = [i \in DOMAIN s |-> DbSize(s[i])]
  BY <1>1 DEF Sized
<1> QED
  BY <1>2 DEF Total

\* One database more at the end.
LEMMA TotalStep ==
    ASSUME NEW r, NEW s, Sized(r), Sized(s), Len(s) = Len(r) + 1,
           \A i \in 1..Len(r) : s[i] = r[i]
    PROVE  Total(s) = Total(r) + DbSize(s[Len(s)])
<1>1. PICK f, g : f = [i \in DOMAIN r |-> DbSize(r[i])] /\ g = [i \in DOMAIN s |-> DbSize(s[i])]
  OBVIOUS
<1>2. PICK n \in Nat : n = Len(r)
  BY DEF Sized
<1>3. n + 1 \notin 1..n /\ (1..n) \cup {n + 1} = 1..(n + 1) /\ IsFiniteSet(1..n)
  <2>1. IsFiniteSet(1..n)
    BY FS_Interval
  <2> QED
    BY <2>1
<1>4. DOMAIN f = 1..n /\ DOMAIN g = (1..n) \cup {n + 1} /\ g[n + 1] = DbSize(s[Len(s)])
  BY <1>1, <1>2, <1>3 DEF Sized
<1>5. \A i \in 1..n : f[i] = g[i]
  BY <1>1, <1>2, <1>3, <1>4 DEF Sized
<1>6. \A i \in (1..n) \cup {n + 1} : g[i] \in Nat
  <2>1. \A i \in 1..Len(s) : DbSize(s[i]) \in Nat
    BY DbSizeType DEF Sized
  <2> QED
    BY <1>1, <1>2, <1>4, <2>1 DEF Sized
<1>7. SumFunctionOnSet(g, (1..n) \cup {n + 1}) = SumFunctionOnSet(g, 1..n) + g[n + 1]
  <2>1. PICK S, z : S = 1..n /\ z = n + 1
    OBVIOUS
  <2>2. IsFiniteSet(S) /\ z \notin S /\ \A x \in S \cup {z} : g[x] \in Nat
    BY <1>3, <1>6, <2>1
  <2>3. SumFunctionOnSet(g, S \cup {z}) = SumFunctionOnSet(g, S) + g[z]
    BY <2>2, SumAddElement
  <2> QED
    BY <2>1, <2>3
<1>8. SumFunctionOnSet(f, 1..n) = SumFunctionOnSet(g, 1..n)
  BY <1>3, <1>5, SumAgree
<1>9. Total(r) = SumFunctionOnSet(f, 1..n) /\ Total(s) = SumFunctionOnSet(g, (1..n) \cup {n + 1})
  BY <1>1, <1>4 DEF Total, SumFunction
<1> QED
  BY <1>4, <1>7, <1>8, <1>9

\* The header and the passwords; up to one password is counted rightly.
LEMMA HeadSizeType ==
    ASSUME NEW n \in Nat
    PROVE  /\ HeadSize(n) \in Nat /\ HeadSize(n) >= 7
           /\ HeadCounted(n) \in Nat
           /\ n <= 1 => HeadCounted(n) = HeadSize(n)
<1>1. PICK b \in Nat : b = BitCount(n)
  BY BitCountType
<1>2. HeadSize(n) = 7 + b + 49 * n
  BY <1>1 DEF HeadSize
<1>3. HeadCounted(n) = IF n = 0 THEN 7 ELSE n * (7 + b) + 49 * ((n * (n + 1)) \div 2)
  BY <1>1 DEF HeadCounted
<1>4. HeadCounted(n) \in Nat
  <2>1. n * (7 + b) \in Nat /\ n * (n + 1) \in Nat
    OBVIOUS
  <2>2. PICK m \in Nat : m = n * (n + 1)
    BY <2>1
  <2>3. m \div 2 \in Nat
    OBVIOUS
  <2> QED
    BY <1>3, <2>1, <2>2, <2>3
<1>5. CASE n = 0
  <2>1. b = 0
    BY <1>1, <1>5 DEF BitCount
  <2> QED
    BY <1>2, <1>3, <1>5, <2>1
<1>6. CASE n = 1
  <2>1. 1 * (7 + b) + 49 * ((1 * (1 + 1)) \div 2) = 7 + b + 49 * 1
    OBVIOUS
  <2> QED
    BY <1>2, <1>3, <1>6, <2>1
<1> QED
  BY <1>2, <1>4, <1>5, <1>6

LEMMA SizeSplit ==
    ASSUME NEW out, out.passwords \in Nat, Sized(out.dbs)
    PROVE  /\ Size(out) = HeadSize(out.passwords) + Total(out.dbs)
           /\ Size(out) \in Nat /\ Size(out) >= 7
<1>1. Size(out) = HeadSize(out.passwords) + Total(out.dbs)
  BY DEF Size, SumOver, Total
<1> QED
  BY <1>1, HeadSizeType, TotalType

LEMMA OutParts ==
    ASSUME NEW out \in Outs
    PROVE  out.passwords \in Nat /\ out.dbs \in Seq(DbOuts) /\ Sized(out.dbs)
<1>1. out.passwords \in 0..MaxPasswords /\ out.dbs \in Seq(DbOuts)
  BY DEF Outs
<1> QED
  BY <1>1, SizedOuts

\* A save that has put out no database yet.
LEMMA SizeHead ==
    ASSUME NEW n \in 0..MaxPasswords
    PROVE  /\ [passwords |-> n, dbs |-> << >>] \in Outs
           /\ Size([passwords |-> n, dbs |-> << >>]) = HeadSize(n)
<1>1. << >> \in Seq(DbOuts) /\ Len(<< >>) = 0 /\ DOMAIN << >> = {}
  BY EmptySeq
<1>2. PICK out : out = [passwords |-> n, dbs |-> << >>]
  OBVIOUS
<1>3. out \in Outs /\ out.passwords = n /\ out.dbs = << >>
  BY <1>1, <1>2 DEF Outs
<1>4. Total(<< >>) = 0
  BY <1>1, SumEmpty DEF Total, SumFunction
<1>5. Size(out) = HeadSize(n) + 0
  BY <1>3, <1>4, OutParts, SizeSplit
<1> QED
  BY <1>2, <1>3, <1>5, HeadSizeType

\* Putting out the count and the name of a database.
LEMMA SizeNextDb ==
    ASSUME NEW out \in Outs, NEW db \in DbOuts, db.lines = {}
    PROVE  LET new == [out EXCEPT !.dbs = Append(@, db)]
           IN  /\ new \in Outs /\ new.passwords = out.passwords /\ new.dbs = Append(out.dbs, db)
               /\ Size(new) = Size(out) + NameSize(db.name)
<1>1. PICK s : s = Append(out.dbs, db)
  OBVIOUS
<1>2. out.dbs \in Seq(DbOuts) /\ Sized(out.dbs) /\ out.passwords \in Nat
  BY OutParts
<1>3. /\ s \in Seq(DbOuts) /\ Len(s) = Len(out.dbs) + 1 /\ s[Len(s)] = db
      /\ \A i \in 1..Len(out.dbs) : s[i] = out.dbs[i]
  BY <1>1, <1>2, AppendProperties
<1>4. PICK new : new = [out EXCEPT !.dbs = s]
  OBVIOUS
<1>5. new \in Outs /\ new.passwords = out.passwords /\ new.dbs = s
  BY <1>3, <1>4 DEF Outs
<1>6. Sized(s)
  BY <1>3, SizedOuts
<1>7. Total(s) = Total(out.dbs) + DbSize(db)
  BY <1>2, <1>3, <1>6, TotalStep
<1>8. DbSize(db) = NameSize(db.name) + 0 /\ NameSize(db.name) \in Nat
  <2>1. db.name \in DOMAIN Names /\ db.lines \in SUBSET Keys /\ LinesSize(db.lines) = 0
    BY SumEmpty DEF DbOuts, LinesSize
  <2> QED
    BY <2>1, DbSizeType
<1>9. Size(new) = Size(out) + NameSize(db.name)
  <2>1. Size(new) = HeadSize(out.passwords) + Total(s)
    BY <1>2, <1>5, <1>6, SizeSplit
  <2>2. Size(out) = HeadSize(out.passwords) + Total(out.dbs)
    BY <1>2, SizeSplit
  <2>3. HeadSize(out.passwords) \in Nat /\ Total(out.dbs) \in Nat
    BY <1>2, HeadSizeType, TotalType
  <2> QED
    BY <1>7, <1>8, <2>1, <2>2, <2>3
<1> QED
  BY <1>1, <1>4, <1>5, <1>9

\* Putting out a line of the last database.
WithLine(out, k) == [out EXCEPT !.dbs[Len(out.dbs)].lines = @ \cup {k}]

LEMMA SizeNextLine ==
    ASSUME NEW out \in Outs, Len(out.dbs) # 0, NEW k \in Keys, k \notin out.dbs[Len(out.dbs)].lines
    PROVE  /\ WithLine(out, k) \in Outs /\ WithLine(out, k).passwords = out.passwords
           /\ Len(WithLine(out, k).dbs) = Len(out.dbs)
           /\ \A i \in 1..(Len(out.dbs) - 1) : WithLine(out, k).dbs[i] = out.dbs[i]
           /\ WithLine(out, k).dbs[Len(out.dbs)].name = out.dbs[Len(out.dbs)].name
           /\ WithLine(out, k).dbs[Len(out.dbs)].count = out.dbs[Len(out.dbs)].count
           /\ WithLine(out, k).dbs[Len(out.dbs)].lines = out.dbs[Len(out.dbs)].lines \cup {k}
           /\ Size(WithLine(out, k)) = Size(out) + LineSize(k)
<1>0. PICK n, L, db, s, new :
        /\ n = Len(out.dbs) /\ L = out.dbs[n].lines \cup {k} /\ db = [out.dbs[n] EXCEPT !.lines = L]
        /\ s = [out.dbs EXCEPT ![n] = db] /\ new = [out EXCEPT !.dbs = s]
  OBVIOUS
<1>1. out.dbs \in Seq(DbOuts) /\ Sized(out.dbs) /\ out.passwords \in Nat
  BY OutParts
<1>2. n \in Nat \ {0} /\ n \in DOMAIN out.dbs /\ out.dbs[n] \in DbOuts
  BY <1>0, <1>1, ElementOfSeq DEF Sized
<1>3. db = [out.dbs[n] EXCEPT !.lines = L] /\ L \in SUBSET Keys
  BY <1>0, <1>2 DEF DbOuts
<1>4. db \in DbOuts /\ db.name = out.dbs[n].name /\ db.lines = out.dbs[n].lines \cup {k}
  BY <1>0, <1>2, <1>3 DEF DbOuts
<1>5. s = [out.dbs EXCEPT ![n] = db]
  BY <1>0
<1>6. /\ s \in Seq(DbOuts) /\ Len(s) = n /\ s[n] = db
      /\ \A i \in 1..(n - 1) : s[i] = out.dbs[i]
  <2>1. s = [out.dbs EXCEPT ![n] = db] /\ n = Len(out.dbs)
    BY <1>0
  <2>2. s \in Seq(DbOuts) /\ Len(s) = Len(out.dbs) /\ \A i \in 1..Len(out.dbs) : s[i] = IF i = n THEN db ELSE out.dbs[i]
    BY ONLY <1>1, <1>2, <1>4, <2>1, ExceptSeq
  <2> QED
    BY ONLY <1>2, <2>1, <2>2
<1>7. new = [out EXCEPT !.dbs = s] /\ new = WithLine(out, k)
  BY <1>0, <1>2 DEF Outs, WithLine
<1>8. new \in Outs /\ new.passwords = out.passwords /\ new.dbs = s
  BY <1>6, <1>7 DEF Outs
<1>9. PICK r : r = SubSeq(out.dbs, 1, n - 1)
  OBVIOUS
<1>10. /\ r \in Seq(DbOuts) /\ n = Len(r) + 1
       /\ \A i \in 1..Len(r) : s[i] = r[i] /\ out.dbs[i] = r[i]
  BY <1>1, <1>2, <1>6, <1>9, SubSeqProperties
<1>11. Sized(r) /\ Sized(s)
  BY <1>6, <1>10, SizedOuts
<1>12. Total(s) = Total(r) + DbSize(db) /\ Total(out.dbs) = Total(r) + DbSize(out.dbs[n])
  <2>1. Total(s) = Total(r) + DbSize(s[Len(s)])
    BY <1>6, <1>10, <1>11, TotalStep
  <2>2. PICK o : o = out.dbs
    OBVIOUS
  <2>3. Sized(o) /\ Len(o) = Len(r) + 1 /\ \A i \in 1..Len(r) : o[i] = r[i]
    BY <1>0, <1>1, <1>10, <2>2
  <2>4. Total(o) = Total(r) + DbSize(o[Len(o)])
    BY <1>11, <2>3, TotalStep
  <2> QED
    BY <1>0, <1>6, <2>1, <2>2, <2>3, <2>4
<1>13. DbSize(db) = DbSize(out.dbs[n]) + LineSize(k) /\ DbSize(out.dbs[n]) \in Nat /\ LineSize(k) \in Nat
  <2>1. out.dbs[n].name \in DOMAIN Names /\ out.dbs[n].lines \in SUBSET Keys
    BY <1>0, <1>2 DEF DbOuts
  <2>2. db.name \in DOMAIN Names /\ db.lines \in SUBSET Keys
    BY <1>4 DEF DbOuts
  <2>3. LinesSize(db.lines) = LinesSize(out.dbs[n].lines) + LineSize(k)
    <3>1. PICK S : S = out.dbs[n].lines
      OBVIOUS
    <3>2. S \in SUBSET Keys /\ k \in Keys \ S /\ db.lines = S \cup {k}
      BY <1>0, <1>4, <2>1, <3>1
    <3> QED
      BY <3>1, <3>2, LinesSizeAdd
  <2> QED
    <3>1. PICK o : o = out.dbs[n]
      OBVIOUS
    <3>2. /\ DbSize(o) = NameSize(o.name) + LinesSize(o.lines)
          /\ DbSize(o) \in Nat /\ NameSize(o.name) \in Nat
      BY <2>1, <3>1, DbSizeType
    <3>3. DbSize(db) = NameSize(db.name) + LinesSize(db.lines)
      BY <2>2, DbSizeType
    <3>4. LinesSize(o.lines) \in Nat /\ LineSize(k) \in Nat
      BY <2>1, <3>1, LinesSizeType, LineSizeType
    <3> QED
      BY <1>4, <2>3, <3>1, <3>2, <3>3, <3>4
<1>14. Size(new) = Size(out) + LineSize(k)
  <2>1. Size(new) = HeadSize(out.passwords) + Total(s)
    BY <1>1, <1>8, <1>11, SizeSplit
  <2>2. Size(out) = HeadSize(out.passwords) + Total(out.dbs)
    BY <1>1, SizeSplit
  <2>3. HeadSize(out.passwords) \in Nat /\ Total(r) \in Nat
    BY <1>1, <1>11, HeadSizeType, TotalType
  <2> QED
    BY <1>12, <1>13, <2>1, <2>2, <2>3
<1> QED
  <2>1. db.count = out.dbs[n].count
    BY <1>2, <1>3 DEF DbOuts
  <2> QED
    BY <1>0, <1>4, <1>6, <1>7, <1>8, <1>14, <2>1

-----------------------------------------------------------------------------
(***************************************************************************)
(* The inductive invariant.                                                *)
(***************************************************************************)

PCs == {"idle", "test", "begin", "databases", "lines", "interrupt", "final", "truncate", "close", "exit"}
Dbs == [name : DOMAIN Names, keys : SUBSET Keys]

Call(s) ==
    s \in [pc : PCs, out : Outs, block_size : Nat, size : Nat, cursor : Nat,
           room : {s.room}, freed : BOOLEAN, alone : BOOLEAN]

Multiple(n) == \E q \in 0..n : n = q * Capacity

Typed ==
    /\ databases \in Seq(Dbs) /\ passwords \in 0..MaxPasswords
    /\ saving \in BOOLEAN /\ fd \in {"open", "closed"} /\ mode \in {"up", "down"}
    /\ offset \in Nat /\ Multiple(offset)
    /\ file \in [head : SUBSET Outs, valid : Nat, size : Nat] /\ file.valid <= Capacity
    /\ saver = [t \in Threads |-> saver[t]] /\ \A t \in Threads : Call(saver[t])
    /\ mode = "down" => \A t \in Threads : saver[t] = Idle

\* Where the iterations over the databases and over the lines of one are.  The
\* databases only grow in number while the process lives.
Placed(t) ==
    LET s == saver[t]
    IN  /\ s.pc = "databases" => s.cursor = Len(s.out.dbs) + 1 /\ Len(s.out.dbs) <= Len(databases)
        /\ s.pc \in {"lines", "interrupt"} =>
              /\ Len(s.out.dbs) # 0 /\ Len(s.out.dbs) <= Len(databases)
              /\ \A l \in s.out.dbs[Len(s.out.dbs)].lines : l <= s.cursor
        /\ s.pc = "interrupt" => s.alone = FALSE

\* The size counted is that of what was put out, of which all but the block that
\* is being filled are whole blocks.
Counted(t) ==
    LET s == saver[t]
    IN  Busy(t) => /\ s.out.passwords <= 1 => s.size = Size(s.out)
                   /\ s.block_size >= 1 /\ s.block_size <= Size(s.out)
                   /\ Multiple(Size(s.out) - s.block_size)

Counting == Typed /\ \A t \in Threads : Placed(t) /\ Counted(t)

\* A save that nobody has disturbed is the only one, and has put out what the
\* server holds as far as it has come; the file has the blocks that are full and,
\* in the end, if all fits into one block, that one.
PutOut(s) ==
    /\ s.out.passwords = passwords
    /\ Len(s.out.dbs) <= Len(databases)
    /\ \A d \in 1..Len(s.out.dbs) :
          /\ s.out.dbs[d].name = databases[d].name
          /\ s.out.dbs[d].count = Cardinality(databases[d].keys)
          /\ s.out.dbs[d].lines = IF s.pc = "lines" /\ d = Len(s.out.dbs)
                                  THEN {k \in databases[d].keys : k <= s.cursor}
                                  ELSE databases[d].keys
    /\ s.pc \in {"final", "truncate"} => Len(s.out.dbs) = Len(databases)

Blocks(s) ==
    /\ s.pc # "truncate" => offset + s.block_size = Size(s.out)
    /\ s.pc = "truncate" /\ Size(s.out) < Capacity => file.head = {s.out} /\ file.valid = Size(s.out)

Undisturbed(t) ==
    Busy(t) /\ saver[t].alone =>
        /\ \A u \in Threads : Busy(u) => u = t
        /\ PutOut(saver[t]) /\ Blocks(saver[t])

\* What a save that is not disturbed puts out in all.
Whole(data) ==
    [passwords |-> data.passwords,
     dbs |-> [d \in DOMAIN data.databases |->
                [name |-> data.databases[d].name, count |-> Cardinality(data.databases[d].keys),
                 lines |-> data.databases[d].keys]]]

\* What was saved is in the file as it was put out, if it fits into a block and is
\* counted rightly; nobody has written since, and who is saving starts at offset 0.
HasInitial(dbs) == \E d \in DOMAIN dbs : dbs[d].name = Initial

InFile(data) ==
    /\ data \in [databases : Seq(Dbs), passwords : 0..MaxPasswords] /\ HasInitial(data.databases)
    /\ data.passwords <= 1 /\ Size(Whole(data)) < Capacity =>
          file.head = {Whole(data)} /\ file.valid = Size(Whole(data)) /\ file.size = Size(Whole(data))

Kept ==
    /\ \A data \in saved : InFile(data)
    /\ saved # {} => \A t \in Threads : Busy(t) => offset = 0

Saving ==
    /\ Counting
    /\ \A t \in Threads : Undisturbed(t)
    /\ Kept
    /\ mode = "up" => HasInitial(databases)

-----------------------------------------------------------------------------
(***************************************************************************)
(* Facts that the steps share.                                             *)
(***************************************************************************)

LEMMA Constants ==
    /\ Capacity \in Nat \ {0} /\ MaxPasswords \in Nat
    /\ Tx \in Threads /\ Main \in Threads /\ Background \subseteq Threads
  BY SaveFileAssumption DEF Threads

LEMMA IdleType ==
    /\ Call(Idle) /\ Idle.pc = "idle" /\ Idle.alone = FALSE
    /\ \A p \in PCs : Call([Idle EXCEPT !.pc = p]) /\ [Idle EXCEPT !.pc = p].pc = p
    /\ \A t : Call(Returned(t)) /\ Returned(t).pc \in {"idle", "close"}
<1>1. [passwords |-> 0, dbs |-> << >>] \in Outs
  <2>1. 0 \in 0..MaxPasswords
    BY Constants
  <2> QED
    BY <2>1, SizeHead
<1>2. Call(Idle) /\ Idle.pc = "idle" /\ Idle.alone = FALSE
  BY <1>1 DEF Call, Idle, PCs
<1>3. \A p \in PCs : Call([Idle EXCEPT !.pc = p]) /\ [Idle EXCEPT !.pc = p].pc = p
  BY <1>1 DEF Call, Idle, PCs
<1>4. \A t : Call(Returned(t)) /\ Returned(t).pc \in {"idle", "close"}
  BY <1>2, <1>3 DEF Returned, PCs
<1> QED
  BY <1>2, <1>3, <1>4

\* A thread's call changes, the others' do not.
LEMMA MoveType ==
    ASSUME Typed, NEW t \in Threads, NEW s, Call(s), saver' = [saver EXCEPT ![t] = s]
    PROVE  /\ saver' = [u \in Threads |-> saver'[u]] /\ \A u \in Threads : Call(saver'[u])
           /\ saver'[t] = s /\ \A u \in Threads \ {t} : saver'[u] = saver[u]
<1>1. saver'[t] = s /\ (\A u \in Threads \ {t} : saver'[u] = saver[u])
  BY DEF Typed
<1>2. \A u \in Threads : Call(saver'[u])
  BY <1>1 DEF Typed
<1>3. saver' = [u \in Threads |-> saver'[u]]
  BY DEF Typed
<1> QED
  BY <1>1, <1>2, <1>3

\* The fields of a call.
LEMMA CallFields ==
    ASSUME NEW s, Call(s)
    PROVE  /\ s.pc \in PCs /\ s.out \in Outs /\ s.block_size \in Nat /\ s.size \in Nat
           /\ s.cursor \in Nat /\ s.alone \in BOOLEAN
           /\ s.out.dbs \in Seq(DbOuts) /\ s.out.passwords \in Nat /\ Size(s.out) \in Nat
           /\ Len(s.out.dbs) \in Nat
<1>1. /\ s.pc \in PCs /\ s.out \in Outs /\ s.block_size \in Nat /\ s.size \in Nat
      /\ s.cursor \in Nat /\ s.alone \in BOOLEAN
  BY DEF Call
<1>2. s.out.dbs \in Seq(DbOuts) /\ s.out.passwords \in Nat /\ Sized(s.out.dbs)
  BY <1>1, OutParts
<1>3. Size(s.out) \in Nat /\ Len(s.out.dbs) \in Nat
  BY <1>2, SizeSplit, LenProperties
<1> QED
  BY <1>1, <1>2, <1>3

LEMMA GotoIs ==
    ASSUME Typed, NEW t \in Threads, NEW p \in PCs, Goto(t, p)
    PROVE  /\ saver' = [saver EXCEPT ![t] = [saver[t] EXCEPT !.pc = p]]
           /\ Call([saver[t] EXCEPT !.pc = p]) /\ [saver[t] EXCEPT !.pc = p].pc = p
<1>1. Call(saver[t])
  BY DEF Typed
<1>2. Call([saver[t] EXCEPT !.pc = p]) /\ [saver[t] EXCEPT !.pc = p].pc = p
  BY <1>1 DEF Call
<1>3. saver' = [saver EXCEPT ![t] = [saver[t] EXCEPT !.pc = p]]
  BY DEF Goto, Typed
<1> QED
  BY <1>2, <1>3

LEMMA InitSaving == Init => Saving
<1> SUFFICES ASSUME Init PROVE Saving
  OBVIOUS
<1> USE DEF Init
<1>1. \A t \in Threads : saver[t] = Idle
  OBVIOUS
<1>2. Typed
  <2>1. databases \in Seq(Dbs) /\ passwords \in 0..MaxPasswords
    <3>1. [name |-> Initial, keys |-> {}] \in Dbs
      BY SaveFileAssumption DEF Dbs
    <3>2. << [name |-> Initial, keys |-> {}] >> \in Seq(Dbs)
      BY <3>1
    <3> QED
      BY <3>2, Constants DEF Empty
  <2>2. offset \in Nat /\ Multiple(offset)
    BY Constants DEF Multiple
  <2>3. file \in [head : SUBSET Outs, valid : Nat, size : Nat] /\ file.valid <= Capacity
    BY Constants
  <2>4. saver = [t \in Threads |-> saver[t]] /\ \A t \in Threads : Call(saver[t])
    BY IdleType
  <2> QED
    BY <2>1, <2>2, <2>3, <2>4 DEF Typed
<1>3. \A t \in Threads : ~Busy(t) /\ Placed(t)
  BY <1>1, IdleType DEF Busy, Placed
<1>4. HasInitial(databases)
  BY DEF HasInitial, Empty
<1> QED
  BY <1>2, <1>3, <1>4 DEF Saving, Counting, Counted, Undisturbed, Kept

-----------------------------------------------------------------------------
(***************************************************************************)
(* Steps outside of the saving itself.                                     *)
(***************************************************************************)

BusyPCs == {"databases", "lines", "interrupt", "final", "truncate"}

\* A call that puts nothing out changes, and the flag and the descriptor may.
LEMMA QuietStep ==
    ASSUME Saving, NEW t \in Threads, NEW s, Call(s), s.pc \notin BusyPCs,
           saver' = [saver EXCEPT ![t] = s], mode = "up",
           saving' \in BOOLEAN, fd' \in {"open", "closed"},
           UNCHANGED <<databases, passwords, offset, file, mode, saved>>
    PROVE  Saving'
<1>1. Typed
  BY DEF Saving, Counting
<1>2. /\ saver' = [u \in Threads |-> saver'[u]] /\ \A u \in Threads : Call(saver'[u])
      /\ saver'[t] = s /\ \A u \in Threads \ {t} : saver'[u] = saver[u]
  BY <1>1, MoveType
<1>3. Typed'
  BY <1>1, <1>2 DEF Typed, Multiple
<1>4. ~Busy(t)' /\ Placed(t)'
  BY <1>2 DEF Busy, BusyPCs, Placed
<1>5. \A u \in Threads \ {t} : (Busy(u)' <=> Busy(u)) /\ (Placed(u)' <=> Placed(u))
                                /\ (Counted(u)' <=> Counted(u))
  BY <1>2 DEF Busy, Placed, Counted
<1>6. \A u \in Threads : Placed(u)' /\ Counted(u)'
  BY <1>4, <1>5 DEF Saving, Counting, Counted
<1>7. ASSUME NEW u \in Threads PROVE Undisturbed(u)'
  <2>1. CASE u = t
    BY <1>4, <2>1 DEF Undisturbed
  <2>2. CASE u # t
    <3>1. Undisturbed(u) /\ saver'[u] = saver[u] /\ (Busy(u)' <=> Busy(u))
      BY <1>2, <1>5, <2>2 DEF Saving
    <3>2. \A v \in Threads : Busy(v)' => Busy(v)
      BY <1>4, <1>5
    <3>3. PutOut(saver[u]) => PutOut(saver[u])'
      <4>1. saver'[u] = saver[u] /\ databases' = databases /\ passwords' = passwords
        BY <3>1
      <4> QED
        BY ONLY <4>1 DEF PutOut
    <3>4. Blocks(saver[u]) => Blocks(saver[u])'
      BY <3>1 DEF Blocks
    <3> QED
      BY <3>1, <3>2, <3>3, <3>4 DEF Undisturbed
  <2> QED
    BY <2>1, <2>2
<1>8. Kept'
  <2>1. \A v \in Threads : Busy(v)' => Busy(v)
    BY <1>4, <1>5
  <2> QED
    BY <2>1 DEF Saving, Kept, InFile, HasInitial
<1>9. (mode = "up" => HasInitial(databases))'
  BY DEF Saving, HasInitial
<1> QED
  BY <1>3, <1>6, <1>7, <1>8, <1>9 DEF Saving, Counting

\* The process ends: nothing but the file is left.
LEMMA DieStep ==
    ASSUME Saving, Die
    PROVE  Saving'
<1>1. Typed
  BY DEF Saving, Counting
<1>2. saver' = [t \in Threads |-> Idle]
  BY DEF Die
<1>3. \A t \in Threads : saver'[t] = Idle /\ ~Busy(t)' /\ Placed(t)'
  BY <1>2, IdleType DEF Busy, Placed
<1>4. Typed'
  <2>1. databases' \in Seq(Dbs) /\ passwords' \in 0..MaxPasswords
    BY Constants DEF Die
  <2>2. offset' \in Nat /\ Multiple(offset)'
    BY Constants DEF Die, Multiple
  <2>3. file' = file /\ saving' \in BOOLEAN /\ fd' \in {"open", "closed"} /\ mode' \in {"up", "down"}
    BY DEF Die
  <2>4. saver' = [t \in Threads |-> saver'[t]] /\ \A t \in Threads : Call(saver'[t])
    BY <1>2, <1>3, IdleType
  <2> QED
    BY <1>1, <1>3, <2>1, <2>2, <2>3, <2>4 DEF Typed
<1>5. Kept'
  BY <1>3 DEF Saving, Kept, InFile, Die, HasInitial
<1>6. mode' # "up"
  BY DEF Die
<1> QED
  BY <1>3, <1>4, <1>5, <1>6 DEF Saving, Counting, Counted, Undisturbed

\* A command changes the data: whoever is saving has been disturbed.
LEMMA DisturbStep ==
    ASSUME Saving, Disturb, mode = "up",
           databases' \in Seq(Dbs), passwords' \in 0..MaxPasswords,
           Len(databases) <= Len(databases'), HasInitial(databases'),
           UNCHANGED <<saving, fd, offset, file, mode, saved>>
    PROVE  Saving'
<1>1. Typed
  BY DEF Saving, Counting
<1>2. ASSUME NEW t \in Threads
      PROVE  /\ Call(saver'[t]) /\ saver'[t].alone = FALSE
             /\ saver'[t].pc = saver[t].pc /\ saver'[t].out = saver[t].out
             /\ saver'[t].size = saver[t].size /\ saver'[t].block_size = saver[t].block_size
             /\ saver'[t].cursor = saver[t].cursor
  <2>1. saver'[t] = [saver[t] EXCEPT !.alone = FALSE] /\ Call(saver[t])
    BY <1>1 DEF Disturb, Typed
  <2> QED
    BY <2>1 DEF Call
<1>3. Typed'
  <2>1. saver' = [t \in Threads |-> saver'[t]]
    BY DEF Disturb
  <2> QED
    BY <1>1, <1>2, <2>1 DEF Typed, Multiple
<1>4. \A t \in Threads : Busy(t)' <=> Busy(t)
  BY <1>2 DEF Busy
<1>5. ASSUME NEW t \in Threads PROVE Placed(t)' /\ Counted(t)'
  <2>1. Placed(t) /\ Counted(t)
    BY DEF Saving, Counting
  <2>2. Counted(t)'
    BY <1>2, <1>4, <2>1 DEF Counted
  <2>3. Len(databases) \in Nat /\ Len(databases') \in Nat /\ Len(saver[t].out.dbs) \in Nat
    <3>1. Call(saver[t]) /\ databases \in Seq(Dbs)
      BY <1>1 DEF Typed
    <3> QED
      BY <3>1, LenProperties, CallFields
  <2>4. Placed(t)'
    <3>1. /\ saver'[t].pc = saver[t].pc /\ saver'[t].out = saver[t].out
          /\ saver'[t].cursor = saver[t].cursor /\ saver'[t].alone = FALSE
      BY <1>2
    <3>2. CASE saver[t].pc = "databases"
      BY <2>1, <2>3, <3>1, <3>2 DEF Placed
    <3>3. CASE saver[t].pc \in {"lines", "interrupt"}
      BY <2>1, <2>3, <3>1, <3>3 DEF Placed
    <3> QED
      BY <3>1, <3>2, <3>3 DEF Placed
  <2> QED
    BY <2>2, <2>4
<1>6. Kept'
  BY <1>4 DEF Saving, Kept, InFile, HasInitial
<1> QED
  BY <1>2, <1>3, <1>5, <1>6 DEF Saving, Counting, Undisturbed

LEMMA FirstDbsType ==
    ASSUME NEW out \in Outs, NEW i \in 0..Len(out.dbs)
    PROVE  /\ FirstDbs(out, i) \in Outs /\ FirstDbs(out, i).passwords = out.passwords
           /\ FirstDbs(out, i).dbs = SubSeq(out.dbs, 1, i)
<1>1. PICK s : s = SubSeq(out.dbs, 1, i)
  OBVIOUS
<1>2. out.dbs \in Seq(DbOuts) /\ Len(out.dbs) \in Nat
  BY OutParts DEF Sized
<1>3. s \in Seq(DbOuts)
  BY <1>1, <1>2, SubSeqProperties
<1>4. FirstDbs(out, i) = [out EXCEPT !.dbs = s]
  BY <1>1 DEF FirstDbs
<1> QED
  BY <1>1, <1>3, <1>4 DEF Outs

LEMMA ContentType ==
    ASSUME NEW out \in Outs
    PROVE  /\ Content(out).databases \in Seq(Dbs) /\ Content(out).passwords \in 0..MaxPasswords
           /\ HasInitial(Content(out).databases)
<1>1. PICK dbs : dbs = [d \in DOMAIN out.dbs |-> [name |-> out.dbs[d].name, keys |-> out.dbs[d].lines]]
  OBVIOUS
<1>2. Len(out.dbs) \in Nat /\ DOMAIN out.dbs = 1..Len(out.dbs)
      /\ \A d \in 1..Len(out.dbs) : out.dbs[d].name \in DOMAIN Names /\ out.dbs[d].lines \in SUBSET Keys
  BY OutParts DEF Sized
<1>3. \A d \in 1..Len(out.dbs) : dbs[d] \in Dbs
  BY <1>1, <1>2 DEF Dbs
<1>4. dbs \in Seq(Dbs) /\ DOMAIN dbs = 1..Len(out.dbs)
  <2>1. dbs \in [1..Len(out.dbs) -> Dbs]
    BY <1>1, <1>2, <1>3
  <2> QED
    BY <1>2, <2>1, IsASeq
<1>5. PICK e : e = Empty.databases
  OBVIOUS
<1>6. e \in Seq(Dbs) /\ Len(e) = 1 /\ e[1].name = Initial
  <2>1. [name |-> Initial, keys |-> {}] \in Dbs
    BY SaveFileAssumption DEF Dbs
  <2>2. e = << [name |-> Initial, keys |-> {}] >>
    BY <1>5 DEF Empty
  <2> QED
    BY <2>1, <2>2
<1>7. dbs \o e \in Seq(Dbs) /\ HasInitial(dbs \o e)
  <2>1. dbs \o e \in Seq(Dbs) /\ Len(dbs \o e) = Len(dbs) + 1 /\ Len(dbs) \in Nat
        /\ (dbs \o e)[Len(dbs) + 1] = e[1]
    <3>1. Len(dbs) \in Nat
      BY <1>4, LenProperties
    <3>2. dbs \o e \in Seq(Dbs) /\ Len(dbs \o e) = Len(dbs) + Len(e)
          /\ \A i \in 1..(Len(dbs) + Len(e)) : (dbs \o e)[i] = IF i <= Len(dbs) THEN dbs[i] ELSE e[i - Len(dbs)]
      BY <1>4, <1>6, ConcatProperties
    <3> QED
      BY <1>6, <3>1, <3>2
  <2>2. Len(dbs) + 1 \in DOMAIN (dbs \o e)
    BY <2>1, LenProperties
  <2> QED
    BY <1>6, <2>1, <2>2 DEF HasInitial
<1>8. /\ Content(out).databases = IF HasInitial(dbs) THEN dbs ELSE dbs \o e
      /\ Content(out).passwords = out.passwords
  BY <1>1, <1>5 DEF Content, HasInitial
<1>9. out.passwords \in 0..MaxPasswords
  BY DEF Outs
<1> QED
  BY <1>4, <1>7, <1>8, <1>9

LEMMA LoadType ==
    ASSUME Typed, NEW data \in Load(file)
    PROVE  data.databases \in Seq(Dbs) /\ data.passwords \in 0..MaxPasswords /\ HasInitial(data.databases)
<1>1. CASE file.size = 0
  <2>1. data = Empty
    BY <1>1 DEF Load
  <2>2. [name |-> Initial, keys |-> {}] \in Dbs
    BY SaveFileAssumption DEF Dbs
  <2>3. data.databases = << [name |-> Initial, keys |-> {}] >> /\ data.passwords = 0
    BY <2>1 DEF Empty
  <2> QED
    BY <2>2, <2>3, Constants DEF HasInitial
<1>2. CASE file.size # 0
  <2>1. PICK out \in file.head : \E i \in 0..Len(out.dbs) : data = Content(FirstDbs(out, i))
    BY <1>2 DEF Load
  <2>2. out \in Outs
    BY DEF Typed
  <2>3. \A i \in 0..Len(out.dbs) : FirstDbs(out, i) \in Outs
    BY <2>2, FirstDbsType
  <2> QED
    BY <2>1, <2>3, ContentType
<1> QED
  BY <1>1, <1>2

LEMMA RestartStep ==
    ASSUME Saving, Restart
    PROVE  Saving'
<1>1. Typed
  BY DEF Saving, Counting
<1>2. databases' \in Seq(Dbs) /\ passwords' \in 0..MaxPasswords /\ HasInitial(databases')
  BY <1>1, LoadType DEF Restart
<1>3. saver' = saver /\ \A t \in Threads : saver[t] = Idle
  BY <1>1 DEF Typed, Restart
<1>4. Typed'
  BY <1>1, <1>2, <1>3 DEF Typed, Restart, Multiple
<1>5. \A t \in Threads : ~Busy(t)' /\ Placed(t)'
  BY <1>3, IdleType DEF Busy, Placed
<1>6. Kept'
  BY <1>5 DEF Saving, Kept, InFile, Restart, HasInitial
<1> QED
  BY <1>2, <1>4, <1>5, <1>6 DEF Saving, Counting, Counted, Undisturbed

LEMMA CommandSteps ==
    ASSUME Saving,
           \/ \E d \in DOMAIN databases, k \in Keys : InsertKey(d, k) \/ DeleteKey(d, k)
           \/ \E name \in DOMAIN Names : CreateDatabase(name)
           \/ \E n \in 0..MaxPasswords : ChangePasswords(n)
    PROVE  Saving'
<1>1. Typed /\ databases \in Seq(Dbs) /\ passwords \in 0..MaxPasswords
  BY DEF Saving, Counting, Typed
<1>2. DOMAIN databases = 1..Len(databases) /\ Len(databases) \in Nat
      /\ \A d \in DOMAIN databases : databases[d] \in Dbs
  BY <1>1, LenProperties, ElementOfSeq
<1>3. ASSUME NEW d \in DOMAIN databases, NEW k \in Keys, InsertKey(d, k) \/ DeleteKey(d, k)
      PROVE  Saving'
  <2>1. PICK K \in SUBSET Keys : databases' = [databases EXCEPT ![d].keys = K]
    <3>1. databases[d].keys \in SUBSET Keys
      BY <1>2 DEF Dbs
    <3>2. CASE InsertKey(d, k)
      BY <3>1, <3>2 DEF InsertKey
    <3>3. CASE DeleteKey(d, k)
      BY <3>1, <3>3 DEF DeleteKey
    <3> QED
      BY <1>3, <3>2, <3>3
  <2>2. /\ mode = "up" /\ Disturb
        /\ UNCHANGED <<passwords, saving, fd, offset, file, mode, saved>>
    BY <1>3 DEF InsertKey, DeleteKey, At
  <2>3. PICK db : db = [databases[d] EXCEPT !.keys = K]
    OBVIOUS
  <2>4. db \in Dbs /\ db.name = databases[d].name /\ databases' = [databases EXCEPT ![d] = db]
    BY <1>2, <2>1, <2>3 DEF Dbs
  <2>5. databases' \in Seq(Dbs) /\ Len(databases') = Len(databases)
        /\ \A e \in DOMAIN databases : databases'[e].name = databases[e].name
    BY <1>1, <1>2, <2>4, ExceptSeq
  <2>6. HasInitial(databases')
    <3>1. DOMAIN databases' = DOMAIN databases
      BY <2>4
    <3> QED
      BY <2>2, <2>5, <3>1 DEF Saving, HasInitial
  <2> QED
    BY <1>1, <1>2, <2>2, <2>5, <2>6, DisturbStep
<1>4. ASSUME NEW name \in DOMAIN Names, CreateDatabase(name)
      PROVE  Saving'
  <2>1. PICK db : db = [name |-> name, keys |-> {}]
    OBVIOUS
  <2>2. db \in Dbs /\ databases' = Append(databases, db)
    BY <1>4, <2>1 DEF Dbs, CreateDatabase
  <2>3. /\ databases' \in Seq(Dbs) /\ Len(databases') = Len(databases) + 1
        /\ \A d \in 1..Len(databases) : databases'[d] = databases[d]
    BY <1>1, <2>2, AppendProperties
  <2>4. mode = "up" /\ Disturb /\ UNCHANGED <<passwords, saving, fd, offset, file, mode, saved>>
    BY <1>4 DEF CreateDatabase, At
  <2>5. HasInitial(databases')
    <3>1. DOMAIN databases' = 1..(Len(databases) + 1)
      BY <2>3, LenProperties
    <3> QED
      BY <1>2, <2>3, <2>4, <3>1 DEF Saving, HasInitial
  <2> QED
    BY <1>1, <1>2, <2>3, <2>4, <2>5, DisturbStep
<1>5. ASSUME NEW n \in 0..MaxPasswords, ChangePasswords(n)
      PROVE  Saving'
  <2>1. /\ mode = "up" /\ Disturb /\ passwords' \in 0..MaxPasswords
        /\ UNCHANGED <<databases, saving, fd, offset, file, mode, saved>>
    BY <1>5 DEF ChangePasswords, At
  <2>2. HasInitial(databases') /\ Len(databases) <= Len(databases')
    BY <1>2, <2>1 DEF Saving
  <2> QED
    BY <1>1, <2>1, <2>2, DisturbStep
<1> QED
  BY <1>3, <1>4, <1>5

-----------------------------------------------------------------------------
(***************************************************************************)
(* The steps of a save.                                                    *)
(***************************************************************************)

\* What a step of a thread that is saving has to keep for itself.
LEMMA BusyStep ==
    ASSUME Saving, NEW t \in Threads, Busy(t), NEW s, Call(s),
           saver' = [saver EXCEPT ![t] = s], mode = "up",
           saving' \in BOOLEAN, offset' \in Nat, Multiple(offset'),
           file' \in [head : SUBSET Outs, valid : Nat, size : Nat], file'.valid <= Capacity,
           fd' \in {"open", "closed"}, UNCHANGED <<databases, passwords, mode>>,
           Placed(t)', Counted(t)', Kept',
           s.pc \in BusyPCs /\ s.alone => saver[t].alone /\ PutOut(s)' /\ Blocks(s)'
    PROVE  Saving'
<1>1. Typed
  BY DEF Saving, Counting
<1>2. /\ saver' = [u \in Threads |-> saver'[u]] /\ \A u \in Threads : Call(saver'[u])
      /\ saver'[t] = s /\ \A u \in Threads \ {t} : saver'[u] = saver[u]
  BY <1>1, MoveType
<1>3. Typed'
  BY <1>1, <1>2 DEF Typed
<1>4. \A u \in Threads \ {t} : (Busy(u)' <=> Busy(u))
  BY <1>2 DEF Busy
<1>5. ASSUME NEW u \in Threads PROVE Placed(u)' /\ Counted(u)'
  <2>1. CASE u = t
    BY <2>1
  <2>2. CASE u # t
    <3>1. Placed(u) /\ Counted(u) /\ saver'[u] = saver[u]
      BY <1>2, <2>2 DEF Saving, Counting
    <3>2. Placed(u)'
      BY <3>1 DEF Placed
    <3>3. Counted(u)'
      BY <3>1 DEF Counted, Busy
    <3> QED
      BY <3>2, <3>3
  <2> QED
    BY <2>1, <2>2
<1>6. ASSUME NEW u \in Threads PROVE Undisturbed(u)'
  <2> SUFFICES ASSUME Busy(u)', saver'[u].alone
               PROVE  /\ \A v \in Threads : Busy(v)' => v = u
                      /\ PutOut(saver[u])' /\ Blocks(saver[u])'
    BY DEF Undisturbed
  <2>1. CASE u = t
    <3>1. s.pc \in BusyPCs /\ s.alone
      BY <1>2, <2>1 DEF Busy, BusyPCs
    <3>2. saver[t].alone /\ PutOut(s)' /\ Blocks(s)'
      BY <3>1
    <3>3. \A v \in Threads : Busy(v) => v = t
      BY <3>2 DEF Saving, Undisturbed
    <3>4. saver[u]' = s
      BY <1>2, <2>1
    <3>5. PutOut(saver[u])'
      BY ONLY <3>2, <3>4 DEF PutOut
    <3>6. Blocks(saver[u])'
      BY <3>2, <3>4 DEF Blocks
    <3> QED
      BY <1>4, <2>1, <3>3, <3>5, <3>6
  <2>2. CASE u # t
    <3>1. Busy(u) /\ saver[u].alone
      BY <1>2, <1>4, <2>2
    <3>2. \A v \in Threads : Busy(v) => v = u
      BY <3>1 DEF Saving, Undisturbed
    <3> QED
      BY <2>2, <3>2
  <2> QED
    BY <2>1, <2>2
<1>7. (mode = "up" => HasInitial(databases))'
  BY DEF Saving, HasInitial
<1> QED
  BY <1>3, <1>5, <1>6, <1>7 DEF Saving, Counting

LEMMA BeginStep ==
    ASSUME Saving, NEW t \in Threads, Begin(t)
    PROVE  Saving'
<1>1. Typed /\ passwords \in 0..MaxPasswords /\ passwords \in Nat
  BY DEF Saving, Counting, Typed
<1>2. PICK out : out = [passwords |-> passwords, dbs |-> << >>]
  OBVIOUS
<1>3. /\ out \in Outs /\ out.passwords = passwords /\ Len(out.dbs) = 0
      /\ Size(out) = HeadSize(passwords) /\ HeadSize(passwords) \in Nat /\ HeadSize(passwords) >= 7
      /\ HeadCounted(passwords) \in Nat
      /\ passwords <= 1 => HeadCounted(passwords) = HeadSize(passwords)
  BY <1>1, <1>2, SizeHead, HeadSizeType
<1>4. PICK s : s = [Idle EXCEPT !.pc = "databases", !.cursor = 1, !.alone = \A v \in Threads : ~Busy(v),
                      !.out = out, !.block_size = HeadSize(passwords), !.size = HeadCounted(passwords)]
  OBVIOUS
<1>5. /\ Call(s) /\ s.pc = "databases" /\ s.cursor = 1 /\ s.out = out
      /\ s.block_size = HeadSize(passwords) /\ s.size = HeadCounted(passwords)
      /\ s.alone = (\A v \in Threads : ~Busy(v))
  BY <1>3, <1>4 DEF Idle, Call, PCs
<1>6. saver' = [u \in Threads |-> IF u = t THEN s ELSE [saver[u] EXCEPT !.alone = FALSE]]
  BY <1>2, <1>4 DEF Begin
<1>7. saver'[t] = s
  BY <1>6
<1>8. ASSUME NEW u \in Threads \ {t}
      PROVE  /\ Call(saver'[u]) /\ saver'[u].alone = FALSE
             /\ saver'[u].pc = saver[u].pc /\ saver'[u].out = saver[u].out
             /\ saver'[u].size = saver[u].size /\ saver'[u].block_size = saver[u].block_size
             /\ saver'[u].cursor = saver[u].cursor
  <2>1. saver'[u] = [saver[u] EXCEPT !.alone = FALSE] /\ Call(saver[u])
    BY <1>1, <1>6 DEF Typed
  <2> QED
    BY <2>1 DEF Call
<1>9. /\ mode = "up" /\ saver[t].pc = "begin" /\ offset' = 0 /\ saving' = TRUE
      /\ UNCHANGED <<databases, passwords, fd, file, mode, saved>>
  BY DEF Begin, At
<1>10. Typed'
  <2>1. saver' = [u \in Threads |-> saver'[u]]
    BY <1>6
  <2>2. \A u \in Threads : Call(saver'[u])
    BY <1>5, <1>7, <1>8
  <2>3. Multiple(0)
    BY Constants DEF Multiple
  <2> QED
    BY <1>1, <1>9, <2>1, <2>2, <2>3 DEF Typed
<1>11. ASSUME NEW u \in Threads PROVE Placed(u)' /\ Counted(u)'
  <2>1. CASE u = t
    <3>1. Placed(u)'
      <4>1. Len(databases) \in Nat
        BY <1>1, LenProperties DEF Typed
      <4> QED
        BY <1>3, <1>5, <1>7, <1>9, <2>1, <4>1 DEF Placed
    <3>2. Multiple(0)
      BY Constants DEF Multiple
    <3>3. Counted(u)'
      BY <1>3, <1>5, <1>7, <1>9, <2>1, <3>2 DEF Counted
    <3> QED
      BY <3>1, <3>3
  <2>2. CASE u # t
    <3>1. Placed(u) /\ Counted(u)
      BY DEF Saving, Counting
    <3>2. Placed(u)'
      BY <1>8, <1>9, <2>2, <3>1 DEF Placed
    <3>3. Counted(u)'
      BY <1>8, <2>2, <3>1 DEF Counted, Busy
    <3> QED
      BY <3>2, <3>3
  <2> QED
    BY <2>1, <2>2
<1>12. ASSUME NEW u \in Threads PROVE Undisturbed(u)'
  <2> SUFFICES ASSUME Busy(u)', saver'[u].alone
               PROVE  /\ \A v \in Threads : Busy(v)' => v = u
                      /\ PutOut(saver[u])' /\ Blocks(saver[u])'
    BY DEF Undisturbed
  <2>1. u = t
    BY <1>8
  <2>2. \A v \in Threads : ~Busy(v)
    BY <1>5, <1>7, <2>1
  <2>3. \A v \in Threads : Busy(v)' => v = u
    BY <1>8, <2>1, <2>2 DEF Busy
  <2>4. PutOut(saver[u])'
    <3>1. Len(databases) \in Nat
      BY <1>1, LenProperties DEF Typed
    <3> QED
      BY <1>3, <1>5, <1>7, <1>9, <2>1, <3>1 DEF PutOut
  <2>5. Blocks(saver[u])'
    BY <1>3, <1>5, <1>7, <1>9, <2>1 DEF Blocks
  <2> QED
    BY <2>3, <2>4, <2>5
<1>13. Kept'
  BY <1>9 DEF Saving, Kept, InFile, HasInitial
<1>14. (mode = "up" => HasInitial(databases))'
  BY <1>9 DEF Saving, HasInitial
<1> QED
  BY <1>10, <1>11, <1>12, <1>13, <1>14 DEF Saving, Counting

\* A step of a save that writes nothing.
LEMMA KeptSame ==
    ASSUME Saving, NEW t \in Threads, Busy(t), UNCHANGED <<offset, file, saved>>
    PROVE  Kept'
<1>1. saved # {} => offset = 0
  BY DEF Saving, Kept
<1> QED
  BY <1>1 DEF Saving, Kept, InFile, HasInitial

LEMMA MultipleSum ==
    ASSUME NEW a \in Nat, NEW n \in Nat, Multiple(a)
    PROVE  a + n * Capacity \in Nat /\ Multiple(a + n * Capacity)
<1>1. PICK q \in 0..a : a = q * Capacity
  BY DEF Multiple
<1>2. PICK c \in Nat \ {0} : c = Capacity
  BY Constants
<1>3. n * c \in Nat /\ n * c >= n /\ (q + n) * c = q * c + n * c
  BY <1>2
<1>4. q + n \in 0..(a + n * c)
  BY <1>3
<1> QED
  BY <1>1, <1>2, <1>3, <1>4 DEF Multiple

LEMMA MaxOfTwo ==
    ASSUME NEW a \in Nat, NEW b \in Nat
    PROVE  /\ Max({a, b}) \in Nat /\ Max({a, b}) = IF a >= b THEN a ELSE b
           /\ Min({a, b}) \in Nat /\ Min({a, b}) = IF a <= b THEN a ELSE b
  BY DEF Max, Min

\* A step that writes n blocks.
LEMMA WriteStep ==
    ASSUME Saving, NEW t \in Threads, Busy(t), NEW n \in Nat, NEW out \in Outs,
           NEW valid \in Nat, valid <= Capacity, WriteBlocks(n, out, valid)
    PROVE  /\ offset' = offset + n * Capacity /\ offset' \in Nat /\ Multiple(offset')
           /\ file' \in [head : SUBSET Outs, valid : Nat, size : Nat] /\ file'.valid <= Capacity
           /\ Kept'
           /\ n > 0 /\ offset = 0 => file'.head = {out} /\ file'.valid = valid
<1>1. /\ offset \in Nat /\ Multiple(offset) /\ file \in [head : SUBSET Outs, valid : Nat, size : Nat]
      /\ file.valid <= Capacity
  BY DEF Saving, Counting, Typed
<1>2. offset' = offset + n * Capacity /\ offset' \in Nat /\ Multiple(offset')
  <2>1. offset' = offset + n * Capacity
    BY DEF WriteBlocks
  <2> QED
    BY <1>1, <2>1, MultipleSum
<1>3. /\ file'.head = IF n > 0 /\ offset = 0 THEN {out} ELSE file.head
      /\ file'.valid = IF n > 0 /\ offset = 0 THEN valid ELSE file.valid
      /\ file'.size = Max({file.size, offset'})
      /\ file' = [head |-> file'.head, valid |-> file'.valid, size |-> file'.size]
  BY DEF WriteBlocks
<1>4. file.size \in Nat /\ Max({file.size, offset'}) \in Nat
  BY <1>1, <1>2, MaxOfTwo
<1>5. file' \in [head : SUBSET Outs, valid : Nat, size : Nat] /\ file'.valid <= Capacity
  <2>1. file'.head \in SUBSET Outs /\ file'.valid \in Nat /\ file'.valid <= Capacity /\ file'.size \in Nat
    BY <1>1, <1>3, <1>4
  <2> QED
    BY <1>3, <2>1
<1>6. Kept'
  <2>1. CASE n > 0
    <3>1. saved' = {}
      BY <2>1 DEF WriteBlocks
    <3> QED
      BY <3>1 DEF Kept
  <2>2. CASE n = 0
    <3>1. saved' = saved /\ offset' = offset /\ file'.head = file.head /\ file'.valid = file.valid
      BY <1>1, <1>2, <1>3, <2>2, Constants DEF WriteBlocks
    <3>2. saved # {} => offset = 0
      BY DEF Saving, Kept
    <3>3. saved # {} => file'.size = file.size
      <4>1. offset' = 0 => Max({file.size, offset'}) = file.size
        BY <1>2, <1>4, MaxOfTwo
      <4> QED
        BY <1>3, <3>1, <3>2, <4>1
    <3> QED
      BY <3>1, <3>2, <3>3 DEF Saving, Kept, InFile, HasInitial
  <2> QED
    BY <2>1, <2>2
<1> QED
  BY <1>2, <1>3, <1>5, <1>6

LEMMA NextDatabaseStep ==
    ASSUME Saving, NEW t \in Threads, NextDatabase(t)
    PROVE  Saving'
<1>1. Typed /\ Call(saver[t]) /\ databases \in Seq(Dbs)
  BY DEF Saving, Counting, Typed
<1>2. PICK o, c, n : o = saver[t].out /\ c = saver[t].cursor /\ n = Len(o.dbs)
  OBVIOUS
<1>3. /\ o \in Outs /\ c \in Nat /\ o.dbs \in Seq(DbOuts) /\ Size(o) \in Nat /\ n \in Nat
      /\ saver[t].block_size \in Nat /\ saver[t].size \in Nat
  BY <1>1, <1>2, CallFields
<1>4. /\ mode = "up" /\ saver[t].pc = "databases" /\ c \in DOMAIN databases
      /\ UNCHANGED <<databases, passwords, saving, fd, offset, file, mode, commands, stops, saved>>
  BY <1>2 DEF NextDatabase, At
<1>5. Len(databases) \in Nat /\ DOMAIN databases = 1..Len(databases) /\ databases[c] \in Dbs
  BY <1>1, <1>4, LenProperties, ElementOfSeq
<1>6. c = n + 1
  BY <1>2, <1>4 DEF Saving, Counting, Placed
<1>7. PICK db, keys : db = databases[c] /\ keys = db.keys
  OBVIOUS
<1>8. keys \in SUBSET Keys /\ db.name \in DOMAIN Names
  BY <1>5, <1>7 DEF Dbs
<1>9. PICK e : e = [name |-> db.name, count |-> Cardinality(keys), lines |-> {}]
  OBVIOUS
<1>10. e \in DbOuts /\ e.name = db.name /\ e.lines = {} /\ e.count = Cardinality(keys)
  <2>1. Cardinality(keys) \in Nat
    BY <1>8, KeysFinite
  <2> QED
    BY <1>8, <1>9, <2>1 DEF DbOuts
<1>11. PICK new : new = [o EXCEPT !.dbs = Append(@, e)]
  OBVIOUS
<1>12. /\ new \in Outs /\ new.passwords = o.passwords /\ new.dbs = Append(o.dbs, e)
       /\ Size(new) = Size(o) + NameSize(db.name)
  BY <1>3, <1>10, <1>11, SizeNextDb
<1>13. NameSize(db.name) \in Nat
  <2>1. e.name \in DOMAIN Names /\ e.lines \in SUBSET Keys
    BY <1>8, <1>10
  <2> QED
    BY <1>10, <2>1, DbSizeType
<1>14. PICK ns, room : ns = NameSize(db.name) /\ room = Max({LineEstimate(k) : k \in keys} \cup {0})
  OBVIOUS
<1>15. PICK s : s = [saver[t] EXCEPT
                       !.pc = IF keys = {} THEN "databases" ELSE "lines",
                       !.cursor = IF keys = {} THEN c + 1 ELSE 0,
                       !.room = room, !.out = new, !.block_size = @ + ns, !.size = @ + ns]
  OBVIOUS
<1>16. /\ Call(s) /\ s.pc = (IF keys = {} THEN "databases" ELSE "lines")
       /\ s.cursor = (IF keys = {} THEN c + 1 ELSE 0) /\ s.out = new
       /\ s.block_size = saver[t].block_size + ns /\ s.size = saver[t].size + ns
       /\ s.alone = saver[t].alone
  <2>1. PICK p, d, b, z :
           /\ p = (IF keys = {} THEN "databases" ELSE "lines") /\ d = (IF keys = {} THEN c + 1 ELSE 0)
           /\ b = saver[t].block_size + ns /\ z = saver[t].size + ns
    OBVIOUS
  <2>2. p \in PCs /\ d \in Nat /\ b \in Nat /\ z \in Nat
    BY <1>3, <1>13, <1>14, <2>1 DEF PCs
  <2>3. s = [saver[t] EXCEPT !.pc = p, !.cursor = d, !.room = room, !.out = new,
                             !.block_size = b, !.size = z]
    BY <1>15, <2>1
  <2>4. Call(s) /\ s.pc = p /\ s.cursor = d /\ s.out = new /\ s.block_size = b /\ s.size = z
        /\ s.alone = saver[t].alone
    BY <1>1, <1>12, <2>2, <2>3 DEF Call
  <2> QED
    BY <2>1, <2>4
<1>17. saver' = [saver EXCEPT ![t] = s]
  <2>1. saver' = [saver EXCEPT
                    ![t].pc = IF keys = {} THEN "databases" ELSE "lines",
                    ![t].cursor = IF keys = {} THEN @ + 1 ELSE 0,
                    ![t].room = room, ![t].out.dbs = Append(@, e),
                    ![t].block_size = @ + ns, ![t].size = @ + ns]
    BY <1>2, <1>7, <1>9, <1>14 DEF NextDatabase
  <2> QED
    BY ONLY <1>1, <1>2, <1>11, <1>15, <2>1 DEF Typed, Call
<1>18. Typed /\ Busy(t) /\ saver'[t] = s
  BY <1>1, <1>4, <1>16, <1>17, MoveType DEF Busy
<1>19. Len(new.dbs) = n + 1 /\ new.dbs[n + 1] = e /\ \A d \in 1..n : new.dbs[d] = o.dbs[d]
  BY <1>2, <1>3, <1>10, <1>12, AppendProperties
<1>20. Placed(t)'
  <2>1. CASE keys = {}
    <3>1. s.pc = "databases" /\ s.cursor = Len(s.out.dbs) + 1 /\ Len(s.out.dbs) <= Len(databases)
      BY <1>3, <1>4, <1>5, <1>6, <1>16, <1>19, <2>1
    <3> QED
      BY <1>4, <1>18, <3>1 DEF Placed
  <2>2. CASE keys # {}
    <3>1. /\ s.pc = "lines" /\ Len(s.out.dbs) # 0 /\ Len(s.out.dbs) <= Len(databases)
          /\ s.out.dbs[Len(s.out.dbs)].lines = {}
      BY <1>3, <1>4, <1>5, <1>6, <1>10, <1>16, <1>19, <2>2
    <3> QED
      BY <1>4, <1>18, <3>1 DEF Placed
  <2> QED
    BY <2>1, <2>2
<1>21. Counted(t)'
  <2>1. /\ o.passwords <= 1 => saver[t].size = Size(o)
        /\ saver[t].block_size >= 1 /\ saver[t].block_size <= Size(o)
        /\ Multiple(Size(o) - saver[t].block_size)
    BY <1>2, <1>18 DEF Saving, Counting, Counted
  <2>2. /\ s.out.passwords <= 1 => s.size = Size(s.out)
        /\ s.block_size >= 1 /\ s.block_size <= Size(s.out)
        /\ Size(s.out) - s.block_size = Size(o) - saver[t].block_size
    BY <1>3, <1>12, <1>13, <1>14, <1>16, <2>1
  <2> QED
    BY <1>18, <2>1, <2>2 DEF Counted
<1>22. ASSUME s.alone PROVE PutOut(s)' /\ Blocks(s)'
  <2>1. saver[t].alone /\ PutOut(saver[t]) /\ Blocks(saver[t])
    BY <1>16, <1>18, <1>22 DEF Saving, Undisturbed
  <2>2. Blocks(s)'
    <3>1. offset + saver[t].block_size = Size(o)
      BY <1>2, <1>4, <2>1 DEF Blocks
    <3>2. offset \in Nat
      BY <1>1 DEF Typed
    <3>3. offset + s.block_size = Size(s.out) /\ s.pc # "truncate"
      BY <1>3, <1>12, <1>13, <1>14, <1>16, <3>1, <3>2
    <3> QED
      BY <1>4, <3>3 DEF Blocks
  <2>3. ASSUME NEW d \in 1..Len(s.out.dbs)
        PROVE  /\ s.out.dbs[d].name = databases[d].name
               /\ s.out.dbs[d].count = Cardinality(databases[d].keys)
               /\ s.out.dbs[d].lines = IF s.pc = "lines" /\ d = Len(s.out.dbs)
                                       THEN {k \in databases[d].keys : k <= s.cursor}
                                       ELSE databases[d].keys
    <3>1. CASE d = n + 1
      <4>1. s.out.dbs[d] = e /\ databases[d] = db /\ databases[d].keys = keys /\ Len(s.out.dbs) = n + 1
        BY <1>6, <1>7, <1>16, <1>19, <3>1
      <4>2. {k \in keys : k <= 0} = {}
        <5>1. \A k \in keys : k \in Nat \ {0}
          BY <1>8, KeysFinite
        <5>2. \A k \in keys : ~(k <= 0)
          BY <5>1
        <5> QED
          BY <5>2
      <4>3. CASE keys = {}
        <5>1. s.pc = "databases"
          BY <1>16, <4>3
        <5> QED
          BY <1>10, <4>1, <4>3, <5>1
      <4>4. CASE keys # {}
        <5>1. s.pc = "lines" /\ s.cursor = 0 /\ s.out.dbs[d].lines = {}
          BY <1>10, <1>16, <4>1, <4>4
        <5>2. {k \in databases[d].keys : k <= s.cursor} = {}
          BY <4>1, <4>2, <5>1
        <5> QED
          BY <1>10, <3>1, <4>1, <5>1, <5>2
      <4> QED
        BY <4>3, <4>4
    <3>2. CASE d # n + 1
      <4>1. d \in 1..n /\ s.out.dbs[d] = o.dbs[d] /\ d # Len(s.out.dbs)
        BY <1>3, <1>16, <1>19, <3>2
      <4>2. o.dbs[d].name = databases[d].name /\ o.dbs[d].count = Cardinality(databases[d].keys)
            /\ o.dbs[d].lines = databases[d].keys
        BY <1>2, <1>4, <2>1, <4>1 DEF PutOut
      <4> QED
        BY <4>1, <4>2
    <3> QED
      BY <3>1, <3>2
  <2>4. s.out.passwords = passwords /\ Len(s.out.dbs) <= Len(databases) /\ s.pc \notin {"final", "truncate"}
    BY <1>2, <1>4, <1>5, <1>6, <1>12, <1>16, <1>19, <2>1 DEF PutOut
  <2>5. PutOut(s)
    BY ONLY <2>3, <2>4 DEF PutOut
  <2>6. PutOut(s)'
    BY ONLY <1>4, <2>5 DEF PutOut
  <2> QED
    BY <2>2, <2>6
<1>23. Kept'
  BY <1>4, <1>18, KeptSame
<1> QED
  <2>1. saving' \in BOOLEAN /\ fd' \in {"open", "closed"} /\ offset' \in Nat /\ Multiple(offset')
        /\ file' \in [head : SUBSET Outs, valid : Nat, size : Nat] /\ file'.valid <= Capacity
    BY <1>1, <1>4 DEF Typed
  <2> QED
    BY <1>4, <1>16, <1>17, <1>18, <1>20, <1>21, <1>22, <1>23, <2>1, BusyStep

\* SAVE, BGSAVE and closing start a call; a call ends early or because of an error.
LEMMA QuietSteps ==
    ASSUME Saving, NEW t \in Threads,
           \/ Save \/ Close \/ BgSave(t) \/ Test(t) \/ NoMemory(t) \/ SaveFails(t) \/ CloseFd(t)
    PROVE  Saving'
<1>1. Typed /\ saving \in BOOLEAN /\ fd \in {"open", "closed"} /\ Call(saver[t])
  BY DEF Saving, Counting, Typed
<1>2. {"test", "begin", "close", "exit"} \subseteq PCs /\ {"idle", "test", "begin", "close", "exit"} \cap BusyPCs = {}
  BY DEF PCs, BusyPCs
<1>3. ASSUME NEW u \in Threads, NEW p \in {"test", "close"}, Goto(u, p), mode = "up",
             saving' \in BOOLEAN, fd' \in {"open", "closed"},
             UNCHANGED <<databases, passwords, offset, file, mode, saved>>
      PROVE  Saving'
  <2>1. PICK s : s = [saver[u] EXCEPT !.pc = p]
    OBVIOUS
  <2>2. saver' = [saver EXCEPT ![u] = s] /\ Call(s) /\ s.pc = p
    BY <1>1, <1>2, <1>3, <2>1, GotoIs
  <2> QED
    BY <1>2, <1>3, <2>2, QuietStep
<1>4. ASSUME NEW s, Call(s), s.pc \in {"idle", "begin", "close", "exit"},
             saver' = [saver EXCEPT ![t] = s], mode = "up",
             saving' \in BOOLEAN, fd' \in {"open", "closed"},
             UNCHANGED <<databases, passwords, offset, file, mode, saved>>
      PROVE  Saving'
  BY <1>2, <1>4, QuietStep
<1>5. CASE Save
  BY <1>1, <1>3, <1>5, Constants DEF Save, At
<1>6. CASE Close
  BY <1>1, <1>3, <1>6, Constants DEF Close, At
<1>7. CASE BgSave(t)
  <2>1. CASE saving
    <3>1. saver' = saver /\ saver[t].pc = "idle"
      BY <1>7, <2>1 DEF BgSave, At
    <3>2. saver' = [saver EXCEPT ![t] = saver[t]]
      BY <1>1, <3>1 DEF Typed
    <3> QED
      BY <1>1, <1>4, <1>7, <3>1, <3>2 DEF BgSave, At
  <2>2. CASE ~saving
    BY <1>1, <1>3, <1>7, <2>2 DEF BgSave, At
  <2> QED
    BY <2>1, <2>2
<1>8. CASE Test(t)
  <2>1. PICK s : s = IF saving THEN Returned(t) ELSE [Idle EXCEPT !.pc = "begin"]
    OBVIOUS
  <2>2. Call(s) /\ s.pc \in {"idle", "begin", "close", "exit"}
    BY <1>2, <2>1, IdleType
  <2> QED
    BY <1>1, <1>4, <1>8, <2>1, <2>2 DEF Test, At
<1>9. CASE NoMemory(t)
  <2>1. Call(Returned(t)) /\ Returned(t).pc \in {"idle", "begin", "close", "exit"}
    BY IdleType
  <2>2. /\ saver' = [saver EXCEPT ![t] = Returned(t)] /\ mode = "up" /\ saving' = FALSE
        /\ UNCHANGED <<databases, passwords, fd, offset, file, mode, saved>>
    BY <1>9 DEF NoMemory, At
  <2> QED
    BY <1>1, <1>4, <2>1, <2>2
<1>10. CASE SaveFails(t)
  BY <1>1, <1>3, <1>10 DEF SaveFails, At
<1>11. CASE CloseFd(t)
  <2>1. PICK s : s = IF t = Main THEN [Idle EXCEPT !.pc = "exit"] ELSE Idle
    OBVIOUS
  <2>2. Call(s) /\ s.pc \in {"idle", "begin", "close", "exit"}
    BY <1>2, <2>1, IdleType
  <2> QED
    BY <1>1, <1>4, <1>11, <2>1, <2>2 DEF CloseFd, At
<1> QED
  BY <1>5, <1>6, <1>7, <1>8, <1>9, <1>10, <1>11

\* Nothing changes.
LEMMA StutterStep ==
    ASSUME Saving, UNCHANGED vars
    PROVE  Saving'
<1>1. Typed'
  BY DEF Saving, Counting, Typed, vars, Multiple
<1>2. ASSUME NEW t \in Threads PROVE Placed(t)' /\ Counted(t)' /\ Undisturbed(t)'
  <2>1. Placed(t) /\ Counted(t) /\ Undisturbed(t)
    BY DEF Saving, Counting
  <2>2. Placed(t)'
    BY <2>1 DEF Placed, vars
  <2>3. Counted(t)'
    BY <2>1 DEF Counted, Busy, vars
  <2>4. PutOut(saver[t]) => PutOut(saver[t])'
    BY DEF PutOut, vars
  <2>5. Blocks(saver[t]) => Blocks(saver[t])'
    BY DEF Blocks, vars
  <2>6. Undisturbed(t)'
    BY <2>1, <2>4, <2>5 DEF Undisturbed, Busy, vars
  <2> QED
    BY <2>2, <2>3, <2>6
<1>3. Kept' /\ (mode = "up" => HasInitial(databases))'
  BY DEF Saving, Kept, InFile, HasInitial, Busy, vars
<1> QED
  BY <1>1, <1>2, <1>3 DEF Saving, Counting

\* A thread that is saving goes on to the next database or to the last block.
LEMMA MoveOn ==
    ASSUME Saving, NEW t \in Threads, Busy(t), saver[t].pc # "truncate", mode = "up",
           NEW s, Call(s), saver' = [saver EXCEPT ![t] = s], s.pc \in {"databases", "final"},
           s.out = saver[t].out, s.block_size = saver[t].block_size, s.size = saver[t].size,
           s.alone = saver[t].alone,
           UNCHANGED <<databases, passwords, saving, fd, offset, file, mode, saved>>,
           s.pc = "databases" => s.cursor = Len(s.out.dbs) + 1 /\ Len(s.out.dbs) <= Len(databases),
           s.pc = "final" => Len(s.out.dbs) = Len(databases),
           saver[t].pc = "lines" =>
               \A k \in databases[Len(s.out.dbs)].keys : k <= saver[t].cursor
    PROVE  Saving'
<1>1. Typed /\ saver'[t] = s
  <2>1. Typed
    BY DEF Saving, Counting
  <2> QED
    BY <2>1, MoveType
<1>2. Placed(t)'
  BY <1>1 DEF Placed
<1>3. Counted(t)'
  <2>1. Counted(t)
    BY DEF Saving, Counting
  <2> QED
    BY <1>1, <2>1 DEF Counted
<1>4. ASSUME s.alone PROVE PutOut(s)' /\ Blocks(s)'
  <2>1. PutOut(saver[t]) /\ Blocks(saver[t])
    BY <1>4 DEF Saving, Undisturbed
  <2>2. Blocks(s)'
    BY <2>1 DEF Blocks
  <2>3. ASSUME NEW d \in 1..Len(s.out.dbs)
        PROVE  /\ s.out.dbs[d].name = databases[d].name
               /\ s.out.dbs[d].count = Cardinality(databases[d].keys)
               /\ s.out.dbs[d].lines = databases[d].keys
    <3>1. /\ s.out.dbs[d].name = databases[d].name
          /\ s.out.dbs[d].count = Cardinality(databases[d].keys)
          /\ s.out.dbs[d].lines = IF saver[t].pc = "lines" /\ d = Len(s.out.dbs)
                                  THEN {k \in databases[d].keys : k <= saver[t].cursor}
                                  ELSE databases[d].keys
      BY ONLY <2>1, d \in 1..Len(s.out.dbs), s.out = saver[t].out DEF PutOut
    <3>2. CASE saver[t].pc = "lines" /\ d = Len(s.out.dbs)
      <4>1. {k \in databases[d].keys : k <= saver[t].cursor} = databases[d].keys
        BY <3>2
      <4> QED
        BY <3>1, <3>2, <4>1
    <3>3. CASE ~(saver[t].pc = "lines" /\ d = Len(s.out.dbs))
      BY <3>1, <3>3
    <3> QED
      BY <3>2, <3>3
  <2>4. s.out.passwords = passwords /\ Len(s.out.dbs) <= Len(databases)
        /\ (s.pc \in {"final", "truncate"} => Len(s.out.dbs) = Len(databases)) /\ s.pc # "lines"
    BY <2>1 DEF PutOut
  <2>5. PutOut(s)
    BY ONLY <2>3, <2>4 DEF PutOut
  <2>6. databases' = databases /\ passwords' = passwords
    OBVIOUS
  <2>7. PutOut(s)'
    BY ONLY <2>5, <2>6 DEF PutOut
  <2> QED
    BY <2>2, <2>7
<1>5. Kept'
  BY KeptSame
<1> QED
  <2>1. saving' \in BOOLEAN /\ fd' \in {"open", "closed"} /\ offset' \in Nat /\ Multiple(offset')
        /\ file' \in [head : SUBSET Outs, valid : Nat, size : Nat] /\ file'.valid <= Capacity
    BY <1>1 DEF Typed
  <2> QED
    BY <1>2, <1>3, <1>4, <1>5, <2>1, BusyStep

LEMMA NoNextDatabaseStep ==
    ASSUME Saving, NEW t \in Threads, NoNextDatabase(t)
    PROVE  Saving'
<1>1. Typed /\ Call(saver[t]) /\ databases \in Seq(Dbs)
  BY DEF Saving, Counting, Typed
<1>2. /\ mode = "up" /\ saver[t].pc = "databases" /\ saver[t].cursor \notin DOMAIN databases
      /\ Goto(t, "final") /\ Busy(t)
      /\ UNCHANGED <<databases, passwords, saving, fd, offset, file, mode, saved>>
  BY DEF NoNextDatabase, At, Busy
<1>3. PICK s : s = [saver[t] EXCEPT !.pc = "final"]
  OBVIOUS
<1>4. "final" \in PCs
  BY DEF PCs
<1>5. saver' = [saver EXCEPT ![t] = s] /\ Call(s) /\ s.pc = "final"
  BY <1>1, <1>2, <1>3, <1>4, GotoIs
<1>6. /\ s.out = saver[t].out /\ s.block_size = saver[t].block_size /\ s.size = saver[t].size
      /\ s.alone = saver[t].alone
  BY <1>1, <1>3 DEF Call
<1>7. Len(s.out.dbs) = Len(databases)
  <2>1. saver[t].cursor = Len(s.out.dbs) + 1 /\ Len(s.out.dbs) <= Len(databases)
    BY <1>2, <1>6 DEF Saving, Counting, Placed
  <2>2. Len(databases) \in Nat /\ DOMAIN databases = 1..Len(databases) /\ Len(s.out.dbs) \in Nat
    BY <1>1, <1>5, CallFields, LenProperties
  <2> QED
    BY <1>2, <2>1, <2>2
<1> QED
  BY <1>2, <1>5, <1>6, <1>7, MoveOn

LEMMA EndLinesStep ==
    ASSUME Saving, NEW t \in Threads, EndLines(t)
    PROVE  Saving'
<1>1. Typed /\ Call(saver[t]) /\ databases \in Seq(Dbs)
  BY DEF Saving, Counting, Typed
<1>2. PICK n : n = Len(saver[t].out.dbs)
  OBVIOUS
<1>3. /\ mode = "up" /\ saver[t].pc = "lines" /\ Busy(t)
      /\ {k \in databases[n].keys : k > saver[t].cursor} = {}
      /\ saver' = [saver EXCEPT ![t].pc = "databases", ![t].cursor = n + 1]
      /\ UNCHANGED <<databases, passwords, saving, fd, offset, file, mode, saved>>
  BY <1>2 DEF EndLines, At, Busy, Ahead, Current
<1>4. n \in Nat /\ n # 0 /\ n <= Len(databases) /\ saver[t].cursor \in Nat
  BY <1>1, <1>2, <1>3, CallFields DEF Saving, Counting, Placed
<1>5. PICK s : s = [saver[t] EXCEPT !.pc = "databases", !.cursor = n + 1]
  OBVIOUS
<1>6. /\ Call(s) /\ s.pc = "databases" /\ s.cursor = n + 1
      /\ s.out = saver[t].out /\ s.block_size = saver[t].block_size /\ s.size = saver[t].size
      /\ s.alone = saver[t].alone
  <2>1. PICK c \in Nat : c = n + 1
    BY <1>4
  <2>2. PICK p \in PCs : p = "databases"
    BY DEF PCs
  <2>3. s = [saver[t] EXCEPT !.pc = p, !.cursor = c]
    BY <1>5, <2>1, <2>2
  <2>4. /\ Call(s) /\ s.pc = p /\ s.cursor = c
        /\ s.out = saver[t].out /\ s.block_size = saver[t].block_size /\ s.size = saver[t].size
        /\ s.alone = saver[t].alone
    BY <1>1, <2>3 DEF Call
  <2> QED
    BY <2>1, <2>2, <2>4
<1>7. saver' = [saver EXCEPT ![t] = s]
  BY <1>1, <1>3, <1>5 DEF Typed
<1>8. \A k \in databases[n].keys : k <= saver[t].cursor
  <2>1. n \in DOMAIN databases
    BY <1>1, <1>4, LenProperties
  <2>2. databases[n].keys \subseteq Nat
    <3>1. databases[n] \in Dbs
      BY <1>1, <2>1, ElementOfSeq
    <3> QED
      BY <3>1, KeysFinite DEF Dbs
  <2>3. \A k \in databases[n].keys : ~(k > saver[t].cursor)
    BY <1>3
  <2> QED
    BY <1>4, <2>2, <2>3
<1> QED
  BY <1>2, <1>3, <1>4, <1>6, <1>7, <1>8, MoveOn

\* What \div and % compute.
LEMMA RemainderOf ==
    ASSUME NEW a \in Nat, NEW n \in Nat \ {0}
    PROVE  a = n * (a \div n) + (a % n) /\ a \div n \in Int /\ a % n \in 0..(n - 1)
  OBVIOUS

\* After a line the block is not empty and not over-full; it may be exactly full.
LEMMA AfterBlocks ==
    ASSUME NEW b \in Nat, b >= 1, NEW z \in Nat
    PROVE  LET n == BlocksFilled(b, z)
           IN  /\ n \in Nat /\ n * Capacity \in Nat
               /\ b + z - n * Capacity \in Nat /\ b + z - n * Capacity >= 1
<1>1. PICK c \in Nat \ {0} : c = Capacity
  BY Constants
<1>2. PICK m \in Nat : m = b + z + c - 1 /\ m >= c
  OBVIOUS
<1>3. PICK q, r : q = m \div c /\ r = m % c
  OBVIOUS
<1>4. m = c * q + r /\ q \in Int /\ r \in 0..(c - 1)
  BY <1>3, RemainderOf
<1>5. q >= 1
  <2>1. q <= 0 => c * q <= 0
    BY <1>4
  <2>2. c * q \in Int
    BY <1>4
  <2> QED
    BY <1>2, <1>4, <2>1, <2>2
<1>6. PICK n \in Nat : n = q - 1
  BY <1>4, <1>5
<1>7. BlocksFilled(b, z) = n
  BY <1>1, <1>2, <1>3, <1>6 DEF BlocksFilled
<1>8. n * c \in Nat /\ n * c = c * q - c
  BY <1>4, <1>6
<1>9. b + z - n * c = r + 1
  <2>1. c * q \in Int
    BY <1>4
  <2> QED
    BY <1>2, <1>4, <1>8, <2>1
<1> QED
  BY <1>1, <1>4, <1>7, <1>8, <1>9

LEMMA DumpLineStep ==
    ASSUME Saving, NEW t \in Threads, DumpLine(t)
    PROVE  Saving'
<1>1. Typed /\ Call(saver[t]) /\ databases \in Seq(Dbs) /\ offset \in Nat
  BY DEF Saving, Counting, Typed
<1>2. PICK o, c, m, b, z : o = saver[t].out /\ c = saver[t].cursor /\ m = Len(o.dbs)
                           /\ b = saver[t].block_size /\ z = saver[t].size
  OBVIOUS
<1>3. /\ o \in Outs /\ c \in Nat /\ o.dbs \in Seq(DbOuts) /\ Size(o) \in Nat /\ m \in Nat
      /\ b \in Nat /\ z \in Nat /\ o.passwords \in Nat
  BY <1>1, <1>2, CallFields
<1>4. PICK A, k, n, ls, new :
        /\ A = {x \in databases[m].keys : x > c} /\ k = Min(A) /\ ls = LineSize(k)
        /\ n = BlocksFilled(b, ls) /\ new = [o EXCEPT !.dbs[m].lines = @ \cup {k}]
  OBVIOUS
<1>5. /\ mode = "up" /\ saver[t].pc = "lines" /\ Busy(t) /\ A # {}
      /\ WriteBlocks(n, new, Capacity)
      /\ saver' = [saver EXCEPT ![t].out = new, ![t].cursor = k,
                     ![t].block_size = @ + ls - n * Capacity, ![t].size = @ + ls]
      /\ UNCHANGED <<databases, passwords, saving, fd, mode>>
  BY <1>2, <1>4 DEF DumpLine, At, Busy, Ahead, Current
<1>6. /\ m # 0 /\ m <= Len(databases) /\ \A l \in o.dbs[m].lines : l <= c
  BY <1>2, <1>5 DEF Saving, Counting, Placed
<1>7. m \in DOMAIN databases /\ m \in 1..Len(databases) /\ databases[m].keys \subseteq Keys
      /\ databases[m].keys \subseteq Nat
  <2>1. m \in DOMAIN databases /\ m \in 1..Len(databases)
    BY <1>1, <1>3, <1>6, LenProperties
  <2>2. databases[m] \in Dbs
    BY <1>1, <2>1, ElementOfSeq
  <2> QED
    BY <2>1, <2>2, KeysFinite DEF Dbs
<1>8. k \in databases[m].keys /\ k > c /\ k \in Nat /\ k \in Keys /\ \A x \in databases[m].keys : x > c => k <= x
  <2>1. A \in SUBSET Nat
    BY <1>4, <1>7
  <2>2. k \in A /\ \A x \in A : k <= x
    BY <1>4, <1>5, <2>1, HasMin
  <2> QED
    BY <1>4, <1>7, <2>2
<1>9. new = WithLine(o, k)
  BY <1>2, <1>4 DEF WithLine
<1>10. /\ new \in Outs /\ new.passwords = o.passwords /\ Len(new.dbs) = m
       /\ \A i \in 1..(m - 1) : new.dbs[i] = o.dbs[i]
       /\ new.dbs[m].lines = o.dbs[m].lines \cup {k} /\ new.dbs[m].name = o.dbs[m].name
       /\ new.dbs[m].count = o.dbs[m].count
       /\ Size(new) = Size(o) + ls
  <2>1. k \notin o.dbs[m].lines
    BY <1>3, <1>6, <1>8
  <2>2. o \in Outs /\ Len(o.dbs) # 0 /\ k \in Keys /\ k \notin o.dbs[Len(o.dbs)].lines
    BY <1>2, <1>3, <1>6, <1>8, <2>1
  <2>3. /\ WithLine(o, k) \in Outs /\ WithLine(o, k).passwords = o.passwords
        /\ Len(WithLine(o, k).dbs) = Len(o.dbs)
        /\ \A i \in 1..(Len(o.dbs) - 1) : WithLine(o, k).dbs[i] = o.dbs[i]
        /\ WithLine(o, k).dbs[Len(o.dbs)].name = o.dbs[Len(o.dbs)].name
        /\ WithLine(o, k).dbs[Len(o.dbs)].count = o.dbs[Len(o.dbs)].count
        /\ WithLine(o, k).dbs[Len(o.dbs)].lines = o.dbs[Len(o.dbs)].lines \cup {k}
        /\ Size(WithLine(o, k)) = Size(o) + LineSize(k)
    BY ONLY <2>2, SizeNextLine
  <2>4. m = Len(o.dbs) /\ ls = LineSize(k)
    BY <1>2, <1>4
  <2> QED
    BY ONLY <1>9, <2>3, <2>4
<1>11. /\ o.passwords <= 1 => z = Size(o)
       /\ b >= 1 /\ b <= Size(o) /\ Multiple(Size(o) - b)
  BY <1>2, <1>5 DEF Saving, Counting, Counted
<1>12. ls \in Nat
  BY <1>4, <1>8, LineSizeType
<1>13. n \in Nat /\ n * Capacity \in Nat /\ b + ls - n * Capacity \in Nat /\ b + ls - n * Capacity >= 1
  BY <1>3, <1>4, <1>11, <1>12, AfterBlocks
<1>14. PICK nc, nb, nz : nc = n * Capacity /\ nb = b + ls - nc /\ nz = z + ls
  OBVIOUS
<1>15. nc \in Nat /\ nb \in Nat /\ nb >= 1 /\ nz \in Nat
  BY <1>3, <1>12, <1>13, <1>14
<1>16. PICK s : s = [saver[t] EXCEPT !.out = new, !.cursor = k, !.block_size = nb, !.size = nz]
  OBVIOUS
<1>17. /\ Call(s) /\ s.pc = "lines" /\ s.out = new /\ s.cursor = k /\ s.block_size = nb /\ s.size = nz
       /\ s.alone = saver[t].alone
  BY <1>1, <1>5, <1>8, <1>10, <1>15, <1>16 DEF Call
<1>18. saver' = [saver EXCEPT ![t] = s]
  BY <1>1, <1>2, <1>5, <1>14, <1>16 DEF Typed
<1>19. saver'[t] = s
  BY <1>1, <1>17, <1>18, MoveType
<1>20. /\ offset' = offset + nc /\ offset' \in Nat /\ Multiple(offset')
       /\ file' \in [head : SUBSET Outs, valid : Nat, size : Nat] /\ file'.valid <= Capacity
       /\ Kept'
  <2>1. Capacity \in Nat /\ Capacity <= Capacity
    BY Constants
  <2> QED
    BY <1>5, <1>10, <1>13, <1>14, <2>1, WriteStep
<1>21. Placed(t)'
  <2>1. \A l \in new.dbs[m].lines : l <= k
    <3>1. o.dbs[m].lines \subseteq Nat
      <4>1. m \in 1..Len(o.dbs)
        BY <1>2, <1>3, <1>6
      <4> QED
        BY <1>3, <4>1, OutParts, KeysFinite DEF Sized
    <3> QED
      BY <1>3, <1>6, <1>8, <1>10, <3>1
  <2> QED
    BY <1>5, <1>6, <1>10, <1>17, <1>19, <2>1 DEF Placed
<1>22. Counted(t)'
  <2>1. /\ s.out.passwords <= 1 => s.size = Size(s.out)
        /\ s.block_size >= 1
    BY <1>10, <1>11, <1>14, <1>15, <1>17
  <2>2. PICK d \in Nat : d = Size(o) - b
    BY <1>3, <1>11
  <2>3. Size(s.out) - s.block_size = d + nc
    BY <1>3, <1>10, <1>12, <1>14, <1>15, <1>17, <2>2
  <2>4. Multiple(d + nc)
    BY <1>11, <1>13, <1>14, <2>2, MultipleSum
  <2>5. s.block_size <= Size(s.out)
    BY <1>3, <1>10, <1>12, <1>15, <1>17, <2>2, <2>3
  <2> QED
    BY <1>19, <2>1, <2>3, <2>4, <2>5 DEF Counted
<1>23. ASSUME s.alone PROVE PutOut(s)' /\ Blocks(s)'
  <2>1. PutOut(saver[t]) /\ Blocks(saver[t])
    BY <1>5, <1>17, <1>23 DEF Saving, Undisturbed
  <2>2. Blocks(s)'
    <3>1. offset + b = Size(o)
      BY <1>2, <1>5, <2>1 DEF Blocks
    <3>2. offset' + s.block_size = Size(s.out)
      <4>1. (offset + nc) + nb = Size(o) + ls
        BY <1>1, <1>3, <1>12, <1>14, <1>15, <3>1
      <4> QED
        BY <1>10, <1>17, <1>20, <4>1
    <3> QED
      BY <1>17, <3>2 DEF Blocks
  <2>3. ASSUME NEW d \in 1..Len(s.out.dbs)
        PROVE  /\ s.out.dbs[d].name = databases[d].name
               /\ s.out.dbs[d].count = Cardinality(databases[d].keys)
               /\ s.out.dbs[d].lines = IF s.pc = "lines" /\ d = Len(s.out.dbs)
                                       THEN {x \in databases[d].keys : x <= s.cursor}
                                       ELSE databases[d].keys
    <3>1. d \in 1..m /\ Len(s.out.dbs) = m
      BY <1>10, <1>17
    <3>2. /\ o.dbs[d].name = databases[d].name
          /\ o.dbs[d].count = Cardinality(databases[d].keys)
          /\ o.dbs[d].lines = IF d = m THEN {x \in databases[d].keys : x <= c} ELSE databases[d].keys
      BY <1>2, <1>5, <2>1, <3>1 DEF PutOut
    <3>3. CASE d = m
      <4>1. o.dbs[m].lines = {x \in databases[m].keys : x <= c}
        BY <3>2, <3>3
      <4>2. {x \in databases[m].keys : x <= c} \cup {k} = {x \in databases[m].keys : x <= k}
        <5>1. ASSUME NEW x \in databases[m].keys PROVE x <= k <=> (x <= c \/ x = k)
          BY <1>3, <1>7, <1>8
        <5> QED
          BY <1>8, <5>1
      <4> QED
        BY <1>10, <1>17, <3>1, <3>2, <3>3, <4>1, <4>2
    <3>4. CASE d # m
      <4>1. d \in 1..(m - 1)
        BY <1>3, <3>1, <3>4
      <4> QED
        BY <1>10, <1>17, <3>1, <3>2, <3>4, <4>1
    <3> QED
      BY <3>3, <3>4
  <2>4. s.out.passwords = passwords /\ Len(s.out.dbs) <= Len(databases) /\ s.pc \notin {"final", "truncate"}
    BY <1>2, <1>6, <1>10, <1>17, <2>1 DEF PutOut
  <2>5. PutOut(s)
    BY ONLY <2>3, <2>4 DEF PutOut
  <2>6. PutOut(s)'
    BY ONLY <1>5, <2>5 DEF PutOut
  <2> QED
    BY <2>2, <2>6
<1> QED
  <2>1. saving' \in BOOLEAN /\ fd' \in {"open", "closed"}
    BY <1>1, <1>5 DEF Typed
  <2> QED
    BY <1>5, <1>17, <1>18, <1>20, <1>21, <1>22, <1>23, <2>1, BusyStep

\* A write fails: what was written before it stays, and the save has been disturbed.
LEMMA DumpFailsStep ==
    ASSUME Saving, NEW t \in Threads, DumpFails(t)
    PROVE  Saving'
<1>1. Typed /\ Call(saver[t]) /\ databases \in Seq(Dbs) /\ fd \in {"open", "closed"}
  BY DEF Saving, Counting, Typed
<1>2. PICK o, c, m, b : o = saver[t].out /\ c = saver[t].cursor /\ m = Len(o.dbs)
                        /\ b = saver[t].block_size
  OBVIOUS
<1>3. o \in Outs /\ c \in Nat /\ o.dbs \in Seq(DbOuts) /\ m \in Nat /\ b \in Nat
  BY <1>1, <1>2, CallFields
<1>4. PICK A, k, n, new :
        /\ A = {x \in databases[m].keys : x > c} /\ k = Min(A)
        /\ n = BlocksFilled(b, LineSize(k)) /\ new = [o EXCEPT !.dbs[m].lines = @ \cup {k}]
  OBVIOUS
<1>5. /\ mode = "up" /\ saver[t].pc = "lines" /\ Busy(t) /\ A # {}
      /\ \E j \in 0..(n - 1) : WriteBlocks(j, new, Capacity)
      /\ saver' = [saver EXCEPT ![t].pc = "interrupt", ![t].cursor = k,
                                ![t].freed = TRUE, ![t].alone = FALSE]
      /\ saving' = FALSE /\ UNCHANGED <<databases, passwords, fd, mode>>
  BY <1>2, <1>4 DEF DumpFails, At, Busy, Ahead, Current
<1>6. m # 0 /\ m <= Len(databases) /\ \A l \in o.dbs[m].lines : l <= c
  BY <1>2, <1>5 DEF Saving, Counting, Placed
<1>7. databases[m].keys \subseteq Keys /\ databases[m].keys \subseteq Nat
  <2>1. m \in DOMAIN databases /\ m \in 1..Len(databases)
    BY <1>1, <1>3, <1>6, LenProperties
  <2>2. databases[m] \in Dbs
    BY <1>1, <2>1, ElementOfSeq
  <2> QED
    BY <2>2, KeysFinite DEF Dbs
<1>8. k > c /\ k \in Nat /\ k \in Keys
  <2>1. A \in SUBSET Nat
    BY <1>4, <1>7
  <2>2. k \in A
    BY <1>4, <1>5, <2>1, HasMin
  <2> QED
    BY <1>4, <1>7, <2>2
<1>9. o.dbs[m].lines \subseteq Nat
  <2>1. m \in 1..Len(o.dbs)
    BY <1>2, <1>3, <1>6
  <2> QED
    BY <1>3, <2>1, OutParts, KeysFinite DEF Sized
<1>10. new \in Outs
  <2>1. new = WithLine(o, k)
    BY <1>2, <1>4 DEF WithLine
  <2>2. o \in Outs /\ Len(o.dbs) # 0 /\ k \in Keys /\ k \notin o.dbs[Len(o.dbs)].lines
    BY <1>2, <1>3, <1>6, <1>8, <1>9
  <2>3. WithLine(o, k) \in Outs
    BY ONLY <2>2, SizeNextLine
  <2> QED
    BY <2>1, <2>3
<1>11. /\ offset' \in Nat /\ Multiple(offset')
       /\ file' \in [head : SUBSET Outs, valid : Nat, size : Nat] /\ file'.valid <= Capacity
       /\ Kept'
  <2>1. Capacity \in Nat /\ Capacity <= Capacity
    BY Constants
  <2>2. PICK j \in Nat : WriteBlocks(j, new, Capacity)
    BY <1>5
  <2> QED
    BY <1>5, <1>10, <2>1, <2>2, WriteStep
<1>12. PICK s : s = [saver[t] EXCEPT !.pc = "interrupt", !.cursor = k, !.freed = TRUE, !.alone = FALSE]
  OBVIOUS
<1>13. /\ Call(s) /\ s.pc = "interrupt" /\ s.out = o /\ s.cursor = k /\ s.block_size = b
       /\ s.size = saver[t].size /\ s.alone = FALSE
  <2>1. PICK p \in PCs : p = "interrupt"
    BY DEF PCs
  <2>2. PICK f \in BOOLEAN, a \in BOOLEAN : f = TRUE /\ a = FALSE
    OBVIOUS
  <2>3. s = [saver[t] EXCEPT !.pc = p, !.cursor = k, !.freed = f, !.alone = a]
    BY <1>12, <2>1, <2>2
  <2>4. /\ Call(s) /\ s.pc = p /\ s.out = saver[t].out /\ s.cursor = k
        /\ s.block_size = saver[t].block_size /\ s.size = saver[t].size /\ s.alone = a
    BY <1>1, <1>8, <2>3 DEF Call
  <2> QED
    BY <1>2, <2>1, <2>2, <2>4
<1>14. saver' = [saver EXCEPT ![t] = s]
  BY <1>1, <1>5, <1>12 DEF Typed
<1>15. saver'[t] = s
  BY <1>1, <1>13, <1>14, MoveType
<1>16. Placed(t)'
  <2>1. \A l \in o.dbs[m].lines : l <= k
    BY <1>3, <1>6, <1>8, <1>9
  <2> QED
    BY <1>2, <1>5, <1>6, <1>13, <1>15, <2>1 DEF Placed
<1>17. Counted(t)'
  <2>1. /\ o.passwords <= 1 => saver[t].size = Size(o)
        /\ b >= 1 /\ b <= Size(o) /\ Multiple(Size(o) - b)
    BY <1>2, <1>5 DEF Saving, Counting, Counted
  <2> QED
    BY <1>13, <1>15, <2>1 DEF Counted
<1> QED
  <2>1. saving' \in BOOLEAN /\ fd' \in {"open", "closed"}
    BY <1>1, <1>5
  <2> QED
    BY <1>5, <1>11, <1>13, <1>14, <1>16, <1>17, <2>1, BusyStep

\* The file is closed after it.
LEMMA InterruptStep ==
    ASSUME Saving, NEW t \in Threads, Interrupt(t)
    PROVE  Saving'
<1>1. Typed /\ Call(saver[t])
  BY DEF Saving, Counting, Typed
<1>2. /\ mode = "up" /\ saver[t].pc = "interrupt" /\ Busy(t) /\ Goto(t, "lines") /\ fd' = "closed"
      /\ UNCHANGED <<databases, passwords, saving, offset, file, mode, saved>>
  BY DEF Interrupt, At, Busy
<1>3. PICK s : s = [saver[t] EXCEPT !.pc = "lines"]
  OBVIOUS
<1>4. "lines" \in PCs
  BY DEF PCs
<1>5. saver' = [saver EXCEPT ![t] = s] /\ Call(s) /\ s.pc = "lines"
  BY <1>1, <1>2, <1>3, <1>4, GotoIs
<1>6. /\ s.out = saver[t].out /\ s.block_size = saver[t].block_size /\ s.size = saver[t].size
      /\ s.cursor = saver[t].cursor /\ s.alone = saver[t].alone
  BY <1>1, <1>3 DEF Call
<1>7. saver'[t] = s
  BY <1>1, <1>5, MoveType
<1>8. Placed(t)' /\ s.alone = FALSE
  <2>1. Placed(t)
    BY DEF Saving, Counting
  <2> QED
    BY <1>2, <1>5, <1>6, <1>7, <2>1 DEF Placed
<1>9. Counted(t)'
  <2>1. Counted(t)
    BY DEF Saving, Counting
  <2> QED
    BY <1>2, <1>6, <1>7, <2>1 DEF Counted
<1>10. Kept'
  BY <1>2, KeptSame
<1> QED
  <2>1. saving' \in BOOLEAN /\ fd' \in {"open", "closed"} /\ offset' \in Nat /\ Multiple(offset')
        /\ file' \in [head : SUBSET Outs, valid : Nat, size : Nat] /\ file'.valid <= Capacity
    BY <1>1, <1>2 DEF Typed
  <2> QED
    BY <1>2, <1>5, <1>8, <1>9, <1>10, <2>1, BusyStep

\* No block starts within the first but itself.
LEMMA FirstBlock ==
    ASSUME NEW a \in Nat, Multiple(a), a < Capacity
    PROVE  a = 0
<1>1. PICK q \in 0..a : a = q * Capacity
  BY DEF Multiple
<1>2. PICK c \in Nat \ {0} : c = Capacity
  BY Constants
<1>3. q >= 1 => q * c >= c
  OBVIOUS
<1>4. q = 0 => q * c = 0
  OBVIOUS
<1> QED
  BY <1>1, <1>2, <1>3, <1>4

LEMMA FinalStep ==
    ASSUME Saving, NEW t \in Threads, Final(t)
    PROVE  Saving'
<1>1. Typed /\ Call(saver[t]) /\ offset \in Nat /\ Multiple(offset)
  BY DEF Saving, Counting, Typed
<1>2. PICK o, b, n, valid :
        /\ o = saver[t].out /\ b = saver[t].block_size
        /\ n = (IF b = Capacity THEN 0 ELSE 1) /\ valid = Min({b, Capacity})
  OBVIOUS
<1>3. o \in Outs /\ b \in Nat /\ Size(o) \in Nat
  BY <1>1, <1>2, CallFields
<1>4. /\ mode = "up" /\ saver[t].pc = "final" /\ Busy(t) /\ Goto(t, "truncate")
      /\ WriteBlocks(n, o, valid)
      /\ UNCHANGED <<databases, passwords, saving, fd, mode>>
  BY <1>2 DEF Final, At, Busy
<1>5. PICK s : s = [saver[t] EXCEPT !.pc = "truncate"]
  OBVIOUS
<1>6. saver' = [saver EXCEPT ![t] = s] /\ Call(s) /\ s.pc = "truncate"
  <2>1. "truncate" \in PCs
    BY DEF PCs
  <2> QED
    BY <1>1, <1>4, <1>5, <2>1, GotoIs
<1>7. /\ s.out = o /\ s.block_size = b /\ s.size = saver[t].size /\ s.alone = saver[t].alone
  BY <1>1, <1>2, <1>5 DEF Call
<1>8. saver'[t] = s
  BY <1>1, <1>6, MoveType
<1>9. n \in Nat /\ valid \in Nat /\ valid <= Capacity /\ (b < Capacity => n = 1 /\ valid = b)
  <2>1. PICK c \in Nat \ {0} : c = Capacity
    BY Constants
  <2>2. Min({b, c}) = IF b <= c THEN b ELSE c
    BY <1>3, MaxOfTwo
  <2> QED
    BY <1>2, <1>3, <2>1, <2>2
<1>10. /\ offset' \in Nat /\ Multiple(offset')
       /\ file' \in [head : SUBSET Outs, valid : Nat, size : Nat] /\ file'.valid <= Capacity
       /\ Kept'
       /\ n > 0 /\ offset = 0 => file'.head = {o} /\ file'.valid = valid
  BY <1>3, <1>4, <1>9, WriteStep
<1>11. Placed(t)'
  BY <1>6, <1>8 DEF Placed
<1>12. Counted(t)'
  <2>1. Counted(t)
    BY DEF Saving, Counting
  <2> QED
    BY <1>2, <1>4, <1>7, <1>8, <2>1 DEF Counted
<1>13. ASSUME s.alone PROVE PutOut(s)' /\ Blocks(s)'
  <2>1. PutOut(saver[t]) /\ Blocks(saver[t])
    BY <1>4, <1>7, <1>13 DEF Saving, Undisturbed
  <2>2. ASSUME Size(o) < Capacity PROVE file'.head = {o} /\ file'.valid = Size(o)
    <3>1. offset + b = Size(o)
      BY <1>2, <1>4, <2>1 DEF Blocks
    <3>2. offset < Capacity /\ Capacity \in Nat
      BY <1>1, <1>3, <2>2, <3>1, Constants
    <3>3. offset = 0
      BY <1>1, <3>2, FirstBlock
    <3>4. b = Size(o) /\ n > 0 /\ valid = b
      BY <1>3, <1>9, <2>2, <3>1, <3>3
    <3> QED
      BY <1>10, <3>3, <3>4
  <2>3. Blocks(s)'
    BY <1>6, <1>7, <2>2 DEF Blocks
  <2>4. s.out = saver[t].out /\ s.pc = "truncate" /\ saver[t].pc = "final"
        /\ databases' = databases /\ passwords' = passwords
    BY <1>2, <1>4, <1>6, <1>7
  <2>5. PutOut(s)'
    BY ONLY <2>1, <2>4 DEF PutOut
  <2> QED
    BY <2>3, <2>5
<1> QED
  <2>1. saving' \in BOOLEAN /\ fd' \in {"open", "closed"}
    BY <1>1, <1>4 DEF Typed
  <2> QED
    BY <1>4, <1>6, <1>7, <1>10, <1>11, <1>12, <1>13, <2>1, BusyStep

LEMMA WholeIs ==
    ASSUME NEW dbs \in Seq(Dbs), NEW n, NEW out \in Outs, out.passwords = n,
           Len(out.dbs) = Len(dbs),
           \A d \in 1..Len(dbs) : /\ out.dbs[d].name = dbs[d].name
                                  /\ out.dbs[d].count = Cardinality(dbs[d].keys)
                                  /\ out.dbs[d].lines = dbs[d].keys
    PROVE  out = Whole([databases |-> dbs, passwords |-> n])
<1>1. PICK w : w = [d \in DOMAIN dbs |-> [name |-> dbs[d].name, count |-> Cardinality(dbs[d].keys),
                                          lines |-> dbs[d].keys]]
  OBVIOUS
<1>2. Whole([databases |-> dbs, passwords |-> n]) = [passwords |-> n, dbs |-> w]
  BY <1>1 DEF Whole
<1>3. out.dbs \in Seq(DbOuts) /\ DOMAIN out.dbs = 1..Len(dbs) /\ DOMAIN dbs = 1..Len(dbs)
  BY OutParts, LenProperties
<1>4. \A d \in 1..Len(dbs) : out.dbs[d] = w[d]
  <2>1. ASSUME NEW d \in 1..Len(dbs) PROVE out.dbs[d] = w[d]
    <3>1. out.dbs[d] \in DbOuts
      BY <1>3, ElementOfSeq
    <3>2. out.dbs[d] = [name |-> out.dbs[d].name, count |-> out.dbs[d].count, lines |-> out.dbs[d].lines]
      BY <3>1 DEF DbOuts
    <3>3. w[d] = [name |-> dbs[d].name, count |-> Cardinality(dbs[d].keys), lines |-> dbs[d].keys]
      BY <1>1, <1>3
    <3>4. /\ out.dbs[d].name = dbs[d].name /\ out.dbs[d].count = Cardinality(dbs[d].keys)
          /\ out.dbs[d].lines = dbs[d].keys
      OBVIOUS
    <3> QED
      BY ONLY <3>2, <3>3, <3>4
  <2> QED
    BY <2>1
<1>5. out.dbs = w
  <2>1. out.dbs = [d \in 1..Len(dbs) |-> out.dbs[d]]
    BY <1>3
  <2>2. w = [d \in 1..Len(dbs) |-> w[d]]
    BY <1>1, <1>3
  <2> QED
    BY <1>4, <2>1, <2>2
<1>6. out = [passwords |-> out.passwords, dbs |-> out.dbs]
  BY DEF Outs
<1> QED
  BY <1>2, <1>5, <1>6

LEMMA TruncateStep ==
    ASSUME Saving, NEW t \in Threads, Truncate(t)
    PROVE  Saving'
<1>1. /\ Typed /\ Call(saver[t]) /\ offset \in Nat /\ Multiple(offset)
      /\ databases \in Seq(Dbs) /\ passwords \in 0..MaxPasswords
      /\ file \in [head : SUBSET Outs, valid : Nat, size : Nat] /\ file.valid <= Capacity
  BY DEF Saving, Counting, Typed
<1>2. PICK o, z, v, r : o = saver[t].out /\ z = saver[t].size /\ v = Min({file.valid, z}) /\ r = Returned(t)
  OBVIOUS
<1>3. o \in Outs /\ z \in Nat /\ Size(o) \in Nat /\ Len(o.dbs) \in Nat
  BY <1>1, <1>2, CallFields
<1>4. /\ mode = "up" /\ saver[t].pc = "truncate" /\ Busy(t)
      /\ file' = [file EXCEPT !.size = z, !.valid = v]
      /\ saving' = FALSE /\ saver' = [saver EXCEPT ![t] = r]
      /\ saved' = IF saver[t].alone THEN {[databases |-> databases, passwords |-> passwords]} ELSE {}
      /\ UNCHANGED <<databases, passwords, fd, offset, mode>>
  BY <1>2 DEF Truncate, At, Busy
<1>5. Call(r) /\ r.pc \in {"idle", "close"} /\ r.pc \notin BusyPCs
  <2>1. Call(r) /\ r.pc \in {"idle", "close"}
    BY <1>2, IdleType
  <2> QED
    BY <2>1 DEF BusyPCs
<1>6. saver'[t] = r /\ \A u \in Threads \ {t} : saver'[u] = saver[u]
  BY <1>1, <1>4, <1>5, MoveType
<1>7. v \in Nat /\ v <= Capacity /\ v = IF file.valid <= z THEN file.valid ELSE z
  <2>1. file.valid \in Nat /\ Capacity \in Nat
    BY <1>1, Constants
  <2>2. v \in Nat /\ v = IF file.valid <= z THEN file.valid ELSE z
    BY <1>2, <1>3, <2>1, MaxOfTwo
  <2> QED
    BY <1>1, <1>3, <2>1, <2>2
<1>8. /\ file' \in [head : SUBSET Outs, valid : Nat, size : Nat] /\ file'.valid = v
      /\ file'.head = file.head /\ file'.size = z
  BY <1>1, <1>3, <1>4, <1>7
<1>9. Placed(t)' /\ Counted(t)' /\ ~Busy(t)'
  BY <1>5, <1>6 DEF Placed, Counted, Busy, BusyPCs
<1>10. Kept'
  <2>1. CASE ~saver[t].alone
    BY <1>4, <2>1 DEF Kept
  <2>2. CASE saver[t].alone
    <3>1. (\A u \in Threads : Busy(u) => u = t) /\ PutOut(saver[t]) /\ Blocks(saver[t])
      BY <1>4, <2>2 DEF Saving, Undisturbed
    <3>2. \A u \in Threads : ~Busy(u)'
      BY <1>6, <1>9, <3>1 DEF Busy
    <3>3. PICK data : data = [databases |-> databases, passwords |-> passwords]
      OBVIOUS
    <3>4. data.databases = databases /\ data.passwords = passwords
          /\ data \in [databases : Seq(Dbs), passwords : 0..MaxPasswords] /\ HasInitial(data.databases)
      BY <1>1, <1>4, <3>3 DEF Saving
    <3>5. o.passwords = passwords /\ Len(o.dbs) = Len(databases)
      BY <1>2, <1>4, <3>1 DEF PutOut
    <3>6. \A d \in 1..Len(databases) : /\ o.dbs[d].name = databases[d].name
                                       /\ o.dbs[d].count = Cardinality(databases[d].keys)
                                       /\ o.dbs[d].lines = databases[d].keys
      BY <1>2, <1>4, <3>1, <3>5 DEF PutOut
    <3>7. Whole(data) = o
      BY <1>1, <1>3, <3>3, <3>5, <3>6, WholeIs
    <3>8. ASSUME passwords <= 1, Size(o) < Capacity
          PROVE  file'.head = {o} /\ file'.valid = Size(o) /\ file'.size = Size(o)
      <4>1. file.head = {o} /\ file.valid = Size(o)
        BY <1>2, <1>4, <3>1, <3>8 DEF Blocks
      <4>2. z = Size(o)
        BY <1>2, <1>4, <3>5, <3>8 DEF Saving, Counting, Counted
      <4> QED
        BY <1>3, <1>7, <1>8, <4>1, <4>2
    <3>9. InFile(data)'
      BY <3>4, <3>7, <3>8 DEF InFile
    <3> QED
      BY <1>4, <2>2, <3>2, <3>3, <3>9 DEF Kept
  <2> QED
    BY <2>1, <2>2
<1>11. fd' \in {"open", "closed"}
  BY <1>1, <1>4 DEF Typed
<1> QED
  BY <1>1, <1>4, <1>5, <1>7, <1>8, <1>9, <1>10, <1>11, BusyStep

\* What every step keeps.
LEMMA NextSaving ==
    ASSUME Saving, [Next]_vars
    PROVE  Saving'
<1>1. CASE \/ \E d \in DOMAIN databases, k \in Keys : InsertKey(d, k) \/ DeleteKey(d, k)
           \/ \E name \in DOMAIN Names : CreateDatabase(name)
           \/ \E n \in 0..MaxPasswords : ChangePasswords(n)
  BY <1>1, CommandSteps
<1>2. CASE Save \/ Close
  BY <1>2, Constants, QuietSteps
<1>3. CASE \E t \in Background : BgSave(t)
  BY <1>3, Constants, QuietSteps
<1>4. CASE Exit \/ Crash
  BY <1>4, DieStep DEF Exit, Crash
<1>5. CASE Restart
  BY <1>5, RestartStep
<1>6. ASSUME NEW t \in Threads, Thread(t)
      PROVE  Saving'
  <2>1. CASE Test(t) \/ NoMemory(t) \/ SaveFails(t) \/ CloseFd(t)
    BY <2>1, QuietSteps
  <2>2. CASE BeginClosed(t) \/ DumpDies(t) \/ FreedDies(t)
    BY <2>2, DieStep DEF BeginClosed, DumpDies, FreedDies
  <2>3. CASE Begin(t)
    BY <2>3, BeginStep
  <2>4. CASE NextDatabase(t)
    BY <2>4, NextDatabaseStep
  <2>5. CASE NoNextDatabase(t)
    BY <2>5, NoNextDatabaseStep
  <2>6. CASE DumpLine(t)
    BY <2>6, DumpLineStep
  <2>7. CASE EndLines(t)
    BY <2>7, EndLinesStep
  <2>8. CASE Final(t)
    BY <2>8, FinalStep
  <2>9. CASE Truncate(t)
    BY <2>9, TruncateStep
  <2>10. CASE DumpFails(t)
    BY <2>10, DumpFailsStep
  <2>11. CASE Interrupt(t)
    BY <2>11, InterruptStep
  <2> QED
    BY <1>6, <2>1, <2>2, <2>3, <2>4, <2>5, <2>6, <2>7, <2>8, <2>9, <2>10, <2>11 DEF Thread
<1>7. CASE UNCHANGED vars
  BY <1>7, StutterStep
<1> QED
  BY <1>1, <1>2, <1>3, <1>4, <1>5, <1>6, <1>7 DEF Next

-----------------------------------------------------------------------------
(***************************************************************************)
(* What the invariant says of the file.                                    *)
(***************************************************************************)

\* Division leaves one quotient and one remainder.
LEMMA RemainderUnique ==
    ASSUME NEW n \in Nat \ {0}, NEW p \in Int, NEW q \in Int,
           NEW r \in 0..(n - 1), NEW s \in 0..(n - 1), n * p + r = n * q + s
    PROVE  p = q /\ r = s
<1>1. ASSUME p < q PROVE FALSE
  <2>1. q - p >= 1
    BY <1>1
  <2>2. n * (q - p) >= n
    BY <2>1
  <2>3. n * q = n * p + n * (q - p)
    OBVIOUS
  <2> QED
    BY <2>2, <2>3
<1>2. ASSUME q < p PROVE FALSE
  <2>1. p - q >= 1
    BY <1>2
  <2>2. n * (p - q) >= n
    BY <2>1
  <2>3. n * p = n * q + n * (p - q)
    OBVIOUS
  <2> QED
    BY <2>2, <2>3
<1> QED
  BY <1>1, <1>2

LEMMA MultipleRemainder ==
    ASSUME NEW a \in Nat, Multiple(a)
    PROVE  a % Capacity = 0
<1>1. PICK c \in Nat \ {0} : c = Capacity
  BY Constants
<1>2. PICK q \in Int : a = c * q + 0
  <2>1. PICK p \in 0..a : a = p * Capacity
    BY DEF Multiple
  <2>2. p * c = c * p + 0 /\ p \in Int
    OBVIOUS
  <2> QED
    BY <1>1, <2>1, <2>2
<1>3. PICK p, r : p = a \div c /\ r = a % c
  OBVIOUS
<1>4. a = c * p + r /\ p \in Int /\ r \in 0..(c - 1)
  BY <1>3, RemainderOf
<1>5. 0 \in 0..(c - 1)
  OBVIOUS
<1>6. r = 0
  BY ONLY c \in Nat \ {0}, q \in Int, <1>2, <1>4, <1>5, RemainderUnique
<1> QED
  BY <1>1, <1>3, <1>6

\* The databases put out first take less than all of them.
LEMMA PrefixSmaller ==
    ASSUME NEW s \in Seq(DbOuts), NEW j \in 0..Len(s), j # Len(s)
    PROVE  Total(SubSeq(s, 1, j)) < Total(s)
<1>1. Len(s) \in Nat
  BY LenProperties
<1>2. ASSUME NEW i \in 0..Len(s)
      PROVE  /\ SubSeq(s, 1, i) \in Seq(DbOuts) /\ Len(SubSeq(s, 1, i)) = i
             /\ \A d \in 1..i : SubSeq(s, 1, i)[d] = s[d]
             /\ Sized(SubSeq(s, 1, i)) /\ Total(SubSeq(s, 1, i)) \in Nat
  <2>1. PICK r : r = SubSeq(s, 1, i)
    OBVIOUS
  <2>2. r \in Seq(DbOuts) /\ Len(r) = i /\ \A d \in 1..i : r[d] = s[d]
    BY <1>1, <2>1, SubSeqProperties
  <2> QED
    BY <2>1, <2>2, SizedOuts, TotalType
<1>3. PICK T : T = [i \in 0..Len(s) |-> Total(SubSeq(s, 1, i))]
  OBVIOUS
<1>4. ASSUME NEW i \in 0..Len(s), i + 1 \in 0..Len(s)
      PROVE  T[i] < T[i + 1]
  <2>1. PICK k \in 0..Len(s) : k = i + 1
    BY <1>4
  <2>2. PICK p, r : p = SubSeq(s, 1, i) /\ r = SubSeq(s, 1, k)
    OBVIOUS
  <2>3. /\ r \in Seq(DbOuts) /\ Sized(p) /\ Sized(r) /\ Len(r) = Len(p) + 1 /\ Len(r) = k
        /\ \A d \in 1..Len(p) : r[d] = p[d]
    BY <1>1, <1>2, <2>1, <2>2
  <2>4. Total(r) = Total(p) + DbSize(r[Len(r)])
    BY <2>3, TotalStep
  <2>5. DbSize(r[Len(r)]) \in Nat /\ DbSize(r[Len(r)]) >= 9
    <3>1. Len(r) \in 1..Len(r)
      BY <2>1, <2>3
    <3> QED
      BY <2>3, <3>1, DbSizeType DEF Sized
  <2>6. T[i] = Total(p) /\ T[k] = Total(r) /\ Total(p) \in Nat
    BY <1>2, <1>3, <2>1, <2>2
  <2> QED
    BY <2>1, <2>4, <2>5, <2>6
<1>5. \A i \in 0..Len(s) : T[i] \in Nat
  BY <1>2, <1>3
<1>6. PICK P : P = {n \in Nat : \A i \in 0..Len(s) : i + n \in 0..Len(s) => T[i] + n <= T[i + n]}
  OBVIOUS
<1>7. 0 \in P
  BY <1>5, <1>6
<1>8. ASSUME NEW n \in P PROVE n + 1 \in P
  <2>1. n \in Nat /\ \A i \in 0..Len(s) : i + n \in 0..Len(s) => T[i] + n <= T[i + n]
    BY <1>6
  <2>2. ASSUME NEW i \in 0..Len(s), i + (n + 1) \in 0..Len(s) PROVE T[i] + (n + 1) <= T[i + (n + 1)]
    <3>1. PICK k \in 0..Len(s) : k = i + n /\ k + 1 = i + (n + 1) /\ k + 1 \in 0..Len(s)
      BY <1>1, <2>1, <2>2
    <3>2. T[i] + n <= T[k] /\ T[k] < T[k + 1]
      BY <1>4, <2>1, <3>1
    <3>3. T[i] \in Nat /\ T[k] \in Nat /\ T[k + 1] \in Nat
      BY <1>5, <3>1
    <3> QED
      BY <2>1, <3>1, <3>2, <3>3
  <2>3. n + 1 \in Nat
    BY <2>1
  <2> QED
    BY <1>6, <2>2, <2>3
<1>9. P = Nat
  <2>1. P \in SUBSET Nat
    BY <1>6
  <2> QED
    BY <1>7, <1>8, <2>1, NatSetInduction
<1>10. PICK n \in Nat : n = Len(s) - j /\ j + n = Len(s) /\ n >= 1
  BY <1>1
<1>11. T[j] + n <= T[Len(s)]
  <2>1. n \in P /\ Len(s) \in 0..Len(s)
    BY <1>1, <1>9
  <2> QED
    BY <1>6, <1>10, <2>1
<1>12. T[j] = Total(SubSeq(s, 1, j)) /\ T[Len(s)] = Total(SubSeq(s, 1, Len(s)))
  BY <1>1, <1>3
<1>13. Total(SubSeq(s, 1, Len(s))) = Total(s)
  <2>1. Len(s) \in 0..Len(s)
    BY <1>1
  <2>2. PICK r : r = SubSeq(s, 1, Len(s))
    OBVIOUS
  <2>3. Sized(r) /\ Sized(s) /\ Len(r) = Len(s) /\ \A d \in 1..Len(s) : r[d] = s[d]
    BY <1>2, <2>1, <2>2, SizedOuts
  <2> QED
    BY <2>2, <2>3, TotalAgree
<1>14. T[j] \in Nat /\ T[Len(s)] \in Nat
  BY <1>1, <1>5
<1> QED
  BY <1>10, <1>11, <1>12, <1>13, <1>14

\* What is put out of the data, and what a reading of it gives.
LEMMA WholeType ==
    ASSUME NEW data \in [databases : Seq(Dbs), passwords : 0..MaxPasswords]
    PROVE  /\ Whole(data) \in Outs /\ Whole(data).passwords = data.passwords
           /\ Len(Whole(data).dbs) = Len(data.databases)
           /\ DOMAIN Whole(data).dbs = 1..Len(data.databases)
           /\ \A d \in 1..Len(data.databases) :
                 /\ Whole(data).dbs[d].name = data.databases[d].name
                 /\ Whole(data).dbs[d].count = Cardinality(data.databases[d].keys)
                 /\ Whole(data).dbs[d].lines = data.databases[d].keys
<1>1. PICK dbs : dbs = data.databases
  OBVIOUS
<1>2. dbs \in Seq(Dbs) /\ data.passwords \in 0..MaxPasswords
  BY <1>1
<1>3. Len(dbs) \in Nat /\ DOMAIN dbs = 1..Len(dbs) /\ \A d \in 1..Len(dbs) : dbs[d] \in Dbs
  BY <1>2, LenProperties, ElementOfSeq
<1>4. PICK w : w = [d \in DOMAIN dbs |-> [name |-> dbs[d].name, count |-> Cardinality(dbs[d].keys),
                                          lines |-> dbs[d].keys]]
  OBVIOUS
<1>5. Whole(data) = [passwords |-> data.passwords, dbs |-> w]
  BY <1>1, <1>4 DEF Whole
<1>6. \A d \in 1..Len(dbs) : /\ w[d].name = dbs[d].name /\ w[d].count = Cardinality(dbs[d].keys)
                             /\ w[d].lines = dbs[d].keys /\ w[d] \in DbOuts
  <2>1. ASSUME NEW d \in 1..Len(dbs)
        PROVE  /\ w[d].name = dbs[d].name /\ w[d].count = Cardinality(dbs[d].keys)
               /\ w[d].lines = dbs[d].keys /\ w[d] \in DbOuts
    <3>1. dbs[d].name \in DOMAIN Names /\ dbs[d].keys \in SUBSET Keys
      BY <1>3 DEF Dbs
    <3>2. Cardinality(dbs[d].keys) \in Nat
      BY <3>1, KeysFinite
    <3>3. w[d] = [name |-> dbs[d].name, count |-> Cardinality(dbs[d].keys), lines |-> dbs[d].keys]
      BY <1>3, <1>4
    <3> QED
      BY <3>1, <3>2, <3>3 DEF DbOuts
  <2> QED
    BY <2>1
<1>7. w \in Seq(DbOuts) /\ Len(w) = Len(dbs) /\ DOMAIN w = 1..Len(dbs)
  <2>1. w \in [1..Len(dbs) -> DbOuts]
    <3>1. w = [d \in 1..Len(dbs) |-> w[d]]
      BY <1>3, <1>4
    <3> QED
      BY <1>6, <3>1
  <2>2. w \in Seq(DbOuts)
    BY <1>3, <2>1, IsASeq
  <2> QED
    BY <1>3, <2>1, <2>2, LenProperties
<1> QED
  BY <1>1, <1>2, <1>5, <1>6, <1>7 DEF Outs

LEMMA ContentOfWhole ==
    ASSUME NEW data \in [databases : Seq(Dbs), passwords : 0..MaxPasswords], HasInitial(data.databases)
    PROVE  Content(Whole(data)) = data
<1>1. PICK dbs, w : dbs = data.databases /\ w = Whole(data).dbs
  OBVIOUS
<1>2. dbs \in Seq(Dbs) /\ data = [databases |-> dbs, passwords |-> data.passwords]
  BY <1>1
<1>3. Len(dbs) \in Nat /\ DOMAIN dbs = 1..Len(dbs) /\ \A d \in 1..Len(dbs) : dbs[d] \in Dbs
  BY <1>2, LenProperties, ElementOfSeq
<1>4. /\ DOMAIN w = 1..Len(dbs) /\ Whole(data).passwords = data.passwords
      /\ \A d \in 1..Len(dbs) : w[d].name = dbs[d].name /\ w[d].lines = dbs[d].keys
  BY <1>1, WholeType
<1>5. PICK c : c = [d \in DOMAIN w |-> [name |-> w[d].name, keys |-> w[d].lines]]
  OBVIOUS
<1>6. c = dbs
  <2>1. ASSUME NEW d \in 1..Len(dbs) PROVE c[d] = dbs[d]
    <3>1. c[d] = [name |-> w[d].name, keys |-> w[d].lines]
      BY <1>4, <1>5
    <3>2. dbs[d] = [name |-> dbs[d].name, keys |-> dbs[d].keys]
      BY <1>3 DEF Dbs
    <3>3. w[d].name = dbs[d].name /\ w[d].lines = dbs[d].keys
      BY <1>4
    <3> QED
      BY ONLY <3>1, <3>2, <3>3
  <2>2. c = [d \in 1..Len(dbs) |-> c[d]] /\ dbs = [d \in 1..Len(dbs) |-> dbs[d]]
    BY <1>2, <1>3, <1>4, <1>5
  <2> QED
    BY <2>1, <2>2
<1>7. Content(Whole(data)) = [databases |-> IF HasInitial(c) THEN c ELSE c \o Empty.databases,
                              passwords |-> Whole(data).passwords]
  BY <1>1, <1>5 DEF Content, HasInitial
<1> QED
  BY <1>1, <1>2, <1>4, <1>6, <1>7

\* The size of what is put out is that which Holdable asks about.
LEMMA HoldableSize ==
    ASSUME NEW data \in [databases : Seq(Dbs), passwords : 0..MaxPasswords], Holdable(data)
    PROVE  /\ data.passwords <= 1 /\ Size(Whole(data)) < Capacity
           /\ WellFormed(Whole(data))
           /\ \A d \in DOMAIN Whole(data).dbs : \A k \in Whole(data).dbs[d].lines : Readable(k)
<1>1. PICK dbs, w : dbs = data.databases /\ w = Whole(data).dbs
  OBVIOUS
<1>2. dbs \in Seq(Dbs) /\ data.passwords \in Nat
  BY <1>1, Constants
<1>3. Len(dbs) \in Nat /\ DOMAIN dbs = 1..Len(dbs) /\ \A d \in 1..Len(dbs) : dbs[d] \in Dbs
  BY <1>2, LenProperties, ElementOfSeq
<1>4. /\ Whole(data) \in Outs /\ Len(w) = Len(dbs)
      /\ DOMAIN w = 1..Len(dbs) /\ Whole(data).passwords = data.passwords
      /\ \A d \in 1..Len(dbs) : /\ w[d].name = dbs[d].name /\ w[d].lines = dbs[d].keys
                                /\ w[d].count = Cardinality(dbs[d].keys)
  BY <1>1, WholeType
<1>5. PICK h : h = [d \in DOMAIN dbs |-> [name |-> dbs[d].name, lines |-> dbs[d].keys]]
  OBVIOUS
<1>6. /\ data.passwords <= 1
      /\ \A d \in DOMAIN h : \A k \in h[d].lines : LineSize(k) > 0 /\ Readable(k)
      /\ Size([passwords |-> data.passwords, dbs |-> h]) < Capacity
  BY <1>1, <1>5 DEF Holdable
<1>7. \A d \in 1..Len(dbs) : h[d].name = dbs[d].name /\ h[d].lines = dbs[d].keys
  BY <1>3, <1>5
<1>8. DOMAIN h = 1..Len(dbs) /\ Len(h) = Len(dbs)
  <2>1. PICK R : R = [name : DOMAIN Names, lines : SUBSET Keys]
    OBVIOUS
  <2>2. h \in [1..Len(dbs) -> R]
    BY <1>3, <1>5, <2>1 DEF Dbs
  <2>3. h \in Seq(R) /\ DOMAIN h = 1..Len(dbs)
    BY <1>3, <2>2, IsASeq
  <2>4. Len(h) \in Nat /\ DOMAIN h = 1..Len(h)
    BY <2>3, LenProperties
  <2> QED
    BY <1>3, <2>3, <2>4
<1>9. Sized(h) /\ Sized(w)
  <2>1. Sized(w)
    BY <1>1, <1>4, OutParts
  <2>2. \A d \in 1..Len(dbs) : dbs[d].name \in DOMAIN Names /\ dbs[d].keys \in SUBSET Keys
    BY <1>3 DEF Dbs
  <2>3. Sized(h)
    BY <1>3, <1>7, <1>8, <2>2 DEF Sized
  <2> QED
    BY <2>1, <2>3
<1>10. Total(h) = Total(w)
  BY <1>4, <1>7, <1>8, <1>9, TotalAgree
<1>11. Size(Whole(data)) < Capacity
  <2>1. PICK x : x = [passwords |-> data.passwords, dbs |-> h]
    OBVIOUS
  <2>2. x.passwords = data.passwords /\ x.dbs = h
    BY <2>1
  <2>3. Size(x) = HeadSize(data.passwords) + Total(h)
    BY <1>2, <1>9, <2>2, SizeSplit
  <2>4. Size(Whole(data)) = HeadSize(data.passwords) + Total(w)
    BY <1>1, <1>2, <1>4, <1>9, SizeSplit
  <2> QED
    BY <1>6, <1>10, <2>1, <2>3, <2>4
<1>12. WellFormed(Whole(data))
  <2>1. ASSUME NEW d \in 1..Len(dbs)
        PROVE  w[d].count = Cardinality({k \in w[d].lines : LineSize(k) > 0})
    <3>1. \A k \in dbs[d].keys : LineSize(k) > 0
      BY <1>6, <1>7, <1>8
    <3>2. {k \in dbs[d].keys : LineSize(k) > 0} = dbs[d].keys
      BY <3>1
    <3> QED
      BY <1>4, <3>2
  <2> QED
    BY <1>1, <1>4, <2>1 DEF WellFormed
<1>13. \A d \in DOMAIN w : \A k \in w[d].lines : Readable(k)
  BY <1>4, <1>6, <1>7, <1>8
<1> QED
  BY <1>1, <1>6, <1>11, <1>12, <1>13

\* A file that holds it, and nothing else, is read as that.
LEMMA ReadsBack ==
    ASSUME NEW data, InFile(data), Holdable(data)
    PROVE  Load(file) = {data}
<1>1. PICK w : w = Whole(data)
  OBVIOUS
<1>2. data \in [databases : Seq(Dbs), passwords : 0..MaxPasswords] /\ HasInitial(data.databases)
  BY DEF InFile
<1>3. /\ data.passwords <= 1 /\ Size(w) < Capacity /\ WellFormed(w)
      /\ \A d \in DOMAIN w.dbs : \A k \in w.dbs[d].lines : Readable(k)
  BY <1>1, <1>2, HoldableSize
<1>4. file.head = {w} /\ file.valid = Size(w) /\ file.size = Size(w)
  BY <1>1, <1>3 DEF InFile
<1>5. /\ w \in Outs /\ w.passwords \in Nat /\ w.dbs \in Seq(DbOuts) /\ Sized(w.dbs)
      /\ Size(w) = HeadSize(w.passwords) + Total(w.dbs) /\ Size(w) \in Nat /\ Size(w) >= 7
      /\ Len(w.dbs) \in Nat
  <2>1. w \in Outs
    BY <1>1, <1>2, WholeType
  <2>2. w.passwords \in Nat /\ w.dbs \in Seq(DbOuts) /\ Sized(w.dbs)
    BY <2>1, OutParts
  <2> QED
    BY <2>1, <2>2, SizeSplit, LenProperties
<1>6. FirstDbs(w, Len(w.dbs)) = w
  <2>1. SubSeq(w.dbs, 1, Len(w.dbs)) = w.dbs
    <3>1. PICK r : r = SubSeq(w.dbs, 1, Len(w.dbs))
      OBVIOUS
    <3>2. r \in Seq(DbOuts) /\ Len(r) = Len(w.dbs) /\ \A i \in 1..Len(w.dbs) : r[i] = w.dbs[i]
      BY <1>5, <3>1, SubSeqProperties
    <3> QED
      BY <1>5, <3>1, <3>2, SeqEqual
  <2> QED
    BY <1>5, <2>1 DEF FirstDbs, Outs
<1>7. Loadable(file, w)
  BY <1>3, <1>4, <1>5 DEF Loadable
<1>8. ASSUME NEW i \in 0..Len(w.dbs), i # Len(w.dbs) PROVE ~Loadable(file, FirstDbs(w, i))
  <2>1. PICK p : p = FirstDbs(w, i)
    OBVIOUS
  <2>2. p \in Outs /\ p.passwords = w.passwords /\ p.dbs = SubSeq(w.dbs, 1, i)
    BY <1>5, <2>1, FirstDbsType
  <2>3. Total(p.dbs) < Total(w.dbs)
    BY <1>5, <1>8, <2>2, PrefixSmaller
  <2>4. Sized(p.dbs) /\ Total(p.dbs) \in Nat /\ Total(w.dbs) \in Nat /\ HeadSize(w.passwords) \in Nat
    BY <1>5, <2>2, OutParts, TotalType, HeadSizeType
  <2>5. Size(p) = HeadSize(w.passwords) + Total(p.dbs)
    BY <1>5, <2>2, <2>4, SizeSplit
  <2>6. Size(p) # Size(w)
    BY <1>5, <2>3, <2>4, <2>5
  <2> QED
    BY <1>4, <2>1, <2>6 DEF Loadable
<1>9. PICK readings : readings = UNION {{FirstDbs(out, i) : i \in 0..Len(out.dbs)} : out \in file.head}
  OBVIOUS
<1>10. readings = {FirstDbs(w, i) : i \in 0..Len(w.dbs)}
  BY <1>4, <1>9
<1>11. {r \in readings : Loadable(file, r)} = {w}
  <2>1. w \in readings
    <3>1. Len(w.dbs) \in 0..Len(w.dbs)
      BY <1>5
    <3> QED
      BY <1>6, <1>10, <3>1
  <2>2. ASSUME NEW r \in readings, Loadable(file, r) PROVE r = w
    <3>1. PICK i \in 0..Len(w.dbs) : r = FirstDbs(w, i)
      BY <1>10
    <3>2. i = Len(w.dbs)
      BY <1>8, <2>2, <3>1
    <3> QED
      BY <1>6, <3>1, <3>2
  <2> QED
    BY <1>7, <2>1, <2>2
<1>12. Load(file) = {Content(out) : out \in {w}}
  <2>1. file.size # 0
    BY <1>4, <1>5
  <2>2. Load(file) = {Content(out) : out \in {r \in readings : Loadable(file, r)}}
    BY <1>9, <2>1 DEF Load
  <2> QED
    BY <1>11, <2>2
<1>13. Content(w) = data
  BY <1>1, <1>2, ContentOfWhole
<1> QED
  BY <1>12, <1>13

-----------------------------------------------------------------------------
(***************************************************************************)
(* The theorems.                                                           *)
(***************************************************************************)

LEMMA SavingInvariant == Spec => []Saving
<1>1. Saving /\ [Next]_vars => Saving'
  BY NextSaving
<1> QED
  BY InitSaving, <1>1, PTL DEF Spec

\* The data, the flag and the file keep their types, and save_data always writes
\* at a multiple of block_capacity, although all savers share one file offset.
THEOREM TypeCorrect == Spec => []TypeOK
<1>1. Saving => TypeOK
  <2> SUFFICES ASSUME Saving PROVE TypeOK
    OBVIOUS
  <2>1. Typed
    BY DEF Saving, Counting
  <2>2. \A d \in DOMAIN databases : databases[d].name \in DOMAIN Names /\ databases[d].keys \subseteq Keys
    <3>1. DOMAIN databases = 1..Len(databases) /\ \A d \in 1..Len(databases) : databases[d] \in Dbs
      BY <2>1, LenProperties, ElementOfSeq DEF Typed
    <3> QED
      BY <3>1 DEF Dbs
  <2>3. offset % Capacity = 0
    BY <2>1, MultipleRemainder DEF Typed
  <2>4. \A t \in Threads : saver[t].pc \in PCs
    BY <2>1, CallFields DEF Typed
  <2>5. file.valid <= Capacity /\ file.size \in Nat
    BY <2>1 DEF Typed
  <2> QED
    BY <2>1, <2>2, <2>3, <2>4, <2>5 DEF TypeOK, Typed, PCs
<1> QED
  BY SavingInvariant, <1>1, PTL

\* Whoever else saves, and whatever the commands change meanwhile: the size that
\* save_data counts, and cuts the file to, is the size of what it has put out (up
\* to one password), and all of that but the block in hand are whole blocks.
THEOREM SizesAgreeInvariant == Spec => []SizesAgree
<1>1. Saving => SizesAgree
  <2> SUFFICES ASSUME Saving, NEW t \in Threads, Busy(t)
               PROVE  /\ saver[t].out.passwords <= 1 => saver[t].size = Size(saver[t].out)
                      /\ (Size(saver[t].out) - saver[t].block_size) % Capacity = 0
    BY DEF SizesAgree
  <2>1. /\ saver[t].out.passwords <= 1 => saver[t].size = Size(saver[t].out)
        /\ saver[t].block_size <= Size(saver[t].out)
        /\ Multiple(Size(saver[t].out) - saver[t].block_size)
    BY DEF Saving, Counting, Counted
  <2>2. saver[t].block_size \in Nat /\ Size(saver[t].out) \in Nat
    <3>1. Call(saver[t])
      BY DEF Saving, Counting, Typed
    <3> QED
      BY <3>1, CallFields
  <2>3. PICK a \in Nat : a = Size(saver[t].out) - saver[t].block_size
    BY <2>1, <2>2
  <2>4. a % Capacity = 0
    BY <2>1, <2>3, MultipleRemainder
  <2> QED
    BY <2>1, <2>3, <2>4
<1> QED
  BY SavingInvariant, <1>1, PTL

\* A save that no other save and no command overlapped is read back by read_file
\* as exactly what the server held, until somebody writes the file again: if it
\* has at most one password, no null, no double and no integer of more than 128
\* bytes, and fits into less than a block.
THEOREM SavedReadsBackInvariant == Spec => []SavedReadsBack
<1>1. Saving => SavedReadsBack
  BY ReadsBack DEF Saving, Kept, SavedReadsBack
<1> QED
  BY SavingInvariant, <1>1, PTL
=============================================================================
