------------------------------- MODULE KVMap -------------------------------
(***************************************************************************)
(* What the users of a tellydb hash table rely on: a finite map in which   *)
(* insertion never overwrites.  `answer` is what the last call returned.   *)
(***************************************************************************)
EXTENDS Functions

CONSTANTS Keys, Values, NoAnswer, NULL

VARIABLES map, answer

vars == <<map, answer>>

Init == map = << >> /\ answer = NoAnswer

\* The element that holds k after the call: the one that was there, if any.
Insert(k, v) ==
    /\ map' = IF k \in DOMAIN map THEN map
              ELSE [j \in DOMAIN map \cup {k} |-> IF j = k THEN v ELSE map[j]]
    /\ answer' = map'[k]

\* There was no memory to grow the table with.
InsertRefused == answer' = NULL /\ UNCHANGED map

Delete(k) ==
    /\ map' = Restrict(map, DOMAIN map \ {k})
    /\ answer' = (k \in DOMAIN map)

Get(k) ==
    /\ answer' = IF k \in DOMAIN map THEN map[k] ELSE NULL
    /\ UNCHANGED map

Clear == map' = << >> /\ answer' = NoAnswer

Next ==
    \/ \E k \in Keys, v \in Values : Insert(k, v)
    \/ \E k \in Keys : Delete(k) \/ Get(k)
    \/ InsertRefused \/ Clear

Spec == Init /\ [][Next]_vars
=============================================================================
