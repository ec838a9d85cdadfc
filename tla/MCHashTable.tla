---------------------------- MODULE MCHashTable ----------------------------
(* TLC instances of HashTable. *)
EXTENDS HashTable, TLC

\* A slot is zeroed, or holds what one element of a table that was freed held.
SomeStale == {Empty, [key |-> CHOOSE k \in Keys : TRUE, value |-> CHOOSE v \in Values : TRUE]}

\* It returns memory that held another table, whose keys are freed strings.
Reused == {Empty} \cup [key : Keys, value : Values]
=============================================================================
