----------------------------- MODULE MCKeyspace -----------------------------
(* TLC instances of Keyspace. *)
EXTENDS Keyspace

\* Keys are interchangeable: the properties of this run are not liveness.
Symmetric == Permutations(Keys)

Word(kind) == [kind |-> kind, n |-> 1]

AllWords == {Word(kind) : kind \in {"int", "double", "false", "null", "text"}}
TextOnly == {Word("text")}
=============================================================================
