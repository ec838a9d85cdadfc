------------------------------ MODULE MCIOPath ------------------------------
(* TLC instances of IOPath. *)
EXTENDS IOPath

\* The first connection sends two commands, the next ones none.
TwoThenNone == [k \in Conns |-> IF k = 1 THEN 2 ELSE 0]
=============================================================================
