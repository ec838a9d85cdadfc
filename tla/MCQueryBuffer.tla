---------------------------- MODULE MCQueryBuffer ---------------------------
(* TLC instances of QueryBuffer. *)
EXTENDS QueryBuffer, TLC

\* Sound: no run of this module with symmetry checks liveness.
Symmetric == Permutations(Buffers)
=============================================================================
