------------------------------- MODULE MCAuth -------------------------------
(* TLC instances of Auth. *)
EXTENDS Auth, TLC

\* Sound: no run of this module checks liveness.
Symmetric == Permutations(Slots) \cup Permutations(Values) \cup Permutations(Objects)
=============================================================================
