------------------------------ MODULE MCTQueue ------------------------------
(* TLC instances of TQueue. *)
EXTENDS TQueue, TLC

\* Threads and payloads are interchangeable: sound for the safety runs only.
Symmetric ==
    Permutations(Producers) \cup Permutations(Consumers) \cup Permutations(Values)
=============================================================================
