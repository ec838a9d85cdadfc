---------------------------- MODULE MCTxPipeline ----------------------------
(* TLC instances of TxPipeline. *)
EXTENDS TxPipeline, TLC

CONSTANTS c1, c2, c3

\* One client that uses blocks; the others send plain commands.
MCMenu   == [c \in Clients |-> IF c = c1 THEN Commands ELSE {"OP"}]
MCBound  == [c \in Clients |-> IF c = c1 THEN 4 ELSE 1]
MCMenuLive == [c \in Clients |-> IF c = c1 THEN {"MULTI", "EXEC"} ELSE {"OP"}]
MCBoundLive == [c \in Clients |-> IF c = c1 THEN 2 ELSE 1]

\* Bound: of the scripts of four commands only those that begin with a block.
BlockFirst == Number(c1) = 4 => script[c1][1] = "MULTI"

\* The plain clients are interchangeable; used by the safety run only.
Symmetric == Permutations({c2, c3})
=============================================================================
