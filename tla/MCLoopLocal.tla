----------------------------- MODULE MCLoopLocal -----------------------------
(* Model-checking instance of LoopLocal: two holders with a lock and one      *)
(* without, three coroutines on each of two loops.                            *)
EXTENDS LoopLocal

CONSTANTS pool, client, a, b, c
=============================================================================
