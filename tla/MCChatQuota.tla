----------------------------- MODULE MCChatQuota -----------------------------
(* Model-checking instances of ChatQuota: a handful of requests against a   *)
(* plan of one or two queries, over two calendar months.                    *)
EXTENDS ChatQuota, TLC

Symmetry == Permutations(Request)
=============================================================================
