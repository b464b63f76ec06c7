----------------------------- MODULE MCIngestion -----------------------------
(* Model-checking instances of Ingestion: one or two documents, one or two  *)
(* workers and at most two delete requests.                                *)
EXTENDS Ingestion, TLC

Symmetry == Permutations(Doc) \cup Permutations(Worker) \cup Permutations(Deleter)
=============================================================================
