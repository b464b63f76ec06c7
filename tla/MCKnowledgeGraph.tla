--------------------------- MODULE MCKnowledgeGraph ---------------------------
(* Model-checking instances of KnowledgeGraph: two documents that share two  *)
(* entities and a relation between them, the first in two chunks and with an *)
(* entity that has the name, but not the type, of a shared one, the second   *)
(* with another relation in the same chunk.                                  *)
EXTENDS KnowledgeGraph, TLC

CONSTANTS d1, d2, c1, c2, c3, acme, globex, acmePerson

ChunkDocs  == (c1 :> d1) @@ (c2 :> d1) @@ (c3 :> d2)
Names      == (acme :> "acme") @@ (globex :> "globex") @@ (acmePerson :> "acme")
Mentioned  == (c1 :> {acme, globex}) @@ (c2 :> {acmePerson}) @@ (c3 :> {acme, globex})
Related    == (c1 :> {<<"acme", "owns", "globex">>}) @@ (c2 :> {})
              @@ (c3 :> {<<"acme", "owns", "globex">>, <<"globex", "owns", "acme">>})

Builds == Permutations(Build)
=============================================================================
