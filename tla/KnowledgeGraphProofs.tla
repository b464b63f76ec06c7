------------------------ MODULE KnowledgeGraphProofs ------------------------
(***************************************************************************)
(* Machine-checked proofs about KnowledgeGraph, for any documents, chunks, *)
(* entities and builds: what holds in every overlap first, then what holds *)
(* of the documents whose deletion did not overlap a build of theirs.      *)
(***************************************************************************)
EXTENDS KnowledgeGraph, FiniteSetTheorems, TLAPS

\* A document's clean-up starts with the deletion of its row.
Rows == \A d \in Doc : dpc[d] = "kept" <=> d \in rows

(* Each relation has a weight for each of its chunks.                      *)
Weighed == \A e \in Edge : IsFiniteSet(chunkIds[e]) /\ weight[e] >= Cardinality(chunkIds[e])

Active(b) == bpc[b] \notin {"done", "failed"}

(* No build is left of a deleted document, and a build writes the chunks   *)
(* of its own document.                                                    *)
BuildsOwn ==
    \A b \in Build :
        /\ target[b] \in rows \cup unclean \/ ~Active(b)
        /\ todo[b] \cup extracted[b] \subseteq ChunksOf(target[b])
        /\ \A p \in listed[b] : p[1] \in ChunksOf(target[b]) /\ p[2] \in RelationsOf[p[1]]

(* The Document node comes before the Chunk nodes of a build, and all of    *)
(* those before the entities.                                              *)
BuildsInOrder ==
    \A b \in Build : Active(b) /\ target[b] \notin unclean =>
        /\ bpc[b] \in {"chunks", "entities", "relations"} => target[b] \in docNodes
        /\ bpc[b] = "chunks" => ChunksOf(target[b]) \subseteq chunkNodes \cup todo[b]
        /\ bpc[b] \in {"entities", "relations"} => ChunksOf(target[b]) \subseteq chunkNodes

(* Where the clean-up of a document that no build overlaps has come to: its *)
(* chunks are found through their HAS_CHUNK edges until they are gone, and  *)
(* its Document node goes after them.                                      *)
CleanedInOrder ==
    \A d \in Doc \ unclean :
        /\ \A c \in chunkNodes : DocOf[c] = d =>
              c \in hasChunk /\ dpc[d] \in {"kept", "scrub", "edges", "chunks"}
        /\ d \in docNodes => dpc[d] \notin {"orphans", "done"}

CleanInv ==
    /\ TypeOK
    /\ Weighed
    /\ Rows
    /\ BuildsOwn
    /\ BuildsInOrder
    /\ CleanedInOrder

-----------------------------------------------------------------------------

\* A chunk whose entities are in the graph, with their MENTIONS edges.
Written(c) == c \in chunkNodes /\ \A o \in MentionsOf[c] : <<c, o>> \in mentions

Names(c, e) == Says(e) \in RelationsOf[c]

(* Relations are written after the entities of their chunk.                *)
Extracted ==
    \A b \in Build : Active(b) /\ target[b] \notin unclean =>
        /\ bpc[b] \in {"entities", "relations"} => \A c \in extracted[b] : Written(c)
        /\ bpc[b] = "relations" =>
              todo[b] \subseteq extracted[b] /\ \A p \in listed[b] : p[1] \in extracted[b]

(* A relation is supported by chunks that relate its names, are in the      *)
(* graph and keep their entities; and where it has lost the last of them,   *)
(* the clean-up that took it off has yet to delete the relation.           *)
Supported ==
    /\ \A e \in Edge : \A c \in chunkIds[e] :
          /\ Names(c, e)
          /\ DocOf[c] \notin unclean => Written(c) /\ dpc[DocOf[c]] \in {"kept", "scrub"}
    /\ unclean = {} =>
          \A e \in related : chunkIds[e] = {} =>
              \E c \in Chunk : dpc[DocOf[c]] = "edges" /\ Written(c) /\ Names(c, e)

(* Orphans are left by a deletion that has yet to delete them, or could not *)
(* for the sake of one that is named only.                                 *)
OrphansLeft ==
    unclean = {} =>
        /\ \/ Orphans = {}
           \/ blocked # {}
           \/ \E d \in Doc : dpc[d] \in {"document", "orphans"}
        /\ \A o \in blocked : NamedOnly(o)

GraphInv ==
    /\ CleanInv
    /\ Extracted
    /\ Supported
    /\ OrphansLeft

-----------------------------------------------------------------------------

\* Every state is well typed: edges only join nodes that exist.
LEMMA TypeStep ==
    ASSUME TypeOK, Weighed, [Next]_vars
    PROVE  TypeOK'
  <1> USE GraphAssumption
        DEF TypeOK, Edge, BuildAt, DeleteAt, nodes, edges, builds, history,
            ChunksOf, Linked
  <1>1. ASSUME NEW b \in Build, Fetch(b) PROVE TypeOK'
    BY <1>1 DEF Fetch
  <1>2. ASSUME NEW b \in Build, UpsertDocumentNode(b) PROVE TypeOK'
    BY <1>2 DEF UpsertDocumentNode
  <1>3. ASSUME NEW b \in Build, UpsertChunkNode(b) PROVE TypeOK'
    BY <1>3 DEF UpsertChunkNode
  <1>4. ASSUME NEW b \in Build, NextLoop(b) PROVE TypeOK'
    <2>1. PICK S \in SUBSET Chunk : todo' = [todo EXCEPT ![b] = S]
      <3>1. ChunksOf(target[b]) \subseteq Chunk
        OBVIOUS
      <3>2. {c \in extracted[b] : Cardinality(MentionsOf[c]) > 1} \subseteq Chunk
        OBVIOUS
      <3>3. todo' = todo => todo' = [todo EXCEPT ![b] = todo[b]]
        OBVIOUS
      <3> QED
        BY <1>4, <3>1, <3>2, <3>3 DEF NextLoop
    <2>2. bpc' \in [Build -> {"queued", "document", "chunks", "entities", "relations",
                             "raised", "done", "failed"}]
      BY <1>4 DEF NextLoop
    <2>3. extracted' \in [Build -> SUBSET Chunk]
      BY <1>4 DEF NextLoop
    <2> QED
      BY <1>4, <2>1, <2>2, <2>3 DEF NextLoop
  <1>5. ASSUME NEW b \in Build, UpsertEntities(b) PROVE TypeOK'
    BY <1>5 DEF UpsertEntities
  <1>6. ASSUME NEW b \in Build, UpsertRelation(b) PROVE TypeOK'
    BY <1>6 DEF UpsertRelation, EdgesOf
  <1>7. ASSUME NEW b \in Build, SkipChunk(b) PROVE TypeOK'
    BY <1>7 DEF SkipChunk
  <1>8. ASSUME NEW b \in Build, BuildRaises(b) PROVE TypeOK'
    BY <1>8 DEF BuildRaises
  <1>9. ASSUME NEW b \in Build, Retry(b) PROVE TypeOK'
    BY <1>9 DEF Retry
  <1>10. ASSUME NEW d \in Doc, DeleteRow(d) PROVE TypeOK'
    BY <1>10 DEF DeleteRow, Building
  <1>11. ASSUME NEW d \in Doc, ScrubRelations(d) PROVE TypeOK'
    <2>1. \A e \in Edge : Cardinality(chunkIds[e] \ Linked(d)) \in Nat
      BY FS_Subset, FS_CardinalityType DEF Weighed
    <2> QED
      BY <1>11, <2>1 DEF ScrubRelations
  <1>12. ASSUME NEW d \in Doc, DeleteEmptyRelations(d) PROVE TypeOK'
    BY <1>12 DEF DeleteEmptyRelations
  <1>13. ASSUME NEW d \in Doc, DeleteChunkNodes(d) PROVE TypeOK'
    BY <1>13 DEF DeleteChunkNodes
  <1>14. ASSUME NEW d \in Doc, DeleteDocumentNode(d) PROVE TypeOK'
    BY <1>14 DEF DeleteDocumentNode
  <1>15. ASSUME NEW d \in Doc, DeleteOrphans(d) PROVE TypeOK'
    BY <1>15 DEF DeleteOrphans, RelatedOrphans, Orphans
  <1>16. ASSUME NEW d \in Doc, CleanUpFails(d) PROVE TypeOK'
    BY <1>16 DEF CleanUpFails
  <1>17. CASE UNCHANGED vars
    BY <1>17 DEF vars
  <1>18. ASSUME NEW b \in Build, TakeRelations(b) PROVE TypeOK'
    BY <1>18 DEF TakeRelations, Relation
  <1> QED
    BY <1>1, <1>2, <1>3, <1>4, <1>5, <1>6, <1>7, <1>8, <1>9, <1>10, <1>11, <1>12,
       <1>13, <1>14, <1>15, <1>16, <1>17, <1>18
       DEF Next

\* A chunk that is added to a relation adds to its weight, one that is taken
\* off leaves at least the number of the others.
LEMMA WeighedStep ==
    ASSUME TypeOK, Weighed, [Next]_vars
    PROVE  Weighed'
  <1> USE DEF Weighed, TypeOK, BuildAt, DeleteAt, nodes, edges, builds, history,
        ChunksOf, Linked
  <1>1. ASSUME NEW b \in Build,
                Fetch(b) \/ UpsertDocumentNode(b) \/ UpsertChunkNode(b) \/
                NextLoop(b) \/ UpsertEntities(b) \/ TakeRelations(b) \/ SkipChunk(b) \/
                BuildRaises(b) \/ Retry(b)
         PROVE  Weighed'
    BY <1>1
    DEF Fetch, UpsertDocumentNode, UpsertChunkNode, NextLoop, UpsertEntities,
        TakeRelations, SkipChunk, BuildRaises, Retry
  <1>2. ASSUME NEW b \in Build, UpsertRelation(b) PROVE Weighed'
    <2>1. PICK p \in listed[b] :
             /\ chunkIds' = [e \in Edge |-> IF e \in EdgesOf(p[2]) THEN chunkIds[e] \cup {p[1]}
                                                              ELSE chunkIds[e]]
             /\ weight' = [e \in Edge |-> IF e \in EdgesOf(p[2]) THEN weight[e] + 1
                                                            ELSE weight[e]]
      BY <1>2 DEF UpsertRelation
    <2> SUFFICES ASSUME NEW e \in Edge
                 PROVE  /\ IsFiniteSet(chunkIds'[e])
                        /\ weight'[e] >= Cardinality(chunkIds'[e])
      OBVIOUS
    <2>2. /\ IsFiniteSet(chunkIds[e] \cup {p[1]})
          /\ Cardinality(chunkIds[e] \cup {p[1]}) <= Cardinality(chunkIds[e]) + 1
          /\ Cardinality(chunkIds[e] \cup {p[1]}) \in Nat /\ Cardinality(chunkIds[e]) \in Nat
      <3>1. IsFiniteSet(chunkIds[e]) /\ Cardinality(chunkIds[e]) \in Nat
        BY FS_CardinalityType
      <3>2. /\ IsFiniteSet(chunkIds[e] \cup {p[1]})
            /\ Cardinality(chunkIds[e] \cup {p[1]}) =
                  IF p[1] \in chunkIds[e] THEN Cardinality(chunkIds[e])
                                       ELSE Cardinality(chunkIds[e]) + 1
        BY <3>1, FS_AddElement
      <3> QED
        BY <3>1, <3>2
    <2> QED
      BY <2>1, <2>2
  <1>3. ASSUME NEW d \in Doc, ScrubRelations(d) PROVE Weighed'
    <2> SUFFICES ASSUME NEW e \in Edge
                 PROVE  /\ IsFiniteSet(chunkIds'[e])
                        /\ weight'[e] >= Cardinality(chunkIds'[e])
      OBVIOUS
    <2>1. chunkIds'[e] = chunkIds[e] \ Linked(d)
      BY <1>3 DEF ScrubRelations
    <2>2. weight'[e] \in {weight[e], Cardinality(chunkIds[e] \ Linked(d))}
      BY <1>3 DEF ScrubRelations
    <2>3. /\ IsFiniteSet(chunkIds[e] \ Linked(d))
          /\ Cardinality(chunkIds[e] \ Linked(d)) <= Cardinality(chunkIds[e])
          /\ Cardinality(chunkIds[e] \ Linked(d)) \in Nat
          /\ Cardinality(chunkIds[e]) \in Nat
      BY FS_Subset, FS_CardinalityType
    <2> QED
      BY <2>1, <2>2, <2>3
  <1>4. ASSUME NEW d \in Doc, DeleteEmptyRelations(d) PROVE Weighed'
    <2>1. \A e \in Edge :
             \/ weight'[e] = weight[e]
             \/ weight'[e] = 0 /\ chunkIds[e] = {}
      BY <1>4 DEF DeleteEmptyRelations
    <2>2. chunkIds' = chunkIds
      BY <1>4 DEF DeleteEmptyRelations
    <2> QED
      BY <2>1, <2>2, FS_EmptySet
  <1>5. ASSUME NEW d \in Doc,
                DeleteRow(d) \/ DeleteChunkNodes(d) \/
                DeleteDocumentNode(d) \/ DeleteOrphans(d) \/
                CleanUpFails(d)
         PROVE  Weighed'
    BY <1>5
    DEF DeleteRow, DeleteChunkNodes, DeleteDocumentNode, DeleteOrphans,
        CleanUpFails, Building, RelatedOrphans, Orphans
  <1>6. CASE UNCHANGED vars
    BY <1>6 DEF vars
  <1> QED
    BY <1>1, <1>2, <1>3, <1>4, <1>5, <1>6 DEF Next

\* A row that is gone stays gone.
LEMMA RowsStep ==
    ASSUME TypeOK, Rows, [Next]_vars
    PROVE  Rows'
  <1> USE DEF Rows, TypeOK, BuildAt, DeleteAt, nodes, edges, builds, history,
        ChunksOf, Linked
  <1>1. ASSUME NEW b \in Build,
                Fetch(b) \/ UpsertDocumentNode(b) \/ UpsertChunkNode(b) \/
                NextLoop(b) \/ UpsertEntities(b) \/ TakeRelations(b) \/ UpsertRelation(b) \/
                SkipChunk(b) \/ BuildRaises(b) \/ Retry(b)
         PROVE  Rows'
    BY <1>1
    DEF Fetch, UpsertDocumentNode, UpsertChunkNode, NextLoop, UpsertEntities,
        TakeRelations, UpsertRelation, SkipChunk, BuildRaises, Retry
  <1>2. ASSUME NEW d \in Doc, DeleteRow(d) PROVE Rows'
    BY <1>2 DEF DeleteRow
  <1>3. ASSUME NEW d \in Doc,
                ScrubRelations(d) \/ DeleteEmptyRelations(d) \/
                DeleteChunkNodes(d) \/ DeleteDocumentNode(d) \/
                DeleteOrphans(d)
         PROVE  Rows'
    BY <1>3
    DEF ScrubRelations, DeleteEmptyRelations, DeleteChunkNodes,
        DeleteDocumentNode, DeleteOrphans
  <1>4. ASSUME NEW d \in Doc, CleanUpFails(d) PROVE Rows'
    BY <1>4 DEF CleanUpFails
  <1>5. CASE UNCHANGED vars
    BY <1>5 DEF vars
  <1> QED
    BY <1>1, <1>2, <1>3, <1>4, <1>5 DEF Next

\* A document is deleted without a build under way, or is set aside as unclean.
LEMMA BuildsOwnStep ==
    ASSUME TypeOK, Rows, BuildsOwn, [Next]_vars
    PROVE  BuildsOwn'
  <1> USE GraphAssumption
        DEF Rows, BuildsOwn, Active, TypeOK, BuildAt, DeleteAt, nodes, edges,
            builds, history, ChunksOf, Linked
  <1>1. ASSUME NEW b \in Build, Fetch(b) PROVE BuildsOwn'
    BY <1>1 DEF Fetch
  <1>2. ASSUME NEW b \in Build,
                UpsertDocumentNode(b) \/ UpsertChunkNode(b) \/
                UpsertEntities(b) \/ TakeRelations(b) \/ UpsertRelation(b) \/ SkipChunk(b)
         PROVE  BuildsOwn'
    BY <1>2
    DEF UpsertDocumentNode, UpsertChunkNode, UpsertEntities, TakeRelations, UpsertRelation,
        SkipChunk, EdgesOf
  <1>3. ASSUME NEW b \in Build, NextLoop(b) PROVE BuildsOwn'
    <2>1. CASE bpc[b] = "chunks"
      BY <1>3, <2>1 DEF NextLoop
    <2>2. CASE bpc[b] = "entities"
      BY <1>3, <2>2 DEF NextLoop
    <2>3. CASE bpc[b] = "relations"
      BY <1>3, <2>3 DEF NextLoop
    <2> QED
      BY <1>3, <2>1, <2>2, <2>3 DEF NextLoop
  <1>4. ASSUME NEW b \in Build, BuildRaises(b) \/ Retry(b) PROVE BuildsOwn'
    BY <1>4 DEF BuildRaises, Retry
  <1>5. ASSUME NEW d \in Doc, DeleteRow(d) PROVE BuildsOwn'
    BY <1>5 DEF DeleteRow, Building
  <1>6. ASSUME NEW d \in Doc,
                ScrubRelations(d) \/ DeleteEmptyRelations(d) \/
                DeleteChunkNodes(d) \/ DeleteDocumentNode(d) \/
                DeleteOrphans(d)
         PROVE  BuildsOwn'
    BY <1>6
    DEF ScrubRelations, DeleteEmptyRelations, DeleteChunkNodes,
        DeleteDocumentNode, DeleteOrphans, RelatedOrphans, Orphans
  <1>7. ASSUME NEW d \in Doc, CleanUpFails(d) PROVE BuildsOwn'
    BY <1>7 DEF CleanUpFails
  <1>8. CASE UNCHANGED vars
    BY <1>8 DEF vars
  <1> QED
    BY <1>1, <1>2, <1>3, <1>4, <1>5, <1>6, <1>7, <1>8 DEF Next

\* A build of a document that is kept finds its nodes where it put them.
LEMMA BuildsInOrderStep ==
    ASSUME TypeOK, Rows, BuildsOwn, BuildsInOrder, [Next]_vars
    PROVE  BuildsInOrder'
  <1> USE GraphAssumption
        DEF Rows, BuildsOwn, BuildsInOrder, Active, TypeOK, BuildAt, DeleteAt,
            nodes, edges, builds, history, ChunksOf, Linked
  <1>1. ASSUME NEW b \in Build, Fetch(b) PROVE BuildsInOrder'
    BY <1>1 DEF Fetch
  <1>2. ASSUME NEW b \in Build, UpsertDocumentNode(b) PROVE BuildsInOrder'
    BY <1>2 DEF UpsertDocumentNode
  <1>3. ASSUME NEW b \in Build, UpsertChunkNode(b) PROVE BuildsInOrder'
    BY <1>3 DEF UpsertChunkNode
  <1>4. ASSUME NEW b \in Build, NextLoop(b) PROVE BuildsInOrder'
    <2>1. CASE bpc[b] = "chunks"
      BY <1>4, <2>1 DEF NextLoop
    <2>2. CASE bpc[b] = "entities"
      BY <1>4, <2>2 DEF NextLoop
    <2>3. CASE bpc[b] = "relations"
      BY <1>4, <2>3 DEF NextLoop
    <2> QED
      BY <1>4, <2>1, <2>2, <2>3 DEF NextLoop
  <1>5. ASSUME NEW b \in Build, UpsertEntities(b) PROVE BuildsInOrder'
    BY <1>5 DEF UpsertEntities
  <1>6. ASSUME NEW b \in Build, UpsertRelation(b) PROVE BuildsInOrder'
    BY <1>6 DEF UpsertRelation, EdgesOf
  <1>7. ASSUME NEW b \in Build, SkipChunk(b) PROVE BuildsInOrder'
    BY <1>7 DEF SkipChunk
  <1>8. ASSUME NEW b \in Build, BuildRaises(b) PROVE BuildsInOrder'
    BY <1>8 DEF BuildRaises
  <1>9. ASSUME NEW b \in Build, Retry(b) PROVE BuildsInOrder'
    BY <1>9 DEF Retry
  <1>10. ASSUME NEW d \in Doc, DeleteRow(d) PROVE BuildsInOrder'
    BY <1>10 DEF DeleteRow, Building
  <1>11. ASSUME NEW d \in Doc, ScrubRelations(d) PROVE BuildsInOrder'
    BY <1>11 DEF ScrubRelations
  <1>12. ASSUME NEW d \in Doc, DeleteEmptyRelations(d) PROVE BuildsInOrder'
    BY <1>12 DEF DeleteEmptyRelations
  <1>13. ASSUME NEW d \in Doc, DeleteChunkNodes(d) PROVE BuildsInOrder'
    BY <1>13 DEF DeleteChunkNodes
  <1>14. ASSUME NEW d \in Doc, DeleteDocumentNode(d) PROVE BuildsInOrder'
    BY <1>14 DEF DeleteDocumentNode
  <1>15. ASSUME NEW d \in Doc, DeleteOrphans(d) PROVE BuildsInOrder'
    BY <1>15 DEF DeleteOrphans, RelatedOrphans, Orphans
  <1>16. ASSUME NEW d \in Doc, CleanUpFails(d) PROVE BuildsInOrder'
    BY <1>16 DEF CleanUpFails
  <1>17. CASE UNCHANGED vars
    BY <1>17 DEF vars
  <1>18. ASSUME NEW b \in Build, TakeRelations(b) PROVE BuildsInOrder'
    BY <1>18 DEF TakeRelations
  <1> QED
    BY <1>1, <1>2, <1>3, <1>4, <1>5, <1>6, <1>7, <1>8, <1>9, <1>10, <1>11, <1>12,
       <1>13, <1>14, <1>15, <1>16, <1>17, <1>18
       DEF Next

\* A clean-up finds every chunk of its document through a HAS_CHUNK edge.
LEMMA CleanedInOrderStep ==
    ASSUME TypeOK, Rows, BuildsOwn, BuildsInOrder, CleanedInOrder, [Next]_vars
    PROVE  CleanedInOrder'
  <1> USE GraphAssumption
        DEF Rows, BuildsOwn, BuildsInOrder, CleanedInOrder, Active, TypeOK,
            BuildAt, DeleteAt, nodes, edges, builds, history, ChunksOf, Linked
  <1>1. ASSUME NEW b \in Build, Fetch(b) PROVE CleanedInOrder'
    BY <1>1 DEF Fetch
  <1>2. ASSUME NEW b \in Build, UpsertDocumentNode(b) PROVE CleanedInOrder'
    BY <1>2 DEF UpsertDocumentNode
  <1>3. ASSUME NEW b \in Build, UpsertChunkNode(b) PROVE CleanedInOrder'
    BY <1>3 DEF UpsertChunkNode
  <1>4. ASSUME NEW b \in Build, NextLoop(b) PROVE CleanedInOrder'
    <2>1. CASE bpc[b] = "chunks"
      BY <1>4, <2>1 DEF NextLoop
    <2>2. CASE bpc[b] = "entities"
      BY <1>4, <2>2 DEF NextLoop
    <2>3. CASE bpc[b] = "relations"
      BY <1>4, <2>3 DEF NextLoop
    <2> QED
      BY <1>4, <2>1, <2>2, <2>3 DEF NextLoop
  <1>5. ASSUME NEW b \in Build, UpsertEntities(b) PROVE CleanedInOrder'
    BY <1>5 DEF UpsertEntities
  <1>6. ASSUME NEW b \in Build, UpsertRelation(b) PROVE CleanedInOrder'
    BY <1>6 DEF UpsertRelation, EdgesOf
  <1>7. ASSUME NEW b \in Build, SkipChunk(b) PROVE CleanedInOrder'
    BY <1>7 DEF SkipChunk
  <1>8. ASSUME NEW b \in Build, BuildRaises(b) PROVE CleanedInOrder'
    BY <1>8 DEF BuildRaises
  <1>9. ASSUME NEW b \in Build, Retry(b) PROVE CleanedInOrder'
    BY <1>9 DEF Retry
  <1>10. ASSUME NEW d \in Doc, DeleteRow(d) PROVE CleanedInOrder'
    BY <1>10 DEF DeleteRow, Building
  <1>11. ASSUME NEW d \in Doc, ScrubRelations(d) PROVE CleanedInOrder'
    BY <1>11 DEF ScrubRelations
  <1>12. ASSUME NEW d \in Doc, DeleteEmptyRelations(d) PROVE CleanedInOrder'
    BY <1>12 DEF DeleteEmptyRelations
  <1>13. ASSUME NEW d \in Doc, DeleteChunkNodes(d) PROVE CleanedInOrder'
    BY <1>13 DEF DeleteChunkNodes
  <1>14. ASSUME NEW d \in Doc, DeleteDocumentNode(d) PROVE CleanedInOrder'
    BY <1>14 DEF DeleteDocumentNode
  <1>15. ASSUME NEW d \in Doc, DeleteOrphans(d) PROVE CleanedInOrder'
    BY <1>15 DEF DeleteOrphans, RelatedOrphans, Orphans
  <1>16. ASSUME NEW d \in Doc, CleanUpFails(d) PROVE CleanedInOrder'
    BY <1>16 DEF CleanUpFails
  <1>17. CASE UNCHANGED vars
    BY <1>17 DEF vars
  <1>18. ASSUME NEW b \in Build, TakeRelations(b) PROVE CleanedInOrder'
    BY <1>18 DEF TakeRelations
  <1> QED
    BY <1>1, <1>2, <1>3, <1>4, <1>5, <1>6, <1>7, <1>8, <1>9, <1>10, <1>11, <1>12,
       <1>13, <1>14, <1>15, <1>16, <1>17, <1>18
       DEF Next

\* Nothing takes a document's entities back while it is being built.
LEMMA ExtractedStep ==
    ASSUME TypeOK, Rows, BuildsOwn, BuildsInOrder, CleanedInOrder, Extracted, [Next]_vars
    PROVE  Extracted'
  <1> USE GraphAssumption
      DEF Rows, BuildsOwn, BuildsInOrder, CleanedInOrder, Extracted, Written,
          Active, TypeOK,
          BuildAt, DeleteAt, nodes, edges, builds, history, ChunksOf, Linked
  <1>1. ASSUME NEW b \in Build, Fetch(b) PROVE Extracted'
    BY <1>1 DEF Fetch
  <1>2. ASSUME NEW b \in Build, UpsertDocumentNode(b) PROVE Extracted'
    BY <1>2 DEF UpsertDocumentNode
  <1>3. ASSUME NEW b \in Build, UpsertChunkNode(b) PROVE Extracted'
    BY <1>3 DEF UpsertChunkNode
  <1>4. ASSUME NEW b \in Build, NextLoop(b) PROVE Extracted'
    <2>1. CASE bpc[b] = "chunks"
      BY <1>4, <2>1 DEF NextLoop
    <2>2. CASE bpc[b] = "entities"
      BY <1>4, <2>2 DEF NextLoop
    <2>3. CASE bpc[b] = "relations"
      BY <1>4, <2>3 DEF NextLoop
    <2> QED
      BY <1>4, <2>1, <2>2, <2>3 DEF NextLoop
  <1>5. ASSUME NEW b \in Build, UpsertEntities(b) PROVE Extracted'
    BY <1>5 DEF UpsertEntities
  <1>6. ASSUME NEW b \in Build, UpsertRelation(b) PROVE Extracted'
    BY <1>6 DEF UpsertRelation, EdgesOf
  <1>7. ASSUME NEW b \in Build, SkipChunk(b) PROVE Extracted'
    BY <1>7 DEF SkipChunk
  <1>8. ASSUME NEW b \in Build, BuildRaises(b) PROVE Extracted'
    BY <1>8 DEF BuildRaises
  <1>9. ASSUME NEW b \in Build, Retry(b) PROVE Extracted'
    BY <1>9 DEF Retry
  <1>10. ASSUME NEW d \in Doc, DeleteRow(d) PROVE Extracted'
    BY <1>10 DEF DeleteRow, Building
  <1>11. ASSUME NEW d \in Doc, ScrubRelations(d) PROVE Extracted'
    BY <1>11 DEF ScrubRelations
  <1>12. ASSUME NEW d \in Doc, DeleteEmptyRelations(d) PROVE Extracted'
    BY <1>12 DEF DeleteEmptyRelations
  <1>13. ASSUME NEW d \in Doc, DeleteChunkNodes(d) PROVE Extracted'
    BY <1>13 DEF DeleteChunkNodes
  <1>14. ASSUME NEW d \in Doc, DeleteDocumentNode(d) PROVE Extracted'
    BY <1>14 DEF DeleteDocumentNode
  <1>15. ASSUME NEW d \in Doc, DeleteOrphans(d) PROVE Extracted'
    BY <1>15 DEF DeleteOrphans, RelatedOrphans, Orphans
  <1>16. ASSUME NEW d \in Doc, CleanUpFails(d) PROVE Extracted'
    BY <1>16 DEF CleanUpFails
  <1>17. CASE UNCHANGED vars
    BY <1>17 DEF vars
  <1>18. ASSUME NEW b \in Build, TakeRelations(b) PROVE Extracted'
    BY <1>18 DEF TakeRelations
  <1> QED
    BY <1>1, <1>2, <1>3, <1>4, <1>5, <1>6, <1>7, <1>8, <1>9, <1>10, <1>11, <1>12,
       <1>13, <1>14, <1>15, <1>16, <1>17, <1>18
       DEF Next

\* A clean-up takes its chunks off the relations while they still have their
\* entities, and deletes the relations that lost their last chunk.
LEMMA SupportedStep ==
    ASSUME TypeOK, Rows, BuildsOwn, BuildsInOrder, CleanedInOrder, Extracted, Supported, [Next]_vars
    PROVE  Supported'
  <1> USE GraphAssumption
      DEF Rows, BuildsOwn, BuildsInOrder, CleanedInOrder, Extracted, Supported,
          Written, Active,
          TypeOK, BuildAt, DeleteAt, nodes, edges, builds, history, ChunksOf, Linked
  <1>1. ASSUME NEW b \in Build, Fetch(b) PROVE Supported'
    BY <1>1 DEF Fetch
  <1>2. ASSUME NEW b \in Build, UpsertDocumentNode(b) PROVE Supported'
    BY <1>2 DEF UpsertDocumentNode
  <1>3. ASSUME NEW b \in Build, UpsertChunkNode(b) PROVE Supported'
    BY <1>3 DEF UpsertChunkNode
  <1>4. ASSUME NEW b \in Build, NextLoop(b) PROVE Supported'
    <2>1. CASE bpc[b] = "chunks"
      BY <1>4, <2>1 DEF NextLoop
    <2>2. CASE bpc[b] = "entities"
      BY <1>4, <2>2 DEF NextLoop
    <2>3. CASE bpc[b] = "relations"
      BY <1>4, <2>3 DEF NextLoop
    <2> QED
      BY <1>4, <2>1, <2>2, <2>3 DEF NextLoop
  <1>5. ASSUME NEW b \in Build, UpsertEntities(b) PROVE Supported'
    BY <1>5 DEF UpsertEntities
  <1>6. ASSUME NEW b \in Build, UpsertRelation(b) PROVE Supported'
    <2>1. PICK p \in listed[b] :
             /\ related' = related \cup EdgesOf(p[2])
             /\ chunkIds' = [e \in Edge |-> IF e \in EdgesOf(p[2]) THEN chunkIds[e] \cup {p[1]}
                                                              ELSE chunkIds[e]]
      BY <1>6 DEF UpsertRelation
    <2>2. UNCHANGED <<chunkNodes, mentions, dpc, unclean>> /\ bpc[b] = "relations"
      BY <1>6 DEF UpsertRelation
    <2>3. /\ p[1] \in Chunk /\ DocOf[p[1]] = target[b] /\ p[2] \in RelationsOf[p[1]]
          /\ DocOf[p[1]] \notin unclean =>
                Written(p[1]) /\ dpc[DocOf[p[1]]] \in {"kept", "scrub"}
      BY <2>2
    <2>4. \A e \in EdgesOf(p[2]) : Names(p[1], e)
      BY <2>3 DEF EdgesOf, Names
    <2>5. \A e \in Edge : \A k \in chunkIds'[e] :
             k \in chunkIds[e] \/ (k = p[1] /\ e \in EdgesOf(p[2]))
      BY <2>1
    <2>6. \A e \in Edge : \A k \in chunkIds'[e] :
             /\ Names(k, e)
             /\ DocOf[k] \notin unclean => Written(k) /\ dpc[DocOf[k]] \in {"kept", "scrub"}
      BY <2>3, <2>4, <2>5
    <2>7. \A e \in related' : e \in Edge /\ (chunkIds'[e] = {} => e \in related /\ chunkIds[e] = {})
      <3>1. EdgesOf(p[2]) \subseteq Edge /\ related \subseteq Edge
        BY DEF EdgesOf, Edge
      <3>2. \A e \in Edge : chunkIds'[e] = IF e \in EdgesOf(p[2]) THEN chunkIds[e] \cup {p[1]}
                                                               ELSE chunkIds[e]
        BY <2>1
      <3> QED
        BY <2>1, <3>1, <3>2
    <2> QED
      BY <2>2, <2>6, <2>7 DEF Names
  <1>7. ASSUME NEW b \in Build, SkipChunk(b) PROVE Supported'
    BY <1>7 DEF SkipChunk
  <1>8. ASSUME NEW b \in Build, BuildRaises(b) PROVE Supported'
    BY <1>8 DEF BuildRaises
  <1>9. ASSUME NEW b \in Build, Retry(b) PROVE Supported'
    BY <1>9 DEF Retry
  <1>10. ASSUME NEW d \in Doc, DeleteRow(d) PROVE Supported'
    BY <1>10 DEF DeleteRow, Building
  <1>11. ASSUME NEW d \in Doc, ScrubRelations(d) PROVE Supported'
    <2>1. /\ chunkIds' = [e \in Edge |-> chunkIds[e] \ Linked(d)]
          /\ dpc[d] = "scrub" /\ dpc' = [dpc EXCEPT ![d] = "edges"]
          /\ UNCHANGED <<related, chunkNodes, mentions, unclean>>
      BY <1>11 DEF ScrubRelations
    <2>2. ASSUME NEW e \in Edge, NEW c \in chunkIds'[e]
          PROVE  /\ Names(c, e)
                 /\ DocOf[c] \notin unclean => Written(c) /\ dpc'[DocOf[c]] \in {"kept", "scrub"}
      <3>1. c \in chunkIds[e] /\ c \notin Linked(d) /\ c \in Chunk
        BY <2>1, <2>2
      <3>2. DocOf[c] = d /\ d \notin unclean => c \in Linked(d)
        BY <3>1
      <3> QED
        BY <2>1, <3>1, <3>2
    <2>3. ASSUME unclean = {}, NEW e \in related, chunkIds'[e] = {}
          PROVE  \E c \in Chunk : dpc'[DocOf[c]] = "edges" /\ Written(c) /\ Names(c, e)
      <3>1. e \in Edge
        BY DEF Edge
      <3>2. CASE chunkIds[e] = {}
        BY <2>1, <2>3, <3>2
      <3>3. CASE chunkIds[e] # {}
        BY <2>1, <2>3, <3>1, <3>3
      <3> QED
        BY <3>2, <3>3
    <2> QED
      BY <2>1, <2>2, <2>3 DEF Names
  <1>12. ASSUME NEW d \in Doc, DeleteEmptyRelations(d) PROVE Supported'
    BY <1>12 DEF DeleteEmptyRelations
  <1>13. ASSUME NEW d \in Doc, DeleteChunkNodes(d) PROVE Supported'
    BY <1>13 DEF DeleteChunkNodes
  <1>14. ASSUME NEW d \in Doc, DeleteDocumentNode(d) PROVE Supported'
    BY <1>14 DEF DeleteDocumentNode
  <1>15. ASSUME NEW d \in Doc, DeleteOrphans(d) PROVE Supported'
    <2>1. /\ dpc[d] = "orphans" /\ dpc' = [dpc EXCEPT ![d] = "done"]
          /\ UNCHANGED <<related, chunkIds, chunkNodes, mentions, unclean>>
      BY <1>15 DEF DeleteOrphans
    <2> QED
      BY <2>1 DEF Names
  <1>16. ASSUME NEW d \in Doc, CleanUpFails(d) PROVE Supported'
    BY <1>16 DEF CleanUpFails
  <1>17. CASE UNCHANGED vars
    BY <1>17 DEF vars
  <1>18. ASSUME NEW b \in Build, TakeRelations(b) PROVE Supported'
    BY <1>18 DEF TakeRelations
  <1> QED
    BY <1>1, <1>2, <1>3, <1>4, <1>5, <1>6, <1>7, <1>8, <1>9, <1>10, <1>11, <1>12,
       <1>13, <1>14, <1>15, <1>16, <1>17, <1>18
       DEF Next

\* A DELETE of orphans leaves none, or was blocked by one that is named only.
LEMMA OrphansLeftStep ==
    ASSUME TypeOK, Rows, BuildsOwn, BuildsInOrder, CleanedInOrder, Supported, OrphansLeft, [Next]_vars
    PROVE  OrphansLeft'
  <1> USE GraphAssumption
      DEF Rows, BuildsOwn, BuildsInOrder, OrphansLeft, Orphans, Active, TypeOK,
          BuildAt, DeleteAt, nodes, edges, builds, history, ChunksOf, Linked
  <1>1. ASSUME NEW b \in Build, Fetch(b) PROVE OrphansLeft'
    BY <1>1 DEF Fetch
  <1>2. ASSUME NEW b \in Build, UpsertDocumentNode(b) PROVE OrphansLeft'
    BY <1>2 DEF UpsertDocumentNode
  <1>3. ASSUME NEW b \in Build, UpsertChunkNode(b) PROVE OrphansLeft'
    BY <1>3 DEF UpsertChunkNode
  <1>4. ASSUME NEW b \in Build, NextLoop(b) PROVE OrphansLeft'
    <2>1. CASE bpc[b] = "chunks"
      BY <1>4, <2>1 DEF NextLoop
    <2>2. CASE bpc[b] = "entities"
      BY <1>4, <2>2 DEF NextLoop
    <2>3. CASE bpc[b] = "relations"
      BY <1>4, <2>3 DEF NextLoop
    <2> QED
      BY <1>4, <2>1, <2>2, <2>3 DEF NextLoop
  <1>5. ASSUME NEW b \in Build, UpsertEntities(b) PROVE OrphansLeft'
    <2>1. PICK c \in todo[b] :
             /\ entities' = entities \cup MentionsOf[c]
             /\ mentions' = IF c \in chunkNodes THEN mentions \cup ({c} \X MentionsOf[c])
                                                ELSE mentions
      BY <1>5 DEF UpsertEntities
    <2>2. UNCHANGED <<dpc, unclean, blocked>> /\ bpc[b] = "entities"
      BY <1>5 DEF UpsertEntities
    <2>3. unclean = {} => c \in chunkNodes
      BY <2>2
    <2>4. unclean = {} => Orphans' \subseteq Orphans
      <3>1. SUFFICES ASSUME unclean = {}, NEW o \in Orphans', o \notin Orphans PROVE FALSE
        OBVIOUS
      <3>2. mentions' = mentions \cup ({c} \X MentionsOf[c])
        BY <2>1, <2>3, <3>1
      <3>3. o \in MentionsOf[c]
        BY <2>1, <3>1, <3>2
      <3>4. <<c, o>> \in mentions' /\ <<c, o>>[2] = o
        BY <3>2, <3>3
      <3> QED
        BY <3>1, <3>4
    <2> QED
      BY <2>2, <2>4
  <1>6. ASSUME NEW b \in Build, UpsertRelation(b) PROVE OrphansLeft'
    BY <1>6 DEF UpsertRelation, EdgesOf
  <1>7. ASSUME NEW b \in Build, SkipChunk(b) PROVE OrphansLeft'
    BY <1>7 DEF SkipChunk
  <1>8. ASSUME NEW b \in Build, BuildRaises(b) PROVE OrphansLeft'
    BY <1>8 DEF BuildRaises
  <1>9. ASSUME NEW b \in Build, Retry(b) PROVE OrphansLeft'
    BY <1>9 DEF Retry
  <1>10. ASSUME NEW d \in Doc, DeleteRow(d) PROVE OrphansLeft'
    BY <1>10 DEF DeleteRow, Building
  <1>11. ASSUME NEW d \in Doc, ScrubRelations(d) PROVE OrphansLeft'
    BY <1>11 DEF ScrubRelations
  <1>12. ASSUME NEW d \in Doc, DeleteEmptyRelations(d) PROVE OrphansLeft'
    BY <1>12 DEF DeleteEmptyRelations
  <1>13. ASSUME NEW d \in Doc, DeleteChunkNodes(d) PROVE OrphansLeft'
    BY <1>13 DEF DeleteChunkNodes
  <1>14. ASSUME NEW d \in Doc, DeleteDocumentNode(d) PROVE OrphansLeft'
    BY <1>14 DEF DeleteDocumentNode
  <1>15. ASSUME NEW d \in Doc, DeleteOrphans(d) PROVE OrphansLeft'
    <2>1. /\ entities' = IF RelatedOrphans # {} THEN entities ELSE entities \ Orphans
          /\ blocked' = RelatedOrphans
          /\ UNCHANGED <<mentions, unclean>>
      BY <1>15 DEF DeleteOrphans
    <2>2. ASSUME unclean = {}, NEW o \in RelatedOrphans PROVE NamedOnly(o)
      <3>1. PICK e \in related : o \in {e[1], e[3]}
        BY DEF RelatedOrphans
      <3>2. e \in Edge
        BY DEF Edge
      <3>3. PICK c \in Chunk : Written(c) /\ Names(c, e)
        BY <2>2, <3>2 DEF Supported
      <3>4. o \notin MentionsOf[c]
        <4>1. ASSUME o \in MentionsOf[c] PROVE <<c, o>> \in mentions /\ <<c, o>>[2] = o
          BY <3>3, <4>1 DEF Written
        <4> QED
          BY <4>1 DEF RelatedOrphans
      <3> QED
        BY <3>1, <3>2, <3>3, <3>4 DEF NamedOnly, Names
    <2>3. RelatedOrphans = {} => Orphans' = {}
      BY <2>1
    <2> QED
      BY <2>1, <2>2, <2>3 DEF NamedOnly
  <1>16. ASSUME NEW d \in Doc, CleanUpFails(d) PROVE OrphansLeft'
    BY <1>16 DEF CleanUpFails
  <1>17. CASE UNCHANGED vars
    BY <1>17 DEF vars
  <1>18. ASSUME NEW b \in Build, TakeRelations(b) PROVE OrphansLeft'
    BY <1>18 DEF TakeRelations
  <1> QED
    BY <1>1, <1>2, <1>3, <1>4, <1>5, <1>6, <1>7, <1>8, <1>9, <1>10, <1>11, <1>12,
       <1>13, <1>14, <1>15, <1>16, <1>17, <1>18
       DEF Next

-----------------------------------------------------------------------------
(* The theorems.                                                           *)

\* In every overlap of builds and deletions, the graph is well typed, relations
\* carry their weight, and a clean-up that overlaps no build of its document
\* goes through it in order.
THEOREM CleanInvariant == Spec => []CleanInv
  <1>1. Init => CleanInv
    <2> SUFFICES ASSUME Init PROVE CleanInv
      OBVIOUS
    <2> USE GraphAssumption DEF Init
    <2>1. TypeOK
      BY DEF TypeOK, Edge
    <2>2. Weighed
      BY FS_EmptySet DEF Weighed
    <2>3. Rows /\ BuildsOwn /\ BuildsInOrder /\ CleanedInOrder
      BY DEF Rows, BuildsOwn, BuildsInOrder, CleanedInOrder, Active, ChunksOf
    <2> QED
      BY <2>1, <2>2, <2>3 DEF CleanInv
  <1>2. CleanInv /\ [Next]_vars => CleanInv'
    <2> SUFFICES ASSUME CleanInv, [Next]_vars PROVE CleanInv'
      OBVIOUS
    <2> USE DEF CleanInv
    <2>1. TypeOK' /\ Weighed'
      BY TypeStep, WeighedStep
    <2>2. Rows' /\ BuildsOwn'
      BY RowsStep, BuildsOwnStep
    <2>3. BuildsInOrder' /\ CleanedInOrder'
      BY BuildsInOrderStep, CleanedInOrderStep
    <2> QED
      BY <2>1, <2>2, <2>3
  <1> QED
    BY <1>1, <1>2, PTL DEF Spec

\* Every state of the graph is well typed: a MENTIONS or RELATED_TO edge joins
\* nodes that exist, so that no plain DELETE of a node meets an edge.
THEOREM GraphTyped == Spec => []TypeOK
  <1>1. CleanInv => TypeOK
    BY DEF CleanInv
  <1> QED
    BY <1>1, CleanInvariant, PTL

\* No order of builds, retries and clean-ups leaves a relation with less weight
\* than it has chunks.
THEOREM WeightsCoverChunks == Spec => []WeightCoversChunks
  <1>1. CleanInv => WeightCoversChunks
    BY DEF CleanInv, TypeOK, Weighed, WeightCoversChunks, Edge
  <1> QED
    BY <1>1, CleanInvariant, PTL

\* The clean-up of a deleted document takes nothing away that the chunks of
\* another put into the graph.
THEOREM OthersKeepTheirs == Spec => OthersKeepTheirGraph
  <1> DEFINE Keep ==
        /\ \A c \in chunkNodes \ chunkNodes' : DocOf[c] \notin rows
        /\ \A m \in mentions \ mentions' : DocOf[m[1]] \notin rows
        /\ \A e \in related : \A c \in chunkIds[e] \ chunkIds'[e] : DocOf[c] \notin rows
        /\ \A e \in related \ related' : \A c \in chunkIds[e] : DocOf[c] \notin rows
  <1>1. CleanInv /\ [Next]_vars => [Keep]_vars
    <2> SUFFICES ASSUME CleanInv, [Next]_vars PROVE Keep \/ UNCHANGED vars
      OBVIOUS
    <2> USE GraphAssumption
          DEF CleanInv, Rows, TypeOK, BuildAt, DeleteAt, nodes, edges, history,
              ChunksOf, Linked
    <2>0. related \subseteq Edge
      BY DEF Edge
    <2>1. ASSUME NEW b \in Build,
                 \/ Fetch(b) \/ UpsertDocumentNode(b) \/ UpsertChunkNode(b) \/ NextLoop(b)
                 \/ UpsertEntities(b) \/ TakeRelations(b) \/ SkipChunk(b) \/ BuildRaises(b) \/ Retry(b)
          PROVE  Keep
      BY <2>1
      DEF Fetch, UpsertDocumentNode, UpsertChunkNode, NextLoop, UpsertEntities, TakeRelations, SkipChunk,
          BuildRaises, Retry
    <2>2. ASSUME NEW b \in Build, UpsertRelation(b) PROVE Keep
      <3>1. PICK p : /\ related' = related \cup EdgesOf(p[2])
                     /\ chunkIds' = [e \in Edge |-> IF e \in EdgesOf(p[2])
                                                    THEN chunkIds[e] \cup {p[1]}
                                                    ELSE chunkIds[e]]
        BY <2>2 DEF UpsertRelation
      <3>2. \A e \in Edge : chunkIds[e] \subseteq chunkIds'[e]
        BY <3>1
      <3> QED
        BY <2>0, <2>2, <3>1, <3>2 DEF UpsertRelation
    <2>3. ASSUME NEW d \in Doc, DeleteRow(d) \/ DeleteDocumentNode(d) \/ CleanUpFails(d)
          PROVE  Keep
      BY <2>3 DEF DeleteRow, DeleteDocumentNode, CleanUpFails
    <2>4. ASSUME NEW d \in Doc, ScrubRelations(d) PROVE Keep
      <3>1. /\ chunkIds' = [e \in Edge |-> chunkIds[e] \ Linked(d)]
            /\ d \notin rows /\ \A c \in Linked(d) : DocOf[c] = d
        BY <2>4 DEF ScrubRelations
      <3>2. \A e \in Edge : chunkIds'[e] = chunkIds[e] \ Linked(d)
        BY <3>1
      <3> QED
        BY <2>0, <2>4, <3>1, <3>2 DEF ScrubRelations
    <2>5. ASSUME NEW d \in Doc, DeleteEmptyRelations(d) PROVE Keep
      BY <2>5 DEF DeleteEmptyRelations
    <2>6. ASSUME NEW d \in Doc, DeleteChunkNodes(d) PROVE Keep
      BY <2>6 DEF DeleteChunkNodes
    <2>7. ASSUME NEW d \in Doc, DeleteOrphans(d) PROVE Keep
      BY <2>7 DEF DeleteOrphans
    <2> QED
      BY <2>1, <2>2, <2>3, <2>4, <2>5, <2>6, <2>7 DEF Next
  <1> QED
    BY <1>1, CleanInvariant, PTL DEF Spec, OthersKeepTheirGraph

\* A finished deletion that neither overlapped a build of its document nor
\* failed half-way leaves no node of the document behind.
THEOREM DeletionsLeaveNothing == Spec => []DeletedLeavesNothing
  <1>1. CleanInv => DeletedLeavesNothing
    BY GraphAssumption
       DEF CleanInv, TypeOK, Rows, CleanedInOrder, DeletedLeavesNothing, Quiet
  <1> QED
    BY <1>1, CleanInvariant, PTL

\* Relations keep the chunks they can be traced to, and orphans are left only
\* where their deletion was blocked.
THEOREM GraphInvariant == Spec => []GraphInv
  <1>1. Init => Extracted /\ Supported /\ OrphansLeft
    BY DEF Init, Extracted, Supported, OrphansLeft, Orphans
  <1>2. CleanInv /\ CleanInv' /\ GraphInv /\ [Next]_vars => GraphInv'
    <2> SUFFICES ASSUME CleanInv, CleanInv', GraphInv, [Next]_vars PROVE GraphInv'
      OBVIOUS
    <2> USE DEF CleanInv, GraphInv
    <2>1. Extracted'
      BY ExtractedStep
    <2>2. Supported'
      BY SupportedStep
    <2>3. OrphansLeft'
      BY OrphansLeftStep
    <2> QED
      BY <2>1, <2>2, <2>3
  <1>3. CleanInv /\ Extracted /\ Supported /\ OrphansLeft => GraphInv
    BY DEF GraphInv
  <1> QED
    BY <1>1, <1>2, <1>3, CleanInvariant, PTL DEF Spec

\* Unless a deletion overlapped a build or failed half-way, a relation that is
\* kept is supported by chunks that still exist.
THEOREM RelationsAreTraceable == Spec => []RelationsTraceable
  <1>1. GraphInv => RelationsTraceable
    <2> SUFFICES ASSUME GraphInv, Quiet, unclean = {}, NEW e \in related
                 PROVE  chunkIds[e] # {} /\ chunkIds[e] \subseteq chunkNodes
      BY DEF RelationsTraceable
    <2>1. e \in Edge
      BY DEF GraphInv, CleanInv, TypeOK, Edge
    <2>2. \A c \in Chunk : dpc[DocOf[c]] # "edges"
      BY GraphAssumption DEF Quiet
    <2> QED
      BY <2>1, <2>2 DEF GraphInv, Supported, Written
  <1> QED
    BY <1>1, GraphInvariant, PTL

\* Unless a deletion overlapped a build or failed half-way, orphans are left
\* only by a DELETE that one entity, related by name alone, made fail.
THEOREM OrphansAreNamedOnly == Spec => []OrphansOnlyByName
  <1>1. GraphInv => OrphansOnlyByName
    BY DEF GraphInv, OrphansLeft, OrphansOnlyByName, Quiet
  <1> QED
    BY <1>1, GraphInvariant, PTL

=============================================================================
