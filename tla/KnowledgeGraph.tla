--------------------------- MODULE KnowledgeGraph ---------------------------
(***************************************************************************)
(* The Neo4j knowledge graph: the build_knowledge_graph tasks              *)
(* (app/knowledge/graph_tasks.py) that derive it from the documents in     *)
(* Postgres, and the clean-up of a deleted document                        *)
(* (app/knowledge/graph/writer.py, called by the delete endpoint).         *)
(*                                                                         *)
(* A step is one Cypher statement, which Neo4j runs as a transaction of    *)
(* its own.  A chunk's entities and relations are what the extractors make *)
(* of its text; an extraction may also come back empty.                    *)
(***************************************************************************)
EXTENDS Integers, FiniteSets

CONSTANTS
    Doc,          \* the documents, all ingested
    Chunk,
    DocOf,        \* chunks.document_id
    Entity,       \* entities by id, that is by name and type
    NameOf,       \* Entity.normalized
    MentionsOf,   \* the entities of each chunk
    Predicate,    \* what a relation says of its two ends
    RelationsOf,  \* the relations of each chunk: <<name, predicate, name>>
    Build,        \* runs of the task: chained to ingestion, or queued in bulk
    MaxRetries,   \* max_retries of the task
    Failures,     \* what may fail: a "build" step, the "cleanup"
    MaxFaults     \* bound: how many failures

ASSUME GraphAssumption ==
    /\ DocOf \in [Chunk -> Doc]
    /\ MentionsOf \in [Chunk -> SUBSET Entity]
    /\ MaxRetries \in Nat
    /\ Failures \subseteq {"build", "cleanup"}
    /\ MaxFaults \in Nat

VARIABLES
    rows,        \* documents in Postgres
    docNodes,    \* Document nodes
    chunkNodes,  \* Chunk nodes
    hasChunk,    \* the chunks with a HAS_CHUNK edge from their document
    entities,    \* Entity nodes
    mentions,    \* MENTIONS edges
    related,     \* RELATED_TO edges
    chunkIds,    \* their chunk_ids
    weight,      \* their weight
    bpc,         \* where each build is
    target,      \* the document it is for
    todo,        \* the chunks its current loop has still to write
    listed,      \* the relations it has still to write of a chunk it has begun
    extracted,   \* the chunks whose entities were found
    try,         \* its retries so far
    dpc,         \* where each document's deletion is
    faults,      \* failures so far
    unclean,     \* history: documents deleted during a build, or left half cleaned up
    blocked      \* history: orphans whose relations made the last DELETE fail

vars == <<rows, docNodes, chunkNodes, hasChunk, entities, mentions, related,
          chunkIds, weight, bpc, target, todo, listed, extracted, try, dpc, faults,
          unclean, blocked>>

nodes   == <<docNodes, chunkNodes, hasChunk>>
edges   == <<related, chunkIds, weight>>
builds  == <<bpc, target, todo, listed, extracted, try>>
history == <<unclean, blocked>>

Relation == UNION {RelationsOf[c] : c \in Chunk}
Edge == Entity \X Predicate \X Entity
ChunksOf(d) == {c \in Chunk : DocOf[c] = d}
Linked(d)   == hasChunk \cap ChunksOf(d)

Init ==
    /\ rows = Doc
    /\ docNodes = {} /\ chunkNodes = {} /\ hasChunk = {}
    /\ entities = {} /\ mentions = {}
    /\ related = {}
    /\ chunkIds = [e \in Edge |-> {}]
    /\ weight = [e \in Edge |-> 0]
    /\ bpc = [b \in Build |-> "queued"]
    /\ target \in [Build -> Doc]
    /\ todo = [b \in Build |-> {}]
    /\ listed = [b \in Build |-> {}]
    /\ extracted = [b \in Build |-> {}]
    /\ try = [b \in Build |-> 0]
    /\ dpc = [d \in Doc |-> "kept"]
    /\ faults = 0
    /\ unclean = {}
    /\ blocked = {}

-----------------------------------------------------------------------------
(* A build.                                                                *)

BuildAt(b, from, to) ==
    /\ bpc[b] = from
    /\ bpc' = [bpc EXCEPT ![b] = to]

\* Read the document and its chunks; a missing document raises, one without
\* chunks has nothing to build.
Fetch(b) ==
    /\ BuildAt(b, "queued", IF target[b] \notin rows THEN "raised"
                            ELSE IF ChunksOf(target[b]) = {} THEN "done"
                            ELSE "document")
    /\ UNCHANGED <<rows, nodes, entities, mentions, edges, target, todo, listed,
                   extracted, try, dpc, faults, history>>

UpsertDocumentNode(b) ==
    /\ BuildAt(b, "document", "chunks")
    /\ docNodes' = docNodes \cup {target[b]}
    /\ todo' = [todo EXCEPT ![b] = ChunksOf(target[b])]
    /\ UNCHANGED <<rows, chunkNodes, hasChunk, entities, mentions, edges, target,
                   listed, extracted, try, dpc, faults, history>>

\* The HAS_CHUNK edge is made only where the Document node is found.
UpsertChunkNode(b) ==
    /\ bpc[b] = "chunks"
    /\ \E c \in todo[b] :
          /\ chunkNodes' = chunkNodes \cup {c}
          /\ hasChunk' = IF target[b] \in docNodes THEN hasChunk \cup {c} ELSE hasChunk
          /\ todo' = [todo EXCEPT ![b] = @ \ {c}]
    /\ UNCHANGED <<rows, docNodes, entities, mentions, edges, bpc, target,
                   listed, extracted, try, dpc, faults, history>>

\* The next loop of the build starts once the last one has done every chunk.
\* Relations are looked for in chunks with at least two entities.
NextLoop(b) ==
    /\ todo[b] = {} /\ listed[b] = {}
    /\ \/ /\ BuildAt(b, "chunks", "entities")
          /\ todo' = [todo EXCEPT ![b] = ChunksOf(target[b])]
          /\ extracted' = [extracted EXCEPT ![b] = {}]
       \/ /\ BuildAt(b, "entities", "relations")
          /\ todo' = [todo EXCEPT ![b] = {c \in extracted[b] : Cardinality(MentionsOf[c]) > 1}]
          /\ UNCHANGED extracted
       \/ /\ BuildAt(b, "relations", "done")
          /\ extracted' = [extracted EXCEPT ![b] = {}]
          /\ UNCHANGED todo
    /\ UNCHANGED <<rows, nodes, entities, mentions, edges, target, listed, try, dpc, faults,
                   history>>

\* Entities are merged; MENTIONS edges need the Chunk node.
UpsertEntities(b) ==
    /\ bpc[b] = "entities"
    /\ \E c \in todo[b] :
          /\ entities' = entities \cup MentionsOf[c]
          /\ mentions' = IF c \in chunkNodes THEN mentions \cup ({c} \X MentionsOf[c])
                                             ELSE mentions
          /\ todo' = [todo EXCEPT ![b] = @ \ {c}]
          /\ extracted' = [extracted EXCEPT ![b] = @ \cup {c}]
    /\ UNCHANGED <<rows, nodes, edges, bpc, target, listed, try, dpc, faults, history>>

\* A chunk's list of relations is written in a statement for each.
TakeRelations(b) ==
    /\ bpc[b] = "relations" /\ listed[b] = {}
    /\ \E c \in todo[b] :
          /\ listed' = [listed EXCEPT ![b] = {c} \X RelationsOf[c]]
          /\ todo' = [todo EXCEPT ![b] = @ \ {c}]
    /\ UNCHANGED <<rows, nodes, entities, mentions, edges, bpc, target, extracted, try,
                   dpc, faults, history>>

Says(e) == <<NameOf[e[1]], e[2], NameOf[e[3]]>>

\* Relations match their ends by name, whatever the type.
EdgesOf(rel) == {e \in Edge : e[1] \in entities /\ e[3] \in entities /\ Says(e) = rel}

\* Mutant: the weight is set, not added to, when the relation exists.
UpsertRelationOnce(b) ==
    /\ bpc[b] = "relations"
    /\ \E p \in listed[b] :
          LET found == EdgesOf(p[2]) IN
          /\ related' = related \cup found
          /\ chunkIds' = [e \in Edge |-> IF e \in found THEN chunkIds[e] \cup {p[1]}
                                                       ELSE chunkIds[e]]
          /\ weight' = [e \in Edge |-> IF e \in found THEN 1 ELSE weight[e]]
          /\ listed' = [listed EXCEPT ![b] = @ \ {p}]
    /\ UNCHANGED <<rows, nodes, entities, mentions, bpc, target, todo, extracted, try,
                   dpc, faults, history>>

UpsertRelation(b) ==
    /\ bpc[b] = "relations"
    /\ \E p \in listed[b] :
          LET found == EdgesOf(p[2]) IN
          /\ related' = related \cup found
          /\ chunkIds' = [e \in Edge |-> IF e \in found THEN chunkIds[e] \cup {p[1]}
                                                       ELSE chunkIds[e]]
          /\ weight' = [e \in Edge |-> IF e \in found THEN weight[e] + 1 ELSE weight[e]]
          /\ listed' = [listed EXCEPT ![b] = @ \ {p}]
    /\ UNCHANGED <<rows, nodes, entities, mentions, bpc, target, todo, extracted, try,
                   dpc, faults, history>>

\* An extraction that keeps failing leaves its chunk without entities or
\* relations.
SkipChunk(b) ==
    /\ bpc[b] \in {"entities", "relations"} /\ listed[b] = {}
    /\ \E c \in todo[b] : todo' = [todo EXCEPT ![b] = @ \ {c}]
    /\ UNCHANGED <<rows, nodes, entities, mentions, edges, bpc, target, listed,
                   extracted, try, dpc, faults, history>>

\* A statement raises.
BuildRaises(b) ==
    /\ bpc[b] \in {"document", "chunks", "entities", "relations"}
    /\ "build" \in Failures
    /\ faults < MaxFaults
    /\ BuildAt(b, bpc[b], "raised")
    /\ todo' = [todo EXCEPT ![b] = {}]
    /\ listed' = [listed EXCEPT ![b] = {}]
    /\ extracted' = [extracted EXCEPT ![b] = {}]
    /\ faults' = faults + 1
    /\ UNCHANGED <<rows, nodes, entities, mentions, edges, target, try, dpc, history>>

\* Mutant: one attempt too many.
RetryOnceMore(b) ==
    /\ BuildAt(b, "raised", IF try[b] <= MaxRetries THEN "queued" ELSE "failed")
    /\ try' = [try EXCEPT ![b] = IF @ <= MaxRetries THEN @ + 1 ELSE @]
    /\ UNCHANGED <<rows, nodes, entities, mentions, edges, target, todo,
                   listed, extracted, dpc, faults, history>>

\* self.retry runs the whole task again, up to max_retries times.
Retry(b) ==
    /\ BuildAt(b, "raised", IF try[b] < MaxRetries THEN "queued" ELSE "failed")
    /\ try' = [try EXCEPT ![b] = IF @ < MaxRetries THEN @ + 1 ELSE @]
    /\ UNCHANGED <<rows, nodes, entities, mentions, edges, target, todo,
                   listed, extracted, dpc, faults, history>>

-----------------------------------------------------------------------------
(* The deletion of a document, delete_document_graph's five statements.    *)

DeleteAt(d, from, to) ==
    /\ dpc[d] = from
    /\ dpc' = [dpc EXCEPT ![d] = to]

Building(d) == \E b \in Build : target[b] = d /\ bpc[b] \notin {"done", "failed"}

DeleteRow(d) ==
    /\ DeleteAt(d, "kept", "scrub")
    /\ rows' = rows \ {d}
    /\ unclean' = IF Building(d) THEN unclean \cup {d} ELSE unclean
    /\ UNCHANGED <<nodes, entities, mentions, edges, builds, faults, blocked>>

\* Mutant: a relation any of the document's chunks supports is emptied.
ScrubWholeRelations(d) ==
    LET touched == {e \in related : chunkIds[e] \cap Linked(d) # {}}
    IN /\ DeleteAt(d, "scrub", "edges")
       /\ chunkIds' = [e \in Edge |-> IF e \in touched THEN {} ELSE chunkIds[e]]
       /\ weight' = [e \in Edge |-> IF e \in touched THEN 0 ELSE weight[e]]
       /\ UNCHANGED <<rows, nodes, entities, mentions, related, builds, faults, history>>

ScrubRelations(d) ==
    LET touched == {e \in related : chunkIds[e] \cap Linked(d) # {}}
    IN /\ DeleteAt(d, "scrub", "edges")
       /\ chunkIds' = [e \in Edge |-> chunkIds[e] \ Linked(d)]
       /\ weight' = [e \in Edge |-> IF e \in touched
                                    THEN Cardinality(chunkIds[e] \ Linked(d))
                                    ELSE weight[e]]
       /\ UNCHANGED <<rows, nodes, entities, mentions, related, builds, faults, history>>

\* Mutant: relations no chunk supports are kept.
KeepEmptyRelations(d) ==
    /\ DeleteAt(d, "edges", "chunks")
    /\ UNCHANGED <<rows, nodes, entities, mentions, edges, builds, faults, history>>

DeleteEmptyRelations(d) ==
    LET empty == {e \in related : chunkIds[e] = {}}
    IN /\ DeleteAt(d, "edges", "chunks")
       /\ related' = related \ empty
       /\ weight' = [e \in Edge |-> IF e \in empty THEN 0 ELSE weight[e]]
       /\ UNCHANGED <<rows, nodes, entities, mentions, chunkIds, builds, faults, history>>

\* Mutant: the Document node goes first, and its chunks are no longer found.
DeleteDocumentFirst(d) ==
    /\ DeleteAt(d, "chunks", "document")
    /\ docNodes' = docNodes \ {d}
    /\ hasChunk' = hasChunk \ Linked(d)
    /\ UNCHANGED <<rows, chunkNodes, entities, mentions, edges, builds, faults, history>>

DeleteChunkNodes(d) ==
    /\ DeleteAt(d, "chunks", "document")
    /\ chunkNodes' = chunkNodes \ Linked(d)
    /\ hasChunk' = hasChunk \ Linked(d)
    /\ mentions' = {m \in mentions : m[1] \notin Linked(d)}
    /\ UNCHANGED <<rows, docNodes, entities, edges, builds, faults, history>>

DeleteDocumentNode(d) ==
    /\ DeleteAt(d, "document", "orphans")
    /\ docNodes' = docNodes \ {d}
    /\ hasChunk' = hasChunk \ Linked(d)
    /\ UNCHANGED <<rows, chunkNodes, entities, mentions, edges, builds, faults, history>>

Orphans == {e \in entities : \A m \in mentions : m[2] # e}

\* The orphans that still have a RELATED_TO edge.
RelatedOrphans == {o \in Orphans : \E e \in related : o \in {e[1], e[3]}}

\* Mutant: a LIMIT left in the clean-up of orphans.
DeleteOneOrphan(d) ==
    /\ DeleteAt(d, "orphans", "done")
    /\ entities' = IF RelatedOrphans # {} \/ Orphans = {}
                   THEN entities ELSE entities \ {CHOOSE o \in Orphans : TRUE}
    /\ blocked' = RelatedOrphans
    /\ UNCHANGED <<rows, nodes, mentions, edges, builds, faults, unclean>>

\* DELETE, not DETACH DELETE: one orphan that still has a RELATED_TO edge and
\* the statement fails as a whole, which the endpoint logs and ignores.
DeleteOrphans(d) ==
    /\ DeleteAt(d, "orphans", "done")
    /\ entities' = IF RelatedOrphans # {} THEN entities ELSE entities \ Orphans
    /\ blocked' = RelatedOrphans
    /\ UNCHANGED <<rows, nodes, mentions, edges, builds, faults, unclean>>

\* Neo4j is unavailable: the rest of the clean-up is given up.
CleanUpFails(d) ==
    /\ \E from \in {"scrub", "edges", "chunks", "document", "orphans"} :
          DeleteAt(d, from, "done")
    /\ "cleanup" \in Failures
    /\ faults < MaxFaults
    /\ faults' = faults + 1
    /\ unclean' = unclean \cup {d}
    /\ UNCHANGED <<rows, nodes, entities, mentions, edges, builds, blocked>>

-----------------------------------------------------------------------------
Next ==
    \/ \E b \in Build :
          \/ Fetch(b) \/ UpsertDocumentNode(b) \/ UpsertChunkNode(b) \/ NextLoop(b)
          \/ UpsertEntities(b) \/ TakeRelations(b) \/ UpsertRelation(b)
          \/ SkipChunk(b) \/ BuildRaises(b) \/ Retry(b)
    \/ \E d \in Doc :
          \/ DeleteRow(d) \/ ScrubRelations(d) \/ DeleteEmptyRelations(d)
          \/ DeleteChunkNodes(d) \/ DeleteDocumentNode(d) \/ DeleteOrphans(d)
          \/ CleanUpFails(d)

Spec == Init /\ [][Next]_vars

-----------------------------------------------------------------------------
(* Properties.                                                             *)

TypeOK ==
    /\ rows \subseteq Doc
    /\ docNodes \subseteq Doc
    /\ chunkNodes \subseteq Chunk
    /\ hasChunk \subseteq chunkNodes
    /\ entities \subseteq Entity
    /\ mentions \subseteq chunkNodes \X entities
    /\ related \subseteq {e \in Edge : e[1] \in entities /\ e[3] \in entities}
    /\ chunkIds \in [Edge -> SUBSET Chunk]
    /\ weight \in [Edge -> Nat]
    /\ bpc \in [Build -> {"queued", "document", "chunks", "entities", "relations",
                          "raised", "done", "failed"}]
    /\ target \in [Build -> Doc]
    /\ todo \in [Build -> SUBSET Chunk]
    /\ listed \in [Build -> SUBSET (Chunk \X Relation)]
    /\ extracted \in [Build -> SUBSET Chunk]
    /\ try \in [Build -> 0..MaxRetries]
    /\ dpc \in [Doc -> {"kept", "scrub", "edges", "chunks", "document", "orphans", "done"}]
    /\ faults \in 0..MaxFaults
    /\ unclean \subseteq Doc
    /\ blocked \subseteq Entity

\* Nothing is being built or cleaned up.
Quiet ==
    /\ \A b \in Build : bpc[b] \in {"done", "failed"}
    /\ \A d \in Doc : dpc[d] \in {"kept", "done"}

\* The clean-up of a deleted document takes nothing that another document's
\* chunks put into the graph: their nodes, mentions, entities and relations
\* stay, shared entities and relations included.
OthersKeepTheirGraph ==
    [][/\ \A c \in chunkNodes \ chunkNodes' : DocOf[c] \notin rows
       /\ \A m \in mentions \ mentions' : DocOf[m[1]] \notin rows
       /\ \A e \in related : \A c \in chunkIds[e] \ chunkIds'[e] : DocOf[c] \notin rows
       /\ \A e \in related \ related' : \A c \in chunkIds[e] : DocOf[c] \notin rows]_vars

\* Unless a deletion overlapped a build or failed half-way, a relation that
\* is kept can be traced to chunks that still exist.
RelationsTraceable ==
    Quiet /\ unclean = {} =>
        \A e \in related : chunkIds[e] # {} /\ chunkIds[e] \subseteq chunkNodes

\* Unless it overlapped a build or failed half-way, a finished deletion leaves
\* no node of its document behind, whatever happens to the other documents.
DeletedLeavesNothing ==
    Quiet => /\ docNodes \subseteq rows \cup unclean
             /\ \A c \in chunkNodes : DocOf[c] \in rows \cup unclean

\* "orphaned nodes match no chunk and are dropped by the next
\* build_knowledge_graph_bulk": once no build and no clean-up is under way, the
\* graph holds no node of a deleted document.
NothingOutlivesItsDocument ==
    Quiet /\ "cleanup" \notin Failures =>
        docNodes \subseteq rows /\ \A c \in chunkNodes : DocOf[c] \in rows

\* A chunk relates the entity's name without mentioning the entity: the name
\* is that of an entity of another type, or the extractor made it up.
NamedOnly(o) ==
    \E c \in Chunk, e \in Edge :
        /\ o \in {e[1], e[3]} /\ o \notin MentionsOf[c]
        /\ Says(e) \in RelationsOf[c]

\* Unless a deletion overlapped a build or failed half-way, an entity nothing
\* mentions is left only where the last DELETE of orphans failed as a whole, and
\* it failed on entities whose relations were put on them by name alone.
OrphansOnlyByName ==
    Quiet /\ unclean = {} /\ Orphans # {} =>
        blocked # {} /\ \A o \in blocked : NamedOnly(o)

\* Graph retrieval ranks relations by weight: no order of builds, retries and
\* clean-ups leaves a relation with less weight than it has chunks.
WeightCoversChunks == \A e \in related : weight[e] >= Cardinality(chunkIds[e])

=============================================================================
