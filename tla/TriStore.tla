------------------------------ MODULE TriStore ------------------------------
(***************************************************************************)
(* What one document looks like in the three stores of the Knowledge Store *)
(* (PostgreSQL, Milvus, Neo4j), and what every repository call the saga    *)
(* steps make does to it.                                                  *)
(*                                                                         *)
(* The state is that of ONE doc_uuid: every call of the saga steps carries *)
(* the doc_uuid and touches no other document.  A piece of content (the    *)
(* metadata and the chunk set built from one request) is identified with   *)
(* the saga that writes it; chunk uuids are drawn fresh for every request, *)
(* so the chunks of two sagas are different rows, vectors and nodes.       *)
(***************************************************************************)

CONSTANTS
    Sagas,      \* the saga executions (one per request) on this document
    NoDoc,      \* "there is no row"
    ConcretePg  \* FALSE: the PostgreSQL repository does what the steps'
                \* PostgresRepositoryProtocol says; TRUE: what the class
                \* PostgresRepository does with the objects the saga passes

ASSUME TriStoreAssumption ==
    /\ NoDoc \notin Sagas
    /\ ConcretePg \in BOOLEAN

VARIABLES
    pgDoc,       \* the content of the documents row with this doc_uuid, or NoDoc
    pgChunks,    \* the contents whose document_chunks rows are stored
    strayRows,   \* the documents rows stored under a uuid nobody was given
    vectors,     \* the contents whose vectors are in the Milvus collection
    docNode,     \* is there a (:Document) node
    chunkNodes,  \* the contents whose (:Chunk) nodes exist
    contains     \* those whose nodes hang on the document by [:CONTAINS]

pg     == <<pgDoc, pgChunks, strayRows>>
graph  == <<docNode, chunkNodes, contains>>
stores == <<pgDoc, pgChunks, strayRows, vectors, docNode, chunkNodes, contains>>

StoresTypeOK ==
    /\ pgDoc \in Sagas \union {NoDoc}
    /\ pgChunks \in SUBSET Sagas
    /\ strayRows \in SUBSET Sagas
    /\ vectors \in SUBSET Sagas
    /\ docNode \in BOOLEAN
    /\ chunkNodes \in SUBSET Sagas
    /\ contains \in SUBSET Sagas

StoresInit ==
    /\ pgDoc = NoDoc
    /\ pgChunks = {}
    /\ strayRows = {}
    /\ vectors = {}
    /\ docNode = FALSE
    /\ chunkNodes = {}
    /\ contains = {}

-----------------------------------------------------------------------------
(* PostgreSQL.  The class PostgresRepository lets the database draw the    *)
(* uuid of a new row, reads attributes the saga's chunk objects lack, and  *)
(* calls .items() on the document object an update saga passes: the last   *)
(* two raise before any statement is sent.                                 *)

CreateDocument(s) ==
    /\ IF ConcretePg
       THEN /\ strayRows' = strayRows \union {s}
            /\ pgDoc' = pgDoc
       ELSE /\ pgDoc' = s
            /\ strayRows' = strayRows
    /\ UNCHANGED <<pgChunks, vectors, graph>>

\* document_chunks.doc_uuid references documents: without the row the
\* INSERT violates the foreign key and the whole transaction rolls back.
CreateChunks(s) ==
    /\ ~ConcretePg
    /\ pgDoc # NoDoc
    /\ pgChunks' = pgChunks \union {s}
    /\ UNCHANGED <<pgDoc, strayRows, vectors, graph>>

\* Wrong: an upsert.
UpdateDocumentUpserts(s) ==
    /\ ~ConcretePg
    /\ pgDoc' = s
    /\ UNCHANGED <<pgChunks, strayRows, vectors, graph>>

\* UPDATE ... WHERE doc_uuid = ...: matches nothing, without an error, when
\* the row has gone.
UpdateDocument(s) ==
    /\ ~ConcretePg
    /\ pgDoc' = IF pgDoc = NoDoc THEN NoDoc ELSE s
    /\ UNCHANGED <<pgChunks, strayRows, vectors, graph>>

GetChunksByDoc == pgChunks

DeleteChunksByDoc ==
    /\ pgChunks' = {}
    /\ UNCHANGED <<pgDoc, strayRows, vectors, graph>>

\* ON DELETE CASCADE takes the chunks along.
DeleteDocument ==
    /\ pgDoc' = NoDoc
    /\ pgChunks' = {}
    /\ UNCHANGED <<strayRows, vectors, graph>>

-----------------------------------------------------------------------------
(* Milvus.                                                                 *)

InsertChunks(s) ==
    /\ vectors' = vectors \union {s}
    /\ UNCHANGED <<pg, graph>>

DeleteByDocUuid ==
    /\ vectors' = {}
    /\ UNCHANGED <<pg, graph>>

-----------------------------------------------------------------------------
(* Neo4j.                                                                  *)

CreateDocumentNode ==
    /\ docNode' = TRUE
    /\ UNCHANGED <<pg, vectors, chunkNodes, contains>>

CreateChunkNodes(s) ==
    /\ chunkNodes' = chunkNodes \union {s}
    /\ UNCHANGED <<pg, vectors, docNode, contains>>

\* MATCH finds nothing, without an error, when an end of the edge is missing.
CreateContainsEdges(s) ==
    /\ contains' = IF docNode THEN contains \union ({s} \intersect chunkNodes)
                              ELSE contains
    /\ UNCHANGED <<pg, vectors, docNode, chunkNodes>>

\* Deletes the document node and the chunk nodes that hang on it; a chunk
\* node that no CONTAINS edge reaches stays, and without the document node
\* nothing matches.
DeleteDocumentGraph ==
    /\ docNode' = FALSE
    /\ chunkNodes' = IF docNode THEN chunkNodes \ contains ELSE chunkNodes
    /\ contains' = IF docNode THEN {} ELSE contains
    /\ UNCHANGED <<pg, vectors>>

-----------------------------------------------------------------------------
(* The effect of the repository call named c, made for saga s.             *)
Effect(c, s) ==
    \/ c = "create_document"       /\ CreateDocument(s)
    \/ c = "create_chunks"         /\ CreateChunks(s)
    \/ c = "update_document"       /\ UpdateDocument(s)
    \/ c = "delete_chunks_by_doc"  /\ DeleteChunksByDoc
    \/ c = "delete_document"       /\ DeleteDocument
    \/ c = "insert_chunks"         /\ InsertChunks(s)
    \/ c = "delete_by_doc_uuid"    /\ DeleteByDocUuid
    \/ c = "create_document_node"  /\ CreateDocumentNode
    \/ c = "create_chunk_nodes"    /\ CreateChunkNodes(s)
    \/ c = "create_contains_edges" /\ CreateContainsEdges(s)
    \/ c = "delete_document_graph" /\ DeleteDocumentGraph

\* The calls the database refuses, whatever the network does.
Refused(c) ==
    \/ c = "create_chunks"   /\ (ConcretePg \/ pgDoc = NoDoc)
    \/ c = "update_document" /\ ConcretePg

\* The store a call goes to.
StoreOf(c) ==
    IF c \in {"insert_chunks", "delete_by_doc_uuid"} THEN "milvus"
    ELSE IF c \in {"create_document_node", "create_chunk_nodes",
                   "create_contains_edges", "delete_document_graph"}
         THEN "neo4j"
         ELSE "postgres"

Stores == {"postgres", "milvus", "neo4j"}
=============================================================================
