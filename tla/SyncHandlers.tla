----------------------------- MODULE SyncHandlers -----------------------------
(***************************************************************************)
(* The sync service's two event handlers beside the sagas of a document.   *)
(* document.updated: read the chunk rows, encode them, rewrite vectors and *)
(* graph; document.deleted: remove them.  Every call of a handler is an    *)
(* await, so sagas move in between; a call that raises makes the handler   *)
(* go on with the next store and name the store in sync.failed.            *)
(*                                                                         *)
(* Events come at least once and, because a consumer that starts again     *)
(* repeats old ones, in any order.  An event stands for the saga it was    *)
(* sent after; the one of an update of metadata alone, which runs no saga, *)
(* is Metadata.  Events are taken to carry the "type" that the consumer    *)
(* routes by.                                                              *)
(***************************************************************************)
EXTENDS SagaProperties, FiniteSets

CONSTANTS
    Metadata,  \* the document.updated event with content_changed = FALSE
    NoEvent

ASSUME SyncAssumption == Metadata # NoEvent /\ {Metadata, NoEvent} \cap Sagas = {}

VARIABLES
    topic,      \* the sagas whose event DocumentService could send
    event,      \* the event being handled (the last one, when idle)
    phase,      \* of the handler
    syncCall,   \* index of its next call of Milvus or Neo4j
    read,       \* the chunks it got from PostgreSQL
    failed,     \* failed_stores
    report,     \* the result event it sent
    mixed,      \* has a saga moved during this handling? (history)
    syncRaised  \* has any handling had a call that raised, or crashed? (history)

sync == <<topic, event, phase, syncCall, read, failed, report, mixed, syncRaised>>
syncVars == <<vars, sync>>

SyncTypeOK ==
    /\ topic \in SUBSET Sagas
    /\ event \in Sagas \union {Metadata, NoEvent}
    /\ phase \in {"idle", "read", "call", "report"}
    /\ syncCall \in 1..5
    /\ read \in SUBSET Sagas
    /\ failed \in SUBSET {"milvus", "neo4j"}
    /\ report \in {"none", "sync.completed", "sync.failed"}
    /\ mixed \in BOOLEAN
    /\ syncRaised \in BOOLEAN

SyncInit ==
    /\ Init
    /\ topic = {}
    /\ event = NoEvent
    /\ phase = "idle"
    /\ syncCall = 1
    /\ read = {}
    /\ failed = {}
    /\ report = "none"
    /\ mixed = FALSE
    /\ syncRaised = FALSE

-----------------------------------------------------------------------------
\* Wrong: the update handler leaves out the document node.
HandlerCallsNoNode(e) ==
    IF kind[e] = "update"
    THEN <<"delete_vectors", "insert_vectors",
           "delete_document_graph", "create_chunk_nodes">>
    ELSE <<"delete_vectors", "delete_document_graph">>

\* The calls of the handlers.  The graph gets no CONTAINS edges back.
HandlerCalls(e) ==
    IF kind[e] = "update"
    THEN <<"delete_vectors", "insert_vectors",
           "delete_document_graph", "create_document_node", "create_chunk_nodes">>
    ELSE <<"delete_vectors", "delete_document_graph">>

HandlerStore(c) == IF c \in {"delete_vectors", "insert_vectors"} THEN "milvus" ELSE "neo4j"

\* Wrong: the vectors of the whole document are deleted.
HandlerEffectByDoc(c) ==
    \/ /\ c \in {"delete_vectors", "insert_vectors"}
       /\ vectors' = IF c = "delete_vectors" THEN {} ELSE vectors \union read
       /\ UNCHANGED <<pg, graph>>
    \/ c = "delete_document_graph" /\ DeleteDocumentGraph
    \/ c = "create_document_node"  /\ CreateDocumentNode
    \/ /\ c = "create_chunk_nodes"
       /\ chunkNodes' = chunkNodes \union read
       /\ UNCHANGED <<pg, vectors, docNode, contains>>

\* What a call does: vectors and nodes are those of the chunks read before.
HandlerEffect(c) ==
    \/ /\ c \in {"delete_vectors", "insert_vectors"}
       /\ vectors' = IF c = "delete_vectors" THEN vectors \ read ELSE vectors \union read
       /\ UNCHANGED <<pg, graph>>
    \/ c = "delete_document_graph" /\ DeleteDocumentGraph
    \/ c = "create_document_node"  /\ CreateDocumentNode
    \/ /\ c = "create_chunk_nodes"
       /\ chunkNodes' = chunkNodes \union read
       /\ UNCHANGED <<pg, vectors, docNode, contains>>

HandlerCall == HandlerCalls(event)[syncCall]

\* On to call i, or to the report when there is none.
ContinueAt(i) ==
    IF i \in DOMAIN HandlerCalls(event)
    THEN syncCall' = i /\ phase' = "call"
    ELSE syncCall' = 1 /\ phase' = "report"

\* The first call of the next store: 1 + the number of calls of Milvus, or
\* beyond the last call.
NextStore ==
    1 + Cardinality({i \in DOMAIN HandlerCalls(event) :
            HandlerStore(HandlerCall) = "neo4j"
            \/ HandlerStore(HandlerCalls(event)[i]) = "milvus"})

-----------------------------------------------------------------------------
\* DocumentService sends the event after a saga that succeeded; sending may
\* fail, and is not tried again.
Publish(s) ==
    /\ status[s] = "success"
    /\ kind[s] \in {"update", "delete"}
    /\ topic' = topic \union {s}
    /\ UNCHANGED <<vars, event, phase, syncCall, read, failed, report, mixed, syncRaised>>

\* An event comes.  One without a change of content is reported at once.
Deliver(e) ==
    /\ phase = "idle"
    /\ e \in topic \/ (e = Metadata /\ pgDoc # NoDoc)
    /\ event' = e
    /\ phase' = IF e = Metadata THEN "report" ELSE "read"
    /\ syncCall' = 1
    /\ read' = {}
    /\ failed' = {}
    /\ report' = "none"
    /\ mixed' = ~Quiet
    /\ UNCHANGED <<vars, topic, syncRaised>>

\* get_chunks_by_doc.  Without chunks an update is over, with no report; a
\* delete counts Milvus as done without a call.
ReadChunks ==
    /\ phase = "read"
    /\ read' = GetChunksByDoc
    /\ IF read' # {} THEN ContinueAt(1)
       ELSE IF kind[event] = "delete" THEN ContinueAt(2)
       ELSE phase' = "idle" /\ UNCHANGED syncCall
    /\ UNCHANGED <<vars, topic, event, failed, report, mixed, syncRaised>>

\* The read raises, or the encoding of what an update has read: the outer
\* except names both stores.
ReadRaises ==
    /\ phase = "read"
    /\ "postgres" \in Faulty \/ (kind[event] = "update" /\ GetChunksByDoc # {})
    /\ failed' = {"milvus", "neo4j"}
    /\ phase' = "report"
    /\ syncRaised' = TRUE
    /\ UNCHANGED <<vars, topic, event, syncCall, read, report, mixed>>

HandlerExecute ==
    /\ phase = "call"
    /\ HandlerEffect(HandlerCall)
    /\ ContinueAt(syncCall + 1)
    /\ UNCHANGED <<control, topic, event, read, failed, report, mixed, syncRaised>>

\* Wrong: the handler starts over as often as a call raises.
HandlerRaisesStartsOver ==
    /\ phase = "call"
    /\ HandlerStore(HandlerCall) \in Faulty
    /\ UNCHANGED stores \/ HandlerEffect(HandlerCall)
    /\ phase' = "read"
    /\ syncCall' = 1
    /\ syncRaised' = TRUE
    /\ UNCHANGED <<control, topic, event, read, failed, report, mixed>>

HandlerRaises ==
    /\ phase = "call"
    /\ HandlerStore(HandlerCall) \in Faulty
    /\ UNCHANGED stores \/ HandlerEffect(HandlerCall)
    /\ failed' = failed \union {HandlerStore(HandlerCall)}
    /\ syncRaised' = TRUE
    /\ ContinueAt(NextStore)
    /\ UNCHANGED <<control, topic, event, read, report, mixed>>

\* _publish_sync_completed or _publish_sync_failed: without a producer, or
\* when it raises, nothing is sent and nothing is raised.
Report ==
    /\ phase = "report"
    /\ phase' = "idle"
    /\ report' \in {"none", IF failed = {} THEN "sync.completed" ELSE "sync.failed"}
    /\ UNCHANGED <<vars, topic, event, syncCall, read, failed, mixed, syncRaised>>

\* The process of the sync service stops; the event will come again.
SyncCrash ==
    /\ phase # "idle"
    /\ phase' = "idle"
    /\ syncRaised' = TRUE
    /\ UNCHANGED <<vars, topic, event, syncCall, read, failed, report, mixed>>

HandlerStep ==
    \/ ReadChunks
    \/ ReadRaises
    \/ HandlerExecute
    \/ HandlerRaises
    \/ Report

\* A step of the service that runs the sagas.
Beside(A) ==
    /\ A
    /\ mixed' = (mixed \/ phase # "idle")
    /\ UNCHANGED <<topic, event, phase, syncCall, read, failed, report, syncRaised>>

SagaMoves(s) == Beside(SagaStep(s))
RequestComes == \E s \in Sagas, k \in Kinds : Beside(Start(s, k))
ServiceCrashes == Beside(Crash)

SyncNext ==
    \/ RequestComes
    \/ \E s \in Sagas : SagaMoves(s) \/ Publish(s)
    \/ ServiceCrashes
    \/ \E e \in Sagas \union {Metadata} : Deliver(e)
    \/ HandlerStep
    \/ SyncCrash

SyncSpec == SyncInit /\ [][SyncNext]_syncVars

\* The loop that runs a handler and the loop that runs a saga keep running;
\* events need not be sent nor come.
SyncFairSpec ==
    /\ SyncSpec
    /\ WF_syncVars(HandlerStep)
    /\ \A s \in Sagas : WF_syncVars(SagaMoves(s))

-----------------------------------------------------------------------------
\* What a handling that went through leaves in a store.  After an update Milvus
\* has vectors for every chunk row; Neo4j has the document node and a node for
\* every chunk row, and no other content is reached from the document.  After a
\* delete nothing is reached in Neo4j.  Two things are not promised here, because
\* the handlers do not keep them: the CONTAINS edges after an update, of which
\* sync_neo4j_update makes none, and an empty Milvus after a delete
\* (SyncCompletesDelete).
Synced(e, st) ==
    CASE kind[e] = "delete" -> st = "neo4j" => ~docNode /\ contains = {}
      [] kind[e] = "update" ->
            /\ st = "milvus" => pgChunks \subseteq vectors
            /\ st = "neo4j"  => /\ docNode /\ pgChunks \subseteq chunkNodes
                               /\ contains \subseteq pgChunks

\* A report is true of what its handler wrote: whatever state earlier sagas,
\* failed ones included, and earlier syncs left, and however often the event has
\* come, every store that the report does not name as failed is Synced, unless a
\* saga moved during the handling.
ReportIsTrue ==
    [][(phase = "report" /\ report' # "none" /\ event # Metadata /\ ~mixed) =>
            \A st \in {"milvus", "neo4j"} \ failed : Synced(event, st)]_syncVars

\* A sync may run between the calls of any saga and still loses no vectors:
\* as long as nothing raises and nobody deletes, every chunk row has its
\* vectors and the document its node whenever both are at rest.
SyncKeepsVectors ==
    (/\ Quiet /\ phase = "idle" /\ ~syncRaised
     /\ \E s \in Sagas : kind[s] = "create"
     /\ \A s \in Sagas : kind[s] # "delete"
     /\ \A s \in Sagas : Over(s) => status[s] = "success")
    => pgChunks # {} /\ pgChunks \subseteq vectors /\ docNode

\* Every handling comes to an end, whatever raises: a handler never keeps the
\* consumer from the next event.
SyncEnds == (phase # "idle") ~> (phase = "idle")

-----------------------------------------------------------------------------
(* What a docstring says of the handlers and they do not do.               *)

\* "Ensures data is removed from all stores": once the handler, with no saga
\* in its way and nothing having raised, has reported the delete complete, the
\* search stores have nothing of the document.
SyncCompletesDelete ==
    (/\ Quiet /\ phase = "idle" /\ ~syncRaised /\ ~mixed
     /\ \A s \in Sagas : Over(s) => status[s] = "success"
     /\ event \in Sagas /\ kind[event] = "delete" /\ report = "sync.completed")
    => (vectors = {} /\ ~docNode)
=============================================================================
