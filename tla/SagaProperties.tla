---------------------------- MODULE SagaProperties ----------------------------
(***************************************************************************)
(* What the sagas promise about the three stores.  The first group holds   *)
(* as long as no two requests on the document overlap, whatever raises and *)
(* wherever the process stops; the second group holds for overlapping      *)
(* requests.                                                               *)
(***************************************************************************)
EXTENDS SagaCoordinator

Ends(s, how) == status[s] # how /\ status'[s] = how

HoldsNothing(st) ==
    \/ st = "postgres" /\ pgDoc = NoDoc /\ pgChunks = {}
    \/ st = "milvus"   /\ vectors = {}
    \/ st = "neo4j"    /\ ~docNode /\ chunkNodes = {} /\ contains = {}

\* What is reached from the document: Chunk nodes that no CONTAINS edge ties to
\* it are the subject of NoOrphans.
HoldsExactly(s) ==
    /\ pgDoc = s /\ pgChunks = {s}
    /\ vectors = {s}
    /\ docNode /\ contains = {s} /\ s \in chunkNodes

Deleted ==
    /\ pgDoc = NoDoc /\ pgChunks = {}
    /\ vectors = {}
    /\ ~docNode /\ contains = {}

\* Every Chunk node hangs on the document, unless a request failed in Neo4j or
\* the process stopped: delete_document_graph does not find the nodes that were
\* left without their edge.
NoOrphans ==
    \/ RaisedIn("neo4j")
    \/ \E s \in Sagas : status[s] = "crashed"
    \/ chunkNodes \subseteq contains

-----------------------------------------------------------------------------
(* As long as requests come one after the other.                           *)

\* Search data never outlives or contradicts the row: the vectors and the
\* CONTAINS edges of a document belong to the content its row holds, in every
\* state, also in the middle of a saga, during compensation and after a crash.
\* Only a call to that very store that raised can leave something stale.
VectorsFresh == RaisedIn("milvus") \/ vectors \subseteq {pgDoc}
GraphFresh   == RaisedIn("neo4j") \/ (/\ contains \subseteq {pgDoc}
                                      /\ docNode => pgDoc # NoDoc)
SearchNeverStale == ~overlapped => VectorsFresh /\ GraphFresh

\* PostgreSQL is whole between requests: a row has exactly the chunks of its
\* content, no row has no chunks, unless PostgreSQL raised (the update and
\* the create write row and chunks in separate transactions) or the process
\* stopped in between.
PostgresWhole ==
    (~overlapped /\ Quiet) =>
        \/ RaisedIn("postgres")
        \/ \E s \in Sagas : status[s] = "crashed"
        \/ pgChunks = {pgDoc} \ {NoDoc}

\* A create or update that reports success left its content, and no other, in
\* the rows, the vectors and the graph reached from the document node, whatever
\* earlier sagas left behind; a delete that reports success left none.  Chunk
\* nodes without an edge remain only if an earlier request failed in Neo4j or
\* was interrupted.
SuccessIsComplete ==
    [][~overlapped => \A s \in Sagas : Ends(s, "success") =>
            /\ IF kind[s] = "delete" THEN Deleted' ELSE HoldsExactly(s)'
            /\ NoOrphans']_vars

\* The failure of a create stays in the stores that failed: every store none
\* of whose calls raised is empty again, although compensation went on past
\* the failed compensations of the others.
CreateFailureConfined ==
    [][~overlapped => \A s \in Sagas : (Ends(s, "failed") /\ kind[s] = "create") =>
            \A st \in Stores \ raised'[s] : HoldsNothing(st)']_vars

\* A delete that failed can be tried again: PostgreSQL goes last, so the row
\* a new request is checked against is still there, unless PostgreSQL itself
\* raised.
FailedDeleteCanBeRetried ==
    [][~overlapped => \A s \in Sagas :
            (Ends(s, "failed") /\ kind[s] = "delete" /\ "postgres" \notin raised'[s])
                => pgDoc' # NoDoc]_vars

-----------------------------------------------------------------------------
(* Overlapping requests.                                                   *)

\* A delete is final: once the row is gone no concurrent update brings it
\* back, neither the row nor chunk rows without one.
DeletedStaysDeleted ==
    [][(/\ pgDoc = NoDoc
        /\ \E s \in Sagas : kind[s] = "create" /\ (call[s] > 1 \/ at[s] > 1 \/ Over(s)))
            => (pgDoc' = NoDoc /\ pgChunks' = {})]_vars

\* Overlapping updates may mix their contents, but as long as nothing fails
\* and nobody deletes, the document can be found when they are over: its row
\* has chunks, Milvus has vectors and Neo4j a connected graph.
UpdatesKeepDocumentSearchable ==
    (/\ Quiet
     /\ \A s \in Sagas : kind[s] # "delete"
     /\ \A s \in Sagas : Over(s) => status[s] = "success"
     /\ \E s \in Sagas : kind[s] = "create")
    => (pgDoc # NoDoc /\ pgChunks # {} /\ vectors # {} /\ docNode /\ contains # {})

\* A failed saga of overlapping ones has tried to undo every step it counts
\* as undoable: what is missing in compensated_steps has a compensating call,
\* and the store of that call raised in this saga.
NothingLeftUndone ==
    \A s \in Sagas : status[s] = "failed" =>
        \A i \in UndoTo(kind[s], at[s]) .. (at[s] - 1) :
            LET c == Compensation(Plan(kind[s])[i])
            IN  i \in compensated[s] \/ (c # "no call" /\ StoreOf(c) \in raised[s])

\* Every saga that starts comes to an end: compensation loops make progress
\* whatever raises.
SagasEnd == \A s \in Sagas : (status[s] = "executing") ~> Over(s)

=============================================================================
