--------------------------- MODULE SagaCoordinator ---------------------------
(***************************************************************************)
(* The saga coordinator: create, delete and update sagas over the three    *)
(* stores of one document, with their compensations.                       *)
(*                                                                         *)
(* The service is one asyncio process, so sagas interleave exactly at      *)
(* their awaits, and every await of a saga is a repository call: an action *)
(* below is one call together with the code that runs until the next one.  *)
(* Any call may raise, before or after it took effect (a lost              *)
(* acknowledgement; Milvus' insert and delete flush after the operation    *)
(* itself), and nothing about a saga is persisted, so a crash leaves the   *)
(* stores as they are.                                                     *)
(*                                                                         *)
(* The reads of the steps (get_document, get_chunks_by_doc,                *)
(* get_document_graph) fill backups in the saga context that no            *)
(* compensation which ever runs looks at: a read that raises fails the     *)
(* step as a first write that raises before its effect does.               *)
(***************************************************************************)
EXTENDS TriStore, Naturals, Sequences

CONSTANTS
    Faulty,  \* the stores whose calls may raise
    MayCrash \* TRUE: the process may stop between two calls

ASSUME SagaAssumption ==
    /\ Faulty \subseteq Stores
    /\ MayCrash \in BOOLEAN

VARIABLES
    kind,        \* what each saga does
    status,      \* where each saga stands
    at,          \* index, in the plan, of the step being executed (or that failed)
    call,        \* index, in that step, of the next repository call
    undo,        \* while compensating: index of the step to compensate next
    compensated, \* indices of the steps whose compensation reported success
    raised,      \* the stores that raised in this saga (history)
    overlapped   \* did a request ever start while another was under way? (history)

control == <<kind, status, at, call, undo, compensated, raised, overlapped>>
vars == <<stores, control>>

Kinds == {"create", "delete", "update"}

\* Wrong: the create saga writes the vectors before the row.
PlanCreatesVectorsFirst(k) ==
    CASE k = "create" -> <<"milvus_create", "postgres_create", "neo4j_create">>
      [] k = "delete" -> <<"neo4j_delete", "milvus_delete", "postgres_delete">>
      [] k = "update" -> <<"neo4j_delete", "milvus_delete", "postgres_update",
                           "milvus_create", "neo4j_create">>

\* The steps in execution order.  The update saga runs three phases: delete
\* the old graph and vectors, update PostgreSQL, create the new ones.
Plan(k) ==
    CASE k = "create" -> <<"postgres_create", "milvus_create", "neo4j_create">>
      [] k = "delete" -> <<"neo4j_delete", "milvus_delete", "postgres_delete">>
      [] k = "update" -> <<"neo4j_delete", "milvus_delete", "postgres_update",
                           "milvus_create", "neo4j_create">>

\* Wrong: an update keeps the old chunk rows or deletes the new ones, or the
\* graph gets no edges.
CallsKeepOldChunks(step) ==
    CASE step = "postgres_create" -> <<"create_document", "create_chunks">>
      [] step = "milvus_create"   -> <<"insert_chunks">>
      [] step = "neo4j_create"    -> <<"create_document_node", "create_chunk_nodes",
                                       "create_contains_edges">>
      [] step = "neo4j_delete"    -> <<"delete_document_graph">>
      [] step = "milvus_delete"   -> <<"delete_by_doc_uuid">>
      [] step = "postgres_delete" -> <<"delete_document">>
      [] step = "postgres_update" -> <<"update_document", "create_chunks">>
CallsDeleteChunksLast(step) ==
    CASE step = "postgres_create" -> <<"create_document", "create_chunks">>
      [] step = "milvus_create"   -> <<"insert_chunks">>
      [] step = "neo4j_create"    -> <<"create_document_node", "create_chunk_nodes",
                                       "create_contains_edges">>
      [] step = "neo4j_delete"    -> <<"delete_document_graph">>
      [] step = "milvus_delete"   -> <<"delete_by_doc_uuid">>
      [] step = "postgres_delete" -> <<"delete_document">>
      [] step = "postgres_update" -> <<"update_document", "create_chunks",
                                       "delete_chunks_by_doc">>
CallsWithoutEdges(step) ==
    CASE step = "postgres_create" -> <<"create_document", "create_chunks">>
      [] step = "milvus_create"   -> <<"insert_chunks">>
      [] step = "neo4j_create"    -> <<"create_document_node", "create_chunk_nodes">>
      [] step = "neo4j_delete"    -> <<"delete_document_graph">>
      [] step = "milvus_delete"   -> <<"delete_by_doc_uuid">>
      [] step = "postgres_delete" -> <<"delete_document">>
      [] step = "postgres_update" -> <<"update_document", "delete_chunks_by_doc",
                                       "create_chunks">>

\* The mutating repository calls of a step's execute(), in order.
Calls(step) ==
    CASE step = "postgres_create" -> <<"create_document", "create_chunks">>
      [] step = "milvus_create"   -> <<"insert_chunks">>
      [] step = "neo4j_create"    -> <<"create_document_node", "create_chunk_nodes",
                                       "create_contains_edges">>
      [] step = "neo4j_delete"    -> <<"delete_document_graph">>
      [] step = "milvus_delete"   -> <<"delete_by_doc_uuid">>
      [] step = "postgres_delete" -> <<"delete_document">>
      [] step = "postgres_update" -> <<"update_document", "delete_chunks_by_doc",
                                       "create_chunks">>

\* Wrong: neo4j_delete compensates as the create steps do.
CompensationDropsRow(step) ==
    IF step = "milvus_create" THEN "delete_by_doc_uuid"
    ELSE IF step = "milvus_delete" THEN "no call" ELSE "delete_document"

\* The call of a step's compensate().  Neo4jDeleteStep and MilvusDeleteStep
\* only log and report success.  The compensations of neo4j_create,
\* postgres_delete and postgres_update are not listed: the first two are last
\* in every plan and the third is outside every compensated list.
Compensation(step) ==
    CASE step = "postgres_create" -> "delete_document"
      [] step = "milvus_create"   -> "delete_by_doc_uuid"
      [] step \in {"neo4j_delete", "milvus_delete"} -> "no call"

\* Wrong: the last phase of an update undoes nothing.
UndoToLast(k, i) == IF k = "update" /\ i > 3 THEN i ELSE 1

\* When step i fails, the steps UndoTo(k, i)..i-1 are compensated, last first.
\* A failure in the last phase of an update undoes only what that phase did.
UndoTo(k, i) == IF k = "update" /\ i > 3 THEN 4 ELSE 1

Step(s) == Plan(kind[s])[at[s]]
Call(s) == Calls(Step(s))[call[s]]
UndoCall(s) == Compensation(Plan(kind[s])[undo[s]])

InFlight(s) == status[s] \in {"executing", "compensating"}
Over(s) == status[s] \in {"success", "failed", "exception", "crashed"}

SagaTypeOK ==
    /\ kind \in [Sagas -> Kinds \union {"none"}]
    /\ status \in [Sagas -> {"idle", "executing", "compensating",
                             "success", "failed", "exception", "crashed"}]
    /\ at \in [Sagas -> 1..6]
    /\ call \in [Sagas -> 1..3]
    /\ undo \in [Sagas -> 0..4]
    /\ compensated \in [Sagas -> SUBSET (1..4)]
    /\ raised \in [Sagas -> SUBSET Stores]
    /\ overlapped \in BOOLEAN

TypeOK == StoresTypeOK /\ SagaTypeOK

Init ==
    /\ StoresInit
    /\ kind = [s \in Sagas |-> "none"]
    /\ status = [s \in Sagas |-> "idle"]
    /\ at = [s \in Sagas |-> 1]
    /\ call = [s \in Sagas |-> 1]
    /\ undo = [s \in Sagas |-> 0]
    /\ compensated = [s \in Sagas |-> {}]
    /\ raised = [s \in Sagas |-> {}]
    /\ overlapped = FALSE

-----------------------------------------------------------------------------
(* Requests.  DocumentService draws a fresh doc_uuid for every create, so  *)
(* this document has one create saga; it checks that the row exists before *)
(* it runs a delete or an update saga.                                     *)

Start(s, k) ==
    /\ status[s] = "idle"
    /\ IF k = "create" THEN \A t \in Sagas : kind[t] # "create"
                       ELSE pgDoc # NoDoc
    /\ kind' = [kind EXCEPT ![s] = k]
    /\ status' = [status EXCEPT ![s] = "executing"]
    /\ overlapped' = (overlapped \/ \E t \in Sagas : InFlight(t))
    /\ UNCHANGED <<stores, at, call, undo, compensated, raised>>

-----------------------------------------------------------------------------
(* _execute_steps.                                                         *)

\* The step is over when its last call is, the saga when its last step is.
Advance(s) ==
    /\ IF call[s] < Len(Calls(Step(s)))
       THEN /\ call' = [call EXCEPT ![s] = call[s] + 1]
            /\ UNCHANGED <<at, status>>
       ELSE /\ call' = [call EXCEPT ![s] = 1]
            /\ at' = [at EXCEPT ![s] = at[s] + 1]
            /\ status' = IF at[s] = Len(Plan(kind[s]))
                         THEN [status EXCEPT ![s] = "success"]
                         ELSE status
    /\ UNCHANGED <<kind, undo, compensated, raised, overlapped>>

\* Wrong: a step that fails is tried again.
StepFailsRetries(s) ==
    /\ call' = [call EXCEPT ![s] = 1]
    /\ UNCHANGED <<kind, at, status, undo, compensated, overlapped>>

\* The step reports a failure: compensate what comes before it, if anything
\* does.  The failed step itself is not in the list.
StepFails(s) ==
    /\ status' = [status EXCEPT ![s] = IF at[s] > UndoTo(kind[s], at[s])
                                       THEN "compensating" ELSE "failed"]
    /\ undo' = [undo EXCEPT ![s] = at[s] - 1]
    /\ UNCHANGED <<kind, at, call, compensated, overlapped>>

Execute(s) ==
    /\ status[s] = "executing"
    /\ Effect(Call(s), s)
    /\ Advance(s)

\* The database refuses the statement: the step's except clause.
Refuse(s) ==
    /\ status[s] = "executing"
    /\ Refused(Call(s))
    /\ StepFails(s)
    /\ UNCHANGED <<stores, raised>>

\* The call raises, before its effect or after it.
Raise(s) ==
    /\ status[s] = "executing"
    /\ StoreOf(Call(s)) \in Faulty
    /\ UNCHANGED stores \/ Effect(Call(s), s)
    /\ raised' = [raised EXCEPT ![s] = @ \union {StoreOf(Call(s))}]
    /\ StepFails(s)

\* MilvusCreateStep has no embeddings (no embedding service, no texts), or
\* cannot build its rows from them.
NoEmbeddings(s) ==
    /\ status[s] = "executing"
    /\ Step(s) = "milvus_create"
    /\ StepFails(s)
    /\ UNCHANGED <<stores, raised>>

\* encode() raises: before the first step of a create, before the third
\* phase of an update.  Nothing catches it.
EncodeRaises(s) ==
    /\ status[s] = "executing"
    /\ \/ kind[s] = "create" /\ at[s] = 1
       \/ kind[s] = "update" /\ at[s] = 4
    /\ call[s] = 1
    /\ status' = [status EXCEPT ![s] = "exception"]
    /\ UNCHANGED <<stores, kind, at, call, undo, compensated, raised, overlapped>>

-----------------------------------------------------------------------------
(* _compensate_steps: last step first, going on when a compensation fails. *)

NextUndo(s) ==
    /\ undo' = [undo EXCEPT ![s] = undo[s] - 1]
    /\ status' = IF undo[s] = UndoTo(kind[s], at[s])
                 THEN [status EXCEPT ![s] = "failed"] ELSE status
    /\ UNCHANGED <<kind, at, call, overlapped>>

\* Wrong: the step recorded is the one that failed.
CompensateRecordsFailed(s) ==
    /\ status[s] = "compensating"
    /\ IF UndoCall(s) = "no call" THEN UNCHANGED stores
                                  ELSE Effect(UndoCall(s), s)
    /\ compensated' = [compensated EXCEPT ![s] = @ \union {at[s]}]
    /\ NextUndo(s)
    /\ UNCHANGED raised

Compensate(s) ==
    /\ status[s] = "compensating"
    /\ IF UndoCall(s) = "no call" THEN UNCHANGED stores
                                  ELSE Effect(UndoCall(s), s)
    /\ compensated' = [compensated EXCEPT ![s] = @ \union {undo[s]}]
    /\ NextUndo(s)
    /\ UNCHANGED raised

\* Wrong: a compensation that raises ends the loop.
CompensationRaisesAndStops(s) ==
    /\ status[s] = "compensating"
    /\ UndoCall(s) # "no call"
    /\ StoreOf(UndoCall(s)) \in Faulty
    /\ UNCHANGED stores \/ Effect(UndoCall(s), s)
    /\ raised' = [raised EXCEPT ![s] = @ \union {StoreOf(UndoCall(s))}]
    /\ status' = [status EXCEPT ![s] = "failed"]
    /\ UNCHANGED <<kind, at, call, undo, compensated, overlapped>>

CompensationRaises(s) ==
    /\ status[s] = "compensating"
    /\ UndoCall(s) # "no call"
    /\ StoreOf(UndoCall(s)) \in Faulty
    /\ UNCHANGED stores \/ Effect(UndoCall(s), s)
    /\ raised' = [raised EXCEPT ![s] = @ \union {StoreOf(UndoCall(s))}]
    /\ NextUndo(s)
    /\ UNCHANGED compensated

-----------------------------------------------------------------------------
\* The process stops: no saga log exists, so nothing resumes a saga.
Crash ==
    /\ MayCrash
    /\ \E s \in Sagas : InFlight(s)
    /\ status' = [s \in Sagas |-> IF InFlight(s) THEN "crashed" ELSE status[s]]
    /\ UNCHANGED <<stores, kind, at, call, undo, compensated, raised, overlapped>>

SagaStep(s) ==
    \/ Execute(s)
    \/ Refuse(s)
    \/ Raise(s)
    \/ NoEmbeddings(s)
    \/ EncodeRaises(s)
    \/ Compensate(s)
    \/ CompensationRaises(s)

Next ==
    \/ \E s \in Sagas, k \in Kinds : Start(s, k)
    \/ \E s \in Sagas : SagaStep(s)
    \/ Crash

Spec == Init /\ [][Next]_vars

\* The event loop resumes every coroutine whose call has answered, and every
\* call answers or raises (client timeouts), so each saga keeps running.
FairSpec == Spec /\ \A s \in Sagas : WF_vars(SagaStep(s))

-----------------------------------------------------------------------------
RaisedIn(st) == \E s \in Sagas : st \in raised[s]
Quiet == \A s \in Sagas : ~InFlight(s)
=============================================================================
