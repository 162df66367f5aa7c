------------------------ MODULE SagaCoordinator_proofs ------------------------
(***************************************************************************)
(* The saga coordinator: type correctness, what its calls and moves do,    *)
(* and what holds however sagas overlap: a failed saga has tried every     *)
(* compensation, a delete is final, and updates that overlap leave the     *)
(* document to be found.                                                   *)
(*                                                                         *)
(* Then requests coming one after the other, for any number of requests,   *)
(* any faulty stores, with and without crashes and for both PostgreSQL     *)
(* repositories: search data never contradicts the row, what success and   *)
(* failure leave in the three stores, and that each request is one atomic  *)
(* step of DocumentContract.                                               *)
(***************************************************************************)
EXTENDS SagaProperties, SagaRefinement, TLAPS

-----------------------------------------------------------------------------
(* The plans and the calls of the steps, spelled out.                      *)

LEMMA PlanValues ==
    /\ Len(Plan("create")) = 3
    /\ Plan("create")[1] = "postgres_create"
    /\ Plan("create")[2] = "milvus_create"
    /\ Plan("create")[3] = "neo4j_create"
    /\ Len(Plan("delete")) = 3
    /\ Plan("delete")[1] = "neo4j_delete"
    /\ Plan("delete")[2] = "milvus_delete"
    /\ Plan("delete")[3] = "postgres_delete"
    /\ Len(Plan("update")) = 5
    /\ Plan("update")[1] = "neo4j_delete"
    /\ Plan("update")[2] = "milvus_delete"
    /\ Plan("update")[3] = "postgres_update"
    /\ Plan("update")[4] = "milvus_create"
    /\ Plan("update")[5] = "neo4j_create"
  BY DEF Plan

LEMMA CallValues ==
    /\ Len(Calls("postgres_create")) = 2
    /\ Calls("postgres_create")[1] = "create_document"
    /\ Calls("postgres_create")[2] = "create_chunks"
    /\ Len(Calls("milvus_create")) = 1
    /\ Calls("milvus_create")[1] = "insert_chunks"
    /\ Len(Calls("neo4j_create")) = 3
    /\ Calls("neo4j_create")[1] = "create_document_node"
    /\ Calls("neo4j_create")[2] = "create_chunk_nodes"
    /\ Calls("neo4j_create")[3] = "create_contains_edges"
    /\ Len(Calls("neo4j_delete")) = 1
    /\ Calls("neo4j_delete")[1] = "delete_document_graph"
    /\ Len(Calls("milvus_delete")) = 1
    /\ Calls("milvus_delete")[1] = "delete_by_doc_uuid"
    /\ Len(Calls("postgres_delete")) = 1
    /\ Calls("postgres_delete")[1] = "delete_document"
    /\ Len(Calls("postgres_update")) = 3
    /\ Calls("postgres_update")[1] = "update_document"
    /\ Calls("postgres_update")[2] = "delete_chunks_by_doc"
    /\ Calls("postgres_update")[3] = "create_chunks"
  BY DEF Calls

\* Where a saga can be: its position is one of the plan's, its call one of
\* the step's, and it compensates a step before the failed one.
PlaceOf(s) ==
    /\ status[s] = "idle" => at[s] = 1 /\ call[s] = 1 /\ kind[s] = "none"
    /\ InFlight(s) =>
        /\ kind[s] \in Kinds
        /\ at[s] \in 1 .. Len(Plan(kind[s]))
        /\ call[s] \in 1 .. Len(Calls(Step(s)))
    /\ status[s] = "compensating" =>
        undo[s] \in UndoTo(kind[s], at[s]) .. (at[s] - 1)
Places == \A s \in Sagas : PlaceOf(s)

LEMMA StoreOfCall == \A c : StoreOf(c) \in Stores
  BY DEF StoreOf, Stores

\* A repository call keeps the types of the stores.
LEMMA EffectType ==
  ASSUME StoresTypeOK, NEW s \in Sagas, NEW c, Effect(c, s)
  PROVE  StoresTypeOK'
  BY DEF StoresTypeOK, Effect, CreateDocument, CreateChunks, UpdateDocument,
         DeleteChunksByDoc, DeleteDocument, InsertChunks, DeleteByDocUuid,
         CreateDocumentNode, CreateChunkNodes, CreateContainsEdges,
         DeleteDocumentGraph, pg, graph

LEMMA StoresStutter == StoresTypeOK /\ UNCHANGED stores => StoresTypeOK'
  BY DEF StoresTypeOK, stores

-----------------------------------------------------------------------------
(* Each control operator keeps types and places.                           *)


\* Plans have at most five steps and steps at most three calls.
LEMMA Lengths ==
    \A k \in Kinds :
        /\ Len(Plan(k)) \in 3..5
        /\ k # "update" => Len(Plan(k)) = 3
        /\ \A i \in 1 .. Len(Plan(k)) : /\ Len(Calls(Plan(k)[i])) \in 1..3
                                        /\ 1 \in 1 .. Len(Calls(Plan(k)[i]))
<1> SUFFICES ASSUME NEW k \in Kinds
             PROVE  /\ Len(Plan(k)) \in 3..5
                    /\ k # "update" => Len(Plan(k)) = 3
                    /\ \A i \in 1 .. Len(Plan(k)) :
                          /\ Len(Calls(Plan(k)[i])) \in 1..3
                          /\ 1 \in 1 .. Len(Calls(Plan(k)[i]))
  OBVIOUS
<1>1. CASE k = "create"
  <2>1. \A i \in 1..3 : i = 1 \/ i = 2 \/ i = 3
    OBVIOUS
  <2> QED BY <1>1, <2>1, PlanValues, CallValues
<1>2. CASE k = "delete"
  <2>1. \A i \in 1..3 : i = 1 \/ i = 2 \/ i = 3
    OBVIOUS
  <2> QED BY <1>2, <2>1, PlanValues, CallValues
<1>3. CASE k = "update"
  <2>1. \A i \in 1..5 : i = 1 \/ i = 2 \/ i = 3 \/ i = 4 \/ i = 5
    OBVIOUS
  <2> QED BY <1>3, <2>1, PlanValues, CallValues
<1> QED BY <1>1, <1>2, <1>3 DEF Kinds

\* Only the saga that moves changes its own place.
LEMMA OthersStay ==
  ASSUME Places, NEW s \in Sagas,
         \A t \in Sagas \ {s} : /\ status'[t] = status[t] /\ kind'[t] = kind[t]
                                /\ at'[t] = at[t] /\ call'[t] = call[t]
                                /\ undo'[t] = undo[t],
         PlaceOf(s)'
  PROVE  Places'
<1> SUFFICES ASSUME NEW t \in Sagas PROVE PlaceOf(t)'
  BY DEF Places
<1>1. CASE t = s
  BY <1>1
<1>2. CASE t # s
  BY <1>2 DEF Places, PlaceOf, InFlight, Step, UndoTo
<1> QED BY <1>1, <1>2

LEMMA AdvanceType ==
  ASSUME SagaTypeOK, Places, NEW s \in Sagas, status[s] = "executing", Advance(s)
  PROVE  SagaTypeOK' /\ Places'
<1>1. /\ kind[s] \in Kinds /\ at[s] \in 1 .. Len(Plan(kind[s])) /\ at[s] \in 1..5
      /\ Len(Plan(kind[s])) \in 3..5
      /\ call[s] \in 1 .. Len(Calls(Step(s))) /\ Len(Calls(Step(s))) \in 1..3
  BY Lengths DEF Places, PlaceOf, InFlight, Step
<1>2. CASE call[s] < Len(Calls(Step(s)))
  <2>1. /\ call' = [call EXCEPT ![s] = call[s] + 1]
        /\ UNCHANGED <<at, status, kind, undo, compensated, raised, overlapped>>
    BY <1>2 DEF Advance
  <2>2. SagaTypeOK'
    <3>1. call[s] + 1 \in 1..3
      <4>1. PICK n \in 1..3 : n = Len(Calls(Step(s)))
        BY <1>1
      <4>2. call[s] \in 1..n /\ call[s] < n
        BY <4>1, <1>1, <1>2
      <4> QED BY <4>2
    <3>2. call' \in [Sagas -> 1..3]
      BY <2>1, <3>1 DEF SagaTypeOK
    <3> QED BY <2>1, <3>2 DEF SagaTypeOK
  <2>3. PlaceOf(s)'
    BY <1>1, <2>1, <1>2 DEF SagaTypeOK, PlaceOf, InFlight, Step
  <2> QED BY <2>1, <2>2, <2>3, OthersStay DEF SagaTypeOK
<1>3. CASE ~(call[s] < Len(Calls(Step(s))))
  <2>1. /\ call' = [call EXCEPT ![s] = 1]
        /\ at' = [at EXCEPT ![s] = at[s] + 1]
        /\ status' = IF at[s] = Len(Plan(kind[s]))
                     THEN [status EXCEPT ![s] = "success"] ELSE status
        /\ UNCHANGED <<kind, undo, compensated, raised, overlapped>>
    BY <1>3 DEF Advance
  <2>2. SagaTypeOK'
    <3>1. at[s] + 1 \in 1..6 /\ 1 \in 1..3
      BY <1>1
    <3>2. at' \in [Sagas -> 1..6] /\ call' \in [Sagas -> 1..3]
      BY <2>1, <3>1 DEF SagaTypeOK
    <3>3. status' \in [Sagas -> {"idle", "executing", "compensating",
                                 "success", "failed", "exception", "crashed"}]
      BY <2>1 DEF SagaTypeOK
    <3> QED BY <2>1, <3>2, <3>3 DEF SagaTypeOK
  <2>3. PlaceOf(s)'
    <3>1. CASE at[s] = Len(Plan(kind[s]))
      BY <1>1, <2>1, <3>1 DEF SagaTypeOK, PlaceOf, InFlight
    <3>2. CASE at[s] # Len(Plan(kind[s]))
      <4>1. at'[s] \in 1 .. Len(Plan(kind[s])) /\ status'[s] = "executing"
            /\ kind'[s] = kind[s] /\ call'[s] = 1
        BY <1>1, <2>1, <3>2 DEF SagaTypeOK
      <4>2. at'[s] \in 1 .. Len(Plan(kind'[s])) /\ kind'[s] \in Kinds
        BY <1>1, <4>1
      <4>3. 1 \in 1 .. Len(Calls(Plan(kind'[s])[at'[s]]))
        BY <4>2, Lengths, Zenon
      <4> QED BY <4>1, <4>2, <4>3 DEF PlaceOf, InFlight, Step
    <3> QED BY <3>1, <3>2
  <2> QED BY <2>1, <2>2, <2>3, OthersStay DEF SagaTypeOK
<1> QED BY <1>2, <1>3

LEMMA StepFailsType ==
  ASSUME SagaTypeOK, Places, NEW s \in Sagas, status[s] = "executing", StepFails(s),
         raised' \in [Sagas -> SUBSET Stores]
  PROVE  SagaTypeOK' /\ Places'
<1>1. /\ kind[s] \in Kinds /\ at[s] \in 1 .. Len(Plan(kind[s])) /\ at[s] \in 1..5
      /\ call[s] \in 1 .. Len(Calls(Step(s)))
  BY Lengths DEF Places, PlaceOf, InFlight, Step
<1>2. SagaTypeOK'
  <2>1. at[s] - 1 \in 0..4
    BY <1>1
  <2>2. undo' \in [Sagas -> 0..4]
    BY <2>1 DEF StepFails, SagaTypeOK
  <2>3. status' \in [Sagas -> {"idle", "executing", "compensating",
                               "success", "failed", "exception", "crashed"}]
    BY DEF StepFails, SagaTypeOK
  <2> QED BY <2>2, <2>3 DEF StepFails, SagaTypeOK
<1>3. /\ kind'[s] = kind[s] /\ at'[s] = at[s] /\ call'[s] = call[s]
      /\ undo'[s] = at[s] - 1
      /\ status'[s] = IF at[s] > UndoTo(kind[s], at[s]) THEN "compensating" ELSE "failed"
  BY DEF StepFails, SagaTypeOK
<1>4. PlaceOf(s)'
  BY <1>1, <1>3 DEF PlaceOf, InFlight, Step, UndoTo
<1> QED BY <1>2, <1>4, OthersStay DEF StepFails, SagaTypeOK

\* A saga that compensates stands at one of the first four steps.
LEMMA UndoRange ==
  ASSUME Places, NEW s \in Sagas, status[s] = "compensating"
  PROVE  /\ kind[s] \in Kinds /\ at[s] \in 1 .. Len(Plan(kind[s])) /\ at[s] \in 1..5
         /\ call[s] \in 1 .. Len(Calls(Step(s)))
         /\ undo[s] \in UndoTo(kind[s], at[s]) .. (at[s] - 1) /\ undo[s] \in 1..4
<1>1. /\ kind[s] \in Kinds /\ at[s] \in 1 .. Len(Plan(kind[s]))
      /\ call[s] \in 1 .. Len(Calls(Step(s)))
      /\ undo[s] \in UndoTo(kind[s], at[s]) .. (at[s] - 1)
  BY DEF Places, PlaceOf, InFlight
<1>2. PICK n \in 3..5 : n = Len(Plan(kind[s]))
  BY <1>1, Lengths
<1>3. at[s] \in 1..n
  BY <1>1, <1>2
<1>4. at[s] \in 1..5
  BY <1>3
<1>5. PICK m \in {1, 4} : m = UndoTo(kind[s], at[s])
  BY DEF UndoTo
<1>6. undo[s] \in m .. (at[s] - 1)
  BY <1>1, <1>5
<1>7. undo[s] \in 1..4
  BY <1>4, <1>6
<1> QED BY <1>1, <1>4, <1>7

LEMMA NextUndoType ==
  ASSUME SagaTypeOK, Places, NEW s \in Sagas, status[s] = "compensating", NextUndo(s),
         raised' \in [Sagas -> SUBSET Stores],
         compensated' \in [Sagas -> SUBSET (1..4)]
  PROVE  SagaTypeOK' /\ Places'
<1>1. /\ kind[s] \in Kinds /\ at[s] \in 1 .. Len(Plan(kind[s])) /\ at[s] \in 1..5
      /\ call[s] \in 1 .. Len(Calls(Step(s)))
      /\ undo[s] \in UndoTo(kind[s], at[s]) .. (at[s] - 1) /\ undo[s] \in 1..4
  BY UndoRange
<1>2. SagaTypeOK'
  <2>1. undo[s] - 1 \in 0..4
    BY <1>1
  <2>2. undo' \in [Sagas -> 0..4]
    BY <2>1 DEF NextUndo, SagaTypeOK
  <2>3. status' \in [Sagas -> {"idle", "executing", "compensating",
                               "success", "failed", "exception", "crashed"}]
    BY DEF NextUndo, SagaTypeOK
  <2> QED BY <2>2, <2>3 DEF NextUndo, SagaTypeOK
<1>3. /\ kind'[s] = kind[s] /\ at'[s] = at[s] /\ call'[s] = call[s]
      /\ undo'[s] = undo[s] - 1
      /\ status'[s] = IF undo[s] = UndoTo(kind[s], at[s]) THEN "failed" ELSE "compensating"
  BY DEF NextUndo, SagaTypeOK
<1>4. PlaceOf(s)'
  BY <1>1, <1>3 DEF PlaceOf, InFlight, Step, UndoTo
<1> QED BY <1>2, <1>4, OthersStay DEF NextUndo, SagaTypeOK

-----------------------------------------------------------------------------
(* Type correctness.                                                       *)

TypeInv == TypeOK /\ Places

LEMMA InitTypeInv == Init => TypeInv
<1> SUFFICES ASSUME Init PROVE TypeInv
  OBVIOUS
<1>1. StoresTypeOK
  BY TriStoreAssumption DEF Init, StoresInit, StoresTypeOK
<1>2. SagaTypeOK
  <2>1. 1 \in 1..6 /\ 1 \in 1..3 /\ 0 \in 0..4
    OBVIOUS
  <2>2. kind \in [Sagas -> Kinds \union {"none"}]
    BY DEF Init
  <2>3. /\ compensated \in [Sagas -> SUBSET (1..4)]
        /\ raised \in [Sagas -> SUBSET Stores]
    BY DEF Init
  <2> QED BY <2>1, <2>2, <2>3 DEF Init, SagaTypeOK
<1>3. Places
  BY DEF Init, Places, PlaceOf, InFlight
<1> QED BY <1>1, <1>2, <1>3 DEF TypeInv, TypeOK

\* One step per action of a saga.
LEMMA SagaStepTypeInv ==
  ASSUME TypeInv, NEW s \in Sagas, SagaStep(s)
  PROVE  TypeInv'
<1> USE DEF TypeInv, TypeOK
<1>1. CASE Execute(s)
  BY <1>1, EffectType, AdvanceType DEF Execute
<1>2. CASE Refuse(s)
  BY <1>2, StoresStutter, StepFailsType DEF Refuse, SagaTypeOK
<1>3. CASE Raise(s)
  <2>1. StoresTypeOK'
    BY <1>3, StoresStutter, EffectType DEF Raise
  <2>2. raised' \in [Sagas -> SUBSET Stores]
    BY <1>3, StoreOfCall DEF Raise, SagaTypeOK
  <2> QED BY <1>3, <2>1, <2>2, StepFailsType DEF Raise
<1>4. CASE NoEmbeddings(s)
  BY <1>4, StoresStutter, StepFailsType DEF NoEmbeddings, SagaTypeOK
<1>5. CASE EncodeRaises(s)
  <2>1. SagaTypeOK' /\ StoresTypeOK'
    BY <1>5, StoresStutter DEF EncodeRaises, SagaTypeOK
  <2>2. PlaceOf(s)'
    BY <1>5 DEF EncodeRaises, SagaTypeOK, PlaceOf, InFlight
  <2> QED BY <1>5, <2>1, <2>2, OthersStay DEF EncodeRaises, SagaTypeOK
<1>6. CASE Compensate(s)
  <2>1. StoresTypeOK'
    BY <1>6, StoresStutter, EffectType DEF Compensate
  <2>2. undo[s] \in 1..4
    BY <1>6, UndoRange DEF Compensate
  <2>3. /\ raised' \in [Sagas -> SUBSET Stores]
        /\ compensated' \in [Sagas -> SUBSET (1..4)]
    BY <1>6, <2>2 DEF Compensate, SagaTypeOK
  <2> QED BY <1>6, <2>1, <2>3, NextUndoType DEF Compensate
<1>7. CASE CompensationRaises(s)
  <2>1. StoresTypeOK'
    BY <1>7, StoresStutter, EffectType DEF CompensationRaises
  <2>2. /\ raised' \in [Sagas -> SUBSET Stores]
        /\ compensated' \in [Sagas -> SUBSET (1..4)]
    BY <1>7, StoreOfCall DEF CompensationRaises, SagaTypeOK
  <2> QED BY <1>7, <2>1, <2>2, NextUndoType DEF CompensationRaises
<1> QED BY <1>1, <1>2, <1>3, <1>4, <1>5, <1>6, <1>7 DEF SagaStep

LEMMA NextTypeInv == TypeInv /\ [Next]_vars => TypeInv'
<1> SUFFICES ASSUME TypeInv, [Next]_vars PROVE TypeInv'
  OBVIOUS
<1>1. CASE \E s \in Sagas, k \in Kinds : Start(s, k)
  <2>1. PICK s \in Sagas, k \in Kinds : Start(s, k)
    BY <1>1
  <2>2. SagaTypeOK' /\ StoresTypeOK'
    BY <2>1, StoresStutter DEF Start, TypeInv, TypeOK, SagaTypeOK
  <2>3. Len(Plan(k)) \in 3..5 /\ Len(Calls(Plan(k)[1])) \in 1..3
    BY Lengths
  <2>4. /\ kind'[s] = k /\ status'[s] = "executing" /\ at'[s] = 1 /\ call'[s] = 1
    BY <2>1 DEF Start, TypeInv, TypeOK, SagaTypeOK, Places, PlaceOf
  <2>5. PlaceOf(s)'
    <3>1. status'[s] # "idle" /\ status'[s] # "compensating"
      BY <2>4
    <3>2. kind'[s] \in Kinds /\ at'[s] \in 1 .. Len(Plan(kind'[s]))
      BY <2>3, <2>4
    <3>3. 1 \in 1 .. Len(Calls(Plan(kind'[s])[at'[s]]))
      BY <3>2, Lengths, Zenon
    <3> QED BY <2>4, <3>1, <3>2, <3>3 DEF PlaceOf, InFlight, Step
  <2> QED BY <2>1, <2>2, <2>5, OthersStay DEF Start, TypeInv, TypeOK, SagaTypeOK
<1>2. CASE \E s \in Sagas : SagaStep(s)
  BY <1>2, SagaStepTypeInv
<1>3. CASE Crash
  <2>1. SagaTypeOK' /\ StoresTypeOK'
    BY <1>3, StoresStutter DEF Crash, TypeInv, TypeOK, SagaTypeOK
  <2>2. Places'
    BY <1>3 DEF Crash, TypeInv, TypeOK, SagaTypeOK, Places, PlaceOf, InFlight, Step
  <2> QED BY <2>1, <2>2 DEF TypeInv, TypeOK
<1>4. CASE UNCHANGED vars
  BY <1>4 DEF vars, stores, control, TypeInv, TypeOK, StoresTypeOK, SagaTypeOK,
              Places, PlaceOf, InFlight, Step, UndoTo
<1> QED BY <1>1, <1>2, <1>3, <1>4 DEF Next

\* The coordinator keeps its types: no list index leaves its plan, no store
\* ever holds what no request wrote, whatever raises and whenever it stops.
THEOREM TypeCorrect == Spec => []TypeOK
<1>1. Spec => []TypeInv
  BY InitTypeInv, NextTypeInv, PTL DEF Spec
<1>2. TypeInv => TypeOK
  BY DEF TypeInv
<1> QED BY <1>1, <1>2, PTL
-----------------------------------------------------------------------------
(* Where an executing saga can stand.                                      *)

\* Saga s is at call j, named c, of step i, which makes n calls.
Located(s, i, j, n, c) ==
    /\ at[s] = i /\ call[s] = j
    /\ Call(s) = c
    /\ Len(Calls(Step(s))) = n

LEMMA CreateLocations ==
  ASSUME NEW s \in Sagas, PlaceOf(s), InFlight(s), kind[s] = "create"
  PROVE  \/ Located(s, 1, 1, 2, "create_document")
         \/ Located(s, 1, 2, 2, "create_chunks")
         \/ Located(s, 2, 1, 1, "insert_chunks")
         \/ Located(s, 3, 1, 3, "create_document_node")
         \/ Located(s, 3, 2, 3, "create_chunk_nodes")
         \/ Located(s, 3, 3, 3, "create_contains_edges")
<1>1. at[s] \in 1..3 /\ call[s] \in 1 .. Len(Calls(Step(s)))
  BY PlanValues DEF PlaceOf
<1>2. CASE at[s] = 1
  <2>1. Step(s) = "postgres_create" /\ call[s] \in 1..2
    BY <1>1, <1>2, PlanValues, CallValues DEF Step
  <2> QED BY <1>2, <2>1, CallValues DEF Located, Call
<1>3. CASE at[s] = 2
  <2>1. Step(s) = "milvus_create" /\ call[s] \in 1..1
    BY <1>1, <1>3, PlanValues, CallValues DEF Step
  <2> QED BY <1>3, <2>1, CallValues DEF Located, Call
<1>4. CASE at[s] = 3
  <2>1. Step(s) = "neo4j_create" /\ call[s] \in 1..3
    BY <1>1, <1>4, PlanValues, CallValues DEF Step
  <2> QED BY <1>4, <2>1, CallValues DEF Located, Call
<1> QED BY <1>1, <1>2, <1>3, <1>4

LEMMA DeleteLocations ==
  ASSUME NEW s \in Sagas, PlaceOf(s), InFlight(s), kind[s] = "delete"
  PROVE  \/ Located(s, 1, 1, 1, "delete_document_graph")
         \/ Located(s, 2, 1, 1, "delete_by_doc_uuid")
         \/ Located(s, 3, 1, 1, "delete_document")
<1>1. at[s] \in 1..3 /\ call[s] \in 1 .. Len(Calls(Step(s)))
  BY PlanValues DEF PlaceOf
<1>2. CASE at[s] = 1
  <2>1. Step(s) = "neo4j_delete" /\ call[s] \in 1..1
    BY <1>1, <1>2, PlanValues, CallValues DEF Step
  <2> QED BY <1>2, <2>1, CallValues DEF Located, Call
<1>3. CASE at[s] = 2
  <2>1. Step(s) = "milvus_delete" /\ call[s] \in 1..1
    BY <1>1, <1>3, PlanValues, CallValues DEF Step
  <2> QED BY <1>3, <2>1, CallValues DEF Located, Call
<1>4. CASE at[s] = 3
  <2>1. Step(s) = "postgres_delete" /\ call[s] \in 1..1
    BY <1>1, <1>4, PlanValues, CallValues DEF Step
  <2> QED BY <1>4, <2>1, CallValues DEF Located, Call
<1> QED BY <1>1, <1>2, <1>3, <1>4

LEMMA UpdateLocations ==
  ASSUME NEW s \in Sagas, PlaceOf(s), InFlight(s), kind[s] = "update"
  PROVE  \/ Located(s, 1, 1, 1, "delete_document_graph")
         \/ Located(s, 2, 1, 1, "delete_by_doc_uuid")
         \/ Located(s, 3, 1, 3, "update_document")
         \/ Located(s, 3, 2, 3, "delete_chunks_by_doc")
         \/ Located(s, 3, 3, 3, "create_chunks")
         \/ Located(s, 4, 1, 1, "insert_chunks")
         \/ Located(s, 5, 1, 3, "create_document_node")
         \/ Located(s, 5, 2, 3, "create_chunk_nodes")
         \/ Located(s, 5, 3, 3, "create_contains_edges")
<1>1. at[s] \in 1..5 /\ call[s] \in 1 .. Len(Calls(Step(s)))
  BY PlanValues DEF PlaceOf
<1>2. CASE at[s] = 1
  <2>1. Step(s) = "neo4j_delete" /\ call[s] \in 1..1
    BY <1>1, <1>2, PlanValues, CallValues DEF Step
  <2> QED BY <1>2, <2>1, CallValues DEF Located, Call
<1>3. CASE at[s] = 2
  <2>1. Step(s) = "milvus_delete" /\ call[s] \in 1..1
    BY <1>1, <1>3, PlanValues, CallValues DEF Step
  <2> QED BY <1>3, <2>1, CallValues DEF Located, Call
<1>4. CASE at[s] = 3
  <2>1. Step(s) = "postgres_update" /\ call[s] \in 1..3
    BY <1>1, <1>4, PlanValues, CallValues DEF Step
  <2> QED BY <1>4, <2>1, CallValues DEF Located, Call
<1>5. CASE at[s] = 4
  <2>1. Step(s) = "milvus_create" /\ call[s] \in 1..1
    BY <1>1, <1>5, PlanValues, CallValues DEF Step
  <2> QED BY <1>5, <2>1, CallValues DEF Located, Call
<1>6. CASE at[s] = 5
  <2>1. Step(s) = "neo4j_create" /\ call[s] \in 1..3
    BY <1>1, <1>6, PlanValues, CallValues DEF Step
  <2> QED BY <1>6, <2>1, CallValues DEF Located, Call
<1> QED BY <1>1, <1>2, <1>3, <1>4, <1>5, <1>6

\* Where the next call is.
LEMMA AdvanceFrom ==
  ASSUME SagaTypeOK, NEW s \in Sagas, status[s] = "executing", Advance(s),
         NEW i \in 1..5, NEW j \in 1..3, NEW n \in 1..3, NEW c,
         Located(s, i, j, n, c)
  PROVE  IF j < n
         THEN at'[s] = i /\ call'[s] = j + 1 /\ status'[s] = "executing"
         ELSE at'[s] = i + 1 /\ call'[s] = 1 /\ status'[s] \in {"executing", "success"}
  BY DEF Located, Advance, SagaTypeOK

\* What the step to compensate calls, if anything.
LEMMA UndoCalls ==
  ASSUME NEW s \in Sagas, PlaceOf(s), status[s] = "compensating"
  PROVE  \/ kind[s] = "create" /\ undo[s] = 1 /\ UndoCall(s) = "delete_document"
         \/ kind[s] = "create" /\ undo[s] = 2 /\ UndoCall(s) = "delete_by_doc_uuid"
         \/ kind[s] = "delete" /\ UndoCall(s) = "no call"
         \/ kind[s] = "update" /\ UndoCall(s) \in {"no call", "delete_by_doc_uuid"}
<1>0. /\ kind[s] \in Kinds /\ at[s] \in 1 .. Len(Plan(kind[s]))
      /\ undo[s] \in UndoTo(kind[s], at[s]) .. (at[s] - 1)
  BY DEF PlaceOf, InFlight
<1>1. CASE kind[s] = "create"
  <2>1. at[s] \in 1..3 /\ UndoTo(kind[s], at[s]) = 1
    BY <1>0, <1>1, PlanValues DEF UndoTo
  <2>2. undo[s] \in 1 .. (at[s] - 1)
    BY <1>0, <2>1
  <2>3. undo[s] = 1 \/ undo[s] = 2
    BY <2>1, <2>2
  <2> QED BY <1>1, <2>3, PlanValues DEF UndoCall, Compensation
<1>2. CASE kind[s] = "delete"
  <2>1. at[s] \in 1..3 /\ UndoTo(kind[s], at[s]) = 1
    BY <1>0, <1>2, PlanValues DEF UndoTo
  <2>2. undo[s] \in 1 .. (at[s] - 1)
    BY <1>0, <2>1
  <2>3. undo[s] = 1 \/ undo[s] = 2
    BY <2>1, <2>2
  <2> QED BY <1>2, <2>3, PlanValues DEF UndoCall, Compensation
<1>3. CASE kind[s] = "update"
  <2>1. at[s] \in 1..5
    BY <1>0, <1>3, PlanValues
  <2>2. CASE at[s] > 3
    <3>1. UndoTo(kind[s], at[s]) = 4
      BY <1>3, <2>2 DEF UndoTo
    <3>2. undo[s] \in 4 .. (at[s] - 1)
      BY <1>0, <3>1
    <3>3. undo[s] = 4
      BY <2>1, <3>2
    <3> QED BY <1>3, <3>3, PlanValues DEF UndoCall, Compensation
  <2>3. CASE ~(at[s] > 3)
    <3>1. UndoTo(kind[s], at[s]) = 1
      BY <2>3 DEF UndoTo
    <3>2. undo[s] \in 1 .. (at[s] - 1)
      BY <1>0, <3>1
    <3>3. undo[s] = 1 \/ undo[s] = 2
      BY <2>1, <2>3, <3>2
    <3> QED BY <1>3, <3>3, PlanValues DEF UndoCall, Compensation
  <2> QED BY <2>2, <2>3
<1> QED BY <1>0, <1>1, <1>2, <1>3 DEF Kinds

-----------------------------------------------------------------------------
(* A saga's successful call, spelled out: from place to place of its plan. *)

Stands(s, k, i, j) == status[s] = "executing" /\ kind[s] = k /\ at[s] = i /\ call[s] = j
Succeeds(s, k) == status'[s] = "success" /\ kind'[s] = k

CreateMoves(s) ==
    \/ Stands(s, "create", 1, 1) /\ CreateDocument(s) /\ Stands(s, "create", 1, 2)'
    \/ Stands(s, "create", 1, 2) /\ CreateChunks(s) /\ Stands(s, "create", 2, 1)'
    \/ Stands(s, "create", 2, 1) /\ InsertChunks(s) /\ Stands(s, "create", 3, 1)'
    \/ Stands(s, "create", 3, 1) /\ CreateDocumentNode /\ Stands(s, "create", 3, 2)'
    \/ Stands(s, "create", 3, 2) /\ CreateChunkNodes(s) /\ Stands(s, "create", 3, 3)'
    \/ Stands(s, "create", 3, 3) /\ CreateContainsEdges(s) /\ Succeeds(s, "create")

DeleteMoves(s) ==
    \/ Stands(s, "delete", 1, 1) /\ DeleteDocumentGraph /\ Stands(s, "delete", 2, 1)'
    \/ Stands(s, "delete", 2, 1) /\ DeleteByDocUuid /\ Stands(s, "delete", 3, 1)'
    \/ Stands(s, "delete", 3, 1) /\ DeleteDocument /\ Succeeds(s, "delete")

UpdateMoves(s) ==
    \/ Stands(s, "update", 1, 1) /\ DeleteDocumentGraph /\ Stands(s, "update", 2, 1)'
    \/ Stands(s, "update", 2, 1) /\ DeleteByDocUuid /\ Stands(s, "update", 3, 1)'
    \/ Stands(s, "update", 3, 1) /\ UpdateDocument(s) /\ Stands(s, "update", 3, 2)'
    \/ Stands(s, "update", 3, 2) /\ DeleteChunksByDoc /\ Stands(s, "update", 3, 3)'
    \/ Stands(s, "update", 3, 3) /\ CreateChunks(s) /\ Stands(s, "update", 4, 1)'
    \/ Stands(s, "update", 4, 1) /\ InsertChunks(s) /\ Stands(s, "update", 5, 1)'
    \/ Stands(s, "update", 5, 1) /\ CreateDocumentNode /\ Stands(s, "update", 5, 2)'
    \/ Stands(s, "update", 5, 2) /\ CreateChunkNodes(s) /\ Stands(s, "update", 5, 3)'
    \/ Stands(s, "update", 5, 3) /\ CreateContainsEdges(s) /\ Succeeds(s, "update")

\* Where the call after Located(s, i, j, n, c) is made, if there is one.
LEMMA MovesOn ==
  ASSUME SagaTypeOK, NEW s \in Sagas, Execute(s), NEW k \in Kinds, kind[s] = k,
         NEW i \in 1..5, NEW j \in 1..3, NEW n \in 1..3, NEW c,
         Located(s, i, j, n, c)
  PROVE  /\ Stands(s, k, i, j) /\ Effect(c, s)
         /\ j < n => Stands(s, k, i, j + 1)'
         /\ ~(j < n) /\ i # Len(Plan(k)) => Stands(s, k, i + 1, 1)'
         /\ ~(j < n) /\ i = Len(Plan(k)) => Succeeds(s, k)
  BY DEF Located, Execute, Advance, SagaTypeOK, Stands, Succeeds

\* What each call's name stands for.
LEMMA EffectNames ==
  ASSUME NEW s
  PROVE  /\ Effect("create_document", s) => CreateDocument(s)
         /\ Effect("create_chunks", s) => CreateChunks(s)
         /\ Effect("update_document", s) => UpdateDocument(s)
         /\ Effect("delete_chunks_by_doc", s) => DeleteChunksByDoc
         /\ Effect("delete_document", s) => DeleteDocument
         /\ Effect("insert_chunks", s) => InsertChunks(s)
         /\ Effect("delete_by_doc_uuid", s) => DeleteByDocUuid
         /\ Effect("create_document_node", s) => CreateDocumentNode
         /\ Effect("create_chunk_nodes", s) => CreateChunkNodes(s)
         /\ Effect("create_contains_edges", s) => CreateContainsEdges(s)
         /\ Effect("delete_document_graph", s) => DeleteDocumentGraph
  BY DEF Effect

LEMMA ExecuteMoves ==
  ASSUME TypeInv, NEW s \in Sagas, Execute(s)
  PROVE  \/ kind[s] = "create" /\ CreateMoves(s)
         \/ kind[s] = "delete" /\ DeleteMoves(s)
         \/ kind[s] = "update" /\ UpdateMoves(s)
<1>0. /\ SagaTypeOK /\ PlaceOf(s) /\ InFlight(s) /\ kind[s] \in Kinds
  BY DEF TypeInv, TypeOK, Places, PlaceOf, InFlight, Execute
<1>1. CASE kind[s] = "create"
  <2>0. Len(Plan("create")) = 3 /\ "create" \in Kinds
    BY PlanValues DEF Kinds
  <2>1. CASE Located(s, 1, 1, 2, "create_document")
    <3>1. Stands(s, "create", 1, 1) /\ Effect("create_document", s) /\ Stands(s, "create", 1, 2)'
      BY <1>0, <1>1, <2>0, <2>1, MovesOn
    <3> QED BY <1>1, <3>1, EffectNames DEF CreateMoves
  <2>2. CASE Located(s, 1, 2, 2, "create_chunks")
    <3>1. Stands(s, "create", 1, 2) /\ Effect("create_chunks", s) /\ Stands(s, "create", 2, 1)'
      BY <1>0, <1>1, <2>0, <2>2, MovesOn
    <3> QED BY <1>1, <3>1, EffectNames DEF CreateMoves
  <2>3. CASE Located(s, 2, 1, 1, "insert_chunks")
    <3>1. Stands(s, "create", 2, 1) /\ Effect("insert_chunks", s) /\ Stands(s, "create", 3, 1)'
      BY <1>0, <1>1, <2>0, <2>3, MovesOn
    <3> QED BY <1>1, <3>1, EffectNames DEF CreateMoves
  <2>4. CASE Located(s, 3, 1, 3, "create_document_node")
    <3>1. Stands(s, "create", 3, 1) /\ Effect("create_document_node", s) /\ Stands(s, "create", 3, 2)'
      BY <1>0, <1>1, <2>0, <2>4, MovesOn
    <3> QED BY <1>1, <3>1, EffectNames DEF CreateMoves
  <2>5. CASE Located(s, 3, 2, 3, "create_chunk_nodes")
    <3>1. Stands(s, "create", 3, 2) /\ Effect("create_chunk_nodes", s) /\ Stands(s, "create", 3, 3)'
      BY <1>0, <1>1, <2>0, <2>5, MovesOn
    <3> QED BY <1>1, <3>1, EffectNames DEF CreateMoves
  <2>6. CASE Located(s, 3, 3, 3, "create_contains_edges")
    <3>1. Stands(s, "create", 3, 3) /\ Effect("create_contains_edges", s) /\ Succeeds(s, "create")
      BY <1>0, <1>1, <2>0, <2>6, MovesOn
    <3> QED BY <1>1, <3>1, EffectNames DEF CreateMoves
  <2> QED BY <1>0, <1>1, <2>1, <2>2, <2>3, <2>4, <2>5, <2>6, CreateLocations
<1>2. CASE kind[s] = "delete"
  <2>0. Len(Plan("delete")) = 3 /\ "delete" \in Kinds
    BY PlanValues DEF Kinds
  <2>1. CASE Located(s, 1, 1, 1, "delete_document_graph")
    <3>1. Stands(s, "delete", 1, 1) /\ Effect("delete_document_graph", s) /\ Stands(s, "delete", 2, 1)'
      BY <1>0, <1>2, <2>0, <2>1, MovesOn
    <3> QED BY <1>2, <3>1, EffectNames DEF DeleteMoves
  <2>2. CASE Located(s, 2, 1, 1, "delete_by_doc_uuid")
    <3>1. Stands(s, "delete", 2, 1) /\ Effect("delete_by_doc_uuid", s) /\ Stands(s, "delete", 3, 1)'
      BY <1>0, <1>2, <2>0, <2>2, MovesOn
    <3> QED BY <1>2, <3>1, EffectNames DEF DeleteMoves
  <2>3. CASE Located(s, 3, 1, 1, "delete_document")
    <3>1. Stands(s, "delete", 3, 1) /\ Effect("delete_document", s) /\ Succeeds(s, "delete")
      BY <1>0, <1>2, <2>0, <2>3, MovesOn
    <3> QED BY <1>2, <3>1, EffectNames DEF DeleteMoves
  <2> QED BY <1>0, <1>2, <2>1, <2>2, <2>3, DeleteLocations
<1>3. CASE kind[s] = "update"
  <2>0. Len(Plan("update")) = 5 /\ "update" \in Kinds
    BY PlanValues DEF Kinds
  <2>1. CASE Located(s, 1, 1, 1, "delete_document_graph")
    <3>1. Stands(s, "update", 1, 1) /\ Effect("delete_document_graph", s) /\ Stands(s, "update", 2, 1)'
      BY <1>0, <1>3, <2>0, <2>1, MovesOn
    <3> QED BY <1>3, <3>1, EffectNames DEF UpdateMoves
  <2>2. CASE Located(s, 2, 1, 1, "delete_by_doc_uuid")
    <3>1. Stands(s, "update", 2, 1) /\ Effect("delete_by_doc_uuid", s) /\ Stands(s, "update", 3, 1)'
      BY <1>0, <1>3, <2>0, <2>2, MovesOn
    <3> QED BY <1>3, <3>1, EffectNames DEF UpdateMoves
  <2>3. CASE Located(s, 3, 1, 3, "update_document")
    <3>1. Stands(s, "update", 3, 1) /\ Effect("update_document", s) /\ Stands(s, "update", 3, 2)'
      BY <1>0, <1>3, <2>0, <2>3, MovesOn
    <3> QED BY <1>3, <3>1, EffectNames DEF UpdateMoves
  <2>4. CASE Located(s, 3, 2, 3, "delete_chunks_by_doc")
    <3>1. Stands(s, "update", 3, 2) /\ Effect("delete_chunks_by_doc", s) /\ Stands(s, "update", 3, 3)'
      BY <1>0, <1>3, <2>0, <2>4, MovesOn
    <3> QED BY <1>3, <3>1, EffectNames DEF UpdateMoves
  <2>5. CASE Located(s, 3, 3, 3, "create_chunks")
    <3>1. Stands(s, "update", 3, 3) /\ Effect("create_chunks", s) /\ Stands(s, "update", 4, 1)'
      BY <1>0, <1>3, <2>0, <2>5, MovesOn
    <3> QED BY <1>3, <3>1, EffectNames DEF UpdateMoves
  <2>6. CASE Located(s, 4, 1, 1, "insert_chunks")
    <3>1. Stands(s, "update", 4, 1) /\ Effect("insert_chunks", s) /\ Stands(s, "update", 5, 1)'
      BY <1>0, <1>3, <2>0, <2>6, MovesOn
    <3> QED BY <1>3, <3>1, EffectNames DEF UpdateMoves
  <2>7. CASE Located(s, 5, 1, 3, "create_document_node")
    <3>1. Stands(s, "update", 5, 1) /\ Effect("create_document_node", s) /\ Stands(s, "update", 5, 2)'
      BY <1>0, <1>3, <2>0, <2>7, MovesOn
    <3> QED BY <1>3, <3>1, EffectNames DEF UpdateMoves
  <2>8. CASE Located(s, 5, 2, 3, "create_chunk_nodes")
    <3>1. Stands(s, "update", 5, 2) /\ Effect("create_chunk_nodes", s) /\ Stands(s, "update", 5, 3)'
      BY <1>0, <1>3, <2>0, <2>8, MovesOn
    <3> QED BY <1>3, <3>1, EffectNames DEF UpdateMoves
  <2>9. CASE Located(s, 5, 3, 3, "create_contains_edges")
    <3>1. Stands(s, "update", 5, 3) /\ Effect("create_contains_edges", s) /\ Succeeds(s, "update")
      BY <1>0, <1>3, <2>0, <2>9, MovesOn
    <3> QED BY <1>3, <3>1, EffectNames DEF UpdateMoves
  <2> QED BY <1>0, <1>3, <2>1, <2>2, <2>3, <2>4, <2>5, <2>6, <2>7, <2>8, <2>9,
             UpdateLocations
<1> QED BY <1>0, <1>1, <1>2, <1>3 DEF Kinds

\* A saga's step is about that saga only.
LEMMA OneMoves ==
  ASSUME SagaTypeOK, NEW s \in Sagas, SagaStep(s)
  PROVE  /\ kind' = kind
         /\ \A t \in Sagas \ {s} :
              /\ status'[t] = status[t] /\ at'[t] = at[t] /\ call'[t] = call[t]
              /\ undo'[t] = undo[t] /\ compensated'[t] = compensated[t]
              /\ raised'[t] = raised[t]
<1>1. kind' = kind
  BY DEF SagaStep, Execute, Refuse, Raise, NoEmbeddings, EncodeRaises, Compensate,
         CompensationRaises, Advance, StepFails, NextUndo
<1>2. status' = status \/ \E x : status' = [status EXCEPT ![s] = x]
  BY DEF SagaStep, Execute, Refuse, Raise, NoEmbeddings, EncodeRaises, Compensate,
         CompensationRaises, Advance, StepFails, NextUndo
<1>3. at' = at \/ \E x : at' = [at EXCEPT ![s] = x]
  BY DEF SagaStep, Execute, Refuse, Raise, NoEmbeddings, EncodeRaises, Compensate,
         CompensationRaises, Advance, StepFails, NextUndo
<1>4. call' = call \/ \E x : call' = [call EXCEPT ![s] = x]
  BY DEF SagaStep, Execute, Refuse, Raise, NoEmbeddings, EncodeRaises, Compensate,
         CompensationRaises, Advance, StepFails, NextUndo
<1>5. undo' = undo \/ \E x : undo' = [undo EXCEPT ![s] = x]
  BY DEF SagaStep, Execute, Refuse, Raise, NoEmbeddings, EncodeRaises, Compensate,
         CompensationRaises, Advance, StepFails, NextUndo
<1>6. compensated' = compensated \/ \E x : compensated' = [compensated EXCEPT ![s] = x]
  BY DEF SagaStep, Execute, Refuse, Raise, NoEmbeddings, EncodeRaises, Compensate,
         CompensationRaises, Advance, StepFails, NextUndo
<1>7. raised' = raised \/ \E x : raised' = [raised EXCEPT ![s] = x]
  BY DEF SagaStep, Execute, Refuse, Raise, NoEmbeddings, EncodeRaises, Compensate,
         CompensationRaises, Advance, StepFails, NextUndo
<1> QED BY <1>1, <1>2, <1>3, <1>4, <1>5, <1>6, <1>7 DEF SagaTypeOK

-----------------------------------------------------------------------------
(* Compensation, however sagas overlap.  The steps behind undo have been   *)
(* tried while the walk is still under way: that is the invariant.         *)

Tried(s, i) ==
    \/ i \in compensated[s]
    \/ /\ Compensation(Plan(kind[s])[i]) # "no call"
       /\ StoreOf(Compensation(Plan(kind[s])[i])) \in raised[s]

UndoneInv(s) ==
    /\ status[s] = "compensating" => \A i \in (undo[s] + 1) .. (at[s] - 1) : Tried(s, i)
    /\ status[s] = "failed" => \A i \in UndoTo(kind[s], at[s]) .. (at[s] - 1) : Tried(s, i)

LEMMA SameUndone ==
  ASSUME NEW s \in Sagas, UndoneInv(s), status'[s] \in {status[s], "crashed"},
         kind'[s] = kind[s], at'[s] = at[s], undo'[s] = undo[s],
         compensated'[s] = compensated[s], raised'[s] = raised[s]
  PROVE  UndoneInv(s)'
<1>1. \A i : Tried(s, i)' <=> Tried(s, i)
  BY DEF Tried
<1>2. UndoTo(kind[s], at[s])' = UndoTo(kind[s], at[s])
  BY DEF UndoTo
<1> QED BY <1>1, <1>2 DEF UndoneInv

LEMMA NextUndone ==
  ASSUME TypeInv, \A s \in Sagas : UndoneInv(s), [Next]_vars
  PROVE  \A s \in Sagas : UndoneInv(s)'
<1> SUFFICES ASSUME NEW u \in Sagas PROVE UndoneInv(u)'
  OBVIOUS
<1>0. SagaTypeOK /\ UndoneInv(u)
  BY DEF TypeInv, TypeOK
<1>1. CASE \E s \in Sagas, k \in Kinds : Start(s, k)
  <2>1. PICK s \in Sagas, k \in Kinds : Start(s, k)
    BY <1>1
  <2>2. CASE u = s
    <3>1. status'[u] = "executing"
      BY <1>0, <2>1, <2>2 DEF Start, SagaTypeOK
    <3> QED BY <3>1 DEF UndoneInv
  <2>3. CASE u # s
    BY <1>0, <2>1, <2>3, SameUndone DEF Start, SagaTypeOK
  <2> QED BY <2>2, <2>3
<1>2. CASE \E s \in Sagas : SagaStep(s)
  <2>1. PICK s \in Sagas : SagaStep(s)
    BY <1>2
  <2>2. CASE u # s
    BY <1>0, <2>1, <2>2, OneMoves, SameUndone
  <2>3. CASE u = s /\ (Execute(s) \/ EncodeRaises(s))
    <3>1. status'[u] \in {"executing", "success", "exception"}
      BY <1>0, <2>3 DEF Execute, EncodeRaises, Advance, SagaTypeOK
    <3> QED BY <3>1 DEF UndoneInv
  <2>4. CASE u = s /\ (Refuse(s) \/ Raise(s) \/ NoEmbeddings(s))
    <3>1. /\ kind'[s] = kind[s] /\ at'[s] = at[s] /\ undo'[s] = at[s] - 1
          /\ status'[s] = IF at[s] > UndoTo(kind[s], at[s]) THEN "compensating" ELSE "failed"
          /\ at[s] \in 1..6 /\ UndoTo(kind[s], at[s]) \in {1, 4}
      BY <1>0, <2>4 DEF Refuse, Raise, NoEmbeddings, StepFails, SagaTypeOK, UndoTo
    <3>2. UndoTo(kind[s], at[s])' = UndoTo(kind[s], at[s])
      BY <3>1 DEF UndoTo
    <3>3. PICK m \in {1, 4} : m = UndoTo(kind[s], at[s])
      BY <3>1
    <3>4. \A i \in (undo'[s] + 1) .. (at'[s] - 1) : FALSE
      BY <3>1
    <3>5. status'[s] = "failed" => \A i \in m .. (at'[s] - 1) : FALSE
      BY <3>1, <3>3
    <3> QED BY <2>4, <3>1, <3>2, <3>3, <3>4, <3>5 DEF UndoneInv
  <2>5. CASE u = s /\ (Compensate(s) \/ CompensationRaises(s))
    <3>1. /\ kind'[s] = kind[s] /\ at'[s] = at[s] /\ undo'[s] = undo[s] - 1
          /\ status[s] = "compensating"
          /\ status'[s] = IF undo[s] = UndoTo(kind[s], at[s]) THEN "failed" ELSE "compensating"
      BY <1>0, <2>5 DEF Compensate, CompensationRaises, NextUndo, SagaTypeOK
    <3>2. PICK n \in 1..4, a \in 1..6, m \in {1, 4} :
             n = undo[s] /\ a = at[s] /\ m = UndoTo(kind[s], at[s])
      BY <1>0, <3>1, UndoRange DEF TypeInv, SagaTypeOK, UndoTo
    <3>3. Tried(s, n)'
      <4>1. CASE Compensate(s)
        <5>1. n \in compensated'[s]
          BY <1>0, <3>2, <4>1 DEF Compensate, SagaTypeOK
        <5> QED BY <5>1 DEF Tried
      <4>2. CASE CompensationRaises(s)
        <5>1. /\ Compensation(Plan(kind[s])[n]) # "no call"
              /\ StoreOf(Compensation(Plan(kind[s])[n])) \in raised'[s]
          BY <1>0, <3>2, <4>2 DEF CompensationRaises, SagaTypeOK, UndoCall
        <5> QED BY <3>1, <5>1 DEF Tried
      <4> QED BY <2>5, <4>1, <4>2
    <3>4. \A i \in (n + 1) .. (a - 1) : Tried(s, i)'
      <4>1. \A i \in (n + 1) .. (a - 1) : Tried(s, i)
        BY <1>0, <2>5, <3>1, <3>2 DEF UndoneInv
      <4>2. compensated[s] \subseteq compensated'[s] /\ raised[s] \subseteq raised'[s]
        BY <1>0, <2>5 DEF Compensate, CompensationRaises, SagaTypeOK
      <4> QED BY <3>1, <4>1, <4>2 DEF Tried
    <3>5. \A i \in n .. (a - 1) : i = n \/ i \in (n + 1) .. (a - 1)
      OBVIOUS
    <3>6. \A i \in n .. (a - 1) : Tried(s, i)'
      BY <3>3, <3>4, <3>5
    <3>7. undo'[s] + 1 = n /\ at'[s] = a /\ UndoTo(kind[s], at[s])' = m
      BY <3>1, <3>2 DEF UndoTo
    <3>8. status'[s] = "failed" => n = m
      BY <3>1, <3>2
    <3> QED BY <2>5, <3>6, <3>7, <3>8 DEF UndoneInv
  <2> QED BY <2>1, <2>2, <2>3, <2>4, <2>5 DEF SagaStep
<1>3. CASE Crash
  BY <1>0, <1>3, SameUndone DEF Crash, SagaTypeOK
<1>4. CASE UNCHANGED vars
  BY <1>0, <1>4, SameUndone DEF vars, control
<1> QED BY <1>1, <1>2, <1>3, <1>4 DEF Next

\* However sagas overlap, and whatever calls and compensations raise, a saga
\* that reports a failure has called the compensation of every step it counts
\* as done: what is missing in compensated_steps raised in this saga.
THEOREM NothingIsLeftUndone == Spec => []NothingLeftUndone
<1>1. Spec => []TypeInv
  BY InitTypeInv, NextTypeInv, PTL DEF Spec
<1> DEFINE Undone == \A s \in Sagas : UndoneInv(s)
<1>2. Init => Undone
  BY DEF Init, UndoneInv
<1>3. TypeInv /\ Undone /\ [Next]_vars => Undone'
  BY NextUndone
<1>4. Undone => NothingLeftUndone
  BY DEF UndoneInv, NothingLeftUndone, Tried
<1> HIDE DEF Undone
<1> QED BY <1>1, <1>2, <1>3, <1>4, PTL DEF Spec

-----------------------------------------------------------------------------
(* A delete is final: only the one create saga of the document brings a    *)
(* row, with its first call, and chunk rows need a row.                    *)

OneCreate     == \A s, t \in Sagas : kind[s] = "create" /\ kind[t] = "create" => s = t
NoRowNoChunks == pgDoc = NoDoc => pgChunks = {}
RowInv        == OneCreate /\ NoRowNoChunks

LEMMA EffectRow ==
  ASSUME NEW s \in Sagas, NEW c, Effect(c, s), NoRowNoChunks
  PROVE  /\ NoRowNoChunks'
         /\ pgDoc = NoDoc /\ c # "create_document" => pgDoc' = NoDoc
  BY TriStoreAssumption DEF NoRowNoChunks, Effect, CreateDocument, CreateChunks, UpdateDocument,
         DeleteChunksByDoc, DeleteDocument, InsertChunks, DeleteByDocUuid,
         CreateDocumentNode, CreateChunkNodes, CreateContainsEdges,
         DeleteDocumentGraph, pg, graph

\* Only a create saga at its first call creates a row.
LEMMA WhoCreates ==
  ASSUME NEW s \in Sagas, PlaceOf(s)
  PROVE  /\ status[s] = "executing" /\ Call(s) = "create_document" =>
                kind[s] = "create" /\ at[s] = 1 /\ call[s] = 1
         /\ status[s] = "compensating" => UndoCall(s) # "create_document"
<1>1. ASSUME status[s] = "executing", Call(s) = "create_document"
      PROVE  kind[s] = "create" /\ at[s] = 1 /\ call[s] = 1
  <2>1. InFlight(s) /\ kind[s] \in Kinds
    BY <1>1 DEF PlaceOf, InFlight
  <2>2. kind[s] # "delete"
    BY <1>1, <2>1, DeleteLocations DEF Located
  <2>3. kind[s] # "update"
    BY <1>1, <2>1, UpdateLocations DEF Located
  <2> QED BY <1>1, <2>1, <2>2, <2>3, CreateLocations DEF Located, Kinds
<1>2. status[s] = "compensating" => UndoCall(s) # "create_document"
  BY UndoCalls
<1> QED BY <1>1, <1>2

LEMMA NextRow == ASSUME TypeInv, RowInv, [Next]_vars PROVE RowInv'
<1>0. SagaTypeOK
  BY DEF TypeInv, TypeOK
<1>1. CASE \E s \in Sagas, k \in Kinds : Start(s, k)
  <2>1. PICK s \in Sagas, k \in Kinds : Start(s, k)
    BY <1>1
  <2>2. /\ kind' = [kind EXCEPT ![s] = k] /\ UNCHANGED stores
        /\ k = "create" => \A t \in Sagas : kind[t] # "create"
    BY <2>1 DEF Start
  <2>3. OneCreate'
    BY <1>0, <2>2 DEF RowInv, OneCreate, SagaTypeOK
  <2>4. NoRowNoChunks'
    BY <2>2 DEF RowInv, NoRowNoChunks, stores
  <2> QED BY <2>3, <2>4 DEF RowInv
<1>2. CASE \E s \in Sagas : SagaStep(s)
  <2>1. PICK s \in Sagas : SagaStep(s)
    BY <1>2
  <2>2. OneCreate'
    BY <1>0, <2>1, OneMoves DEF RowInv, OneCreate
  <2>3. UNCHANGED stores \/ \E c : Effect(c, s)
    BY <2>1 DEF SagaStep, Execute, Refuse, Raise, NoEmbeddings, EncodeRaises,
                Compensate, CompensationRaises
  <2>4. NoRowNoChunks'
    BY <2>3, EffectRow DEF RowInv, NoRowNoChunks, stores
  <2> QED BY <2>2, <2>4 DEF RowInv
<1>3. CASE Crash \/ UNCHANGED vars
  BY <1>3 DEF RowInv, OneCreate, NoRowNoChunks, Crash, vars, control, stores
<1> QED BY <1>1, <1>2, <1>3 DEF Next

LEMMA RowStaysAway ==
  ASSUME TypeInv, RowInv, [Next]_vars, pgDoc = NoDoc,
         NEW t \in Sagas, kind[t] = "create", call[t] > 1 \/ at[t] > 1 \/ Over(t)
  PROVE  pgDoc' = NoDoc /\ pgChunks' = {}
<1>1. NoRowNoChunks'
  BY NextRow DEF RowInv
<1>2. SUFFICES pgDoc' = NoDoc
  BY <1>1 DEF NoRowNoChunks
<1>3. CASE \E s \in Sagas : SagaStep(s)
  <2>1. PICK s \in Sagas : SagaStep(s)
    BY <1>3
  <2>2. PlaceOf(s) /\ NoRowNoChunks
    BY DEF TypeInv, Places, RowInv
  <2>3. \/ UNCHANGED stores
        \/ status[s] = "executing" /\ Effect(Call(s), s)
        \/ status[s] = "compensating" /\ Effect(UndoCall(s), s)
    BY <2>1 DEF SagaStep, Execute, Refuse, Raise, NoEmbeddings, EncodeRaises,
                Compensate, CompensationRaises
  <2>4. ~(status[s] = "executing" /\ Call(s) = "create_document")
    <3>1. SUFFICES ASSUME status[s] = "executing", Call(s) = "create_document"
                   PROVE FALSE
      OBVIOUS
    <3>2. kind[s] = "create" /\ at[s] = 1 /\ call[s] = 1
      BY <2>2, <3>1, WhoCreates
    <3>3. s = t
      BY <3>2 DEF RowInv, OneCreate
    <3> QED BY <3>1, <3>2, <3>3 DEF Over
  <2>5. CASE UNCHANGED stores
    BY <2>5 DEF stores
  <2>6. CASE status[s] = "executing" /\ Effect(Call(s), s)
    BY <2>2, <2>4, <2>6, EffectRow
  <2>7. CASE status[s] = "compensating" /\ Effect(UndoCall(s), s)
    BY <2>2, <2>7, WhoCreates, EffectRow
  <2> QED BY <2>3, <2>5, <2>6, <2>7
<1>4. CASE ~\E s \in Sagas : SagaStep(s)
  BY <1>4 DEF Next, Start, Crash, vars, stores
<1> QED BY <1>3, <1>4

\* Once the row is gone, however many updates, deletes and the create overlap
\* and fail, no step of theirs brings it back, nor chunk rows without it.
THEOREM DeletedForGood == Spec => DeletedStaysDeleted
<1>1. Spec => []TypeInv
  BY InitTypeInv, NextTypeInv, PTL DEF Spec
<1>2. Init => RowInv
  BY DEF Init, StoresInit, RowInv, OneCreate, NoRowNoChunks
<1>3. TypeInv /\ RowInv /\ [Next]_vars => RowInv'
  BY NextRow
<1>4. TypeInv /\ RowInv /\ [Next]_vars =>
        [(/\ pgDoc = NoDoc
          /\ \E s \in Sagas : kind[s] = "create" /\ (call[s] > 1 \/ at[s] > 1 \/ Over(s)))
              => (pgDoc' = NoDoc /\ pgChunks' = {})]_vars
  BY RowStaysAway
<1> QED BY <1>1, <1>2, <1>3, <1>4, PTL DEF Spec, DeletedStaysDeleted

-----------------------------------------------------------------------------
(* Overlapping updates, as long as nothing fails and nobody deletes.  Two  *)
(* updates may take the new content of each other away, but whoever        *)
(* deletes will write again: what a store lacks, some saga is about to     *)
(* write.                                                                  *)

Calm == \A s \in Sagas : kind[s] # "delete" /\ status[s] \in {"idle", "executing", "success"}
SomeCreate == \E s \in Sagas : kind[s] = "create"

\* The sagas that have yet to write a row, chunk rows, vectors, the node.
RowWriter(s)    == Stands(s, "create", 1, 1) \/ Stands(s, "create", 1, 2)
ChunkWriter(s)  == RowWriter(s) \/ Stands(s, "update", 3, 3)
VectorWriter(s) == \/ RowWriter(s) \/ Stands(s, "create", 2, 1)
                   \/ Stands(s, "update", 3, 1) \/ Stands(s, "update", 3, 2)
                   \/ Stands(s, "update", 3, 3) \/ Stands(s, "update", 4, 1)
NodeWriter(s)   == \/ VectorWriter(s) \/ Stands(s, "create", 3, 1)
                   \/ Stands(s, "update", 2, 1) \/ Stands(s, "update", 5, 1)

\* Those that have written the node and have yet to draw its edges.
EdgeWriter(s)   == \/ Stands(s, "create", 3, 2) \/ Stands(s, "create", 3, 3)
                   \/ Stands(s, "update", 5, 2) \/ Stands(s, "update", 5, 3)

RowComing     == pgDoc # NoDoc \/ \E s \in Sagas : RowWriter(s)
ChunksComing  == pgChunks # {} \/ \E s \in Sagas : ChunkWriter(s)
VectorsComing == vectors # {} \/ \E s \in Sagas : VectorWriter(s)
GraphComing   == \/ docNode /\ contains # {}
                 \/ docNode /\ \E s \in Sagas : EdgeWriter(s)
                 \/ \E s \in Sagas : NodeWriter(s)

\* Chunk nodes without an edge survive the deletion of the graph.
NodesWait(s) ==
    /\ Stands(s, "create", 3, 3) \/ Stands(s, "update", 5, 3) => s \in chunkNodes
    /\ s \in contains => status[s] = "success"

Coming == /\ \A s \in Sagas : NodesWait(s)
          /\ SomeCreate => RowComing /\ ChunksComing /\ VectorsComing /\ GraphComing

LEMMA OthersStand ==
  ASSUME SagaTypeOK, NEW s \in Sagas, SagaStep(s), NEW t \in Sagas, t # s
  PROVE  /\ \A k, i, j : Stands(t, k, i, j)' <=> Stands(t, k, i, j)
         /\ RowWriter(t) => RowWriter(t)'
         /\ ChunkWriter(t) => ChunkWriter(t)'
         /\ VectorWriter(t) => VectorWriter(t)'
         /\ NodeWriter(t) => NodeWriter(t)'
         /\ EdgeWriter(t) => EdgeWriter(t)'
<1>1. \A k, i, j : Stands(t, k, i, j)' <=> Stands(t, k, i, j)
  BY OneMoves DEF Stands
<1> QED BY <1>1 DEF RowWriter, ChunkWriter, VectorWriter, NodeWriter, EdgeWriter

\* A call that succeeds leaves a row and chunk rows, or a saga to write them.
LEMMA ExecuteRows ==
  ASSUME TypeInv, Calm, NEW s \in Sagas, Execute(s)
  PROVE  /\ RowComing => RowComing'
         /\ ChunksComing => ChunksComing'
<1>0. SagaStep(s) /\ SagaTypeOK
  BY DEF SagaStep, TypeInv, TypeOK
<1>1. CreateMoves(s) \/ UpdateMoves(s)
  BY ExecuteMoves DEF Calm
<1>2. ASSUME NEW t \in Sagas, t # s
      PROVE  /\ RowWriter(t) => RowWriter(t)'
             /\ ChunkWriter(t) => ChunkWriter(t)'
  BY <1>0, <1>2, OthersStand
<1>3. ASSUME RowComing PROVE RowComing'
  <2>1. CASE \E t \in Sagas \ {s} : RowWriter(t)
    BY <1>2, <2>1 DEF RowComing
  <2>2. CASE pgDoc # NoDoc \/ RowWriter(s)
    <3>1. pgDoc' # NoDoc \/ RowWriter(s)'
      BY <1>1, <2>2, TriStoreAssumption
         DEF CreateMoves, UpdateMoves, RowWriter, Stands, CreateDocument, CreateChunks,
             UpdateDocument, DeleteChunksByDoc, InsertChunks, DeleteByDocUuid,
             DeleteDocumentGraph, CreateDocumentNode, CreateChunkNodes,
             CreateContainsEdges, pg, graph
    <3> QED BY <3>1 DEF RowComing
  <2> QED BY <1>3, <2>1, <2>2 DEF RowComing
<1>4. ASSUME ChunksComing PROVE ChunksComing'
  <2>1. CASE \E t \in Sagas \ {s} : ChunkWriter(t)
    BY <1>2, <2>1 DEF ChunksComing
  <2>2. CASE pgChunks # {} \/ ChunkWriter(s)
    <3>1. pgChunks' # {} \/ ChunkWriter(s)'
      BY <1>1, <2>2
         DEF CreateMoves, UpdateMoves, RowWriter, ChunkWriter, Stands, CreateDocument,
             CreateChunks, UpdateDocument, DeleteChunksByDoc, InsertChunks,
             DeleteByDocUuid, DeleteDocumentGraph, CreateDocumentNode,
             CreateChunkNodes, CreateContainsEdges, pg, graph
    <3> QED BY <3>1 DEF ChunksComing
  <2> QED BY <1>4, <2>1, <2>2 DEF ChunksComing
<1> QED BY <1>3, <1>4

\* A call that succeeds leaves every store full, or a saga to fill it.
LEMMA ExecuteComing ==
  ASSUME TypeInv, Calm, Coming, NEW s \in Sagas, Execute(s)
  PROVE  Coming'
<1>0. SagaStep(s) /\ SagaTypeOK /\ kind' = kind /\ NodesWait(s)
  BY OneMoves DEF SagaStep, TypeInv, TypeOK, Coming
<1>1. CreateMoves(s) \/ UpdateMoves(s)
  BY ExecuteMoves DEF Calm
<1>2. ASSUME NEW t \in Sagas PROVE NodesWait(t)'
  <2>1. CASE t # s
    <3>1. /\ \A k, i, j : Stands(t, k, i, j)' <=> Stands(t, k, i, j)
          /\ status'[t] = status[t] /\ NodesWait(t)
      BY <1>0, <2>1, OthersStand, OneMoves DEF Coming
    <3>2. CASE CreateMoves(s)
      BY <2>1, <3>1, <3>2
         DEF CreateMoves, NodesWait, Stands, CreateDocument, CreateChunks,
             InsertChunks, CreateDocumentNode, CreateChunkNodes, CreateContainsEdges, pg, graph
    <3>3. CASE UpdateMoves(s)
      BY <2>1, <3>1, <3>3
         DEF UpdateMoves, NodesWait, Stands, UpdateDocument, CreateChunks,
             DeleteChunksByDoc, InsertChunks, DeleteByDocUuid, DeleteDocumentGraph,
             CreateDocumentNode, CreateChunkNodes, CreateContainsEdges, pg, graph
    <3> QED BY <1>1, <3>2, <3>3
  <2>2. CASE t = s
    <3>1. CASE CreateMoves(s)
      BY <1>0, <2>2, <3>1
         DEF CreateMoves, NodesWait, Stands, Succeeds, CreateDocument, CreateChunks,
             InsertChunks, CreateDocumentNode, CreateChunkNodes, CreateContainsEdges, pg, graph
    <3>2. CASE UpdateMoves(s)
      BY <1>0, <2>2, <3>2
         DEF UpdateMoves, NodesWait, Stands, Succeeds, UpdateDocument, CreateChunks,
             DeleteChunksByDoc, InsertChunks, DeleteByDocUuid, DeleteDocumentGraph,
             CreateDocumentNode, CreateChunkNodes, CreateContainsEdges, pg, graph
    <3> QED BY <1>1, <3>1, <3>2
  <2> QED BY <2>1, <2>2
<1>3. SUFFICES ASSUME SomeCreate
               PROVE  RowComing' /\ ChunksComing' /\ VectorsComing' /\ GraphComing'
  BY <1>0, <1>2 DEF Coming, SomeCreate
<1>4. RowComing /\ ChunksComing /\ VectorsComing /\ GraphComing
  BY <1>3 DEF Coming
<1>5. ASSUME NEW t \in Sagas, t # s
      PROVE  /\ RowWriter(t) => RowWriter(t)'
             /\ ChunkWriter(t) => ChunkWriter(t)'
             /\ VectorWriter(t) => VectorWriter(t)'
             /\ NodeWriter(t) => NodeWriter(t)'
             /\ EdgeWriter(t) => EdgeWriter(t)'
  BY <1>0, <1>5, OthersStand
<1>6. RowComing' /\ ChunksComing'
  BY <1>4, ExecuteRows
<1>8. VectorsComing'
  <2>1. CASE \E t \in Sagas \ {s} : VectorWriter(t)
    BY <1>5, <2>1 DEF VectorsComing
  <2>2. CASE vectors # {} \/ VectorWriter(s)
    <3>1. vectors' # {} \/ VectorWriter(s)'
      BY <1>1, <2>2
         DEF CreateMoves, UpdateMoves, RowWriter, VectorWriter, Stands, CreateDocument,
             CreateChunks, UpdateDocument, DeleteChunksByDoc, InsertChunks,
             DeleteByDocUuid, DeleteDocumentGraph, CreateDocumentNode,
             CreateChunkNodes, CreateContainsEdges, pg, graph
    <3> QED BY <3>1 DEF VectorsComing
  <2> QED BY <1>4, <2>1, <2>2 DEF VectorsComing
<1>9. GraphComing'
  <2>1. CASE \E t \in Sagas \ {s} : NodeWriter(t)
    BY <1>5, <2>1 DEF GraphComing
  <2>2. CASE NodeWriter(s)
    <3>1. NodeWriter(s)' \/ (docNode' /\ EdgeWriter(s)')
      <4>1. NodeWriter(s)' \/ (CreateDocumentNode /\ EdgeWriter(s)')
        <5>1. CASE CreateMoves(s)
          <6>1. ~Stands(s, "create", 3, 2) /\ ~Stands(s, "create", 3, 3)
            BY <2>2 DEF RowWriter, VectorWriter, NodeWriter, Stands
          <6>2. \/ Stands(s, "create", 1, 2)' \/ Stands(s, "create", 2, 1)'
                \/ Stands(s, "create", 3, 1)'
                \/ CreateDocumentNode /\ Stands(s, "create", 3, 2)'
            BY <5>1, <6>1 DEF CreateMoves
          <6> QED BY <6>2 DEF RowWriter, VectorWriter, NodeWriter, EdgeWriter
        <5>2. CASE UpdateMoves(s)
          <6>1. ~Stands(s, "update", 5, 2) /\ ~Stands(s, "update", 5, 3)
            BY <2>2 DEF RowWriter, VectorWriter, NodeWriter, Stands
          <6>2. \/ Stands(s, "update", 2, 1)' \/ Stands(s, "update", 3, 1)'
                \/ Stands(s, "update", 3, 2)' \/ Stands(s, "update", 3, 3)'
                \/ Stands(s, "update", 4, 1)' \/ Stands(s, "update", 5, 1)'
                \/ CreateDocumentNode /\ Stands(s, "update", 5, 2)'
            BY <5>2, <6>1 DEF UpdateMoves
          <6> QED BY <6>2 DEF RowWriter, VectorWriter, NodeWriter, EdgeWriter
        <5> QED BY <1>1, <5>1, <5>2
      <4> QED BY <4>1 DEF CreateDocumentNode
    <3> QED BY <3>1 DEF GraphComing
  <2>3. CASE docNode /\ contains # {}
    <3>1. (docNode' /\ contains' # {}) \/ NodeWriter(s)'
      BY <1>1, <2>3
         DEF CreateMoves, UpdateMoves, RowWriter, VectorWriter, NodeWriter, Stands,
             CreateDocument, CreateChunks, UpdateDocument, DeleteChunksByDoc,
             InsertChunks, DeleteByDocUuid, DeleteDocumentGraph, CreateDocumentNode,
             CreateChunkNodes, CreateContainsEdges, pg, graph
    <3> QED BY <3>1 DEF GraphComing
  <2>4. CASE docNode /\ \E t \in Sagas : EdgeWriter(t)
    <3>1. docNode' \/ NodeWriter(s)'
      BY <1>1, <2>4
         DEF CreateMoves, UpdateMoves, RowWriter, VectorWriter, NodeWriter, Stands,
             CreateDocument, CreateChunks, UpdateDocument, DeleteChunksByDoc,
             InsertChunks, DeleteByDocUuid, DeleteDocumentGraph, CreateDocumentNode,
             CreateChunkNodes, CreateContainsEdges, pg, graph
    <3>2. CASE \E t \in Sagas \ {s} : EdgeWriter(t)
      BY <1>5, <3>1, <3>2 DEF GraphComing
    <3>3. CASE EdgeWriter(s)
      <4>1. (docNode' /\ EdgeWriter(s)') \/ (docNode' /\ s \in contains')
        <5>1. \/ CreateChunkNodes(s) /\ EdgeWriter(s)'
              \/ CreateContainsEdges(s) /\ s \in chunkNodes
          BY <1>0, <1>1, <3>3 DEF CreateMoves, UpdateMoves, EdgeWriter, Stands, NodesWait
        <5> QED BY <2>4, <5>1 DEF CreateChunkNodes, CreateContainsEdges
      <4> QED BY <4>1 DEF GraphComing
    <3> QED BY <2>4, <3>2, <3>3
  <2> QED BY <1>4, <2>1, <2>2, <2>3, <2>4 DEF GraphComing
<1> QED BY <1>6, <1>8, <1>9

\* A request that starts leaves the stores and the other sagas where they are.
LEMMA StartKeeps ==
  ASSUME TypeInv, NEW s \in Sagas, NEW k \in Kinds, Start(s, k), NEW t \in Sagas
  PROVE  /\ kind' = [kind EXCEPT ![s] = k] /\ status' = [status EXCEPT ![s] = "executing"]
         /\ UNCHANGED <<stores, at, call>>
         /\ status[s] = "idle" /\ at[s] = 1 /\ call[s] = 1 /\ kind[s] = "none"
         /\ t # s => \A l, i, j : Stands(t, l, i, j)' <=> Stands(t, l, i, j)
         /\ RowWriter(t) => RowWriter(t)'
         /\ ChunkWriter(t) => ChunkWriter(t)'
         /\ VectorWriter(t) => VectorWriter(t)'
         /\ NodeWriter(t) => NodeWriter(t)'
         /\ EdgeWriter(t) => EdgeWriter(t)'
<1>0. SagaTypeOK /\ Places
  BY DEF TypeInv, TypeOK
<1>1. /\ kind' = [kind EXCEPT ![s] = k] /\ status' = [status EXCEPT ![s] = "executing"]
      /\ UNCHANGED <<stores, at, call>>
      /\ status[s] = "idle" /\ at[s] = 1 /\ call[s] = 1 /\ kind[s] = "none"
  BY <1>0 DEF Start, Places, PlaceOf
<1>2. CASE t = s
  BY <1>1, <1>2 DEF RowWriter, ChunkWriter, VectorWriter, NodeWriter, EdgeWriter, Stands
<1>3. CASE t # s
  <2>1. \A l, i, j : Stands(t, l, i, j)' <=> Stands(t, l, i, j)
    BY <1>0, <1>1, <1>3 DEF Stands, SagaTypeOK
  <2> QED BY <1>1, <2>1 DEF RowWriter, ChunkWriter, VectorWriter, NodeWriter, EdgeWriter
<1> QED BY <1>2, <1>3

LEMMA NextComing == ASSUME TypeInv, Calm => Coming, [Next]_vars, Calm' PROVE Coming'
<1>0. SagaTypeOK /\ Places
  BY DEF TypeInv, TypeOK
<1>1. CASE \E s \in Sagas, k \in Kinds : Start(s, k)
  <2>1. PICK s \in Sagas, k \in Kinds : Start(s, k)
    BY <1>1
  <2>2. /\ kind' = [kind EXCEPT ![s] = k] /\ status' = [status EXCEPT ![s] = "executing"]
        /\ UNCHANGED <<stores, at, call>>
        /\ status[s] = "idle" /\ at[s] = 1 /\ call[s] = 1 /\ kind[s] = "none"
    BY <2>1, StartKeeps
  <2>3. Calm /\ Coming
    BY <1>0, <2>2 DEF Calm, SagaTypeOK
  <2>4. k # "delete" /\ status'[s] = "executing" /\ at'[s] = 1 /\ call'[s] = 1 /\ kind'[s] = k
    BY <1>0, <2>2 DEF Calm, SagaTypeOK
  <2>5. ASSUME NEW t \in Sagas, t # s
        PROVE  \A l, i, j : Stands(t, l, i, j)' <=> Stands(t, l, i, j)
    BY <2>1, <2>5, StartKeeps
  <2>6. \A t \in Sagas : /\ RowWriter(t) => RowWriter(t)'
                         /\ ChunkWriter(t) => ChunkWriter(t)'
                         /\ VectorWriter(t) => VectorWriter(t)'
                         /\ NodeWriter(t) => NodeWriter(t)'
                         /\ EdgeWriter(t) => EdgeWriter(t)'
    <3>1. TAKE t \in Sagas
    <3> QED BY <2>1, StartKeeps
  <2>7. \A t \in Sagas : NodesWait(t)'
    <3>1. TAKE t \in Sagas
    <3>2. CASE t = s
      BY <2>2, <2>3, <2>4, <3>2 DEF Coming, NodesWait, Stands, stores
    <3>3. CASE t # s
      <4>1. status'[t] = status[t]
        BY <1>0, <2>2, <3>3 DEF SagaTypeOK
      <4> QED BY <2>2, <2>3, <2>5, <3>3, <4>1 DEF Coming, NodesWait, stores
    <3> QED BY <3>2, <3>3
  <2>8. CASE k = "create"
    <3>1. RowWriter(s)'
      BY <2>4, <2>8 DEF RowWriter, Stands
    <3>2. ChunkWriter(s)' /\ VectorWriter(s)' /\ NodeWriter(s)'
      BY <3>1 DEF ChunkWriter, VectorWriter, NodeWriter
    <3> QED BY <2>7, <3>1, <3>2
            DEF Coming, RowComing, ChunksComing, VectorsComing, GraphComing
  <2>9. CASE k = "update"
    <3>1. SomeCreate' => SomeCreate
      BY <1>0, <2>2, <2>9 DEF SomeCreate, SagaTypeOK
    <3>2. SomeCreate => RowComing' /\ ChunksComing' /\ VectorsComing' /\ GraphComing'
      BY <2>2, <2>3, <2>6
         DEF Coming, RowComing, ChunksComing, VectorsComing, GraphComing, stores
    <3> QED BY <2>7, <3>1, <3>2 DEF Coming
  <2> QED BY <2>4, <2>8, <2>9 DEF Kinds
<1>2. CASE \E s \in Sagas : SagaStep(s)
  <2>1. PICK s \in Sagas : SagaStep(s)
    BY <1>2
  <2>2. Execute(s)
    <3>1. status'[s] \in {"idle", "executing", "success"}
      BY DEF Calm
    <3> QED BY <1>0, <2>1, <3>1
            DEF SagaStep, Refuse, Raise, NoEmbeddings, EncodeRaises, Compensate,
                CompensationRaises, StepFails, NextUndo, SagaTypeOK
  <2>3. Calm
    <3>1. status[s] = "executing"
      BY <2>2 DEF Execute
    <3> QED BY <1>0, <2>1, <3>1, OneMoves DEF Calm
  <2> QED BY <2>2, <2>3, ExecuteComing
<1>3. CASE Crash
  <2>1. \E s \in Sagas : status'[s] = "crashed"
    BY <1>0, <1>3 DEF Crash, SagaTypeOK
  <2> QED BY <2>1 DEF Calm
<1>4. CASE UNCHANGED vars
  <2>1. Calm /\ Coming
    BY <1>4 DEF Calm, vars, control
  <2>2. \A t : \A k, i, j : Stands(t, k, i, j)' <=> Stands(t, k, i, j)
    BY <1>4 DEF Stands, vars, control
  <2> QED BY <1>4, <2>1, <2>2
          DEF Coming, NodesWait, SomeCreate, RowComing, ChunksComing, VectorsComing,
              GraphComing, RowWriter, ChunkWriter, VectorWriter, NodeWriter, EdgeWriter,
              vars, control, stores
<1> QED BY <1>1, <1>2, <1>3, <1>4 DEF Next

\* However updates overlap each other and the create, once they are over, none
\* failed and nobody deleted, the document has a row, chunk rows, vectors and a
\* graph with edges: no order of their calls loses it.
THEOREM SearchableAfterUpdates == Spec => []UpdatesKeepDocumentSearchable
<1>1. Spec => []TypeInv
  BY InitTypeInv, NextTypeInv, PTL DEF Spec
<1> DEFINE CalmComing == Calm => Coming
<1>2. Init => CalmComing
  BY DEF Init, StoresInit, Coming, NodesWait, SomeCreate, Stands
<1>3. TypeInv /\ CalmComing /\ [Next]_vars => CalmComing'
  BY NextComing
<1>4. TypeInv /\ CalmComing => UpdatesKeepDocumentSearchable
  <2>1. SUFFICES ASSUME TypeInv, CalmComing, Quiet,
                        \A s \in Sagas : kind[s] # "delete",
                        \A s \in Sagas : Over(s) => status[s] = "success",
                        SomeCreate
                 PROVE  pgDoc # NoDoc /\ pgChunks # {} /\ vectors # {} /\ docNode
                        /\ contains # {}
    BY DEF UpdatesKeepDocumentSearchable, SomeCreate
  <2>2. Calm
    BY <2>1 DEF Calm, Quiet, InFlight, Over, TypeInv, TypeOK, SagaTypeOK
  <2>3. RowComing /\ ChunksComing /\ VectorsComing /\ GraphComing
    BY <2>1, <2>2 DEF Coming
  <2>4. \A s \in Sagas : \A k, i, j : ~Stands(s, k, i, j)
    BY <2>1 DEF Quiet, InFlight, Stands
  <2> QED BY <2>3, <2>4
          DEF RowComing, ChunksComing, VectorsComing, GraphComing, RowWriter,
              ChunkWriter, VectorWriter, NodeWriter, EdgeWriter
<1> HIDE DEF CalmComing
<1> QED BY <1>1, <1>2, <1>3, <1>4, PTL DEF Spec

-----------------------------------------------------------------------------
(* SearchNeverStale is not inductive: a call may write only because of     *)
(* what the calls before it in the plan left behind.  OnTrack says, for    *)
(* every place a saga can be at, what its remaining calls rely on.         *)

VecGone   == RaisedIn("milvus") \/ vectors = {}
GraphGone == RaisedIn("neo4j") \/ (contains = {} /\ ~docNode)

OneAtATime     == \A s, t \in Sagas : InFlight(s) /\ InFlight(t) => s = t
RowNeedsCreate == pgDoc # NoDoc => \E s \in Sagas : kind[s] = "create"
EdgesHang      == docNode \/ contains = {}

StoresFresh == RowNeedsCreate /\ EdgesHang /\ VectorsFresh /\ GraphFresh

CreateOnTrack(s) ==
    /\ status[s] = "executing" =>
        /\ at[s] = 1 /\ call[s] = 1 => pgDoc = NoDoc
        /\ at[s] \in {1, 2} => VecGone /\ GraphGone
        /\ at[s] = 1 /\ call[s] = 2 => ConcretePg \/ pgDoc = s
        /\ at[s] \in {2, 3} => pgDoc = s
    /\ status[s] = "compensating" => GraphGone /\ (undo[s] = 1 => VecGone)

DeleteOnTrack(s) ==
    status[s] = "executing" =>
        /\ at[s] \in {2, 3} => GraphGone
        /\ at[s] = 3 => VecGone

UpdateOnTrack(s) ==
    status[s] = "executing" =>
        /\ pgDoc # NoDoc
        /\ at[s] \in {2, 3} => GraphGone
        /\ at[s] = 3 => VecGone
        /\ at[s] = 3 /\ call[s] \in {2, 3} => pgDoc = s
        /\ at[s] \in {4, 5} => pgDoc = s

OnTrack(s) ==
    /\ kind[s] = "create" => CreateOnTrack(s)
    /\ kind[s] = "delete" => DeleteOnTrack(s)
    /\ kind[s] = "update" => UpdateOnTrack(s)

FreshInv == OneAtATime /\ StoresFresh /\ \A s \in Sagas : OnTrack(s)

-----------------------------------------------------------------------------
(* Repository calls.                                                       *)

\* The stores that raised stay in the history.
RaisedGrows == \A t \in Sagas : raised[t] \subseteq raised'[t]

\* What a call relies on.
Safe(c, s) ==
    /\ c = "create_document" => kind[s] = "create"
    /\ c \in {"create_document", "update_document", "delete_document"}
           => VecGone /\ GraphGone
    /\ c \in {"insert_chunks", "create_contains_edges"} => pgDoc = s
    /\ c = "create_document_node" => pgDoc # NoDoc

\* What a call changes, and what it leaves alone.
LEMMA EffectFrame ==
  ASSUME NEW s \in Sagas, NEW c, Effect(c, s), EdgesHang
  PROVE  /\ c = "create_document" => ConcretePg \/ pgDoc' = s
         /\ c = "create_chunks" => ~ConcretePg
         /\ c = "update_document" => (pgDoc = NoDoc \/ pgDoc' = s)
         /\ c = "delete_by_doc_uuid" => vectors' = {}
         /\ c = "delete_document_graph" => contains' = {} /\ docNode' = FALSE
         /\ c \notin {"create_document", "update_document", "delete_document"}
                => pgDoc' = pgDoc
         /\ c \notin {"insert_chunks", "delete_by_doc_uuid"} => vectors' = vectors
         /\ c \notin {"create_document_node", "create_contains_edges",
                      "delete_document_graph"}
                => docNode' = docNode /\ contains' = contains
  BY DEF EdgesHang, Effect, CreateDocument, CreateChunks, UpdateDocument,
         DeleteChunksByDoc, DeleteDocument, InsertChunks, DeleteByDocUuid,
         CreateDocumentNode, CreateChunkNodes, CreateContainsEdges,
         DeleteDocumentGraph, pg, graph

LEMMA RaisedStays ==
  ASSUME RaisedGrows, NEW st, RaisedIn(st)
  PROVE  RaisedIn(st)'
  BY DEF RaisedGrows, RaisedIn

\* A safe call leaves fresh stores fresh.
LEMMA EffectFresh ==
  ASSUME StoresFresh, RaisedGrows, NEW s \in Sagas, NEW c, Safe(c, s), Effect(c, s),
         kind' = kind
  PROVE  StoresFresh'
<1> USE DEF StoresFresh
<1>1. RowNeedsCreate'
  BY DEF RowNeedsCreate, Safe, Effect, CreateDocument, CreateChunks, UpdateDocument,
         DeleteChunksByDoc, DeleteDocument, InsertChunks, DeleteByDocUuid,
         CreateDocumentNode, CreateChunkNodes, CreateContainsEdges,
         DeleteDocumentGraph, pg, graph
<1>2. EdgesHang'
  BY DEF EdgesHang, Effect, CreateDocument, CreateChunks, UpdateDocument,
         DeleteChunksByDoc, DeleteDocument, InsertChunks, DeleteByDocUuid,
         CreateDocumentNode, CreateChunkNodes, CreateContainsEdges,
         DeleteDocumentGraph, pg, graph
<1>3. VectorsFresh'
  <2>1. CASE RaisedIn("milvus")
    BY <2>1, RaisedStays DEF VectorsFresh
  <2>2. CASE ~RaisedIn("milvus")
    <3>1. vectors' \subseteq {pgDoc'}
      BY <2>2 DEF VectorsFresh, Safe, VecGone, Effect, CreateDocument, CreateChunks,
         UpdateDocument, DeleteChunksByDoc, DeleteDocument, InsertChunks,
         DeleteByDocUuid, CreateDocumentNode, CreateChunkNodes, CreateContainsEdges,
         DeleteDocumentGraph, pg, graph
    <3> QED BY <3>1 DEF VectorsFresh
  <2> QED BY <2>1, <2>2
<1>4. GraphFresh'
  <2>1. CASE RaisedIn("neo4j")
    BY <2>1, RaisedStays DEF GraphFresh
  <2>2. CASE ~RaisedIn("neo4j")
    <3>1. contains' \subseteq {pgDoc'} /\ (docNode' => pgDoc' # NoDoc)
      BY <2>2, TriStoreAssumption
         DEF GraphFresh, Safe, GraphGone, EdgesHang, Effect, CreateDocument,
         CreateChunks, UpdateDocument, DeleteChunksByDoc, DeleteDocument,
         InsertChunks, DeleteByDocUuid, CreateDocumentNode, CreateChunkNodes,
         CreateContainsEdges, DeleteDocumentGraph, pg, graph
    <3> QED BY <3>1 DEF GraphFresh
  <2> QED BY <2>1, <2>2
<1> QED BY <1>1, <1>2, <1>3, <1>4

LEMMA StutterFresh ==
  ASSUME StoresFresh, RaisedGrows, UNCHANGED stores, kind' = kind
  PROVE  StoresFresh'
<1>1. RaisedIn("milvus") => RaisedIn("milvus")'
  BY RaisedStays
<1>2. RaisedIn("neo4j") => RaisedIn("neo4j")'
  BY RaisedStays
<1> QED BY <1>1, <1>2
    DEF StoresFresh, RowNeedsCreate, EdgesHang, VectorsFresh, GraphFresh, stores

-----------------------------------------------------------------------------
(* A call is only made when what it relies on holds.                       *)

LEMMA CallSafe ==
  ASSUME NEW s \in Sagas, PlaceOf(s), status[s] = "executing", OnTrack(s)
  PROVE  Safe(Call(s), s)
<1>0. InFlight(s) /\ kind[s] \in Kinds
  BY DEF PlaceOf, InFlight
<1>1. CASE kind[s] = "create"
  BY <1>0, <1>1, CreateLocations, TriStoreAssumption
     DEF Located, Safe, OnTrack, CreateOnTrack
<1>2. CASE kind[s] = "delete"
  BY <1>0, <1>2, DeleteLocations DEF Located, Safe, OnTrack, DeleteOnTrack
<1>3. CASE kind[s] = "update"
  BY <1>0, <1>3, UpdateLocations DEF Located, Safe, OnTrack, UpdateOnTrack
<1> QED BY <1>0, <1>1, <1>2, <1>3 DEF Kinds

LEMMA UndoSafe ==
  ASSUME NEW s \in Sagas, PlaceOf(s), status[s] = "compensating", OnTrack(s)
  PROVE  Safe(UndoCall(s), s)
  BY UndoCalls DEF Safe, OnTrack, CreateOnTrack

-----------------------------------------------------------------------------
(* A saga stays on track.                                                  *)

LEMMA ExecuteOnTrack ==
  ASSUME SagaTypeOK, NEW s \in Sagas, PlaceOf(s), OnTrack(s), EdgesHang, Execute(s)
  PROVE  OnTrack(s)'
<1>0. /\ status[s] = "executing" /\ InFlight(s) /\ kind[s] \in Kinds
      /\ Effect(Call(s), s) /\ Advance(s)
      /\ kind' = kind /\ raised' = raised
  BY DEF Execute, Advance, PlaceOf, InFlight
<1>a. status'[s] \in {"executing", "success"}
  BY <1>0 DEF Advance, SagaTypeOK
<1>b. RaisedIn("milvus")' = RaisedIn("milvus") /\ RaisedIn("neo4j")' = RaisedIn("neo4j")
  BY <1>0 DEF RaisedIn
<1>c. \A i \in 1..5, j \in 1..3, n \in 1..3 : \A c :
        Located(s, i, j, n, c) =>
          /\ j < n => at'[s] = i /\ call'[s] = j + 1
          /\ ~(j < n) => at'[s] = i + 1 /\ call'[s] = 1
  BY <1>0, AdvanceFrom
<1>1. CASE kind[s] = "create"
  <2>0. CreateOnTrack(s)
    BY <1>1 DEF OnTrack
  <2>1. CASE Located(s, 1, 1, 2, "create_document")
    <3>1. at'[s] = 1 /\ call'[s] = 2
      BY <1>c, <2>1
    <3>2. VecGone /\ GraphGone
      BY <1>0, <2>0, <2>1 DEF Located, CreateOnTrack
    <3>3. /\ ConcretePg \/ pgDoc' = s
          /\ vectors' = vectors /\ docNode' = docNode /\ contains' = contains
      BY <1>0, <2>1, <3>2, EffectFrame DEF Located
    <3>4. VecGone' /\ GraphGone'
      BY <1>b, <3>2, <3>3 DEF VecGone, GraphGone
    <3> QED BY <1>0, <1>1, <1>a, <3>1, <3>3, <3>4 DEF OnTrack, CreateOnTrack
  <2>2. CASE Located(s, 1, 2, 2, "create_chunks")
    <3>1. at'[s] = 2 /\ call'[s] = 1
      BY <1>c, <2>2
    <3>2. VecGone /\ GraphGone /\ (ConcretePg \/ pgDoc = s)
      BY <1>0, <2>0, <2>2 DEF Located, CreateOnTrack
    <3>3. /\ ~ConcretePg /\ pgDoc' = pgDoc
          /\ vectors' = vectors /\ docNode' = docNode /\ contains' = contains
      BY <1>0, <2>2, <3>2, EffectFrame DEF Located
    <3>4. VecGone' /\ GraphGone' /\ pgDoc' = s
      BY <1>b, <3>2, <3>3 DEF VecGone, GraphGone
    <3> QED BY <1>0, <1>1, <1>a, <3>1, <3>4 DEF OnTrack, CreateOnTrack
  <2>3. CASE Located(s, 2, 1, 1, "insert_chunks")
    <3>1. at'[s] = 3 /\ call'[s] = 1
      BY <1>c, <2>3
    <3>2. pgDoc = s
      BY <1>0, <2>0, <2>3 DEF Located, CreateOnTrack
    <3>3. pgDoc' = s
      BY <1>0, <2>3, <3>2, EffectFrame DEF Located
    <3> QED BY <1>0, <1>1, <1>a, <3>1, <3>3 DEF OnTrack, CreateOnTrack
  <2>4. CASE \/ Located(s, 3, 1, 3, "create_document_node")
             \/ Located(s, 3, 2, 3, "create_chunk_nodes")
             \/ Located(s, 3, 3, 3, "create_contains_edges")
    <3>1. (at'[s] = 3 /\ call'[s] \in {2, 3}) \/ at'[s] = 4
      BY <1>c, <2>4
    <3>2. pgDoc = s
      BY <1>0, <2>0, <2>4 DEF Located, CreateOnTrack
    <3>3. pgDoc' = s
      BY <1>0, <2>4, <3>2, EffectFrame DEF Located
    <3> QED BY <1>0, <1>1, <1>a, <3>1, <3>3 DEF OnTrack, CreateOnTrack
  <2> QED BY <1>0, <1>1, <2>1, <2>2, <2>3, <2>4, CreateLocations
<1>2. CASE kind[s] = "delete"
  <2>0. DeleteOnTrack(s)
    BY <1>2 DEF OnTrack
  <2>1. CASE Located(s, 1, 1, 1, "delete_document_graph")
    <3>1. at'[s] = 2 /\ call'[s] = 1
      BY <1>c, <2>1
    <3>2. GraphGone'
      BY <1>0, <2>1, EffectFrame DEF Located, GraphGone
    <3> QED BY <1>0, <1>2, <3>1, <3>2 DEF OnTrack, DeleteOnTrack
  <2>2. CASE Located(s, 2, 1, 1, "delete_by_doc_uuid")
    <3>1. at'[s] = 3 /\ call'[s] = 1
      BY <1>c, <2>2
    <3>2. GraphGone
      BY <1>0, <2>0, <2>2 DEF Located, DeleteOnTrack
    <3>3. vectors' = {} /\ docNode' = docNode /\ contains' = contains
      BY <1>0, <2>2, <3>2, EffectFrame DEF Located
    <3>4. VecGone' /\ GraphGone'
      BY <1>b, <3>2, <3>3 DEF VecGone, GraphGone
    <3> QED BY <1>0, <1>2, <3>1, <3>4 DEF OnTrack, DeleteOnTrack
  <2>3. CASE Located(s, 3, 1, 1, "delete_document")
    <3>1. at'[s] = 4
      BY <1>c, <2>3
    <3> QED BY <1>0, <1>2, <3>1 DEF OnTrack, DeleteOnTrack
  <2> QED BY <1>0, <1>2, <2>1, <2>2, <2>3, DeleteLocations
<1>3. CASE kind[s] = "update"
  <2>0. UpdateOnTrack(s) /\ pgDoc # NoDoc
    BY <1>0, <1>3 DEF OnTrack, UpdateOnTrack
  <2>1. CASE Located(s, 1, 1, 1, "delete_document_graph")
    <3>1. at'[s] = 2 /\ call'[s] = 1
      BY <1>c, <2>1
    <3>2. GraphGone' /\ pgDoc' = pgDoc
      BY <1>0, <2>1, EffectFrame DEF Located, GraphGone
    <3> QED BY <1>0, <1>3, <2>0, <3>1, <3>2 DEF OnTrack, UpdateOnTrack
  <2>2. CASE Located(s, 2, 1, 1, "delete_by_doc_uuid")
    <3>1. at'[s] = 3 /\ call'[s] = 1
      BY <1>c, <2>2
    <3>2. GraphGone
      BY <1>0, <2>0, <2>2 DEF Located, UpdateOnTrack
    <3>3. vectors' = {} /\ docNode' = docNode /\ contains' = contains /\ pgDoc' = pgDoc
      BY <1>0, <2>2, <3>2, EffectFrame DEF Located
    <3>4. VecGone' /\ GraphGone'
      BY <1>b, <3>2, <3>3 DEF VecGone, GraphGone
    <3> QED BY <1>0, <1>3, <2>0, <3>1, <3>3, <3>4 DEF OnTrack, UpdateOnTrack
  <2>3. CASE Located(s, 3, 1, 3, "update_document")
    <3>1. at'[s] = 3 /\ call'[s] = 2
      BY <1>c, <2>3
    <3>2. GraphGone /\ VecGone
      BY <1>0, <2>0, <2>3 DEF Located, UpdateOnTrack
    <3>3. vectors' = vectors /\ docNode' = docNode /\ contains' = contains /\ pgDoc' = s
      BY <1>0, <2>0, <2>3, <3>2, EffectFrame DEF Located
    <3>4. VecGone' /\ GraphGone' /\ pgDoc' # NoDoc
      BY <1>b, <3>2, <3>3, TriStoreAssumption DEF VecGone, GraphGone
    <3> QED BY <1>0, <1>3, <3>1, <3>3, <3>4 DEF OnTrack, UpdateOnTrack
  <2>4. CASE \/ Located(s, 3, 2, 3, "delete_chunks_by_doc")
             \/ Located(s, 3, 3, 3, "create_chunks")
    <3>1. (at'[s] = 3 /\ call'[s] = 3) \/ (at'[s] = 4 /\ call'[s] = 1)
      BY <1>c, <2>4
    <3>2. GraphGone /\ VecGone /\ pgDoc = s
      BY <1>0, <2>0, <2>4 DEF Located, UpdateOnTrack
    <3>3. /\ vectors' = vectors /\ docNode' = docNode /\ contains' = contains
          /\ pgDoc' = s
      BY <1>0, <2>4, <3>2, EffectFrame DEF Located
    <3>4. VecGone' /\ GraphGone' /\ pgDoc' # NoDoc
      BY <1>b, <3>2, <3>3, TriStoreAssumption DEF VecGone, GraphGone
    <3> QED BY <1>0, <1>3, <3>1, <3>3, <3>4 DEF OnTrack, UpdateOnTrack
  <2>5. CASE \/ Located(s, 4, 1, 1, "insert_chunks")
             \/ Located(s, 5, 1, 3, "create_document_node")
             \/ Located(s, 5, 2, 3, "create_chunk_nodes")
             \/ Located(s, 5, 3, 3, "create_contains_edges")
    <3>1. at'[s] \in {5, 6}
      BY <1>c, <2>5
    <3>2. pgDoc = s
      BY <1>0, <2>0, <2>5 DEF Located, UpdateOnTrack
    <3>3. pgDoc' = s /\ pgDoc' # NoDoc
      BY <1>0, <2>5, <3>2, EffectFrame, TriStoreAssumption DEF Located
    <3> QED BY <1>0, <1>3, <3>1, <3>3 DEF OnTrack, UpdateOnTrack
  <2> QED BY <1>0, <1>3, <2>1, <2>2, <2>3, <2>4, <2>5, UpdateLocations
<1> QED BY <1>0, <1>1, <1>2, <1>3 DEF Kinds

\* A create that fails has not touched the graph, or Neo4j raised.
LEMMA FailureOnTrack ==
  ASSUME SagaTypeOK, NEW s \in Sagas, PlaceOf(s), OnTrack(s), EdgesHang,
         Refuse(s) \/ Raise(s) \/ NoEmbeddings(s)
  PROVE  OnTrack(s)'
<1>0. /\ status[s] = "executing" /\ InFlight(s) /\ kind[s] \in Kinds
      /\ StepFails(s) /\ kind' = kind
      /\ status'[s] = IF at[s] > UndoTo(kind[s], at[s]) THEN "compensating" ELSE "failed"
      /\ undo'[s] = at[s] - 1
  BY DEF Refuse, Raise, NoEmbeddings, StepFails, PlaceOf, InFlight, SagaTypeOK
<1>1. CASE kind[s] = "create"
  <2>0. CreateOnTrack(s) /\ UndoTo(kind[s], at[s]) = 1
    BY <1>1 DEF OnTrack, UndoTo
  <2>1. CASE at[s] = 1
    <3>1. status'[s] = "failed"
      BY <1>0, <2>0, <2>1
    <3> QED BY <1>0, <1>1, <3>1 DEF OnTrack, CreateOnTrack
  <2>2. CASE at[s] = 2
    <3>1. Call(s) = "insert_chunks" /\ VecGone /\ GraphGone
      BY <1>0, <1>1, <2>0, <2>2, CreateLocations DEF Located, CreateOnTrack
    <3>2. ~Refuse(s)
      BY <3>1 DEF Refuse, Refused
    <3>3. GraphGone' /\ VecGone'
      <4>1. CASE NoEmbeddings(s)
        BY <3>1, <4>1 DEF NoEmbeddings, GraphGone, VecGone, RaisedIn, stores
      <4>2. CASE Raise(s)
        <5>1. raised' = [raised EXCEPT ![s] = @ \union {"milvus"}]
          BY <3>1, <4>2 DEF Raise, StoreOf
        <5>2. "milvus" \in raised'[s] /\ RaisedGrows
          BY <5>1 DEF SagaTypeOK, RaisedGrows
        <5>3. docNode' = docNode /\ contains' = contains
          BY <3>1, <4>2, EffectFrame DEF Raise, stores
        <5>4. RaisedIn("neo4j") => RaisedIn("neo4j")'
          BY <5>2, RaisedStays
        <5> QED BY <3>1, <5>2, <5>3, <5>4 DEF GraphGone, VecGone, RaisedIn
      <4> QED BY <3>2, <4>1, <4>2
    <3> QED BY <1>0, <1>1, <3>3 DEF OnTrack, CreateOnTrack
  <2>3. CASE at[s] = 3
    <3>1. Call(s) \in {"create_document_node", "create_chunk_nodes",
                       "create_contains_edges"}
      BY <1>0, <1>1, <2>3, CreateLocations DEF Located
    <3>2. Step(s) = "neo4j_create"
      BY <1>1, <2>3, PlanValues DEF Step
    <3>3. Raise(s)
      BY <3>1, <3>2 DEF Refuse, Refused, NoEmbeddings
    <3>4. raised' = [raised EXCEPT ![s] = @ \union {"neo4j"}]
      BY <3>1, <3>3 DEF Raise, StoreOf
    <3>5. GraphGone'
      BY <3>4 DEF GraphGone, RaisedIn, SagaTypeOK
    <3>6. undo'[s] = 2 /\ status'[s] = "compensating"
      BY <1>0, <2>0, <2>3
    <3> QED BY <1>0, <1>1, <3>5, <3>6 DEF OnTrack, CreateOnTrack
  <2>4. at[s] = 1 \/ at[s] = 2 \/ at[s] = 3
    BY <1>0, <1>1, CreateLocations DEF Located
  <2> QED BY <2>1, <2>2, <2>3, <2>4
<1>2. CASE kind[s] \in {"delete", "update"}
  BY <1>0, <1>2 DEF OnTrack, DeleteOnTrack, UpdateOnTrack
<1> QED BY <1>0, <1>1, <1>2 DEF Kinds

\* Compensating a create: its vectors go before its row does.
LEMMA UndoOnTrack ==
  ASSUME SagaTypeOK, NEW s \in Sagas, PlaceOf(s), OnTrack(s), EdgesHang,
         Compensate(s) \/ CompensationRaises(s)
  PROVE  OnTrack(s)'
<1>0. /\ status[s] = "compensating" /\ kind[s] \in Kinds
      /\ kind' = kind /\ undo'[s] = undo[s] - 1
      /\ status'[s] \in {"compensating", "failed"}
  BY DEF Compensate, CompensationRaises, NextUndo, PlaceOf, InFlight, SagaTypeOK
<1>1. CASE kind[s] = "create"
  <2>0. CreateOnTrack(s) /\ GraphGone
    BY <1>0, <1>1 DEF OnTrack, CreateOnTrack
  <2>1. RaisedGrows
    BY DEF Compensate, CompensationRaises, RaisedGrows, SagaTypeOK
  <2>2. UndoCall(s) \in {"delete_document", "delete_by_doc_uuid"}
    BY <1>0, <1>1, UndoCalls
  <2>3. GraphGone'
    <3>1. docNode' = docNode /\ contains' = contains
      BY <2>2, EffectFrame DEF Compensate, CompensationRaises, stores
    <3>2. RaisedIn("neo4j") => RaisedIn("neo4j")'
      BY <2>1, RaisedStays
    <3> QED BY <2>0, <3>1, <3>2 DEF GraphGone
  <2>4. CASE undo[s] = 1
    BY <1>0, <1>1, <2>3, <2>4 DEF OnTrack, CreateOnTrack
  <2>5. CASE undo[s] = 2
    <3>0. undo[s] # 1 /\ kind[s] # "delete" /\ kind[s] # "update"
      BY <1>1, <2>5
    <3>1. UndoCall(s) = "delete_by_doc_uuid"
      BY <1>0, <3>0, UndoCalls
    <3>2. VecGone'
      <4>1. CASE Compensate(s)
        BY <3>1, <4>1, EffectFrame DEF Compensate, VecGone
      <4>2. CASE CompensationRaises(s)
        <5>1. raised' = [raised EXCEPT ![s] = @ \union {"milvus"}]
          BY <3>1, <4>2 DEF CompensationRaises, StoreOf
        <5> QED BY <5>1 DEF VecGone, RaisedIn, SagaTypeOK
      <4> QED BY <4>1, <4>2
    <3> QED BY <1>0, <1>1, <2>3, <3>2 DEF OnTrack, CreateOnTrack
  <2> QED BY <1>0, <1>1, <2>4, <2>5, UndoCalls
<1>2. CASE kind[s] \in {"delete", "update"}
  BY <1>0, <1>2 DEF OnTrack, DeleteOnTrack, UpdateOnTrack
<1> QED BY <1>0, <1>1, <1>2 DEF Kinds

-----------------------------------------------------------------------------
(* FreshInv is inductive.                                                  *)

LEMMA InitFresh == Init => FreshInv
  BY DEF Init, StoresInit, FreshInv, OneAtATime, InFlight, StoresFresh, RowNeedsCreate,
         EdgesHang, VectorsFresh, GraphFresh, OnTrack

\* A saga's step: what its call relies on holds, so the stores stay fresh;
\* the other sagas stand still.
LEMMA SagaStepFresh ==
  ASSUME TypeInv, FreshInv, NEW s \in Sagas, SagaStep(s)
  PROVE  FreshInv'
<1>1. /\ SagaTypeOK /\ PlaceOf(s) /\ OnTrack(s) /\ OneAtATime
      /\ StoresFresh /\ EdgesHang
  BY DEF TypeInv, TypeOK, Places, FreshInv, StoresFresh
<1>2. /\ InFlight(s) /\ kind' = kind /\ RaisedGrows
      /\ \A t \in Sagas \ {s} : status'[t] = status[t]
  <2>1. InFlight(s) /\ kind' = kind
    BY DEF SagaStep, Execute, Refuse, Raise, NoEmbeddings, EncodeRaises, Compensate,
           CompensationRaises, Advance, StepFails, NextUndo, InFlight
  <2>2. raised' = raised \/ \E st : raised' = [raised EXCEPT ![s] = @ \union {st}]
    BY DEF SagaStep, Execute, Refuse, Raise, NoEmbeddings, EncodeRaises, Compensate,
           CompensationRaises, Advance
  <2>3. RaisedGrows
    BY <1>1, <2>2 DEF RaisedGrows, SagaTypeOK
  <2>4. status' = status \/ \E x : status' = [status EXCEPT ![s] = x]
    BY DEF SagaStep, Execute, Refuse, Raise, NoEmbeddings, EncodeRaises, Compensate,
           CompensationRaises, Advance, StepFails, NextUndo
  <2>5. \A t \in Sagas \ {s} : status'[t] = status[t]
    BY <1>1, <2>4 DEF SagaTypeOK
  <2> QED BY <2>1, <2>3, <2>5
<1>3. \A t \in Sagas \ {s} : ~InFlight(t) /\ ~InFlight(t)'
  BY <1>1, <1>2 DEF OneAtATime, InFlight
<1>4. OneAtATime'
  BY <1>3 DEF OneAtATime
<1>5. \A t \in Sagas \ {s} : OnTrack(t)'
  BY <1>3 DEF InFlight, OnTrack, CreateOnTrack, DeleteOnTrack, UpdateOnTrack
<1>6. StoresFresh'
  <2>1. CASE UNCHANGED stores
    BY <1>1, <1>2, <2>1, StutterFresh
  <2>2. CASE status[s] = "executing" /\ Effect(Call(s), s)
    BY <1>1, <1>2, <2>2, CallSafe, EffectFresh
  <2>3. CASE status[s] = "compensating" /\ Effect(UndoCall(s), s)
    BY <1>1, <1>2, <2>3, UndoSafe, EffectFresh
  <2> QED BY <2>1, <2>2, <2>3 DEF SagaStep, Execute, Refuse, Raise, NoEmbeddings,
             EncodeRaises, Compensate, CompensationRaises
<1>7. OnTrack(s)'
  <2>1. CASE Execute(s)
    BY <1>1, <2>1, ExecuteOnTrack
  <2>2. CASE Refuse(s) \/ Raise(s) \/ NoEmbeddings(s)
    BY <1>1, <2>2, FailureOnTrack
  <2>3. CASE EncodeRaises(s)
    BY <1>1, <2>3
       DEF EncodeRaises, OnTrack, CreateOnTrack, DeleteOnTrack, UpdateOnTrack, SagaTypeOK
  <2>4. CASE Compensate(s) \/ CompensationRaises(s)
    BY <1>1, <2>4, UndoOnTrack
  <2> QED BY <2>1, <2>2, <2>3, <2>4 DEF SagaStep
<1> QED BY <1>4, <1>5, <1>6, <1>7 DEF FreshInv

\* A request that starts finds the document as its first step needs it.
LEMMA StartFresh ==
  ASSUME TypeInv, FreshInv, ~overlapped', NEW s \in Sagas, NEW k \in Kinds, Start(s, k)
  PROVE  FreshInv'
<1>1. /\ SagaTypeOK /\ StoresTypeOK /\ StoresFresh
      /\ status[s] = "idle" /\ at[s] = 1 /\ call[s] = 1 /\ kind[s] = "none"
      /\ \A t \in Sagas : ~InFlight(t)
  BY DEF TypeInv, TypeOK, Places, PlaceOf, FreshInv, Start
<1>2. /\ status' = [status EXCEPT ![s] = "executing"] /\ kind' = [kind EXCEPT ![s] = k]
      /\ UNCHANGED <<stores, at, call, undo, compensated, raised>>
  BY DEF Start
<1>3. \A t \in Sagas \ {s} : ~InFlight(t)' /\ OnTrack(t)'
  BY <1>1, <1>2 DEF InFlight, OnTrack, CreateOnTrack, DeleteOnTrack, UpdateOnTrack,
                    SagaTypeOK
<1>4. OneAtATime'
  BY <1>3 DEF OneAtATime
<1>5. k = "create" => pgDoc = NoDoc
  BY <1>1 DEF Start, StoresFresh, RowNeedsCreate
<1>6. k # "create" => pgDoc # NoDoc
  BY DEF Start
<1>7. StoresFresh'
  <2>1. RowNeedsCreate'
    <3>1. CASE k = "create"
      BY <1>1, <1>2, <3>1 DEF RowNeedsCreate, SagaTypeOK
    <3>2. CASE k # "create"
      <4>1. PICK t \in Sagas : kind[t] = "create"
        BY <1>1, <1>6, <3>2 DEF StoresFresh, RowNeedsCreate
      <4>2. t # s
        BY <1>1, <4>1
      <4>3. kind'[t] = "create"
        BY <1>1, <1>2, <4>1, <4>2 DEF SagaTypeOK
      <4> QED BY <4>3 DEF RowNeedsCreate
    <3> QED BY <3>1, <3>2
  <2>2. EdgesHang' /\ VectorsFresh' /\ GraphFresh'
    BY <1>1, <1>2 DEF StoresFresh, EdgesHang, VectorsFresh, GraphFresh, RaisedIn, stores
  <2> QED BY <2>1, <2>2 DEF StoresFresh
<1>8. OnTrack(s)'
  <2>1. /\ kind'[s] = k /\ status'[s] = "executing" /\ at'[s] = 1 /\ call'[s] = 1
        /\ pgDoc' = pgDoc
    BY <1>1, <1>2 DEF SagaTypeOK, stores
  <2>2. CASE k = "create"
    <3>1. pgDoc = NoDoc
      BY <1>5, <2>2
    <3>2. VecGone /\ GraphGone
      BY <1>1, <3>1, TriStoreAssumption
         DEF StoresFresh, VectorsFresh, GraphFresh, VecGone, GraphGone, StoresTypeOK
    <3>3. VecGone' /\ GraphGone'
      BY <1>2, <3>2 DEF VecGone, GraphGone, RaisedIn, stores
    <3> QED BY <2>1, <2>2, <3>1, <3>3 DEF OnTrack, CreateOnTrack
  <2>3. CASE k = "delete"
    BY <2>1, <2>3 DEF OnTrack, DeleteOnTrack
  <2>4. CASE k = "update"
    BY <1>6, <2>1, <2>4 DEF OnTrack, UpdateOnTrack
  <2> QED BY <2>2, <2>3, <2>4 DEF Kinds
<1> QED BY <1>3, <1>4, <1>7, <1>8 DEF FreshInv

\* Requests that have overlapped once have overlapped for good.
LEMMA StaysOverlapped == [Next]_vars /\ ~overlapped' => ~overlapped
  BY DEF Next, Start, SagaStep, Execute, Refuse, Raise, NoEmbeddings, EncodeRaises,
         Compensate, CompensationRaises, Advance, StepFails, NextUndo, Crash, vars, control

LEMMA NextFresh == TypeInv /\ FreshInv /\ [Next]_vars /\ ~overlapped' => FreshInv'
<1> SUFFICES ASSUME TypeInv, FreshInv, [Next]_vars, ~overlapped' PROVE FreshInv'
  OBVIOUS
<1>1. CASE \E s \in Sagas, k \in Kinds : Start(s, k)
  BY <1>1, StartFresh
<1>2. CASE \E s \in Sagas : SagaStep(s)
  BY <1>2, SagaStepFresh
<1>3. CASE Crash
  <2>1. \A s \in Sagas : ~InFlight(s)'
    BY <1>3 DEF Crash, InFlight
  <2>2. OneAtATime' /\ \A s \in Sagas : OnTrack(s)'
    BY <2>1 DEF OneAtATime, InFlight, OnTrack, CreateOnTrack, DeleteOnTrack, UpdateOnTrack
  <2>3. StoresFresh'
    BY <1>3 DEF FreshInv, StoresFresh, RowNeedsCreate, EdgesHang, VectorsFresh,
                GraphFresh, RaisedIn, Crash, stores
  <2> QED BY <2>2, <2>3 DEF FreshInv
<1>4. CASE UNCHANGED vars
  BY <1>4 DEF vars, stores, control, FreshInv, OneAtATime, InFlight, StoresFresh,
              RowNeedsCreate, EdgesHang, VectorsFresh, GraphFresh, RaisedIn, OnTrack,
              CreateOnTrack, DeleteOnTrack, UpdateOnTrack, VecGone, GraphGone
<1> QED BY <1>1, <1>2, <1>3, <1>4 DEF Next

\* Requests one after the other, vectors and CONTAINS edges belong to the
\* content of the row in every state of create, delete and update sagas,
\* compensation and crashes included, unless a call to that store raised:
\* the order of the calls in Plan and the order of compensation see to it.
THEOREM SearchStaysFresh == Spec => []SearchNeverStale
<1>1. Spec => []TypeInv
  BY InitTypeInv, NextTypeInv, PTL DEF Spec
<1>2. /\ TypeInv /\ (~overlapped => FreshInv) /\ [Next]_vars
      => (~overlapped => FreshInv)'
  BY NextFresh, StaysOverlapped
<1>3. Spec => [](~overlapped => FreshInv)
  BY <1>1, <1>2, InitFresh, PTL DEF Spec
<1>4. (~overlapped => FreshInv) => SearchNeverStale
  BY DEF FreshInv, StoresFresh, SearchNeverStale
<1> QED BY <1>3, <1>4, PTL

-----------------------------------------------------------------------------
(* What a request leaves is decided by the calls it has made so far.       *)
(* SoFar says, for every place a saga can be at, what they have left; it   *)
(* relies on no history of the document but that a row is there, which is  *)
(* why success is complete whatever earlier requests left behind.          *)

AllEmpty  == \A st \in Stores : HoldsNothing(st)
NoVectors == vectors = {}
NoGraph   == ~docNode /\ contains = {}
HasRow(s) == pgDoc = s /\ pgChunks = {s}

\* The create is the first request on its document.
FirstCreates ==
    (\A s \in Sagas : kind[s] # "create") => AllEmpty /\ \A s \in Sagas : kind[s] = "none"

CreateSoFar(s) ==
    /\ Stands(s, "create", 1, 1) => AllEmpty
    /\ Stands(s, "create", 1, 2) =>
        /\ pgDoc = (IF ConcretePg THEN NoDoc ELSE s) /\ pgChunks = {}
        /\ HoldsNothing("milvus") /\ HoldsNothing("neo4j")
    /\ Stands(s, "create", 2, 1) =>
        HasRow(s) /\ HoldsNothing("milvus") /\ HoldsNothing("neo4j")
    /\ Stands(s, "create", 3, 1) => HasRow(s) /\ vectors = {s} /\ HoldsNothing("neo4j")
    /\ Stands(s, "create", 3, 2) => HasRow(s) /\ vectors = {s} /\ docNode /\ contains = {}
    /\ Stands(s, "create", 3, 3) =>
        HasRow(s) /\ vectors = {s} /\ docNode /\ contains = {} /\ s \in chunkNodes

DeleteSoFar(s) ==
    /\ InFlight(s) /\ kind[s] = "delete" => pgDoc # NoDoc \/ "postgres" \in raised[s]
    /\ Stands(s, "delete", 2, 1) => NoGraph
    /\ Stands(s, "delete", 3, 1) => NoGraph /\ NoVectors

UpdateSoFar(s) ==
    /\ status[s] = "executing" /\ kind[s] = "update" => pgDoc # NoDoc
    /\ Stands(s, "update", 2, 1) => NoGraph
    /\ Stands(s, "update", 3, 1) => NoGraph /\ NoVectors
    /\ Stands(s, "update", 3, 2) => NoGraph /\ NoVectors /\ pgDoc = s /\ ~ConcretePg
    /\ Stands(s, "update", 3, 3) =>
        NoGraph /\ NoVectors /\ pgDoc = s /\ pgChunks = {} /\ ~ConcretePg
    /\ Stands(s, "update", 4, 1) => NoGraph /\ NoVectors /\ HasRow(s)
    /\ Stands(s, "update", 5, 1) => NoGraph /\ vectors = {s} /\ HasRow(s)
    /\ Stands(s, "update", 5, 2) => docNode /\ contains = {} /\ vectors = {s} /\ HasRow(s)
    /\ Stands(s, "update", 5, 3) =>
        docNode /\ contains = {} /\ vectors = {s} /\ HasRow(s) /\ s \in chunkNodes

\* The stores that compensation has yet to clean.
Owes(s) ==
    IF status[s] # "compensating" THEN {}
    ELSE CASE kind[s] = "create" /\ undo[s] = 2 -> {"postgres", "milvus"}
           [] kind[s] = "create" /\ undo[s] = 1 -> {"postgres"}
           [] kind[s] = "update" /\ undo[s] = 4 -> {"milvus"}
           [] OTHER -> {}

CreateUndoes(s) ==
    status[s] = "compensating" /\ kind[s] = "create" =>
        /\ HasRow(s)
        /\ \A st \in Stores \ (raised[s] \union Owes(s)) : HoldsNothing(st)

SoFar(s) == CreateSoFar(s) /\ DeleteSoFar(s) /\ UpdateSoFar(s) /\ CreateUndoes(s)

\* Row and chunk rows fit, but for the two calls of a create, and the three of
\* an update, that are transactions of their own.
PgWhole == \/ RaisedIn("postgres")
           \/ \E s \in Sagas : status[s] = "crashed"
           \/ pgChunks = {pgDoc} \ {NoDoc}
Between(s) == \/ Stands(s, "create", 1, 2)
              \/ Stands(s, "update", 3, 2) \/ Stands(s, "update", 3, 3)
WholeInv   == PgWhole \/ \E s \in Sagas : Between(s)

\* Every Chunk node has its edge, but for those of the saga that is about to
\* make it.
Waits(n)  == Stands(n, "create", 3, 3) \/ Stands(n, "update", 5, 3)
AllTied   == \A n \in chunkNodes : n \in contains \/ Waits(n)
TiedInv   == \/ RaisedIn("neo4j")
             \/ \E s \in Sagas : status[s] = "crashed"
             \/ AllTied

SerialInv == FirstCreates /\ WholeInv /\ TiedInv /\ \A s \in Sagas : SoFar(s)

-----------------------------------------------------------------------------
(* A call that succeeds.                                                   *)

LEMMA Nothing ==
    /\ HoldsNothing("postgres") <=> pgDoc = NoDoc /\ pgChunks = {}
    /\ HoldsNothing("milvus") <=> vectors = {}
    /\ HoldsNothing("neo4j") <=> ~docNode /\ chunkNodes = {} /\ contains = {}
    /\ AllEmpty <=> HoldsNothing("postgres") /\ HoldsNothing("milvus") /\ HoldsNothing("neo4j")
  BY DEF HoldsNothing, AllEmpty, Stores

\* What a saga has left when it reports success.
Complete(s) ==
    IF kind[s] = "delete" THEN Deleted ELSE HoldsExactly(s)

LEMMA ExecuteSoFar ==
  ASSUME TypeInv, EdgesHang, NEW s \in Sagas, Execute(s), SoFar(s)
  PROVE  SoFar(s)' /\ (status'[s] = "success" => Complete(s)')
<1>0. CreateSoFar(s) /\ DeleteSoFar(s) /\ UpdateSoFar(s) /\ raised' = raised
  BY DEF SoFar, Execute, Advance
<1>1. CASE CreateMoves(s)
  <2>1. CASE Stands(s, "create", 1, 1) /\ CreateDocument(s) /\ Stands(s, "create", 1, 2)'
    BY <1>0, <2>1, Nothing
       DEF CreateDocument, graph, Stands, SoFar, CreateSoFar, DeleteSoFar, UpdateSoFar,
           CreateUndoes, InFlight, HoldsNothing
  <2>2. CASE Stands(s, "create", 1, 2) /\ CreateChunks(s) /\ Stands(s, "create", 2, 1)'
    BY <1>0, <2>2, Nothing
       DEF CreateChunks, graph, Stands, SoFar, CreateSoFar, DeleteSoFar, UpdateSoFar,
           CreateUndoes, InFlight, HoldsNothing, HasRow
  <2>3. CASE Stands(s, "create", 2, 1) /\ InsertChunks(s) /\ Stands(s, "create", 3, 1)'
    BY <1>0, <2>3, Nothing
       DEF InsertChunks, pg, graph, Stands, SoFar, CreateSoFar, DeleteSoFar, UpdateSoFar,
           CreateUndoes, InFlight, HoldsNothing, HasRow
  <2>4. CASE Stands(s, "create", 3, 1) /\ CreateDocumentNode /\ Stands(s, "create", 3, 2)'
    BY <1>0, <2>4, Nothing
       DEF CreateDocumentNode, pg, Stands, SoFar, CreateSoFar, DeleteSoFar, UpdateSoFar,
           CreateUndoes, InFlight, HasRow
  <2>5. CASE Stands(s, "create", 3, 2) /\ CreateChunkNodes(s) /\ Stands(s, "create", 3, 3)'
    BY <1>0, <2>5, Nothing
       DEF CreateChunkNodes, pg, Stands, SoFar, CreateSoFar, DeleteSoFar, UpdateSoFar,
           CreateUndoes, InFlight, HasRow
  <2>6. CASE Stands(s, "create", 3, 3) /\ CreateContainsEdges(s) /\ Succeeds(s, "create")
    BY <1>0, <2>6
       DEF CreateContainsEdges, pg, Stands, Succeeds, SoFar, CreateSoFar, DeleteSoFar,
           UpdateSoFar, CreateUndoes, InFlight, HasRow, Complete, HoldsExactly
  <2> QED BY <1>1, <2>1, <2>2, <2>3, <2>4, <2>5, <2>6 DEF CreateMoves
<1>2. CASE DeleteMoves(s)
  <2>1. CASE Stands(s, "delete", 1, 1) /\ DeleteDocumentGraph /\ Stands(s, "delete", 2, 1)'
    BY <1>0, <2>1
       DEF DeleteDocumentGraph, pg, EdgesHang, Stands, SoFar, CreateSoFar, DeleteSoFar,
           UpdateSoFar, CreateUndoes, InFlight, NoGraph
  <2>2. CASE Stands(s, "delete", 2, 1) /\ DeleteByDocUuid /\ Stands(s, "delete", 3, 1)'
    BY <1>0, <2>2
       DEF DeleteByDocUuid, pg, graph, Stands, SoFar, CreateSoFar, DeleteSoFar,
           UpdateSoFar, CreateUndoes, InFlight, NoGraph, NoVectors
  <2>3. CASE Stands(s, "delete", 3, 1) /\ DeleteDocument /\ Succeeds(s, "delete")
    BY <1>0, <2>3
       DEF DeleteDocument, graph, Stands, Succeeds, SoFar, CreateSoFar, DeleteSoFar,
           UpdateSoFar, CreateUndoes, InFlight, NoGraph, NoVectors, Complete, Deleted
  <2> QED BY <1>2, <2>1, <2>2, <2>3 DEF DeleteMoves
<1>3. CASE UpdateMoves(s)
  <2>0. pgDoc # NoDoc /\ s # NoDoc
    BY <1>0, <1>3, TriStoreAssumption DEF UpdateMoves, Stands, UpdateSoFar
  <2>1. CASE Stands(s, "update", 1, 1) /\ DeleteDocumentGraph /\ Stands(s, "update", 2, 1)'
    BY <1>0, <2>0, <2>1
       DEF DeleteDocumentGraph, pg, EdgesHang, Stands, SoFar, CreateSoFar, DeleteSoFar,
           UpdateSoFar, CreateUndoes, InFlight, NoGraph
  <2>2. CASE Stands(s, "update", 2, 1) /\ DeleteByDocUuid /\ Stands(s, "update", 3, 1)'
    BY <1>0, <2>0, <2>2
       DEF DeleteByDocUuid, pg, graph, Stands, SoFar, CreateSoFar, DeleteSoFar,
           UpdateSoFar, CreateUndoes, InFlight, NoGraph, NoVectors
  <2>3. CASE Stands(s, "update", 3, 1) /\ UpdateDocument(s) /\ Stands(s, "update", 3, 2)'
    BY <1>0, <2>0, <2>3
       DEF UpdateDocument, graph, Stands, SoFar, CreateSoFar, DeleteSoFar,
           UpdateSoFar, CreateUndoes, InFlight, NoGraph, NoVectors
  <2>4. CASE Stands(s, "update", 3, 2) /\ DeleteChunksByDoc /\ Stands(s, "update", 3, 3)'
    BY <1>0, <2>0, <2>4
       DEF DeleteChunksByDoc, graph, Stands, SoFar, CreateSoFar, DeleteSoFar,
           UpdateSoFar, CreateUndoes, InFlight, NoGraph, NoVectors
  <2>5. CASE Stands(s, "update", 3, 3) /\ CreateChunks(s) /\ Stands(s, "update", 4, 1)'
    BY <1>0, <2>0, <2>5
       DEF CreateChunks, graph, Stands, SoFar, CreateSoFar, DeleteSoFar,
           UpdateSoFar, CreateUndoes, InFlight, NoGraph, NoVectors, HasRow
  <2>6. CASE Stands(s, "update", 4, 1) /\ InsertChunks(s) /\ Stands(s, "update", 5, 1)'
    BY <1>0, <2>0, <2>6
       DEF InsertChunks, pg, graph, Stands, SoFar, CreateSoFar, DeleteSoFar,
           UpdateSoFar, CreateUndoes, InFlight, NoGraph, NoVectors, HasRow
  <2>7. CASE Stands(s, "update", 5, 1) /\ CreateDocumentNode /\ Stands(s, "update", 5, 2)'
    BY <1>0, <2>0, <2>7
       DEF CreateDocumentNode, pg, Stands, SoFar, CreateSoFar, DeleteSoFar,
           UpdateSoFar, CreateUndoes, InFlight, NoGraph, HasRow
  <2>8. CASE Stands(s, "update", 5, 2) /\ CreateChunkNodes(s) /\ Stands(s, "update", 5, 3)'
    BY <1>0, <2>0, <2>8
       DEF CreateChunkNodes, pg, Stands, SoFar, CreateSoFar, DeleteSoFar,
           UpdateSoFar, CreateUndoes, InFlight, HasRow
  <2>9. CASE Stands(s, "update", 5, 3) /\ CreateContainsEdges(s) /\ Succeeds(s, "update")
    BY <1>0, <2>0, <2>9
       DEF CreateContainsEdges, pg, Stands, Succeeds, SoFar, CreateSoFar, DeleteSoFar,
           UpdateSoFar, CreateUndoes, InFlight, HasRow, Complete, HoldsExactly
  <2> QED BY <1>3, <2>1, <2>2, <2>3, <2>4, <2>5, <2>6, <2>7, <2>8, <2>9 DEF UpdateMoves
<1> QED BY <1>1, <1>2, <1>3, ExecuteMoves

\* The edges come for the nodes that wait for them, and for no others do nodes
\* lose theirs.
LEMMA ExecuteTies ==
  ASSUME TypeInv, EdgesHang, NEW s \in Sagas, Execute(s), SoFar(s), AllTied,
         \A t \in Sagas \ {s} : ~InFlight(t)
  PROVE  AllTied'
<1>0. chunkNodes \subseteq Sagas /\ CreateSoFar(s) /\ UpdateSoFar(s)
  BY DEF TypeInv, TypeOK, StoresTypeOK, SoFar
<1>1. \A n \in Sagas : Waits(n) => n = s
  BY DEF Waits, Stands, InFlight
<1>2. CASE Waits(s)
  <2>1. CreateContainsEdges(s) /\ docNode
    BY <1>0, <1>2, ExecuteMoves
       DEF Waits, Stands, CreateMoves, DeleteMoves, UpdateMoves, CreateSoFar, UpdateSoFar
  <2>2. chunkNodes' = chunkNodes /\ contains' = contains \union ({s} \intersect chunkNodes)
    BY <2>1 DEF CreateContainsEdges
  <2> QED BY <1>0, <1>1, <2>2 DEF AllTied
<1>3. CASE ~Waits(s)
  <2>1. chunkNodes \subseteq contains
    BY <1>0, <1>1, <1>3 DEF AllTied
  <2>2. \/ UNCHANGED graph \/ CreateDocumentNode \/ DeleteDocumentGraph
        \/ CreateChunkNodes(s) /\ Waits(s)'
    BY <1>3, ExecuteMoves
       DEF Waits, Stands, CreateMoves, DeleteMoves, UpdateMoves, CreateDocument, CreateChunks,
           InsertChunks, UpdateDocument, DeleteChunksByDoc, DeleteByDocUuid, DeleteDocument
  <2>3. CASE UNCHANGED graph \/ CreateDocumentNode
    BY <2>1, <2>3 DEF graph, CreateDocumentNode, AllTied
  <2>4. CASE DeleteDocumentGraph
    BY <2>1, <2>4 DEF DeleteDocumentGraph, AllTied
  <2>5. CASE CreateChunkNodes(s) /\ Waits(s)'
    BY <2>1, <2>5 DEF CreateChunkNodes, AllTied
  <2> QED BY <2>2, <2>3, <2>4, <2>5
<1> QED BY <1>2, <1>3

-----------------------------------------------------------------------------
(* A step that fails.                                                      *)

Fails(s) == Refuse(s) \/ Raise(s) \/ NoEmbeddings(s)

\* A call touches no store but its own.
LEMMA EffectStore ==
  ASSUME NEW s, NEW c, Effect(c, s)
  PROVE  /\ StoreOf(c) # "postgres" => pgDoc' = pgDoc /\ pgChunks' = pgChunks
         /\ StoreOf(c) # "milvus" => vectors' = vectors
         /\ StoreOf(c) # "neo4j" =>
                docNode' = docNode /\ chunkNodes' = chunkNodes /\ contains' = contains
  BY DEF StoreOf, Effect, CreateDocument, CreateChunks, UpdateDocument,
         DeleteChunksByDoc, DeleteDocument, InsertChunks, DeleteByDocUuid,
         CreateDocumentNode, CreateChunkNodes, CreateContainsEdges,
         DeleteDocumentGraph, pg, graph

\* The store that each place's call goes to, and what its call is named where
\* the database may refuse it.
LEMMA PlaceStores ==
  ASSUME NEW s \in Sagas, PlaceOf(s), status[s] = "executing"
  PROVE  \/ Stands(s, "create", 1, 1) /\ Call(s) = "create_document"
         \/ Stands(s, "create", 1, 2) /\ Call(s) = "create_chunks"
         \/ Stands(s, "create", 2, 1) /\ Call(s) = "insert_chunks"
         \/ kind[s] = "create" /\ at[s] = 3 /\ StoreOf(Call(s)) = "neo4j" /\ ~Refused(Call(s))
         \/ Stands(s, "delete", 1, 1) /\ Call(s) = "delete_document_graph"
         \/ Stands(s, "delete", 2, 1) /\ Call(s) = "delete_by_doc_uuid"
         \/ Stands(s, "delete", 3, 1) /\ Call(s) = "delete_document"
         \/ Stands(s, "update", 1, 1) /\ Call(s) = "delete_document_graph"
         \/ Stands(s, "update", 2, 1) /\ Call(s) = "delete_by_doc_uuid"
         \/ Stands(s, "update", 3, 1) /\ Call(s) = "update_document"
         \/ Stands(s, "update", 3, 2) /\ Call(s) = "delete_chunks_by_doc"
         \/ Stands(s, "update", 3, 3) /\ Call(s) = "create_chunks"
         \/ Stands(s, "update", 4, 1) /\ Call(s) = "insert_chunks"
         \/ kind[s] = "update" /\ at[s] = 5 /\ StoreOf(Call(s)) = "neo4j" /\ ~Refused(Call(s))
<1>0. InFlight(s) /\ kind[s] \in Kinds
  BY DEF PlaceOf, InFlight
<1>1. CASE kind[s] = "create"
  BY <1>0, <1>1, CreateLocations DEF Located, Stands, StoreOf, Refused
<1>2. CASE kind[s] = "delete"
  BY <1>0, <1>2, DeleteLocations DEF Located, Stands
<1>3. CASE kind[s] = "update"
  BY <1>0, <1>3, UpdateLocations DEF Located, Stands, StoreOf, Refused
<1> QED BY <1>0, <1>1, <1>2, <1>3 DEF Kinds

\* What any failing step does and leaves alone.
LEMMA FailFrame ==
  ASSUME SagaTypeOK, NEW s \in Sagas, PlaceOf(s), Fails(s)
  PROVE  /\ status[s] = "executing" /\ kind' = kind /\ at' = at
         /\ undo'[s] = at[s] - 1
         /\ status'[s] = IF at[s] > UndoTo(kind[s], at[s]) THEN "compensating" ELSE "failed"
         /\ raised[s] \subseteq raised'[s]
         /\ \/ StoreOf(Call(s)) \in raised'[s]
            \/ UNCHANGED stores /\ (Refused(Call(s)) \/ StoreOf(Call(s)) = "milvus")
         /\ StoreOf(Call(s)) # "postgres" => pgDoc' = pgDoc /\ pgChunks' = pgChunks
         /\ StoreOf(Call(s)) # "milvus" => vectors' = vectors
         /\ StoreOf(Call(s)) # "neo4j" =>
                docNode' = docNode /\ chunkNodes' = chunkNodes /\ contains' = contains
<1>1. /\ status[s] = "executing" /\ kind' = kind /\ at' = at
      /\ undo'[s] = at[s] - 1
      /\ status'[s] = IF at[s] > UndoTo(kind[s], at[s]) THEN "compensating" ELSE "failed"
  BY DEF Fails, Refuse, Raise, NoEmbeddings, StepFails, SagaTypeOK
<1>2. /\ raised[s] \subseteq raised'[s]
      /\ \/ StoreOf(Call(s)) \in raised'[s]
         \/ UNCHANGED stores /\ (Refused(Call(s)) \/ Step(s) = "milvus_create")
  BY DEF Fails, Refuse, Raise, NoEmbeddings, SagaTypeOK
<1>3. Step(s) = "milvus_create" => StoreOf(Call(s)) = "milvus"
  <2>1. SUFFICES ASSUME Step(s) = "milvus_create" PROVE Call(s) = "insert_chunks"
    BY DEF StoreOf
  <2>2. call[s] \in 1..1
    BY <1>1, <2>1, CallValues DEF PlaceOf, InFlight
  <2> QED BY <2>1, <2>2, CallValues DEF Call
<1>4. UNCHANGED stores \/ Effect(Call(s), s)
  BY DEF Fails, Refuse, Raise, NoEmbeddings
<1>5. CASE UNCHANGED stores
  BY <1>1, <1>2, <1>3, <1>5 DEF stores
<1>6. CASE Effect(Call(s), s)
  BY <1>1, <1>2, <1>3, <1>6, EffectStore
<1> QED BY <1>4, <1>5, <1>6

LEMMA FailSoFar ==
  ASSUME SagaTypeOK, NEW s \in Sagas, PlaceOf(s), SoFar(s), Fails(s)
  PROVE  /\ SoFar(s)'
         /\ kind[s] = "create" /\ status'[s] = "failed" =>
                \A st \in Stores \ raised'[s] : HoldsNothing(st)'
<1> DEFINE d == StoreOf(Call(s))
<1>0. /\ status[s] = "executing" /\ kind' = kind /\ at' = at /\ undo'[s] = at[s] - 1
      /\ status'[s] = IF at[s] > UndoTo(kind[s], at[s]) THEN "compensating" ELSE "failed"
      /\ raised[s] \subseteq raised'[s]
      /\ d \in raised'[s] \/ (UNCHANGED stores /\ (Refused(Call(s)) \/ d = "milvus"))
      /\ d # "postgres" => pgDoc' = pgDoc /\ pgChunks' = pgChunks
      /\ d # "milvus" => vectors' = vectors
      /\ d # "neo4j" => docNode' = docNode /\ chunkNodes' = chunkNodes /\ contains' = contains
  BY FailFrame
<1>a. CreateSoFar(s) /\ DeleteSoFar(s)
  BY DEF SoFar
<1>b. \A k, i, j : ~Stands(s, k, i, j)'
  BY <1>0 DEF Stands
<1>c. CreateSoFar(s)' /\ UpdateSoFar(s)'
  BY <1>0, <1>b DEF CreateSoFar, UpdateSoFar
<1>d. kind[s] # "delete" => DeleteSoFar(s)'
  BY <1>0, <1>b DEF DeleteSoFar
<1>1. CASE kind[s] = "create" /\ at[s] = 1
  <2>1. status'[s] = "failed"
    BY <1>0, <1>1 DEF UndoTo
  <2>2. d = "postgres" /\ HoldsNothing("milvus") /\ HoldsNothing("neo4j")
    BY <1>0, <1>a, <1>1, PlaceStores, Nothing DEF Stands, StoreOf, CreateSoFar
  <2>3. "postgres" \notin raised'[s] => HoldsNothing("postgres")'
    <3>1. SUFFICES ASSUME "postgres" \notin raised'[s] PROVE HoldsNothing("postgres")'
      OBVIOUS
    <3>2. UNCHANGED stores /\ Refused(Call(s))
      BY <1>0, <2>2, <3>1
    <3>3. Stands(s, "create", 1, 2) /\ (ConcretePg \/ pgDoc = NoDoc)
      BY <1>0, <1>1, <3>2, PlaceStores DEF Stands, Refused
    <3>4. pgDoc = NoDoc /\ pgChunks = {}
      BY <1>a, <3>3 DEF CreateSoFar
    <3> QED BY <3>2, <3>4 DEF HoldsNothing, stores
  <2>4. HoldsNothing("milvus")' /\ HoldsNothing("neo4j")'
    BY <1>0, <2>2 DEF HoldsNothing
  <2>5. \A st \in Stores \ raised'[s] : HoldsNothing(st)'
    BY <2>3, <2>4 DEF Stores
  <2>6. CreateUndoes(s)'
    BY <2>1 DEF CreateUndoes
  <2> QED BY <1>1, <1>c, <1>d, <2>5, <2>6 DEF SoFar
<1>2. CASE kind[s] = "create" /\ at[s] = 2
  <2>1. status'[s] = "compensating" /\ undo'[s] = 1
    BY <1>0, <1>2 DEF UndoTo
  <2>2. Stands(s, "create", 2, 1) /\ d = "milvus"
    BY <1>0, <1>2, PlaceStores DEF Stands, StoreOf
  <2>3. HasRow(s)' /\ HoldsNothing("neo4j")'
    BY <1>0, <1>a, <2>2 DEF CreateSoFar, HasRow, HoldsNothing
  <2>4. "milvus" \in raised'[s] \/ HoldsNothing("milvus")'
    BY <1>0, <1>a, <2>2 DEF CreateSoFar, HoldsNothing, stores
  <2>5. Owes(s)' = {"postgres"}
    BY <1>0, <1>2, <2>1 DEF Owes
  <2>6. CreateUndoes(s)'
    BY <2>3, <2>4, <2>5 DEF CreateUndoes, Stores
  <2> QED BY <1>2, <1>c, <1>d, <2>1, <2>6 DEF SoFar
<1>3. CASE kind[s] = "create" /\ at[s] = 3
  <2>1. status'[s] = "compensating" /\ undo'[s] = 2
    BY <1>0, <1>3 DEF UndoTo
  <2>2. d = "neo4j" /\ ~Refused(Call(s))
    BY <1>0, <1>3, PlaceStores DEF Stands
  <2>3. HasRow(s)
    BY <1>0, <1>3, <1>a, CreateLocations DEF CreateSoFar, Stands, Located, InFlight
  <2>4. HasRow(s)' /\ "neo4j" \in raised'[s]
    BY <1>0, <2>2, <2>3 DEF HasRow
  <2>5. Owes(s)' = {"postgres", "milvus"}
    BY <1>0, <1>3, <2>1 DEF Owes
  <2>6. CreateUndoes(s)'
    BY <2>4, <2>5 DEF CreateUndoes, Stores
  <2> QED BY <1>3, <1>c, <1>d, <2>1, <2>6 DEF SoFar
<1>4. CASE kind[s] = "delete"
  <2>1. pgDoc # NoDoc \/ "postgres" \in raised[s]
    BY <1>0, <1>4, <1>a DEF DeleteSoFar, InFlight
  <2>2. pgDoc' = pgDoc \/ "postgres" \in raised'[s]
    BY <1>0 DEF stores
  <2>3. DeleteSoFar(s)'
    BY <1>0, <1>b, <2>1, <2>2 DEF DeleteSoFar
  <2> QED BY <1>0, <1>4, <1>c, <2>3 DEF SoFar, CreateUndoes
<1>5. CASE kind[s] = "update"
  BY <1>0, <1>5, <1>c, <1>d DEF SoFar, CreateUndoes
<1>6. \/ kind[s] = "create" /\ at[s] \in {1, 2, 3}
      \/ kind[s] = "delete" \/ kind[s] = "update"
  BY <1>0, PlaceStores DEF Stands
<1> QED BY <1>1, <1>2, <1>3, <1>4, <1>5, <1>6

-----------------------------------------------------------------------------
(* A compensation.                                                         *)

Undoes(s) == Compensate(s) \/ CompensationRaises(s)

\* What any compensation does and leaves alone.
LEMMA UndoFrame ==
  ASSUME SagaTypeOK, NEW s \in Sagas, Undoes(s)
  PROVE  /\ status[s] = "compensating" /\ kind' = kind /\ at' = at
         /\ undo'[s] = undo[s] - 1
         /\ status'[s] = IF undo[s] = UndoTo(kind[s], at[s]) THEN "failed" ELSE "compensating"
         /\ raised[s] \subseteq raised'[s]
         /\ UndoCall(s) = "no call" => UNCHANGED stores
         /\ UndoCall(s) # "no call" =>
               /\ StoreOf(UndoCall(s)) \in raised'[s] \/ Effect(UndoCall(s), s)
               /\ StoreOf(UndoCall(s)) # "postgres" => pgDoc' = pgDoc /\ pgChunks' = pgChunks
               /\ StoreOf(UndoCall(s)) # "milvus" => vectors' = vectors
               /\ StoreOf(UndoCall(s)) # "neo4j" =>
                    docNode' = docNode /\ chunkNodes' = chunkNodes /\ contains' = contains
<1>1. /\ status[s] = "compensating" /\ kind' = kind /\ at' = at
      /\ undo'[s] = undo[s] - 1
      /\ status'[s] = IF undo[s] = UndoTo(kind[s], at[s]) THEN "failed" ELSE "compensating"
  BY DEF Undoes, Compensate, CompensationRaises, NextUndo, SagaTypeOK
<1>2. /\ raised[s] \subseteq raised'[s]
      /\ UndoCall(s) = "no call" => UNCHANGED stores
      /\ UndoCall(s) # "no call" =>
            StoreOf(UndoCall(s)) \in raised'[s] \/ Effect(UndoCall(s), s)
  BY DEF Undoes, Compensate, CompensationRaises, SagaTypeOK
<1>3. UNCHANGED stores \/ Effect(UndoCall(s), s)
  BY DEF Undoes, Compensate, CompensationRaises
<1>4. CASE UNCHANGED stores
  BY <1>1, <1>2, <1>4 DEF stores
<1>5. CASE Effect(UndoCall(s), s)
  BY <1>1, <1>2, <1>5, EffectStore
<1> QED BY <1>3, <1>4, <1>5

LEMMA UndoSoFar ==
  ASSUME SagaTypeOK, NEW s \in Sagas, PlaceOf(s), SoFar(s), Undoes(s)
  PROVE  /\ SoFar(s)'
         /\ kind[s] = "create" /\ status'[s] = "failed" =>
                \A st \in Stores \ raised'[s] : HoldsNothing(st)'
<1>0. /\ status[s] = "compensating" /\ kind' = kind /\ at' = at /\ undo'[s] = undo[s] - 1
      /\ status'[s] = IF undo[s] = UndoTo(kind[s], at[s]) THEN "failed" ELSE "compensating"
      /\ raised[s] \subseteq raised'[s]
      /\ UndoCall(s) = "no call" => UNCHANGED stores
      /\ UndoCall(s) # "no call" =>
            /\ StoreOf(UndoCall(s)) \in raised'[s] \/ Effect(UndoCall(s), s)
            /\ StoreOf(UndoCall(s)) # "postgres" => pgDoc' = pgDoc /\ pgChunks' = pgChunks
            /\ StoreOf(UndoCall(s)) # "milvus" => vectors' = vectors
            /\ StoreOf(UndoCall(s)) # "neo4j" =>
                 docNode' = docNode /\ chunkNodes' = chunkNodes /\ contains' = contains
  BY UndoFrame
<1>a. status[s] = "compensating" /\ undo'[s] = undo[s] - 1
  BY <1>0
<1>b. \A k, i, j : ~Stands(s, k, i, j)'
  BY <1>0 DEF Stands
<1>c. CreateSoFar(s)' /\ UpdateSoFar(s)'
  BY <1>0, <1>b DEF CreateSoFar, UpdateSoFar
<1>d. kind[s] # "delete" => DeleteSoFar(s)'
  BY <1>0, <1>b DEF DeleteSoFar
<1>1. CASE kind[s] = "create" /\ undo[s] = 2
  <2>1. /\ UndoCall(s) = "delete_by_doc_uuid" /\ undo'[s] = 1
        /\ status'[s] = "compensating"
    <3>1. UndoCall(s) = "delete_by_doc_uuid"
      <4>1. undo[s] # 1 /\ kind[s] # "delete" /\ kind[s] # "update"
        BY <1>1
      <4> QED BY <1>a, <4>1, UndoCalls
    <3>2. UndoTo(kind[s], at[s]) = 1
      BY <1>1 DEF UndoTo
    <3>3. undo'[s] = 1
      BY <1>a, <1>1
    <3>4. status'[s] = "compensating"
      <4>1. undo[s] # UndoTo(kind[s], at[s])
        BY <1>1, <3>2
      <4> QED BY <1>0, <4>1
    <3> QED BY <3>1, <3>3, <3>4
  <2>2. StoreOf(UndoCall(s)) = "milvus" /\ UndoCall(s) # "no call"
    BY <2>1 DEF StoreOf
  <2>3. Owes(s) = {"postgres", "milvus"} /\ Owes(s)' = {"postgres"}
    BY <1>0, <1>1, <2>1 DEF Owes
  <2>4. HasRow(s) /\ ("neo4j" \in raised[s] \/ HoldsNothing("neo4j"))
    BY <1>0, <1>1, <2>3 DEF SoFar, CreateUndoes, Stores
  <2>5. HasRow(s)' /\ ("neo4j" \in raised'[s] \/ HoldsNothing("neo4j")')
    <3>1. /\ pgDoc' = pgDoc /\ pgChunks' = pgChunks
          /\ docNode' = docNode /\ chunkNodes' = chunkNodes /\ contains' = contains
          /\ raised[s] \subseteq raised'[s]
      BY <1>0, <2>2
    <3> QED BY <2>4, <3>1 DEF HasRow, HoldsNothing
  <2>6. "milvus" \in raised'[s] \/ HoldsNothing("milvus")'
    BY <1>0, <2>1, <2>2 DEF HoldsNothing, Effect, DeleteByDocUuid
  <2>7. CreateUndoes(s)'
    BY <2>3, <2>5, <2>6 DEF CreateUndoes, Stores
  <2> QED BY <1>1, <1>c, <1>d, <2>1, <2>7 DEF SoFar
<1>2. CASE kind[s] = "create" /\ undo[s] = 1
  <2>1. UndoCall(s) = "delete_document" /\ status'[s] = "failed"
    <3>1. UndoCall(s) = "delete_document"
      <4>1. undo[s] # 2 /\ kind[s] # "delete" /\ kind[s] # "update"
        BY <1>2
      <4> QED BY <1>a, <4>1, UndoCalls
    <3>2. UndoTo(kind[s], at[s]) = 1
      BY <1>2 DEF UndoTo
    <3>3. status'[s] = "failed"
      <4>1. undo[s] = UndoTo(kind[s], at[s])
        BY <1>2, <3>2
      <4> QED BY <1>0, <4>1
    <3> QED BY <3>1, <3>3
  <2>2. StoreOf(UndoCall(s)) = "postgres" /\ UndoCall(s) # "no call"
    BY <2>1 DEF StoreOf
  <2>3. Owes(s) = {"postgres"}
    <3>1. status[s] = "compensating"
      BY <1>0
    <3> QED BY <1>2, <3>1 DEF Owes
  <2>4. /\ "neo4j" \in raised[s] \/ HoldsNothing("neo4j")
        /\ "milvus" \in raised[s] \/ HoldsNothing("milvus")
    BY <1>0, <1>2, <2>3 DEF SoFar, CreateUndoes, Stores
  <2>5. /\ "neo4j" \in raised'[s] \/ HoldsNothing("neo4j")'
        /\ "milvus" \in raised'[s] \/ HoldsNothing("milvus")'
    <3>1. /\ vectors' = vectors /\ raised[s] \subseteq raised'[s]
          /\ docNode' = docNode /\ chunkNodes' = chunkNodes /\ contains' = contains
      BY <1>0, <2>2
    <3> QED BY <2>4, <3>1 DEF HoldsNothing
  <2>6. "postgres" \in raised'[s] \/ HoldsNothing("postgres")'
    BY <1>0, <2>1, <2>2 DEF HoldsNothing, Effect, DeleteDocument
  <2>7. \A st \in Stores \ raised'[s] : HoldsNothing(st)'
    BY <2>5, <2>6 DEF Stores
  <2> QED BY <1>2, <1>c, <1>d, <2>1, <2>7 DEF SoFar, CreateUndoes
<1>3. CASE kind[s] = "delete"
  <2>1. pgDoc # NoDoc \/ "postgres" \in raised[s]
    BY <1>0, <1>3 DEF SoFar, DeleteSoFar, InFlight
  <2>2. pgDoc' = pgDoc
    BY <1>0, <1>3, UndoCalls DEF stores
  <2>3. DeleteSoFar(s)'
    BY <1>0, <1>b, <2>1, <2>2 DEF DeleteSoFar
  <2> QED BY <1>0, <1>3, <1>c, <2>3 DEF SoFar, CreateUndoes
<1>4. CASE kind[s] = "update"
  BY <1>0, <1>4, <1>c, <1>d DEF SoFar, CreateUndoes
<1> QED BY <1>0, <1>1, <1>2, <1>3, <1>4, UndoCalls

-----------------------------------------------------------------------------
(* Row and chunk rows.                                                     *)

Fits == pgChunks = {pgDoc} \ {NoDoc}

LEMMA ExecuteFits ==
  ASSUME TypeInv, NEW s \in Sagas, Execute(s), SoFar(s), Fits \/ Between(s)
  PROVE  Fits' \/ Between(s)'
<1>0. CreateSoFar(s) /\ UpdateSoFar(s) /\ s # NoDoc
  BY TriStoreAssumption DEF SoFar
<1>1. CASE CreateMoves(s)
  <2>1. CASE Stands(s, "create", 1, 1) /\ CreateDocument(s) /\ Stands(s, "create", 1, 2)'
    BY <2>1 DEF Between
  <2>2. CASE Stands(s, "create", 1, 2) /\ CreateChunks(s)
    BY <1>0, <2>2 DEF CreateSoFar, CreateChunks, Fits
  <2>3. CASE /\ \/ Stands(s, "create", 2, 1) /\ InsertChunks(s)
                \/ Stands(s, "create", 3, 1) /\ CreateDocumentNode
                \/ Stands(s, "create", 3, 2) /\ CreateChunkNodes(s)
                \/ Stands(s, "create", 3, 3) /\ CreateContainsEdges(s)
    <3>1. pgDoc' = pgDoc /\ pgChunks' = pgChunks
      BY <2>3 DEF InsertChunks, CreateDocumentNode, CreateChunkNodes, CreateContainsEdges, pg
    <3>2. ~Between(s)
      BY <2>3 DEF Between, Stands
    <3> QED BY <3>1, <3>2 DEF Fits
  <2> QED BY <1>1, <2>1, <2>2, <2>3 DEF CreateMoves
<1>2. CASE DeleteMoves(s)
  <2>1. CASE Stands(s, "delete", 3, 1) /\ DeleteDocument
    BY <2>1 DEF DeleteDocument, Fits
  <2>2. CASE \/ Stands(s, "delete", 1, 1) /\ DeleteDocumentGraph
             \/ Stands(s, "delete", 2, 1) /\ DeleteByDocUuid
    <3>1. pgDoc' = pgDoc /\ pgChunks' = pgChunks
      BY <2>2 DEF DeleteDocumentGraph, DeleteByDocUuid, pg
    <3>2. ~Between(s)
      BY <2>2 DEF Between, Stands
    <3> QED BY <3>1, <3>2 DEF Fits
  <2> QED BY <1>2, <2>1, <2>2 DEF DeleteMoves
<1>3. CASE UpdateMoves(s)
  <2>1. CASE Stands(s, "update", 3, 1) \/ Stands(s, "update", 3, 2)
    <3>1. Stands(s, "update", 3, 2)' \/ Stands(s, "update", 3, 3)'
      <4>1. /\ ~Stands(s, "update", 1, 1) /\ ~Stands(s, "update", 2, 1)
            /\ ~Stands(s, "update", 3, 3) /\ ~Stands(s, "update", 4, 1)
            /\ ~Stands(s, "update", 5, 1) /\ ~Stands(s, "update", 5, 2)
            /\ ~Stands(s, "update", 5, 3)
        BY <2>1 DEF Stands
      <4> QED BY <1>3, <4>1 DEF UpdateMoves
    <3> QED BY <3>1 DEF Between
  <2>2. CASE Stands(s, "update", 3, 3) /\ CreateChunks(s)
    BY <1>0, <2>2 DEF UpdateSoFar, CreateChunks, Fits
  <2>3. CASE \/ Stands(s, "update", 1, 1) /\ DeleteDocumentGraph
             \/ Stands(s, "update", 2, 1) /\ DeleteByDocUuid
             \/ Stands(s, "update", 4, 1) /\ InsertChunks(s)
             \/ Stands(s, "update", 5, 1) /\ CreateDocumentNode
             \/ Stands(s, "update", 5, 2) /\ CreateChunkNodes(s)
             \/ Stands(s, "update", 5, 3) /\ CreateContainsEdges(s)
    <3>1. pgDoc' = pgDoc /\ pgChunks' = pgChunks
      BY <2>3 DEF DeleteDocumentGraph, DeleteByDocUuid, InsertChunks, CreateDocumentNode,
                  CreateChunkNodes, CreateContainsEdges, pg
    <3>2. ~Between(s)
      BY <2>3 DEF Between, Stands
    <3> QED BY <3>1, <3>2 DEF Fits
  <2> QED BY <1>3, <2>1, <2>2, <2>3 DEF UpdateMoves
<1> QED BY <1>1, <1>2, <1>3, ExecuteMoves

LEMMA FailFits ==
  ASSUME SagaTypeOK, NEW s \in Sagas, PlaceOf(s), Fails(s), SoFar(s), Fits \/ Between(s)
  PROVE  Fits' \/ "postgres" \in raised'[s]
<1>0. /\ status[s] = "executing"
      /\ StoreOf(Call(s)) \in raised'[s]
           \/ (UNCHANGED stores /\ (Refused(Call(s)) \/ StoreOf(Call(s)) = "milvus"))
      /\ StoreOf(Call(s)) # "postgres" => pgDoc' = pgDoc /\ pgChunks' = pgChunks
  BY FailFrame
<1>1. CASE Between(s)
  <2>1. StoreOf(Call(s)) = "postgres"
    BY <1>0, <1>1, PlaceStores DEF Between, Stands, StoreOf
  <2>2. SUFFICES ASSUME "postgres" \notin raised'[s] PROVE Fits'
    OBVIOUS
  <2>3. UNCHANGED stores /\ Refused(Call(s))
    BY <1>0, <2>1, <2>2
  <2>4. CASE Stands(s, "create", 1, 2)
    <3>1. ConcretePg \/ pgDoc = NoDoc
      BY <1>0, <2>3, <2>4, PlaceStores DEF Stands, Refused
    <3>2. pgDoc = NoDoc /\ pgChunks = {}
      BY <2>4, <3>1 DEF SoFar, CreateSoFar
    <3> QED BY <2>3, <3>2 DEF Fits, stores
  <2>5. CASE Stands(s, "update", 3, 2) \/ Stands(s, "update", 3, 3)
    <3>1. ~ConcretePg /\ pgDoc # NoDoc
      BY <2>5, TriStoreAssumption DEF SoFar, UpdateSoFar
    <3> QED BY <2>3, <3>1 DEF Refused
  <2> QED BY <1>1, <2>4, <2>5 DEF Between
<1>2. CASE Fits
  BY <1>0, <1>2 DEF Fits, stores
<1> QED BY <1>1, <1>2

LEMMA UndoFits ==
  ASSUME SagaTypeOK, NEW s \in Sagas, PlaceOf(s), Undoes(s), Fits \/ Between(s)
  PROVE  Fits' \/ "postgres" \in raised'[s]
<1>0. /\ status[s] = "compensating"
      /\ UndoCall(s) = "no call" => UNCHANGED stores
      /\ UndoCall(s) # "no call" =>
            /\ StoreOf(UndoCall(s)) \in raised'[s] \/ Effect(UndoCall(s), s)
            /\ StoreOf(UndoCall(s)) # "postgres" => pgDoc' = pgDoc /\ pgChunks' = pgChunks
  BY UndoFrame
<1>1. Fits
  BY <1>0 DEF Between, Stands
<1>2. UndoCall(s) \in {"no call", "delete_by_doc_uuid", "delete_document"}
  BY <1>0, UndoCalls
<1>3. CASE UndoCall(s) \in {"no call", "delete_by_doc_uuid"}
  BY <1>0, <1>1, <1>3 DEF Fits, stores, StoreOf
<1>4. CASE UndoCall(s) = "delete_document"
  BY <1>0, <1>4 DEF Fits, StoreOf, Effect, DeleteDocument
<1> QED BY <1>2, <1>3, <1>4

-----------------------------------------------------------------------------
(* SerialInv is inductive.                                                 *)

LEMMA RaisedKept ==
  ASSUME SagaTypeOK, NEW s \in Sagas, SagaStep(s)
  PROVE  /\ \A t \in Sagas : raised[t] \subseteq raised'[t]
         /\ \A st \in Stores : RaisedIn(st) => RaisedIn(st)'
<1>1. raised' = raised \/ \E st : raised' = [raised EXCEPT ![s] = @ \union {st}]
  BY DEF SagaStep, Execute, Refuse, Raise, NoEmbeddings, EncodeRaises, Compensate,
         CompensationRaises, Advance
<1>2. \A t \in Sagas : raised[t] \subseteq raised'[t]
  BY <1>1 DEF SagaTypeOK
<1> QED BY <1>2 DEF RaisedIn

LEMMA NeverRefused == \A c : StoreOf(c) = "neo4j" => ~Refused(c)
  BY DEF StoreOf, Refused

\* No compensation goes to Neo4j.
LEMMA UndoStores ==
  ASSUME SagaTypeOK, NEW s \in Sagas, PlaceOf(s), status[s] = "compensating"
  PROVE  UndoCall(s) # "no call" => StoreOf(UndoCall(s)) # "neo4j"
  BY UndoCalls DEF StoreOf

\* A failing step or a compensation leaves the edges alone, and no node waits
\* for one, unless Neo4j raised.
LEMMA OtherwiseTied ==
  ASSUME TypeInv, NEW s \in Sagas, SagaStep(s), ~Execute(s), AllTied,
         \A t \in Sagas \ {s} : ~InFlight(t)
  PROVE  RaisedIn("neo4j")' \/ AllTied'
<1>0. SagaTypeOK /\ PlaceOf(s) /\ chunkNodes \subseteq Sagas
  BY DEF TypeInv, TypeOK, Places, StoresTypeOK
<1>1. \A n \in Sagas : Waits(n) => n = s
  BY DEF Waits, Stands, InFlight
<1>2. CASE Fails(s)
  <2>1. CASE StoreOf(Call(s)) = "neo4j"
    <3>1. "neo4j" \in raised'[s]
      BY <1>0, <1>2, <2>1, FailFrame, NeverRefused
    <3> QED BY <3>1 DEF RaisedIn
  <2>2. CASE StoreOf(Call(s)) # "neo4j"
    <3>1. chunkNodes' = chunkNodes /\ contains' = contains /\ status[s] = "executing"
      BY <1>0, <1>2, <2>2, FailFrame
    <3>2. ~Waits(s)
      BY <1>0, <2>2, <3>1, PlaceStores DEF Waits, Stands
    <3> QED BY <1>0, <1>1, <3>1, <3>2 DEF AllTied
  <2> QED BY <2>1, <2>2
<1>3. CASE EncodeRaises(s)
  BY <1>0, <1>1, <1>3 DEF EncodeRaises, Waits, Stands, AllTied, stores
<1>4. CASE Undoes(s)
  <2>1. ~Waits(s)
    BY <1>4 DEF Undoes, Compensate, CompensationRaises, Waits, Stands
  <2>2. chunkNodes' = chunkNodes /\ contains' = contains
    <3>1. /\ UndoCall(s) = "no call" => UNCHANGED stores
          /\ UndoCall(s) # "no call" /\ StoreOf(UndoCall(s)) # "neo4j" =>
                chunkNodes' = chunkNodes /\ contains' = contains
      BY <1>0, <1>4, UndoFrame
    <3>2. UndoCall(s) # "no call" => StoreOf(UndoCall(s)) # "neo4j"
      BY <1>0, <1>4, UndoFrame, UndoStores
    <3> QED BY <3>1, <3>2 DEF stores
  <2> QED BY <1>0, <1>1, <2>1, <2>2 DEF AllTied
<1> QED BY <1>2, <1>3, <1>4 DEF SagaStep, Fails, Undoes

LEMMA SagaStepSerial ==
  ASSUME TypeInv, FreshInv, SerialInv, NEW s \in Sagas, SagaStep(s)
  PROVE  SerialInv'
<1>0. /\ SagaTypeOK /\ PlaceOf(s) /\ EdgesHang /\ OneAtATime /\ SoFar(s)
      /\ InFlight(s) /\ kind[s] \in Kinds /\ kind' = kind
  BY OneMoves DEF TypeInv, TypeOK, Places, FreshInv, StoresFresh, SerialInv, SagaStep,
         Execute, Refuse, Raise, NoEmbeddings, EncodeRaises, Compensate,
         CompensationRaises, InFlight, PlaceOf
<1>1. \A t \in Sagas \ {s} : status'[t] = status[t] /\ ~InFlight(t) /\ ~InFlight(t)'
  BY <1>0, OneMoves DEF OneAtATime, InFlight
<1>2. FirstCreates'
  <2>1. \E t \in Sagas : kind[t] = "create"
    BY <1>0 DEF SerialInv, FirstCreates, Kinds
  <2> QED BY <1>0, <2>1 DEF FirstCreates
<1>3. ASSUME NEW t \in Sagas PROVE SoFar(t)'
  <2>1. CASE t # s
    BY <1>1, <2>1 DEF InFlight, SoFar, CreateSoFar, DeleteSoFar, UpdateSoFar,
                      CreateUndoes, Stands
  <2>2. CASE t = s
    <3>1. CASE Execute(s)
      BY <1>0, <2>2, <3>1, ExecuteSoFar
    <3>2. CASE Refuse(s) \/ Raise(s) \/ NoEmbeddings(s)
      BY <1>0, <2>2, <3>2, FailSoFar DEF Fails
    <3>3. CASE EncodeRaises(s)
      <4>1. status'[s] = "exception"
        BY <1>0, <3>3 DEF EncodeRaises, SagaTypeOK
      <4> QED BY <2>2, <4>1 DEF InFlight, SoFar, CreateSoFar, DeleteSoFar, UpdateSoFar,
                                CreateUndoes, Stands
    <3>4. CASE Compensate(s) \/ CompensationRaises(s)
      BY <1>0, <2>2, <3>4, UndoSoFar DEF Undoes
    <3> QED BY <3>1, <3>2, <3>3, <3>4 DEF SagaStep
  <2> QED BY <2>1, <2>2
<1>4. WholeInv'
  <2>1. CASE RaisedIn("postgres")
    BY <1>0, <2>1, RaisedKept DEF WholeInv, PgWhole, Stores
  <2>2. CASE \E t \in Sagas : status[t] = "crashed"
    <3>1. PICK t \in Sagas : status[t] = "crashed"
      BY <2>2
    <3>2. status'[t] = "crashed"
      BY <1>0, <1>1, <3>1 DEF InFlight
    <3> QED BY <3>2 DEF WholeInv, PgWhole
  <2>3. CASE Fits \/ Between(s)
    <3>1. CASE Execute(s)
      BY <1>0, <2>3, <3>1, ExecuteFits DEF WholeInv, PgWhole, Fits
    <3>2. CASE Refuse(s) \/ Raise(s) \/ NoEmbeddings(s)
      BY <1>0, <2>3, <3>2, FailFits DEF Fails, WholeInv, PgWhole, Fits, RaisedIn
    <3>3. CASE EncodeRaises(s)
      <4>1. ~Between(s) /\ UNCHANGED stores
        BY <3>3 DEF EncodeRaises, Between, Stands
      <4> QED BY <2>3, <4>1 DEF WholeInv, PgWhole, Fits, stores
    <3>4. CASE Compensate(s) \/ CompensationRaises(s)
      BY <1>0, <2>3, <3>4, UndoFits DEF Undoes, WholeInv, PgWhole, Fits, RaisedIn
    <3> QED BY <3>1, <3>2, <3>3, <3>4 DEF SagaStep
  <2>4. \A t \in Sagas \ {s} : ~Between(t)
    BY <1>1 DEF InFlight, Between, Stands
  <2> QED BY <2>1, <2>2, <2>3, <2>4 DEF SerialInv, WholeInv, PgWhole, Fits
<1>5. TiedInv'
  <2>1. CASE RaisedIn("neo4j")
    BY <1>0, <2>1, RaisedKept DEF TiedInv, Stores
  <2>2. CASE \E t \in Sagas : status[t] = "crashed"
    <3>1. PICK t \in Sagas : status[t] = "crashed"
      BY <2>2
    <3>2. status'[t] = "crashed"
      BY <1>0, <1>1, <3>1 DEF InFlight
    <3> QED BY <3>2 DEF TiedInv
  <2>3. CASE AllTied
    <3>1. CASE Execute(s)
      BY <1>0, <1>1, <2>3, <3>1, ExecuteTies DEF TiedInv
    <3>2. CASE ~Execute(s)
      BY <1>0, <1>1, <2>3, <3>2, OtherwiseTied DEF TiedInv
    <3> QED BY <3>1, <3>2
  <2> QED BY <2>1, <2>2, <2>3 DEF SerialInv, TiedInv
<1> QED BY <1>2, <1>3, <1>4, <1>5 DEF SerialInv

LEMMA StartSerial ==
  ASSUME TypeInv, SerialInv, ~overlapped', NEW s \in Sagas, NEW k \in Kinds, Start(s, k)
  PROVE  SerialInv'
<1>0. /\ SagaTypeOK /\ \A t \in Sagas : ~InFlight(t)
      /\ at[s] = 1 /\ call[s] = 1 /\ status[s] = "idle"
      /\ kind' = [kind EXCEPT ![s] = k] /\ status' = [status EXCEPT ![s] = "executing"]
      /\ UNCHANGED <<stores, at, call, raised>>
      /\ IF k = "create" THEN \A t \in Sagas : kind[t] # "create" ELSE pgDoc # NoDoc
  BY DEF TypeInv, TypeOK, Places, PlaceOf, Start
<1>1. /\ kind'[s] = k /\ status'[s] = "executing" /\ at'[s] = 1 /\ call'[s] = 1
      /\ \A t \in Sagas \ {s} : kind'[t] = kind[t] /\ status'[t] = status[t]
  BY <1>0 DEF SagaTypeOK
<1>2. FirstCreates'
  <2>1. CASE k = "create"
    BY <1>1, <2>1 DEF FirstCreates
  <2>2. CASE k # "create"
    <3>1. pgDoc # NoDoc
      BY <1>0, <2>2
    <3>2. \E t \in Sagas : kind[t] = "create"
      BY <3>1, Nothing DEF SerialInv, FirstCreates
    <3>3. \E t \in Sagas : kind'[t] = "create"
      <4>1. PICK t \in Sagas : kind[t] = "create"
        BY <3>2
      <4>2. CASE t = s
        BY <1>0, <4>1, <4>2 DEF TypeInv, Places, PlaceOf
      <4>3. CASE t # s
        BY <1>1, <4>1, <4>3
      <4> QED BY <4>2, <4>3
    <3> QED BY <3>3 DEF FirstCreates
  <2> QED BY <2>1, <2>2
<1>3. WholeInv'
  <2>1. \A t \in Sagas : ~Between(t)
    BY <1>0 DEF InFlight, Between, Stands
  <2>2. PgWhole
    BY <2>1 DEF SerialInv, WholeInv
  <2>3. \A t \in Sagas : status[t] = "crashed" => status'[t] = "crashed"
    BY <1>0, <1>1
  <2>4. PgWhole'
    BY <1>0, <2>2, <2>3 DEF PgWhole, RaisedIn, stores
  <2> QED BY <2>4 DEF WholeInv
<1>4. ASSUME NEW t \in Sagas PROVE SoFar(t)'
  <2>1. CASE t # s
    <3>1. status'[t] \notin {"executing", "compensating"}
      BY <1>0, <1>1, <2>1 DEF InFlight
    <3> QED BY <3>1 DEF InFlight, SoFar, CreateSoFar, DeleteSoFar, UpdateSoFar,
                        CreateUndoes, Stands
  <2>2. CASE t = s /\ k = "create"
    <3>1. AllEmpty
      BY <1>0, <2>2 DEF SerialInv, FirstCreates
    <3>2. AllEmpty'
      BY <1>0, <3>1, Nothing DEF AllEmpty, HoldsNothing, stores
    <3> QED BY <1>1, <2>2, <3>2
            DEF InFlight, SoFar, CreateSoFar, DeleteSoFar, UpdateSoFar, CreateUndoes, Stands
  <2>3. CASE t = s /\ k # "create"
    <3>1. pgDoc' # NoDoc
      BY <1>0, <2>3 DEF stores
    <3> QED BY <1>1, <2>3, <3>1
            DEF InFlight, SoFar, CreateSoFar, DeleteSoFar, UpdateSoFar, CreateUndoes, Stands
  <2> QED BY <2>1, <2>2, <2>3
<1>5. TiedInv'
  <2>1. \A n \in Sagas : ~Waits(n)
    BY <1>0 DEF InFlight, Waits, Stands
  <2>2. \A t \in Sagas : status[t] = "crashed" => status'[t] = "crashed"
    BY <1>0, <1>1
  <2>3. chunkNodes \subseteq Sagas
    BY DEF TypeInv, TypeOK, StoresTypeOK
  <2> QED BY <1>0, <2>1, <2>2, <2>3 DEF SerialInv, TiedInv, AllTied, RaisedIn, stores
<1> QED BY <1>2, <1>3, <1>4, <1>5 DEF SerialInv

LEMMA NextSerial ==
  TypeInv /\ FreshInv /\ SerialInv /\ [Next]_vars /\ ~overlapped' => SerialInv'
<1> SUFFICES ASSUME TypeInv, FreshInv, SerialInv, [Next]_vars, ~overlapped' PROVE SerialInv'
  OBVIOUS
<1>1. CASE \E s \in Sagas, k \in Kinds : Start(s, k)
  BY <1>1, StartSerial
<1>2. CASE \E s \in Sagas : SagaStep(s)
  BY <1>2, SagaStepSerial
<1>3. CASE Crash
  <2>1. /\ \A s \in Sagas : ~InFlight(s)'
        /\ \E s \in Sagas : status'[s] = "crashed"
    BY <1>3 DEF Crash, InFlight
  <2>2. WholeInv' /\ TiedInv'
    BY <2>1 DEF WholeInv, PgWhole, TiedInv
  <2>3. \A s \in Sagas : SoFar(s)'
    BY <2>1 DEF InFlight, SoFar, CreateSoFar, DeleteSoFar, UpdateSoFar, CreateUndoes, Stands
  <2>4. FirstCreates'
    BY <1>3, Nothing DEF Crash, SerialInv, FirstCreates, AllEmpty, HoldsNothing, stores
  <2> QED BY <2>2, <2>3, <2>4 DEF SerialInv
<1>4. CASE UNCHANGED vars
  BY <1>4 DEF vars, stores, control, SerialInv, FirstCreates, AllEmpty, HoldsNothing,
              WholeInv, PgWhole, Between, TiedInv, AllTied, Waits, RaisedIn, SoFar, CreateSoFar, DeleteSoFar,
              UpdateSoFar, CreateUndoes, Owes, InFlight, Stands, NoVectors, NoGraph, HasRow
<1> QED BY <1>1, <1>2, <1>3, <1>4 DEF Next

LEMMA InitSerial == Init => SerialInv
<1> SUFFICES ASSUME Init PROVE SerialInv
  OBVIOUS
<1>1. AllEmpty /\ \A s \in Sagas : kind[s] = "none" /\ status[s] = "idle"
  BY Nothing DEF Init, StoresInit
<1>2. FirstCreates
  BY <1>1 DEF FirstCreates
<1>3. WholeInv
  BY DEF Init, StoresInit, WholeInv, PgWhole
<1>5. TiedInv
  BY DEF Init, StoresInit, TiedInv, AllTied
<1>4. \A s \in Sagas : SoFar(s)
  BY <1>1 DEF InFlight, SoFar, CreateSoFar, DeleteSoFar, UpdateSoFar, CreateUndoes, Stands
<1> QED BY <1>2, <1>3, <1>4, <1>5 DEF SerialInv

-----------------------------------------------------------------------------
(* What the requests leave.                                                *)

\* A saga is ended by a step of its own.
LEMMA OwnEnd ==
  ASSUME TypeInv, [Next]_vars, NEW s \in Sagas
  PROVE  /\ Ends(s, "success") => Execute(s)
         /\ Ends(s, "failed") => Fails(s) \/ Undoes(s)
<1>0. SagaTypeOK
  BY DEF TypeInv, TypeOK
<1>1. SUFFICES ASSUME status'[s] # status[s], status'[s] \in {"success", "failed"}
               PROVE  \/ status'[s] = "success" /\ Execute(s)
                      \/ status'[s] = "failed" /\ (Fails(s) \/ Undoes(s))
  BY DEF Ends
<1>2. \A t \in Sagas, k \in Kinds : ~Start(t, k)
  BY <1>0, <1>1 DEF Start, SagaTypeOK
<1>3. ~Crash /\ ~UNCHANGED vars
  BY <1>0, <1>1 DEF Crash, SagaTypeOK, vars, control
<1>4. PICK t \in Sagas : SagaStep(t)
  BY <1>2, <1>3 DEF Next
<1>5. t = s
  BY <1>0, <1>1, <1>4, OneMoves
<1> QED BY <1>0, <1>1, <1>4, <1>5
        DEF SagaStep, Execute, Refuse, Raise, NoEmbeddings, EncodeRaises, Compensate,
            CompensationRaises, Advance, StepFails, NextUndo, Fails, Undoes, SagaTypeOK

\* When a request that ran alone is over, none is under way.
LEMMA EndsAlone ==
  ASSUME TypeInv, OneAtATime, NEW s \in Sagas, Execute(s), status'[s] = "success"
  PROVE  \A n \in Sagas : ~InFlight(n)'
<1>1. SagaTypeOK /\ SagaStep(s) /\ InFlight(s)
  BY DEF TypeInv, TypeOK, SagaStep, Execute, InFlight
<1>2. \A n \in Sagas \ {s} : status'[n] = status[n] /\ ~InFlight(n)
  BY <1>1, OneMoves DEF OneAtATime, InFlight
<1> QED BY <1>2 DEF InFlight

\* What holds as long as requests come one after the other.
OneByOne == ~overlapped => FreshInv /\ SerialInv

LEMMA SerialInvariants == Spec => []TypeInv /\ []OneByOne
<1>1. Spec => []TypeInv
  BY InitTypeInv, NextTypeInv, PTL DEF Spec
<1>2. Init => OneByOne
  BY InitFresh, InitSerial DEF OneByOne
<1>3. TypeInv /\ OneByOne /\ [Next]_vars => OneByOne'
  BY NextFresh, NextSerial, StaysOverlapped DEF OneByOne
<1> QED BY <1>1, <1>2, <1>3, PTL DEF Spec

\* As long as requests do not overlap, a row has between them exactly the chunk
\* rows of its content and no row has none, after any number of requests and
\* failures, unless PostgreSQL itself raised or the process stopped between two
\* transactions.
THEOREM PostgresStaysWhole == Spec => []PostgresWhole
<1>1. TypeInv /\ OneByOne => PostgresWhole
  BY DEF OneByOne, SerialInv, WholeInv, PgWhole, Between, Stands, PostgresWhole, Quiet,
         InFlight
<1> QED BY <1>1, SerialInvariants, PTL

\* As long as requests do not overlap, one that reports success has left its
\* content, and no other, in the rows, the vectors and the graph reached from the
\* document node, or none if it was a delete, whatever failed requests before it
\* had left there.  Chunk nodes without an edge are left only where a request
\* failed in Neo4j or the process stopped.
THEOREM SuccessLeavesAll == Spec => SuccessIsComplete
<1>1. ASSUME TypeInv, OneByOne, OneByOne', [Next]_vars
      PROVE  [~overlapped => \A s \in Sagas : Ends(s, "success") =>
                /\ IF kind[s] = "delete" THEN Deleted' ELSE HoldsExactly(s)'
                /\ NoOrphans']_vars
  <2>1. ASSUME ~overlapped, NEW s \in Sagas, Ends(s, "success")
        PROVE  /\ IF kind[s] = "delete" THEN Deleted' ELSE HoldsExactly(s)'
               /\ NoOrphans'
    <3>1. Execute(s) /\ status'[s] = "success"
      BY <1>1, <2>1, OwnEnd DEF Ends
    <3>2. FreshInv /\ SerialInv /\ SerialInv'
      BY <1>1, <2>1, <3>1 DEF OneByOne, Execute, Advance
    <3>3. EdgesHang /\ SoFar(s)
      BY <3>2 DEF FreshInv, StoresFresh, SerialInv
    <3>4. Complete(s)'
      BY <1>1, <3>1, <3>3, ExecuteSoFar
    <3>5. kind' = kind
      BY <3>1 DEF Execute, Advance
    <3>6. \A n \in Sagas : ~Waits(n)'
      <4>1. \A n \in Sagas : ~InFlight(n)'
        BY <1>1, <3>1, <3>2, EndsAlone DEF FreshInv
      <4> QED BY <4>1 DEF Waits, Stands, InFlight
    <3>7. NoOrphans'
      <4>1. chunkNodes' \subseteq Sagas
        BY <1>1, NextTypeInv DEF TypeInv, TypeOK, StoresTypeOK
      <4> QED BY <3>6, <3>2, <4>1 DEF SerialInv, TiedInv, AllTied, NoOrphans
    <3> QED BY <3>4, <3>5, <3>7 DEF Complete
  <2> QED BY <2>1
<1> QED BY <1>1, SerialInvariants, PTL DEF Spec, SuccessIsComplete

\* As long as requests do not overlap, a create that fails leaves every store
\* empty that did not itself fail it, although compensation went on past the
\* failures of the others.
THEOREM CreateFailsConfined == Spec => CreateFailureConfined
<1>1. ASSUME TypeInv, OneByOne, [Next]_vars
      PROVE  [~overlapped => \A s \in Sagas : (Ends(s, "failed") /\ kind[s] = "create") =>
                \A st \in Stores \ raised'[s] : HoldsNothing(st)']_vars
  <2>1. ASSUME ~overlapped, NEW s \in Sagas, Ends(s, "failed"), kind[s] = "create"
        PROVE  \A st \in Stores \ raised'[s] : HoldsNothing(st)'
    <3>1. (Fails(s) \/ Undoes(s)) /\ status'[s] = "failed"
      BY <1>1, <2>1, OwnEnd DEF Ends
    <3>2. SagaTypeOK /\ PlaceOf(s) /\ SoFar(s)
      BY <1>1, <2>1 DEF TypeInv, TypeOK, Places, OneByOne, SerialInv
    <3> QED BY <2>1, <3>1, <3>2, FailSoFar, UndoSoFar
  <2> QED BY <2>1
<1> QED BY <1>1, SerialInvariants, PTL DEF Spec, CreateFailureConfined

\* As long as requests do not overlap, a delete that fails keeps the row, so that
\* it can be asked for again, unless PostgreSQL itself raised.
THEOREM FailedDeleteKeepsRow == Spec => FailedDeleteCanBeRetried
<1>1. ASSUME TypeInv, OneByOne, [Next]_vars
      PROVE  [~overlapped => \A s \in Sagas :
                (Ends(s, "failed") /\ kind[s] = "delete" /\ "postgres" \notin raised'[s])
                    => pgDoc' # NoDoc]_vars
  <2>1. ASSUME ~overlapped, NEW s \in Sagas, Ends(s, "failed"), kind[s] = "delete",
               "postgres" \notin raised'[s]
        PROVE  pgDoc' # NoDoc
    <3>1. Fails(s) \/ Undoes(s)
      BY <1>1, <2>1, OwnEnd
    <3>2. SagaTypeOK /\ PlaceOf(s) /\ SoFar(s)
      BY <1>1, <2>1 DEF TypeInv, TypeOK, Places, OneByOne, SerialInv
    <3>3. InFlight(s) /\ raised[s] \subseteq raised'[s]
      BY <3>1, <3>2, FailFrame, UndoFrame DEF InFlight
    <3>4. pgDoc # NoDoc
      BY <2>1, <3>2, <3>3 DEF SoFar, DeleteSoFar
    <3>5. pgDoc' = pgDoc
      <4>1. CASE Fails(s)
        BY <2>1, <3>2, <4>1, FailFrame DEF stores
      <4>2. CASE Undoes(s)
        BY <2>1, <3>2, <4>2, UndoFrame, UndoCalls DEF stores
      <4> QED BY <3>1, <4>1, <4>2
    <3> QED BY <3>4, <3>5
  <2> QED BY <2>1
<1> QED BY <1>1, SerialInvariants, PTL DEF Spec, FailedDeleteCanBeRetried

-----------------------------------------------------------------------------
(* Each request is one atomic step of DocumentContract.  What the stores   *)
(* held when the request began is in "before"; SameInv says which of them  *)
(* still hold it, and what compensation has restored so far.               *)

Same(st) == View[st] = before[st]

\* The stores that s has to clean no more, and that did not fail it, hold what
\* the contract lets it leave there.
Settled(s) == \A st \in Stores \ (raised[s] \union Owes(s)) : View[st] \in Contract!LeftBy(s, st)

SameInv(s) ==
    /\ status[s] \in {"idle", "executing"} => raised[s] = {}
    /\ status[s] = "executing" /\ kind[s] \in {"delete", "update"} =>
        /\ kind[s] = "delete" \/ at[s] < 3 \/ (at[s] = 3 /\ call[s] = 1) => Same("postgres")
        /\ at[s] < 3 => Same("milvus")
        /\ at[s] < 2 => Same("neo4j")
    /\ status[s] = "compensating" => Settled(s)

HistoryInv == (Quiet => before = View) /\ \A s \in Sagas : SameInv(s)

LEMMA ViewValues ==
    /\ View["postgres"] = [row |-> pgDoc, chunks |-> pgChunks]
    /\ View["milvus"] = vectors
    /\ View["neo4j"] = [node |-> docNode, chunks |-> contains]
    /\ View'["postgres"] = [row |-> pgDoc', chunks |-> pgChunks']
    /\ View'["milvus"] = vectors'
    /\ View'["neo4j"] = [node |-> docNode', chunks |-> contains']
  BY DEF View

\* What the contract lets a failed request leave in each store.
LEMMA MayLeave ==
  ASSUME NEW s \in Sagas
  PROVE  /\ kind[s] = "create" =>
              /\ [row |-> NoDoc, chunks |-> {}] \in Contract!LeftBy(s, "postgres")
              /\ {} \in Contract!LeftBy(s, "milvus")
              /\ [node |-> FALSE, chunks |-> {}] \in Contract!LeftBy(s, "neo4j")
         /\ kind[s] \in {"delete", "update"} =>
              /\ before["postgres"] \in Contract!LeftBy(s, "postgres")
              /\ before["milvus"] \in Contract!LeftBy(s, "milvus")
              /\ before["neo4j"] \in Contract!LeftBy(s, "neo4j")
              /\ {} \in Contract!LeftBy(s, "milvus")
              /\ [node |-> FALSE, chunks |-> {}] \in Contract!LeftBy(s, "neo4j")
         /\ kind[s] = "update" =>
              [row |-> s, chunks |-> {s}] \in Contract!LeftBy(s, "postgres")
  BY DEF Contract!LeftBy, Contract!Empty, Contract!Holding

LEMMA GraphValue ==
  ASSUME StoresTypeOK'
  PROVE  ~docNode' /\ contains' = {} => View'["neo4j"] = [node |-> FALSE, chunks |-> {}]
<1>1. docNode' \in BOOLEAN
  BY DEF StoresTypeOK
<1>2. ~docNode' => docNode' = FALSE
  BY <1>1
<1> QED BY <1>2, ViewValues

\* A store that holds nothing is one a failed create may leave.
LEMMA NothingSettles ==
  ASSUME StoresTypeOK', NEW s \in Sagas, kind[s] = "create", NEW R,
         \A st \in Stores \ R : HoldsNothing(st)'
  PROVE  \A st \in Stores \ R : View'[st] \in Contract!LeftBy(s, st)
<1>0. /\ [row |-> NoDoc, chunks |-> {}] \in Contract!LeftBy(s, "postgres")
      /\ {} \in Contract!LeftBy(s, "milvus")
      /\ [node |-> FALSE, chunks |-> {}] \in Contract!LeftBy(s, "neo4j")
  BY MayLeave
<1>1. ASSUME HoldsNothing("postgres")' PROVE View'["postgres"] \in Contract!LeftBy(s, "postgres")
  <2>1. pgDoc' = NoDoc /\ pgChunks' = {}
    BY <1>1 DEF HoldsNothing
  <2>2. View'["postgres"] = [row |-> NoDoc, chunks |-> {}]
    BY <2>1, ViewValues
  <2> QED BY <1>0, <2>2
<1>2. ASSUME HoldsNothing("milvus")' PROVE View'["milvus"] \in Contract!LeftBy(s, "milvus")
  BY <1>0, <1>2, ViewValues DEF HoldsNothing
<1>3. ASSUME HoldsNothing("neo4j")' PROVE View'["neo4j"] \in Contract!LeftBy(s, "neo4j")
  <2>1. ~docNode' /\ contains' = {}
    BY <1>3 DEF HoldsNothing
  <2> QED BY <1>0, <2>1, GraphValue
<1> QED BY <1>1, <1>2, <1>3 DEF Stores

\* A delete or an update that fails a step.
LEMMA FailSettles ==
  ASSUME StoresTypeOK', SagaTypeOK, NEW s \in Sagas, PlaceOf(s), SoFar(s), SameInv(s), Fails(s)
  PROVE  \A st \in Stores \ (raised'[s] \union Owes(s)') : View'[st] \in Contract!LeftBy(s, st)
<1> DEFINE d == StoreOf(Call(s))
<1>0. /\ status[s] = "executing" /\ kind' = kind /\ at' = at
      /\ undo'[s] = at[s] - 1
      /\ status'[s] = IF at[s] > UndoTo(kind[s], at[s]) THEN "compensating" ELSE "failed"
  BY FailFrame
<1>1. /\ d \in raised'[s] \/ (UNCHANGED stores /\ (Refused(Call(s)) \/ d = "milvus"))
      /\ d # "postgres" => pgDoc' = pgDoc /\ pgChunks' = pgChunks
      /\ d # "milvus" => vectors' = vectors
      /\ d # "neo4j" => docNode' = docNode /\ contains' = contains
  BY FailFrame
<1>2. CASE kind[s] = "create"
  <2>1. SoFar(s)' /\ (status'[s] = "failed" => \A st \in Stores \ raised'[s] : HoldsNothing(st)')
    BY <1>2, FailSoFar
  <2>2. \A st \in Stores \ (raised'[s] \union Owes(s)') : HoldsNothing(st)'
    BY <1>0, <1>2, <2>1 DEF SoFar, CreateUndoes
  <2> QED BY <1>2, <2>2, NothingSettles
<1>3. CASE kind[s] \in {"delete", "update"}
  <2>0. /\ before["postgres"] \in Contract!LeftBy(s, "postgres")
        /\ before["milvus"] \in Contract!LeftBy(s, "milvus")
        /\ before["neo4j"] \in Contract!LeftBy(s, "neo4j")
        /\ {} \in Contract!LeftBy(s, "milvus")
        /\ [node |-> FALSE, chunks |-> {}] \in Contract!LeftBy(s, "neo4j")
        /\ kind[s] = "update" =>
              [row |-> s, chunks |-> {s}] \in Contract!LeftBy(s, "postgres")
    BY <1>3, MayLeave
  <2>s. /\ kind[s] = "delete" \/ at[s] < 3 \/ (at[s] = 3 /\ call[s] = 1) => Same("postgres")
        /\ at[s] < 3 => Same("milvus")
        /\ at[s] < 2 => Same("neo4j")
    BY <1>0, <1>3 DEF SameInv
  <2>t. DeleteSoFar(s) /\ UpdateSoFar(s)
    BY DEF SoFar
  <2>p. at[s] \in 1..6 /\ call[s] \in 1..3
    BY DEF SagaTypeOK
  <2>k. kind[s] # "create"
    BY <1>3
  <2>1. "postgres" \in raised'[s] \/ View'["postgres"] \in Contract!LeftBy(s, "postgres")
    <3>1. SUFFICES ASSUME "postgres" \notin raised'[s]
                   PROVE  View'["postgres"] \in Contract!LeftBy(s, "postgres")
      OBVIOUS
    <3>2. pgDoc' = pgDoc /\ pgChunks' = pgChunks
      BY <1>1, <3>1 DEF stores
    <3>3. \/ kind[s] = "delete" \/ at[s] < 3 \/ (at[s] = 3 /\ call[s] = 1)
          \/ kind[s] = "update" /\ HasRow(s)
      <4>1. CASE kind[s] = "update" /\ at[s] = 3 /\ call[s] # 1
        <5>1. \/ Stands(s, "update", 3, 2) /\ Call(s) = "delete_chunks_by_doc"
              \/ Stands(s, "update", 3, 3) /\ Call(s) = "create_chunks"
          BY <1>0, <4>1, PlaceStores DEF Stands
        <5>2. d = "postgres" /\ ~Refused(Call(s))
          BY <5>1, <2>t, TriStoreAssumption DEF StoreOf, Refused, UpdateSoFar
        <5> QED BY <1>1, <3>1, <5>2
      <4>2. CASE kind[s] = "update" /\ at[s] > 3
        BY <1>0, <2>t, <4>2, UpdateLocations DEF Located, InFlight, UpdateSoFar, Stands
      <4> QED BY <1>3, <2>p, <4>1, <4>2
    <3>4. CASE Same("postgres")
      BY <2>0, <3>2, <3>4, ViewValues DEF Same
    <3>5. CASE kind[s] = "update" /\ HasRow(s)
      <4>1. View'["postgres"] = [row |-> s, chunks |-> {s}]
        BY <3>2, <3>5, ViewValues DEF HasRow
      <4> QED BY <2>0, <3>5, <4>1
    <3> QED BY <2>s, <3>3, <3>4, <3>5
  <2>2. \/ "milvus" \in raised'[s] \union Owes(s)'
        \/ View'["milvus"] \in Contract!LeftBy(s, "milvus")
    <3>1. CASE at[s] < 3
      BY <1>1, <2>0, <2>s, <3>1, ViewValues DEF Same, stores
    <3>2. CASE at[s] \in {3, 4}
      <4>1. vectors = {}
        BY <1>0, <1>3, <2>t, <3>2, PlaceStores DEF Stands, DeleteSoFar, UpdateSoFar, NoVectors
      <4> QED BY <1>1, <2>0, <4>1, ViewValues DEF stores
    <3>3. CASE at[s] > 4
      <4>1. kind[s] = "update" /\ at[s] = 5
        BY <1>0, <1>3, <3>3, PlaceStores DEF Stands
      <4>2. status'[s] = "compensating" /\ undo'[s] = 4 /\ kind'[s] = "update"
        BY <1>0, <4>1 DEF UndoTo
      <4> QED BY <4>2 DEF Owes
    <3> QED BY <2>p, <3>1, <3>2, <3>3
  <2>3. "neo4j" \in raised'[s] \/ View'["neo4j"] \in Contract!LeftBy(s, "neo4j")
    <3>1. CASE at[s] < 2
      <4>1. View["neo4j"] = before["neo4j"]
        BY <2>s, <3>1 DEF Same
      <4>2. "neo4j" \in raised'[s] \/ (docNode' = docNode /\ contains' = contains)
        BY <1>1 DEF stores
      <4>3. "neo4j" \in raised'[s] \/ View'["neo4j"] = before["neo4j"]
        BY <4>1, <4>2, ViewValues
      <4> QED BY <2>0, <4>3
    <3>2. CASE at[s] \in {2, 3, 4}
      <4>1. NoGraph
        BY <1>0, <1>3, <2>t, <3>2, PlaceStores DEF Stands, DeleteSoFar, UpdateSoFar
      <4>2. d # "neo4j"
        BY <1>0, <1>3, <3>2, PlaceStores DEF Stands, StoreOf
      <4>3. ~docNode' /\ contains' = {}
        BY <1>1, <4>1, <4>2 DEF NoGraph
      <4> QED BY <2>0, <4>3, GraphValue
    <3>3. CASE at[s] > 4
      <4>1. d = "neo4j" /\ ~Refused(Call(s))
        BY <1>0, <1>3, <3>3, PlaceStores DEF Stands
      <4> QED BY <1>1, <4>1
    <3> QED BY <2>p, <3>1, <3>2, <3>3
  <2> QED BY <2>1, <2>2, <2>3 DEF Stores
<1>4. kind[s] \in {"create", "delete", "update"}
  BY <1>0, PlaceStores DEF Stands
<1> QED BY <1>2, <1>3, <1>4

\* The last phase of an update is undone apart from the first two.
LEMMA UpdateUndoes ==
  ASSUME NEW s \in Sagas, PlaceOf(s), status[s] = "compensating", kind[s] = "update"
  PROVE  \/ (undo[s] = 1 \/ undo[s] = 2) /\ UndoTo(kind[s], at[s]) = 1 /\ UndoCall(s) = "no call"
         \/ undo[s] = 4 /\ UndoTo(kind[s], at[s]) = 4 /\ UndoCall(s) = "delete_by_doc_uuid"
<1>0. /\ at[s] \in 1..5 /\ undo[s] \in UndoTo(kind[s], at[s]) .. (at[s] - 1)
  BY PlanValues DEF PlaceOf, InFlight
<1>1. CASE at[s] > 3
  <2>1. UndoTo(kind[s], at[s]) = 4
    BY <1>1 DEF UndoTo
  <2>2. undo[s] \in 4 .. (at[s] - 1)
    BY <1>0, <2>1
  <2>3. undo[s] = 4
    BY <1>0, <2>2
  <2> QED BY <2>1, <2>3, PlanValues DEF UndoCall, Compensation
<1>2. CASE ~(at[s] > 3)
  <2>1. UndoTo(kind[s], at[s]) = 1
    BY <1>2 DEF UndoTo
  <2>2. undo[s] \in 1 .. (at[s] - 1)
    BY <1>0, <2>1
  <2>3. undo[s] = 1 \/ undo[s] = 2
    BY <1>0, <1>2, <2>2
  <2> QED BY <2>1, <2>3, PlanValues DEF UndoCall, Compensation
<1> QED BY <1>1, <1>2

\* A compensation.
LEMMA UndoSettles ==
  ASSUME StoresTypeOK', SagaTypeOK, NEW s \in Sagas, PlaceOf(s), SoFar(s), SameInv(s), Undoes(s)
  PROVE  \A st \in Stores \ (raised'[s] \union Owes(s)') : View'[st] \in Contract!LeftBy(s, st)
<1>0. /\ status[s] = "compensating" /\ kind' = kind /\ at' = at
      /\ undo'[s] = undo[s] - 1
      /\ status'[s] = IF undo[s] = UndoTo(kind[s], at[s]) THEN "failed" ELSE "compensating"
      /\ raised[s] \subseteq raised'[s]
  BY UndoFrame
<1>1. /\ UndoCall(s) = "no call" => UNCHANGED stores
      /\ UndoCall(s) # "no call" =>
            /\ StoreOf(UndoCall(s)) \in raised'[s] \/ Effect(UndoCall(s), s)
            /\ StoreOf(UndoCall(s)) # "postgres" => pgDoc' = pgDoc /\ pgChunks' = pgChunks
            /\ StoreOf(UndoCall(s)) # "milvus" => vectors' = vectors
            /\ StoreOf(UndoCall(s)) # "neo4j" => docNode' = docNode /\ contains' = contains
  BY UndoFrame
<1>2. Settled(s)
  BY <1>0 DEF SameInv
<1>3. CASE kind[s] = "create"
  <2>1. SoFar(s)' /\ (status'[s] = "failed" => \A st \in Stores \ raised'[s] : HoldsNothing(st)')
    BY <1>3, UndoSoFar
  <2>2. \A st \in Stores \ (raised'[s] \union Owes(s)') : HoldsNothing(st)'
    BY <1>0, <1>3, <2>1 DEF SoFar, CreateUndoes
  <2> QED BY <1>3, <2>2, NothingSettles
<1>4. ASSUME UndoCall(s) = "no call", Owes(s) = {}
      PROVE  \A st \in Stores \ (raised'[s] \union Owes(s)') : View'[st] \in Contract!LeftBy(s, st)
  <2>1. \A st \in Stores : View'[st] = View[st]
    BY <1>1, <1>4, ViewValues DEF stores, Stores
  <2> QED BY <1>0, <1>2, <1>4, <2>1 DEF Settled
<1>5. CASE kind[s] = "delete"
  BY <1>0, <1>4, <1>5, UndoCalls DEF Owes
<1>6. CASE kind[s] = "update"
  <2>1. CASE undo[s] = 1 \/ undo[s] = 2
    <3>1. undo[s] # 4
      BY <2>1
    <3>2. Owes(s) = {}
      BY <1>6, <3>1 DEF Owes
    <3>3. UndoCall(s) = "no call"
      <4>1. status[s] = "compensating"
        BY <1>0
      <4> QED BY <1>6, <3>1, <4>1, UpdateUndoes
    <3> QED BY <1>4, <3>2, <3>3
  <2>2. CASE undo[s] = 4 /\ UndoCall(s) = "delete_by_doc_uuid"
    <3>1. StoreOf(UndoCall(s)) = "milvus" /\ UndoCall(s) # "no call"
      BY <2>2 DEF StoreOf
    <3>2. Owes(s) = {"milvus"}
      BY <1>0, <1>6, <2>2 DEF Owes
    <3>3. View'["postgres"] = View["postgres"] /\ View'["neo4j"] = View["neo4j"]
      BY <1>1, <3>1, ViewValues
    <3>4. "milvus" \in raised'[s] \/ vectors' = {}
      BY <1>1, <2>2, <3>1 DEF Effect, DeleteByDocUuid
    <3>5. "milvus" \in raised'[s] \/ View'["milvus"] \in Contract!LeftBy(s, "milvus")
      <4>1. {} \in Contract!LeftBy(s, "milvus")
        BY <1>6, MayLeave
      <4> QED BY <3>4, <4>1, ViewValues
    <3> QED BY <1>0, <1>2, <3>2, <3>3, <3>5 DEF Settled, Stores
  <2> QED BY <1>0, <1>6, <2>1, <2>2, UpdateUndoes
<1> QED BY <1>0, <1>3, <1>5, <1>6, UndoCalls

\* No embeddings for a create, or for the last phase of an update.
LEMMA EncodeSettles ==
  ASSUME StoresTypeOK', NEW s \in Sagas, SoFar(s), EncodeRaises(s)
  PROVE  \A st \in Stores \ raised'[s] : View'[st] \in Contract!LeftBy(s, st)
<1>0. UNCHANGED stores /\ raised' = raised
  BY DEF EncodeRaises
<1>1. CASE kind[s] = "create" /\ at[s] = 1
  <2>1. AllEmpty
    BY <1>1 DEF EncodeRaises, Stands, SoFar, CreateSoFar
  <2>2. \A st \in Stores : HoldsNothing(st)'
    BY <1>0, <2>1 DEF AllEmpty, HoldsNothing, stores
  <2> QED BY <1>1, <2>2, NothingSettles
<1>2. CASE kind[s] = "update" /\ at[s] = 4
  <2>1. NoGraph /\ NoVectors /\ HasRow(s)
    BY <1>2 DEF EncodeRaises, Stands, SoFar, UpdateSoFar
  <2>2. /\ View'["postgres"] = [row |-> s, chunks |-> {s}]
        /\ View'["milvus"] = {}
        /\ View'["neo4j"] = [node |-> FALSE, chunks |-> {}]
    BY <1>0, <2>1, GraphValue, ViewValues DEF stores, NoGraph, NoVectors, HasRow
  <2>3. /\ [row |-> s, chunks |-> {s}] \in Contract!LeftBy(s, "postgres")
        /\ {} \in Contract!LeftBy(s, "milvus")
        /\ [node |-> FALSE, chunks |-> {}] \in Contract!LeftBy(s, "neo4j")
    BY <1>2, MayLeave
  <2> QED BY <2>2, <2>3 DEF Stores
<1> QED BY <1>1, <1>2 DEF EncodeRaises

\* A call that succeeds and does not end its saga.
LEMMA ExecuteSame ==
  ASSUME TypeInv, NEW s \in Sagas, Execute(s), InFlight(s)', SameInv(s),
         before' = before
  PROVE  SameInv(s)'
<1>0. /\ status[s] = "executing" /\ kind' = kind /\ raised' = raised /\ raised[s] = {}
  BY DEF Execute, Advance, SameInv
<1>1. status'[s] = "executing"
  BY <1>0 DEF TypeInv, TypeOK, Execute, Advance, SagaTypeOK, InFlight
<1>2. CASE DeleteMoves(s)
  <2>0. /\ Same("postgres") /\ (at[s] < 3 => Same("milvus"))
    BY <1>0, <1>2 DEF SameInv, DeleteMoves, Stands
  <2>1. CASE Stands(s, "delete", 1, 1) /\ DeleteDocumentGraph /\ Stands(s, "delete", 2, 1)'
    <3>1. View'["postgres"] = View["postgres"] /\ View'["milvus"] = View["milvus"]
      BY <2>1, ViewValues DEF DeleteDocumentGraph, pg
    <3>2. Same("postgres")' /\ Same("milvus")'
      BY <2>0, <2>1, <3>1 DEF Same, Stands
    <3> QED BY <1>0, <1>1, <2>1, <3>2 DEF SameInv, Stands
  <2>2. CASE Stands(s, "delete", 2, 1) /\ DeleteByDocUuid /\ Stands(s, "delete", 3, 1)'
    <3>1. View'["postgres"] = View["postgres"]
      BY <2>2, ViewValues DEF DeleteByDocUuid, pg
    <3>2. Same("postgres")'
      BY <2>0, <3>1 DEF Same
    <3> QED BY <1>0, <1>1, <2>2, <3>2 DEF SameInv, Stands
  <2>3. CASE Succeeds(s, "delete")
    BY <1>1, <2>3 DEF Succeeds
  <2> QED BY <1>2, <2>1, <2>2, <2>3 DEF DeleteMoves
<1>3. CASE UpdateMoves(s)
  <2>1. CASE Stands(s, "update", 1, 1) /\ DeleteDocumentGraph /\ Stands(s, "update", 2, 1)'
    <3>1. View'["postgres"] = View["postgres"] /\ View'["milvus"] = View["milvus"]
      BY <2>1, ViewValues DEF DeleteDocumentGraph, pg
    <3>2. Same("postgres")' /\ Same("milvus")'
      BY <1>0, <2>1, <3>1 DEF Same, Stands, SameInv
    <3> QED BY <1>0, <1>1, <2>1, <3>2 DEF SameInv, Stands
  <2>2. CASE Stands(s, "update", 2, 1) /\ DeleteByDocUuid /\ Stands(s, "update", 3, 1)'
    <3>1. View'["postgres"] = View["postgres"]
      BY <2>2, ViewValues DEF DeleteByDocUuid, pg
    <3>2. Same("postgres")'
      BY <1>0, <2>2, <3>1 DEF Same, Stands, SameInv
    <3> QED BY <1>0, <1>1, <2>2, <3>2 DEF SameInv, Stands
  <2>3. CASE \/ Stands(s, "update", 3, 2)' \/ Stands(s, "update", 3, 3)'
             \/ Stands(s, "update", 4, 1)' \/ Stands(s, "update", 5, 1)'
             \/ Stands(s, "update", 5, 2)' \/ Stands(s, "update", 5, 3)'
    BY <1>0, <1>1, <2>3 DEF SameInv, Stands
  <2>4. CASE Succeeds(s, "update")
    BY <1>1, <2>4 DEF Succeeds
  <2> QED BY <1>3, <2>1, <2>2, <2>3, <2>4 DEF UpdateMoves
<1>4. CASE CreateMoves(s)
  <2>1. kind'[s] = "create"
    BY <1>0, <1>4 DEF CreateMoves, Stands
  <2> QED BY <1>0, <1>1, <2>1 DEF SameInv
<1> QED BY <1>2, <1>3, <1>4, ExecuteMoves

Remembers == before' = IF Quiet' THEN View' ELSE before

\* Only one saga is in flight, and the step that ends it makes the stores quiet.
LEMMA StoresQuiet ==
  ASSUME SagaTypeOK, OneAtATime, NEW s \in Sagas, SagaStep(s), Remembers
  PROVE  /\ InFlight(s) /\ kind' = kind
         /\ \A t \in Sagas \ {s} : /\ ~InFlight(t) /\ ~InFlight(t)'
                                   /\ status'[t] = status[t] /\ raised'[t] = raised[t]
         /\ InFlight(s)' => ~Quiet' /\ before' = before
         /\ ~InFlight(s)' => Quiet' /\ before' = View'
<1>1. InFlight(s)
  BY DEF InFlight, SagaStep, Execute, Refuse, Raise, NoEmbeddings, EncodeRaises,
         Compensate, CompensationRaises
<1>2. /\ kind' = kind
      /\ \A t \in Sagas \ {s} : status'[t] = status[t] /\ raised'[t] = raised[t]
  BY OneMoves
<1>3. \A t \in Sagas \ {s} : ~InFlight(t)
  BY <1>1 DEF OneAtATime
<1>4. \A t \in Sagas \ {s} : ~InFlight(t)'
  BY <1>2, <1>3 DEF InFlight
<1>5. InFlight(s)' => ~Quiet'
  BY DEF Quiet
<1>6. ~InFlight(s)' => Quiet'
  BY <1>4 DEF Quiet
<1> QED BY <1>1, <1>2, <1>3, <1>4, <1>5, <1>6 DEF Remembers

LEMMA SagaStepHistory ==
  ASSUME TypeInv, TypeInv', OneAtATime, SerialInv, HistoryInv, NEW s \in Sagas, SagaStep(s),
         Remembers
  PROVE  HistoryInv'
<1>0. SagaTypeOK /\ StoresTypeOK' /\ SagaTypeOK' /\ PlaceOf(s) /\ SoFar(s) /\ SameInv(s)
  BY DEF TypeInv, TypeOK, Places, SerialInv, HistoryInv
<1>1. /\ InFlight(s) /\ kind' = kind
      /\ \A t \in Sagas \ {s} : /\ ~InFlight(t) /\ ~InFlight(t)'
                                /\ status'[t] = status[t] /\ raised'[t] = raised[t]
      /\ InFlight(s)' => ~Quiet' /\ before' = before
      /\ ~InFlight(s)' => Quiet' /\ before' = View'
  BY <1>0, StoresQuiet
<1>2. \A t \in Sagas \ {s} : SameInv(t)'
  BY <1>1 DEF HistoryInv, SameInv, InFlight
<1>3. CASE ~InFlight(s)'
  <2>1. status'[s] \notin {"idle", "executing", "compensating"}
    BY <1>0, <1>3 DEF InFlight, SagaStep, Execute, Refuse, Raise, NoEmbeddings, EncodeRaises,
         Compensate, CompensationRaises, Advance, StepFails, NextUndo, SagaTypeOK
  <2>2. SameInv(s)'
    BY <2>1 DEF SameInv
  <2> QED BY <1>1, <1>2, <1>3, <2>2 DEF HistoryInv
<1>4. CASE InFlight(s)'
  <2>0. before' = before /\ ~Quiet'
    BY <1>1, <1>4
  <2>1. ASSUME status'[s] = "compensating",
               \A st \in Stores \ (raised'[s] \union Owes(s)') :
                    View'[st] \in Contract!LeftBy(s, st)
        PROVE  SameInv(s)'
    <3>1. \A st \in Stores : Contract!LeftBy(s, st)' = Contract!LeftBy(s, st)
      BY <1>1, <2>0 DEF Contract!LeftBy
    <3>2. Settled(s)'
      BY <2>1, <3>1 DEF Settled
    <3> QED BY <2>1, <3>2 DEF SameInv
  <2>2. SameInv(s)'
    <3>1. CASE Execute(s)
      BY <1>0, <1>4, <2>0, <3>1, ExecuteSame
    <3>2. CASE Fails(s)
      <4>1. status'[s] = "compensating"
        BY <1>0, <1>4, <3>2, FailFrame DEF InFlight
      <4> QED BY <1>0, <2>1, <3>2, <4>1, FailSettles
    <3>3. CASE Undoes(s)
      <4>1. status'[s] = "compensating"
        BY <1>0, <1>4, <3>3, UndoFrame DEF InFlight
      <4> QED BY <1>0, <2>1, <3>3, <4>1, UndoSettles
    <3>4. CASE EncodeRaises(s)
      BY <1>0, <1>4, <3>4 DEF EncodeRaises, InFlight, SagaTypeOK
    <3> QED BY <3>1, <3>2, <3>3, <3>4 DEF SagaStep, Fails, Undoes
  <2> QED BY <1>2, <2>0, <2>2 DEF HistoryInv
<1> QED BY <1>3, <1>4

LEMMA NextHistory ==
  ASSUME TypeInv, TypeInv', FreshInv, SerialInv, HistoryInv, [HNext]_<<vars, before>>,
         ~overlapped'
  PROVE  HistoryInv'
<1>0. SagaTypeOK /\ OneAtATime
  BY DEF TypeInv, TypeOK, FreshInv
<1>1. ASSUME NEW s \in Sagas, NEW k \in Kinds, Start(s, k), Remembers PROVE HistoryInv'
  <2>1. /\ \A t \in Sagas : ~InFlight(t)
        /\ status' = [status EXCEPT ![s] = "executing"] /\ UNCHANGED <<stores, raised>>
        /\ kind' = [kind EXCEPT ![s] = k] /\ at' = at /\ call' = call
        /\ status[s] = "idle"
    BY <1>1 DEF Start
  <2>2. status'[s] = "executing" /\ \A t \in Sagas \ {s} : status'[t] = status[t]
    BY <1>0, <2>1 DEF SagaTypeOK
  <2>3. before = View /\ before' = before
    BY <1>1, <2>1, <2>2 DEF HistoryInv, Quiet, InFlight, Remembers
  <2>4. View'["postgres"] = View["postgres"] /\ View'["milvus"] = View["milvus"]
        /\ View'["neo4j"] = View["neo4j"]
    BY <2>1, ViewValues DEF stores
  <2>5. Same("postgres")' /\ Same("milvus")' /\ Same("neo4j")'
    BY <2>3, <2>4 DEF Same
  <2>6. raised'[s] = {}
    BY <2>1 DEF HistoryInv, SameInv
  <2>7. SameInv(s)'
    BY <2>2, <2>5, <2>6 DEF SameInv
  <2>8. ASSUME NEW t \in Sagas \ {s} PROVE SameInv(t)'
    <3>1. ~InFlight(t)' /\ (status'[t] = "idle" => raised'[t] = {})
      BY <2>1, <2>2 DEF InFlight, HistoryInv, SameInv
    <3> QED BY <3>1 DEF SameInv, InFlight
  <2>9. ~Quiet'
    BY <2>2 DEF Quiet, InFlight
  <2> QED BY <2>7, <2>8, <2>9 DEF HistoryInv
<1>2. ASSUME Crash, Remembers PROVE HistoryInv'
  <2>1. \A t \in Sagas : ~InFlight(t)' /\ (status'[t] = "idle" => status[t] = "idle")
    BY <1>2 DEF Crash, InFlight
  <2>2. Quiet' /\ before' = View'
    BY <1>2, <2>1 DEF Quiet, Remembers
  <2>3. raised' = raised
    BY <1>2 DEF Crash
  <2>4. \A t \in Sagas : SameInv(t)'
    BY <2>1, <2>3 DEF HistoryInv, SameInv, InFlight
  <2> QED BY <2>2, <2>4 DEF HistoryInv
<1>3. CASE UNCHANGED <<vars, before>>
  <2>0. UNCHANGED <<stores, kind, status, at, call, undo, raised, before>>
    BY <1>3 DEF vars, control
  <2>1. View' = View
    BY <2>0 DEF View, stores
  <2>2. Quiet' = Quiet
    BY <2>0 DEF Quiet, InFlight
  <2>3. ASSUME NEW t \in Sagas PROVE SameInv(t)'
    <3>1. /\ SameInv(t) /\ Owes(t)' = Owes(t)
          /\ \A st \in Stores : Contract!LeftBy(t, st)' = Contract!LeftBy(t, st)
      BY <2>0 DEF HistoryInv, Owes, Contract!LeftBy
    <3>2. Settled(t)' <=> Settled(t)
      BY <2>0, <2>1, <3>1 DEF Settled
    <3>3. \A st : Same(st)' <=> Same(st)
      BY <2>0, <2>1 DEF Same
    <3> QED BY <2>0, <3>1, <3>2, <3>3 DEF SameInv
  <2> QED BY <2>0, <2>1, <2>2, <2>3 DEF HistoryInv
<1> QED BY <1>0, <1>1, <1>2, <1>3, SagaStepHistory DEF HNext, Next, Remembers

\* How far each request is, as the contract sees it.
Outcomes == [t \in Sagas |-> Outcome(t)]

LEMMA OutcomeOf ==
  ASSUME NEW s \in Sagas
  PROVE  /\ InFlight(s) => Outcomes[s] = "pending"
         /\ status[s] = "idle" => Outcomes[s] = "idle"
  BY DEF Outcomes, Outcome, InFlight

\* Only the outcome of the saga that moves changes.
LEMMA OutcomeMoves ==
  ASSUME SagaTypeOK, NEW s \in Sagas, \A t \in Sagas \ {s} : status'[t] = status[t]
  PROVE  /\ InFlight(s)' => Outcomes' = [Outcomes EXCEPT ![s] = "pending"]
         /\ status'[s] = "success" => Outcomes' = [Outcomes EXCEPT ![s] = "success"]
         /\ status'[s] = "crashed" => Outcomes' = [Outcomes EXCEPT ![s] = "crashed"]
         /\ status'[s] \in {"failed", "exception"} =>
                Outcomes' = [Outcomes EXCEPT ![s] = "failed"]
<1>1. \A t \in Sagas \ {s} : Outcome(t)' = Outcome(t)
  BY DEF Outcome, InFlight
<1>2. /\ InFlight(s)' => Outcome(s)' = "pending"
      /\ status'[s] = "success" => Outcome(s)' = "success"
      /\ status'[s] = "crashed" => Outcome(s)' = "crashed"
      /\ status'[s] \in {"failed", "exception"} => Outcome(s)' = "failed"
  BY DEF Outcome, InFlight
<1>3. \A x : (\A t \in Sagas \ {s} : Outcome(t)' = Outcome(t)) /\ Outcome(s)' = x
             => Outcomes' = [Outcomes EXCEPT ![s] = x]
  BY DEF Outcomes
<1> QED BY <1>1, <1>2, <1>3

\* The contract's actions, with the coordinator's state in the place of its own.
LEMMA ContractActions ==
  ASSUME NEW s \in Sagas
  PROVE  /\ \A k \in Kinds :
              /\ Outcomes[s] = "idle" /\ \A t \in Sagas : Outcomes[t] # "pending"
              /\ k # "create" => before["postgres"].row # NoDoc
              /\ kind' = [kind EXCEPT ![s] = k]
              /\ Outcomes' = [Outcomes EXCEPT ![s] = "pending"]
              /\ before' = before /\ raised' = raised
              => Contract!Promised
         /\ \A st \in Stores :
              /\ Outcomes[s] = "pending"
              /\ raised' = [raised EXCEPT ![s] = @ \union {st}]
              /\ before' = before /\ kind' = kind /\ Outcomes' = Outcomes
              => Contract!Promised
         /\ /\ Outcomes[s] = "pending" /\ Outcomes' = [Outcomes EXCEPT ![s] = "success"]
            /\ kind' = kind /\ raised[s] = {} /\ raised' = raised
            /\ before' = [st \in Stores |-> IF kind[s] = "delete" THEN Contract!Empty(st)
                                            ELSE Contract!Holding(st, s)]
            => Contract!Promised
         /\ /\ Outcomes[s] = "pending" /\ Outcomes' = [Outcomes EXCEPT ![s] = "failed"]
            /\ kind' = kind
            /\ \E st \in Stores : \/ raised' = [raised EXCEPT ![s] = @ \union {st}]
                                  \/ raised' = raised
            /\ \A st \in Stores \ raised'[s] : before'[st] \in Contract!LeftBy(s, st)
            => Contract!Promised
         /\ /\ Outcomes[s] = "pending" /\ Outcomes' = [Outcomes EXCEPT ![s] = "crashed"]
            /\ kind' = kind /\ raised' = raised
            => Contract!Promised
<1>0. Contract!Stores = Stores
  BY DEF Contract!Stores, Stores
<1>1. ASSUME NEW k \in Kinds,
             Outcomes[s] = "idle", \A t \in Sagas : Outcomes[t] # "pending",
             k # "create" => before["postgres"].row # NoDoc,
             kind' = [kind EXCEPT ![s] = k],
             Outcomes' = [Outcomes EXCEPT ![s] = "pending"],
             before' = before, raised' = raised
      PROVE  Contract!Promised
  <2>1. Contract!Begin(s, k)
    BY <1>1 DEF Contract!Begin, Outcomes
  <2> QED BY <2>1 DEF Contract!Promised, Kinds
<1>2. ASSUME NEW st \in Stores, Outcomes[s] = "pending",
             raised' = [raised EXCEPT ![s] = @ \union {st}],
             before' = before, kind' = kind, Outcomes' = Outcomes
      PROVE  Contract!Promised
  <2>1. Contract!Fault(s, st)
    BY <1>2 DEF Contract!Fault, Outcomes
  <2> QED BY <1>0, <2>1 DEF Contract!Promised
<1>3. ASSUME Outcomes[s] = "pending", Outcomes' = [Outcomes EXCEPT ![s] = "success"],
             kind' = kind, raised[s] = {}, raised' = raised,
             before' = [st \in Stores |-> IF kind[s] = "delete" THEN Contract!Empty(st)
                                          ELSE Contract!Holding(st, s)]
      PROVE  Contract!Promised
  <2>1. Contract!Succeed(s)
    BY <1>0, <1>3 DEF Contract!Succeed, Contract!Finish, Outcomes
  <2> QED BY <2>1 DEF Contract!Promised
<1>4. ASSUME Outcomes[s] = "pending", Outcomes' = [Outcomes EXCEPT ![s] = "failed"],
             kind' = kind,
             \E st \in Stores : \/ raised' = [raised EXCEPT ![s] = @ \union {st}]
                                \/ raised' = raised,
             \A st \in Stores \ raised'[s] : before'[st] \in Contract!LeftBy(s, st)
      PROVE  Contract!Promised
  <2>1. Contract!Fail(s)
    BY <1>0, <1>4 DEF Contract!Fail, Contract!Finish, Outcomes
  <2> QED BY <2>1 DEF Contract!Promised
<1>5. ASSUME Outcomes[s] = "pending", Outcomes' = [Outcomes EXCEPT ![s] = "crashed"],
             kind' = kind, raised' = raised
      PROVE  Contract!Promised
  <2>1. Contract!Stop(s)
    BY <1>5 DEF Contract!Stop, Contract!Finish, Outcomes
  <2> QED BY <2>1 DEF Contract!Promised
<1> QED BY <1>1, <1>2, <1>3, <1>4, <1>5

\* A request that has left all it wanted.
LEMMA CompleteView ==
  ASSUME StoresTypeOK', EdgesHang', NEW s \in Sagas, Complete(s)', kind' = kind
  PROVE  View' = [st \in Stores |-> IF kind[s] = "delete" THEN Contract!Empty(st)
                                    ELSE Contract!Holding(st, s)]
<1> DEFINE Wanted(st) == IF kind[s] = "delete" THEN Contract!Empty(st)
                         ELSE Contract!Holding(st, s)
<1>1. /\ docNode' => docNode' = TRUE
      /\ ~docNode' => docNode' = FALSE
  BY DEF StoresTypeOK
<1>2. \A st \in Stores : View'[st] = Wanted(st)
  <2>1. CASE kind[s] = "delete"
    <3>1. pgDoc' = NoDoc /\ pgChunks' = {} /\ vectors' = {} /\ contains' = {} /\ ~docNode'
      BY <2>1 DEF Complete, Deleted
    <3>2. View'["postgres"] = Contract!Empty("postgres")
      BY <3>1, ViewValues DEF Contract!Empty
    <3>3. View'["milvus"] = Contract!Empty("milvus")
      BY <3>1, ViewValues DEF Contract!Empty
    <3>4. View'["neo4j"] = Contract!Empty("neo4j")
      BY <3>1, GraphValue DEF Contract!Empty
    <3> QED BY <2>1, <3>2, <3>3, <3>4 DEF Stores
  <2>2. CASE kind[s] # "delete"
    <3>1. HoldsExactly(s)'
      BY <2>2 DEF Complete
    <3>2. View'["postgres"] = Contract!Holding("postgres", s)
      BY <3>1, ViewValues DEF HoldsExactly, Contract!Holding
    <3>3. View'["milvus"] = Contract!Holding("milvus", s)
      BY <3>1, ViewValues DEF HoldsExactly, Contract!Holding
    <3>4. View'["neo4j"] = Contract!Holding("neo4j", s)
      <4>1. docNode' = TRUE /\ contains' = {s}
        BY <1>1, <3>1 DEF HoldsExactly
      <4> QED BY <4>1, ViewValues DEF Contract!Holding
    <3> QED BY <2>2, <3>2, <3>3, <3>4 DEF Stores
  <2> QED BY <2>1, <2>2
<1>3. View' = [st \in Stores |-> View'[st]]
  BY DEF View, Stores
<1> QED BY <1>2, <1>3

LEMMA SagaStepContract ==
  ASSUME TypeInv, TypeInv', FreshInv, FreshInv', SerialInv, HistoryInv,
         NEW s \in Sagas, SagaStep(s), Remembers
  PROVE  Contract!Promised \/ UNCHANGED <<before, kind, Outcomes, raised>>
<1>0. /\ SagaTypeOK /\ StoresTypeOK' /\ SagaTypeOK' /\ PlaceOf(s) /\ SoFar(s) /\ SameInv(s)
      /\ OneAtATime /\ EdgesHang /\ EdgesHang'
  BY DEF TypeInv, TypeOK, Places, SerialInv, HistoryInv, FreshInv, StoresFresh
<1>1. /\ InFlight(s) /\ kind' = kind
      /\ \A t \in Sagas \ {s} : status'[t] = status[t]
      /\ InFlight(s)' => before' = before
      /\ ~InFlight(s)' => before' = View'
  BY <1>0, StoresQuiet
<1>2. Outcomes[s] = "pending"
  BY <1>1, OutcomeOf
<1>3. /\ InFlight(s)' => Outcomes' = [Outcomes EXCEPT ![s] = "pending"]
      /\ status'[s] = "success" => Outcomes' = [Outcomes EXCEPT ![s] = "success"]
      /\ status'[s] \in {"failed", "exception"} =>
             Outcomes' = [Outcomes EXCEPT ![s] = "failed"]
  BY <1>0, <1>1, OutcomeMoves
<1>4. InFlight(s)' => Outcomes' = Outcomes
  BY <1>2, <1>3 DEF Outcomes
<1>5. \/ raised' = raised
      \/ \E st \in Stores : raised' = [raised EXCEPT ![s] = @ \union {st}]
  BY StoreOfCall DEF SagaStep, Execute, Refuse, Raise, NoEmbeddings, EncodeRaises,
         Compensate, CompensationRaises, Advance, StepFails, NextUndo
<1>6. CASE InFlight(s)'
  <2>1. ASSUME raised' = raised PROVE UNCHANGED <<before, kind, Outcomes, raised>>
    BY <1>1, <1>4, <1>6, <2>1 DEF Outcomes
  <2>2. ASSUME NEW st \in Stores, raised' = [raised EXCEPT ![s] = @ \union {st}]
        PROVE  Contract!Promised
    BY <1>1, <1>2, <1>4, <1>6, <2>2, ContractActions
  <2> QED BY <1>5, <2>1, <2>2
<1>7. CASE ~InFlight(s)'
  <2>1. ASSUME status'[s] \in {"failed", "exception"},
               \A st \in Stores \ raised'[s] : View'[st] \in Contract!LeftBy(s, st)
        PROVE  Contract!Promised
    <3>1. \A st \in Stores \ raised'[s] : before'[st] \in Contract!LeftBy(s, st)
      BY <1>1, <1>7, <2>1
    <3>2. \E st \in Stores : \/ raised' = [raised EXCEPT ![s] = @ \union {st}]
                             \/ raised' = raised
      BY <1>5 DEF Stores
    <3>3. Outcomes' = [Outcomes EXCEPT ![s] = "failed"]
      BY <1>3, <2>1
    <3> QED BY <1>1, <1>2, <3>1, <3>2, <3>3, ContractActions
  <2>2. CASE Execute(s)
    <3>1. status'[s] = "success" /\ raised' = raised /\ raised[s] = {}
      BY <1>0, <1>7, <2>2 DEF Execute, Advance, SagaTypeOK, InFlight, SameInv
    <3>2. Complete(s)'
      BY <1>0, <2>2, <3>1, ExecuteSoFar
    <3>3. before' = [st \in Stores |-> IF kind[s] = "delete" THEN Contract!Empty(st)
                                       ELSE Contract!Holding(st, s)]
      BY <1>0, <1>1, <1>7, <3>2, CompleteView
    <3>4. Outcomes' = [Outcomes EXCEPT ![s] = "success"]
      BY <1>3, <3>1
    <3> QED BY <1>1, <1>2, <3>1, <3>3, <3>4, ContractActions
  <2>3. CASE Fails(s)
    <3>1. status'[s] = "failed"
      BY <1>0, <1>7, <2>3, FailFrame DEF InFlight
    <3>2. \A st \in Stores \ (raised'[s] \union Owes(s)') : View'[st] \in Contract!LeftBy(s, st)
      BY <1>0, <2>3, FailSettles
    <3>3. Owes(s)' = {}
      BY <3>1 DEF Owes
    <3> QED BY <2>1, <3>1, <3>2, <3>3
  <2>4. CASE Undoes(s)
    <3>1. status'[s] = "failed"
      <4>1. status'[s] = IF undo[s] = UndoTo(kind[s], at[s]) THEN "failed" ELSE "compensating"
        BY <1>0, <2>4, UndoFrame
      <4> QED BY <1>7, <4>1 DEF InFlight
    <3>2. \A st \in Stores \ (raised'[s] \union Owes(s)') : View'[st] \in Contract!LeftBy(s, st)
      BY <1>0, <2>4, UndoSettles
    <3>3. Owes(s)' = {}
      BY <3>1 DEF Owes
    <3> QED BY <2>1, <3>1, <3>2, <3>3
  <2>5. CASE EncodeRaises(s)
    <3>1. status'[s] = "exception"
      BY <1>0, <2>5 DEF EncodeRaises, SagaTypeOK
    <3> QED BY <1>0, <2>1, <2>5, <3>1, EncodeSettles
  <2> QED BY <2>2, <2>3, <2>4, <2>5 DEF SagaStep, Fails, Undoes
<1> QED BY <1>6, <1>7

LEMMA NextContract ==
  ASSUME TypeInv, TypeInv', FreshInv, FreshInv', SerialInv, HistoryInv,
         [HNext]_<<vars, before>>, ~overlapped, ~overlapped'
  PROVE  [Contract!CNext]_(Contract!cvars)
<1>0. SagaTypeOK /\ OneAtATime
  BY DEF TypeInv, TypeOK, FreshInv
<1>1. ASSUME NEW s \in Sagas, NEW k \in Kinds, Start(s, k), Remembers PROVE Contract!Promised
  <2>1. /\ \A t \in Sagas : ~InFlight(t)
        /\ status' = [status EXCEPT ![s] = "executing"] /\ raised' = raised
        /\ kind' = [kind EXCEPT ![s] = k] /\ status[s] = "idle"
        /\ k # "create" => pgDoc # NoDoc
    BY <1>1 DEF Start
  <2>2. status'[s] = "executing" /\ \A t \in Sagas \ {s} : status'[t] = status[t]
    BY <1>0, <2>1 DEF SagaTypeOK
  <2>3. before = View /\ before' = before
    BY <1>1, <2>1, <2>2 DEF HistoryInv, Quiet, InFlight, Remembers
  <2>4. before["postgres"].row = pgDoc
    BY <2>3, ViewValues
  <2>5. Outcomes' = [Outcomes EXCEPT ![s] = "pending"]
    BY <1>0, <2>2, OutcomeMoves DEF InFlight
  <2>6. Outcomes[s] = "idle" /\ \A t \in Sagas : Outcomes[t] # "pending"
    BY <1>0, <2>1, OutcomeOf DEF Outcomes, Outcome, InFlight, SagaTypeOK
  <2> QED BY <2>1, <2>3, <2>4, <2>5, <2>6, ContractActions
<1>2. ASSUME Crash PROVE Contract!Promised
  <2>1. PICK s \in Sagas : InFlight(s)
    BY <1>2 DEF Crash
  <2>2. \A t \in Sagas \ {s} : ~InFlight(t)
    BY <1>0, <2>1 DEF OneAtATime
  <2>3. /\ status'[s] = "crashed" /\ \A t \in Sagas \ {s} : status'[t] = status[t]
        /\ kind' = kind /\ raised' = raised
    BY <1>2, <2>1, <2>2 DEF Crash
  <2>4. Outcomes[s] = "pending" /\ Outcomes' = [Outcomes EXCEPT ![s] = "crashed"]
    BY <1>0, <2>1, <2>3, OutcomeOf, OutcomeMoves
  <2> QED BY <2>3, <2>4, ContractActions
<1>3. ASSUME UNCHANGED <<vars, before>>
      PROVE  UNCHANGED <<before, kind, Outcomes, raised>>
  BY <1>3 DEF vars, control, Outcomes, Outcome, InFlight
<1>4. Contract!Promised \/ UNCHANGED <<before, kind, Outcomes, raised>>
  BY <1>1, <1>2, <1>3, SagaStepContract DEF HNext, Next, Remembers
<1>5. overlapped' = overlapped
  <2>1. overlapped \in BOOLEAN /\ overlapped' \in BOOLEAN
    BY DEF TypeInv, TypeOK, SagaTypeOK
  <2> QED BY <2>1
<1> QED BY <1>4, <1>5 DEF Contract!CNext, Contract!cvars, Outcomes

LEMMA InitContract == HInit => Contract!CInit /\ HistoryInv
<1> SUFFICES ASSUME HInit PROVE Contract!CInit /\ HistoryInv
  OBVIOUS
<1>1. /\ pgDoc = NoDoc /\ pgChunks = {} /\ vectors = {} /\ docNode = FALSE /\ contains = {}
      /\ kind = [s \in Sagas |-> "none"] /\ raised = [s \in Sagas |-> {}]
      /\ status = [s \in Sagas |-> "idle"] /\ before = View
  BY DEF HInit, Init, StoresInit
<1>2. before = [st \in Stores |-> Contract!Empty(st)]
  <2>1. View = [st \in Stores |-> View[st]]
    BY DEF View, Stores
  <2>2. \A st \in Stores : View[st] = Contract!Empty(st)
    BY <1>1, ViewValues DEF Contract!Empty, Stores
  <2> QED BY <1>1, <2>1, <2>2
<1>3. [t \in Sagas |-> Outcome(t)] = [t \in Sagas |-> "idle"]
  BY <1>1 DEF Outcome, InFlight
<1>4. Contract!CInit
  BY <1>1, <1>2, <1>3 DEF Contract!CInit, Contract!Stores, Stores, HInit, Init
<1>5. HistoryInv
  BY <1>1 DEF HistoryInv, SameInv
<1> QED BY <1>4, <1>5

\* As long as requests come one after the other, every saga with all its calls,
\* failures and compensations is to its document one atomic step of
\* DocumentContract: all three stores as the request wants them, or a failure
\* that leaves what the contract lists in every store that did not itself fail.
THEOREM SagasAreAtomic == HSpec => ImplementsContract
<1> DEFINE History == ~overlapped => HistoryInv
<1>1. [HNext]_<<vars, before>> => [Next]_vars
  BY DEF HNext
<1>2. HSpec => Spec
  <2>1. HInit => Init
    BY DEF HInit
  <2> QED BY <1>1, <2>1, PTL DEF HSpec, Spec
<1>3. HSpec => []TypeInv /\ []OneByOne
  BY <1>2, SerialInvariants, PTL
<1>4. HInit => History
  BY InitContract
<1>5. TypeInv /\ TypeInv' /\ OneByOne /\ History /\ [HNext]_<<vars, before>> => History'
  BY <1>1, NextHistory, StaysOverlapped DEF OneByOne
<1>6. /\ TypeInv /\ TypeInv' /\ OneByOne /\ OneByOne' /\ History
      /\ [HNext]_<<vars, before>>
      => [Contract!CNext]_(Contract!cvars)
  <2>1. CASE overlapped'
    BY <2>1 DEF Contract!CNext
  <2>2. CASE ~overlapped'
    BY <1>1, <2>2, NextContract, StaysOverlapped DEF OneByOne
  <2> QED BY <2>1, <2>2
<1>7. HSpec => []History
  <2> HIDE DEF History
  <2> QED BY <1>3, <1>4, <1>5, PTL DEF HSpec
<1> HIDE DEF History
<1> QED BY <1>3, <1>6, <1>7, InitContract, PTL DEF HSpec, ImplementsContract, Contract!CSpec

=============================================================================
