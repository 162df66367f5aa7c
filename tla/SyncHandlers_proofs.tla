-------------------------- MODULE SyncHandlers_proofs --------------------------
(***************************************************************************)
(* The sync handlers beside the sagas, for any number of sagas that        *)
(* overlap and any failures: types, that a result event is true unless a   *)
(* saga moved during the handling, and that syncs between the calls of     *)
(* sagas lose no vectors.                                                  *)
(***************************************************************************)
EXTENDS SyncHandlers, SagaCoordinator_proofs, FiniteSetTheorems

-----------------------------------------------------------------------------
(* The calls of the handlers, spelled out.                                 *)

LEMMA UpdateCalls ==
  ASSUME NEW e, kind[e] = "update"
  PROVE  /\ DOMAIN HandlerCalls(e) = 1..5
         /\ HandlerCalls(e)[1] = "delete_vectors"
         /\ HandlerCalls(e)[2] = "insert_vectors"
         /\ HandlerCalls(e)[3] = "delete_document_graph"
         /\ HandlerCalls(e)[4] = "create_document_node"
         /\ HandlerCalls(e)[5] = "create_chunk_nodes"
<1>1. HandlerCalls(e) = <<"delete_vectors", "insert_vectors",
           "delete_document_graph", "create_document_node", "create_chunk_nodes">>
  BY DEF HandlerCalls
<1> QED BY <1>1

LEMMA DeleteCalls ==
  ASSUME NEW e, kind[e] = "delete"
  PROVE  /\ DOMAIN HandlerCalls(e) = 1..2
         /\ HandlerCalls(e)[1] = "delete_vectors"
         /\ HandlerCalls(e)[2] = "delete_document_graph"
<1>1. HandlerCalls(e) = <<"delete_vectors", "delete_document_graph">>
  BY DEF HandlerCalls
<1> QED BY <1>1

LEMMA HandlerStores ==
    /\ HandlerStore("delete_vectors") = "milvus" /\ HandlerStore("insert_vectors") = "milvus"
    /\ HandlerStore("delete_document_graph") = "neo4j"
    /\ HandlerStore("create_document_node") = "neo4j"
    /\ HandlerStore("create_chunk_nodes") = "neo4j"
  BY DEF HandlerStore

\* After a call of Milvus that raised come those of Neo4j, after one of Neo4j
\* comes the report.
LEMMA NextStoreIs ==
  ASSUME syncCall \in DOMAIN HandlerCalls(event)
  PROVE  /\ kind[event] = "update" =>
              IF syncCall <= 2 THEN HandlerStore(HandlerCall) = "milvus" /\ NextStore = 3
                               ELSE HandlerStore(HandlerCall) = "neo4j" /\ NextStore = 6
         /\ kind[event] = "delete" =>
              IF syncCall = 1 THEN HandlerStore(HandlerCall) = "milvus" /\ NextStore = 2
                              ELSE HandlerStore(HandlerCall) = "neo4j" /\ NextStore = 3
<1> DEFINE Before == {i \in DOMAIN HandlerCalls(event) :
                        HandlerStore(HandlerCall) = "neo4j"
                        \/ HandlerStore(HandlerCalls(event)[i]) = "milvus"}
<1>1. NextStore = 1 + Cardinality(Before)
  BY DEF NextStore
<1>2. \A n \in Nat : Cardinality(1..n) = n
  BY FS_Interval
<1>3. ASSUME kind[event] = "update"
      PROVE  IF syncCall <= 2 THEN HandlerStore(HandlerCall) = "milvus" /\ NextStore = 3
                              ELSE HandlerStore(HandlerCall) = "neo4j" /\ NextStore = 6
  <2>1. /\ DOMAIN HandlerCalls(event) = 1..5
        /\ \A i \in 1..5 : HandlerStore(HandlerCalls(event)[i]) = IF i <= 2 THEN "milvus" ELSE "neo4j"
    <3>1. \A i \in 1..5 : i = 1 \/ i = 2 \/ i = 3 \/ i = 4 \/ i = 5
      OBVIOUS
    <3> QED BY <1>3, <3>1, UpdateCalls, HandlerStores
  <2>2. syncCall \in 1..5 /\ HandlerStore(HandlerCall) = IF syncCall <= 2 THEN "milvus" ELSE "neo4j"
    BY <2>1 DEF HandlerCall
  <2>3. CASE syncCall <= 2
    <3>1. Before = 1..2
      BY <2>1, <2>2, <2>3
    <3>2. NextStore = 3
      <4>1. Cardinality(Before) = 2
        BY <1>2, <3>1
      <4> QED BY <1>1, <4>1
    <3> QED BY <2>2, <2>3, <3>2
  <2>4. CASE ~(syncCall <= 2)
    <3>1. Before = 1..5
      BY <2>1, <2>2, <2>4
    <3>2. NextStore = 6
      <4>1. Cardinality(Before) = 5
        BY <1>2, <3>1
      <4> QED BY <1>1, <4>1
    <3> QED BY <2>2, <2>4, <3>2
  <2> QED BY <2>3, <2>4
<1>4. ASSUME kind[event] = "delete"
      PROVE  IF syncCall = 1 THEN HandlerStore(HandlerCall) = "milvus" /\ NextStore = 2
                             ELSE HandlerStore(HandlerCall) = "neo4j" /\ NextStore = 3
  <2>1. /\ DOMAIN HandlerCalls(event) = 1..2
        /\ \A i \in 1..2 : HandlerStore(HandlerCalls(event)[i]) = IF i = 1 THEN "milvus" ELSE "neo4j"
    <3>1. \A i \in 1..2 : i = 1 \/ i = 2
      OBVIOUS
    <3> QED BY <1>4, <3>1, DeleteCalls, HandlerStores
  <2>2. syncCall \in 1..2 /\ HandlerStore(HandlerCall) = IF syncCall = 1 THEN "milvus" ELSE "neo4j"
    BY <2>1 DEF HandlerCall
  <2>3. CASE syncCall = 1
    <3>1. Before = 1..1
      BY <2>1, <2>2, <2>3
    <3>2. NextStore = 2
      <4>1. Cardinality(Before) = 1
        BY <1>2, <3>1
      <4> QED BY <1>1, <4>1
    <3> QED BY <2>2, <2>3, <3>2
  <2>4. CASE syncCall # 1
    <3>1. Before = 1..2
      BY <2>1, <2>2, <2>4
    <3>2. NextStore = 3
      <4>1. Cardinality(Before) = 2
        BY <1>2, <3>1
      <4> QED BY <1>1, <4>1
    <3> QED BY <2>2, <2>4, <3>2
  <2> QED BY <2>3, <2>4
<1> QED BY <1>3, <1>4

-----------------------------------------------------------------------------
(* Types, and where a handler can be.                                      *)

SyncPlace ==
    /\ \A s \in topic : kind[s] \in {"update", "delete"}
    /\ event \in Sagas => kind[event] \in {"update", "delete"}
    /\ phase \in {"read", "call"} => event \in Sagas
    /\ phase = "report" => event \in Sagas \union {Metadata}
    /\ phase = "call" => syncCall \in DOMAIN HandlerCalls(event)

SyncInv == TypeInv /\ SyncTypeOK /\ SyncPlace

\* A step of the service that runs the sagas.
BesideStep ==
    /\ Next
    /\ mixed' = (mixed \/ phase # "idle")
    /\ UNCHANGED <<topic, event, phase, syncCall, read, failed, report, syncRaised>>

LEMMA SyncSteps ==
  ASSUME SyncNext
  PROVE  \/ BesideStep
         \/ \E s \in Sagas : Publish(s)
         \/ \E e \in Sagas \union {Metadata} : Deliver(e)
         \/ HandlerStep
         \/ SyncCrash
<1>1. CASE RequestComes
  <2>1. PICK s \in Sagas, k \in Kinds : Beside(Start(s, k))
    BY <1>1 DEF RequestComes
  <2> QED BY <2>1 DEF Beside, BesideStep, Next
<1>2. CASE \E s \in Sagas : SagaMoves(s)
  <2>1. PICK s \in Sagas : Beside(SagaStep(s))
    BY <1>2 DEF SagaMoves
  <2> QED BY <2>1 DEF Beside, BesideStep, Next
<1>3. CASE ServiceCrashes
  BY <1>3 DEF ServiceCrashes, Beside, BesideStep, Next
<1> QED BY <1>1, <1>2, <1>3 DEF SyncNext

\* A request keeps its kind.
LEMMA KindsStay ==
  ASSUME TypeInv, [Next]_vars, NEW s \in Sagas, kind[s] # "none"
  PROVE  kind'[s] = kind[s]
<1>0. SagaTypeOK
  BY DEF TypeInv, TypeOK
<1>1. ASSUME NEW r \in Sagas, NEW k \in Kinds, Start(r, k) PROVE kind'[s] = kind[s]
  <2>1. kind' = [kind EXCEPT ![r] = k] /\ kind[r] = "none"
    BY <1>1, StartKeeps
  <2> QED BY <1>0, <2>1 DEF SagaTypeOK
<1>2. ASSUME NEW r \in Sagas, SagaStep(r) PROVE kind'[s] = kind[s]
  BY <1>0, <1>2, OneMoves
<1>3. CASE Crash \/ UNCHANGED vars
  BY <1>3 DEF Crash, vars, control
<1> QED BY <1>1, <1>2, <1>3 DEF Next

LEMMA HandlerEffectType ==
  ASSUME StoresTypeOK, read \in SUBSET Sagas, NEW c, HandlerEffect(c)
  PROVE  StoresTypeOK' /\ UNCHANGED pg
<1>1. CASE DeleteDocumentGraph
  BY <1>1 DEF DeleteDocumentGraph, StoresTypeOK, pg
<1>2. CASE CreateDocumentNode
  BY <1>2 DEF CreateDocumentNode, StoresTypeOK, pg
<1> QED BY <1>1, <1>2 DEF HandlerEffect, StoresTypeOK, pg, graph

\* Where a handler goes from a call.
LEMMA ContinueType ==
  ASSUME NEW i \in 1..6, ContinueAt(i), event' = event, kind' = kind,
         DOMAIN HandlerCalls(event) \subseteq 1..5
  PROVE  /\ syncCall' \in 1..5 /\ phase' \in {"call", "report"}
         /\ phase' = "call" => syncCall' = i /\ syncCall' \in DOMAIN HandlerCalls(event)'
         /\ i \in DOMAIN HandlerCalls(event) <=> phase' = "call"
<1>1. HandlerCalls(event)' = HandlerCalls(event)
  BY DEF HandlerCalls
<1> QED BY <1>1 DEF ContinueAt

LEMMA CallRange ==
  ASSUME SyncInv, event \in Sagas
  PROVE  /\ kind[event] = "update" \/ kind[event] = "delete"
         /\ kind[event] = "update" => DOMAIN HandlerCalls(event) = 1..5
         /\ kind[event] = "delete" => DOMAIN HandlerCalls(event) = 1..2
         /\ DOMAIN HandlerCalls(event) \subseteq 1..5
  BY UpdateCalls, DeleteCalls DEF SyncInv, SyncPlace

\* The handler's next call and where it leads.
Rewriting(i) == phase = "call" /\ kind[event] = "update" /\ syncCall = i
Removing(i) == phase = "call" /\ kind[event] = "delete" /\ syncCall = i

HandlerMoves ==
    \/ Rewriting(1) /\ HandlerEffect("delete_vectors") /\ Rewriting(2)'
    \/ Rewriting(2) /\ HandlerEffect("insert_vectors") /\ Rewriting(3)'
    \/ Rewriting(3) /\ HandlerEffect("delete_document_graph") /\ Rewriting(4)'
    \/ Rewriting(4) /\ HandlerEffect("create_document_node") /\ Rewriting(5)'
    \/ Rewriting(5) /\ HandlerEffect("create_chunk_nodes") /\ phase' = "report"
    \/ Removing(1) /\ HandlerEffect("delete_vectors") /\ Removing(2)'
    \/ Removing(2) /\ HandlerEffect("delete_document_graph") /\ phase' = "report"

LEMMA HandlerExecuteMoves ==
  ASSUME SyncInv, HandlerExecute
  PROVE  HandlerMoves
<1>0. /\ phase = "call" /\ event \in Sagas /\ syncCall \in DOMAIN HandlerCalls(event)
      /\ HandlerEffect(HandlerCall) /\ ContinueAt(syncCall + 1)
      /\ kind' = kind /\ event' = event
  BY DEF SyncInv, SyncPlace, HandlerExecute, control
<1>1. CASE kind[event] = "update"
  <2>1. DOMAIN HandlerCalls(event) = 1..5
    BY <1>1, UpdateCalls
  <2>2. /\ syncCall + 1 \in 1..5 => phase' = "call" /\ syncCall' = syncCall + 1
        /\ syncCall + 1 \notin 1..5 => phase' = "report"
    BY <1>0, <2>1 DEF ContinueAt
  <2>3. \/ syncCall = 1 \/ syncCall = 2 \/ syncCall = 3 \/ syncCall = 4 \/ syncCall = 5
    BY <1>0, <2>1
  <2>4. HandlerEffect(HandlerCalls(event)[syncCall])
    BY <1>0 DEF HandlerCall
  <2>5. kind'[event'] = "update"
    BY <1>0, <1>1
  <2>6. CASE syncCall = 1
    <3>1. syncCall + 1 = 2 /\ 2 \in 1..5
      BY <2>6
    <3>2. Rewriting(2)'
      BY <2>2, <2>5, <3>1 DEF Rewriting
    <3> QED BY <1>0, <1>1, <2>4, <2>6, <3>2, UpdateCalls DEF Rewriting, HandlerMoves
  <2>7. CASE syncCall = 2
    <3>1. syncCall + 1 = 3 /\ 3 \in 1..5
      BY <2>7
    <3>2. Rewriting(3)'
      BY <2>2, <2>5, <3>1 DEF Rewriting
    <3> QED BY <1>0, <1>1, <2>4, <2>7, <3>2, UpdateCalls DEF Rewriting, HandlerMoves
  <2>8. CASE syncCall = 3
    <3>1. syncCall + 1 = 4 /\ 4 \in 1..5
      BY <2>8
    <3>2. Rewriting(4)'
      BY <2>2, <2>5, <3>1 DEF Rewriting
    <3> QED BY <1>0, <1>1, <2>4, <2>8, <3>2, UpdateCalls DEF Rewriting, HandlerMoves
  <2>9. CASE syncCall = 4
    <3>1. syncCall + 1 = 5 /\ 5 \in 1..5
      BY <2>9
    <3>2. Rewriting(5)'
      BY <2>2, <2>5, <3>1 DEF Rewriting
    <3> QED BY <1>0, <1>1, <2>4, <2>9, <3>2, UpdateCalls DEF Rewriting, HandlerMoves
  <2>10. CASE syncCall = 5
    <3>1. syncCall + 1 \notin 1..5
      BY <2>10
    <3>2. phase' = "report"
      BY <2>2, <3>1
    <3> QED BY <1>0, <1>1, <2>4, <2>10, <3>2, UpdateCalls DEF Rewriting, HandlerMoves
  <2> QED BY <2>3, <2>6, <2>7, <2>8, <2>9, <2>10
<1>2. CASE kind[event] = "delete"
  <2>1. DOMAIN HandlerCalls(event) = 1..2
    BY <1>2, DeleteCalls
  <2>2. /\ syncCall + 1 \in 1..2 => phase' = "call" /\ syncCall' = syncCall + 1
        /\ syncCall + 1 \notin 1..2 => phase' = "report"
    BY <1>0, <2>1 DEF ContinueAt
  <2>3. syncCall = 1 \/ syncCall = 2
    BY <1>0, <2>1
  <2>4. HandlerEffect(HandlerCalls(event)[syncCall])
    BY <1>0 DEF HandlerCall
  <2>5. kind'[event'] = "delete"
    BY <1>0, <1>2
  <2>6. CASE syncCall = 1
    <3>1. syncCall + 1 = 2 /\ 2 \in 1..2
      BY <2>6
    <3>2. Removing(2)'
      BY <2>2, <2>5, <3>1 DEF Removing
    <3> QED BY <1>0, <1>2, <2>4, <2>6, <3>2, DeleteCalls DEF Removing, HandlerMoves
  <2>7. CASE syncCall = 2
    <3>1. syncCall + 1 \notin 1..2
      BY <2>7
    <3>2. phase' = "report"
      BY <2>2, <3>1
    <3> QED BY <1>0, <1>2, <2>4, <2>7, <3>2, DeleteCalls DEF Removing, HandlerMoves
  <2> QED BY <2>3, <2>6, <2>7
<1> QED BY <1>0, <1>1, <1>2, CallRange

\* Places of sagas depend on nothing a handler writes.
LEMMA ControlStays ==
  ASSUME SagaTypeOK, Places, UNCHANGED control
  PROVE  SagaTypeOK' /\ Places'
  BY DEF control, SagaTypeOK, Places, PlaceOf, InFlight, Step, UndoTo

LEMMA VarsStay == ASSUME TypeInv, UNCHANGED vars PROVE TypeInv'
  BY NextTypeInv

LEMMA InitSync == SyncInit => SyncInv
<1> SUFFICES ASSUME SyncInit PROVE SyncInv
  OBVIOUS
<1>1. TypeInv
  BY InitTypeInv DEF SyncInit
<1>2. SyncTypeOK
  <2>1. 1 \in 1..5
    OBVIOUS
  <2> QED BY <2>1 DEF SyncInit, SyncTypeOK
<1>3. SyncPlace
  BY SyncAssumption DEF SyncInit, SyncPlace
<1> QED BY <1>1, <1>2, <1>3 DEF SyncInv

\* One step per action of a handler, and one for the sagas.
LEMMA HandlerSyncInv ==
  ASSUME SyncInv, HandlerStep
  PROVE  SyncInv'
<1>0. /\ StoresTypeOK /\ SagaTypeOK /\ Places /\ TypeInv /\ SyncTypeOK /\ SyncPlace
      /\ read \in SUBSET Sagas
  BY DEF SyncInv, TypeInv, TypeOK, SyncTypeOK
<1>1. CASE ReadChunks
  <2>1. /\ phase = "read" /\ event \in Sagas /\ read' = pgChunks
        /\ UNCHANGED <<vars, topic, event, failed, report, mixed, syncRaised>>
        /\ \/ ContinueAt(1) \/ ContinueAt(2) \/ (phase' = "idle" /\ UNCHANGED syncCall)
    BY <1>0, <1>1 DEF ReadChunks, GetChunksByDoc, SyncPlace
  <2>2. TypeInv' /\ kind' = kind /\ read' \in SUBSET Sagas
    BY <1>0, <2>1, VarsStay DEF vars, control, StoresTypeOK
  <2>3. DOMAIN HandlerCalls(event) \subseteq 1..5
    BY <2>1, CallRange
  <2>4. /\ syncCall' \in 1..5 /\ phase' \in {"idle", "call", "report"}
        /\ phase' = "call" => syncCall' \in DOMAIN HandlerCalls(event)'
    BY <1>0, <2>1, <2>2, <2>3, ContinueType DEF SyncTypeOK
  <2>5. SyncTypeOK'
    BY <1>0, <2>1, <2>2, <2>4 DEF SyncTypeOK
  <2>6. SyncPlace'
    BY <1>0, <2>1, <2>2, <2>4 DEF SyncPlace
  <2> QED BY <2>2, <2>5, <2>6 DEF SyncInv
<1>2. CASE ReadRaises
  <2>1. /\ phase = "read" /\ phase' = "report" /\ failed' = {"milvus", "neo4j"} /\ syncRaised' = TRUE
        /\ UNCHANGED <<vars, topic, event, syncCall, read, report, mixed>>
    BY <1>2 DEF ReadRaises
  <2>2. TypeInv' /\ kind' = kind
    BY <1>0, <2>1, VarsStay DEF vars, control
  <2>3. SyncTypeOK'
    BY <1>0, <2>1 DEF SyncTypeOK
  <2>4. SyncPlace'
    BY <1>0, <2>1, <2>2 DEF SyncPlace
  <2> QED BY <2>2, <2>3, <2>4 DEF SyncInv
<1>3. ASSUME HandlerExecute \/ HandlerRaises
      PROVE  SyncInv'
  <2>1. /\ phase = "call" /\ event \in Sagas /\ syncCall \in DOMAIN HandlerCalls(event)
        /\ UNCHANGED stores \/ HandlerEffect(HandlerCall)
        /\ UNCHANGED <<control, topic, event, read, report, mixed>>
    BY <1>0, <1>3 DEF HandlerExecute, HandlerRaises, SyncPlace
  <2>2. StoresTypeOK'
    BY <1>0, <2>1, StoresStutter, HandlerEffectType
  <2>3. TypeInv' /\ kind' = kind
    BY <1>0, <2>1, <2>2, ControlStays DEF TypeInv, TypeOK, control
  <2>4. DOMAIN HandlerCalls(event) \subseteq 1..5
    BY <2>1, CallRange
  <2>5. PICK i \in 1..6 : ContinueAt(i)
    <3>1. CASE HandlerExecute
      <4>1. syncCall \in 1..5
        BY <2>1, <2>4
      <4>2. syncCall + 1 \in 1..6
        BY <4>1
      <4> QED BY <3>1, <4>2 DEF HandlerExecute
    <3>2. CASE HandlerRaises
      <4>1. NextStore = 2 \/ NextStore = 3 \/ NextStore = 6
        BY <2>1, NextStoreIs, CallRange
      <4>2. NextStore \in 1..6
        BY <4>1
      <4> QED BY <3>2, <4>2 DEF HandlerRaises
    <3> QED BY <1>3, <3>1, <3>2
  <2>6. /\ syncCall' \in 1..5 /\ phase' \in {"call", "report"}
        /\ phase' = "call" => syncCall' \in DOMAIN HandlerCalls(event)'
    BY <2>1, <2>3, <2>4, <2>5, ContinueType
  <2>7. failed' \in SUBSET {"milvus", "neo4j"} /\ syncRaised' \in BOOLEAN
    BY <1>0, <1>3 DEF HandlerExecute, HandlerRaises, SyncTypeOK, HandlerStore
  <2>8. SyncTypeOK'
    BY <1>0, <2>1, <2>6, <2>7 DEF SyncTypeOK
  <2>9. SyncPlace'
    BY <1>0, <2>1, <2>3, <2>6 DEF SyncPlace
  <2> QED BY <2>3, <2>8, <2>9 DEF SyncInv
<1>4. CASE Report
  <2>1. /\ phase' = "idle" /\ report' \in {"none", "sync.completed", "sync.failed"}
        /\ UNCHANGED <<vars, topic, event, syncCall, read, failed, mixed, syncRaised>>
    BY <1>4 DEF Report
  <2>2. TypeInv' /\ kind' = kind
    BY <1>0, <2>1, VarsStay DEF vars, control
  <2>3. SyncTypeOK'
    BY <1>0, <2>1 DEF SyncTypeOK
  <2>4. SyncPlace'
    BY <1>0, <2>1, <2>2 DEF SyncPlace
  <2> QED BY <2>2, <2>3, <2>4 DEF SyncInv
<1> QED BY <1>1, <1>2, <1>3, <1>4 DEF HandlerStep

LEMMA NextSync == SyncInv /\ [SyncNext]_syncVars => SyncInv'
<1> SUFFICES ASSUME SyncInv, [SyncNext]_syncVars PROVE SyncInv'
  OBVIOUS
<1>0. SagaTypeOK /\ TypeInv /\ SyncTypeOK /\ SyncPlace
  BY DEF SyncInv, TypeInv, TypeOK
<1>1. CASE BesideStep
  <2>1. /\ [Next]_vars /\ UNCHANGED <<topic, event, phase, syncCall, read, failed, report, syncRaised>>
        /\ mixed' = (mixed \/ phase # "idle")
    BY <1>1 DEF BesideStep
  <2>2. TypeInv'
    BY <1>0, <2>1, NextTypeInv
  <2>3. SyncTypeOK'
    BY <1>0, <2>1 DEF SyncTypeOK
  <2>4. \A s \in Sagas : kind[s] \in {"update", "delete"} => kind'[s] = kind[s]
    BY <1>0, <2>1, KindsStay
  <2>5. topic \in SUBSET Sagas
    BY <1>0 DEF SyncTypeOK
  <2>6. event \in Sagas => HandlerCalls(event)' = HandlerCalls(event)
    BY <1>0, <2>1, <2>4 DEF HandlerCalls, SyncPlace
  <2>7. SyncPlace'
    BY <1>0, <2>1, <2>4, <2>5, <2>6 DEF SyncPlace
  <2> QED BY <2>2, <2>3, <2>7 DEF SyncInv
<1>2. CASE \E s \in Sagas : Publish(s)
  <2>1. PICK s \in Sagas : Publish(s)
    BY <1>2
  <2>2. /\ kind[s] \in {"update", "delete"} /\ topic' = topic \union {s}
        /\ UNCHANGED <<vars, event, phase, syncCall, read, failed, report, mixed, syncRaised>>
    BY <2>1 DEF Publish
  <2>3. TypeInv' /\ kind' = kind
    BY <1>0, <2>2, VarsStay DEF vars, control
  <2>4. SyncTypeOK'
    BY <1>0, <2>2 DEF SyncTypeOK
  <2>5. HandlerCalls(event)' = HandlerCalls(event)
    BY <2>2, <2>3 DEF HandlerCalls
  <2>6. SyncPlace'
    BY <1>0, <2>2, <2>3, <2>5 DEF SyncPlace
  <2> QED BY <2>3, <2>4, <2>6 DEF SyncInv
<1>3. CASE \E e \in Sagas \union {Metadata} : Deliver(e)
  <2>1. PICK e \in Sagas \union {Metadata} : Deliver(e)
    BY <1>3
  <2>2. /\ (e \in topic \/ e = Metadata) /\ event' = e
        /\ phase' = IF e = Metadata THEN "report" ELSE "read"
        /\ syncCall' = 1 /\ read' = {} /\ failed' = {} /\ report' = "none"
        /\ mixed' = ~Quiet
        /\ UNCHANGED <<vars, topic, syncRaised>>
    BY <2>1 DEF Deliver
  <2>3. TypeInv' /\ kind' = kind
    BY <1>0, <2>2, VarsStay DEF vars, control
  <2>4. mixed' \in BOOLEAN
    BY <2>2 DEF Quiet
  <2>5. 1 \in 1..5
    OBVIOUS
  <2>6. SyncTypeOK'
    BY <1>0, <2>1, <2>2, <2>4, <2>5 DEF SyncTypeOK
  <2>7. e \in topic => e # Metadata /\ kind[e] \in {"update", "delete"}
    BY <1>0, SyncAssumption DEF SyncPlace, SyncTypeOK
  <2>8. SyncPlace'
    BY <1>0, <2>1, <2>2, <2>3, <2>7, SyncAssumption DEF SyncPlace
  <2> QED BY <2>3, <2>6, <2>8 DEF SyncInv
<1>4. CASE HandlerStep
  BY <1>4, HandlerSyncInv
<1>5. CASE SyncCrash
  <2>1. /\ phase' = "idle" /\ syncRaised' = TRUE
        /\ UNCHANGED <<vars, topic, event, syncCall, read, failed, report, mixed>>
    BY <1>5 DEF SyncCrash
  <2>2. TypeInv' /\ kind' = kind
    BY <1>0, <2>1, VarsStay DEF vars, control
  <2>3. SyncTypeOK'
    BY <1>0, <2>1 DEF SyncTypeOK
  <2>4. SyncPlace'
    BY <1>0, <2>1, <2>2 DEF SyncPlace
  <2> QED BY <2>2, <2>3, <2>4 DEF SyncInv
<1>6. CASE UNCHANGED syncVars
  <2>1. UNCHANGED <<vars, topic, event, phase, syncCall, read, failed, report, mixed, syncRaised>>
    BY <1>6 DEF syncVars, sync
  <2>2. TypeInv' /\ kind' = kind
    BY <1>0, <2>1, VarsStay DEF vars, control
  <2>3. SyncTypeOK'
    BY <1>0, <2>1 DEF SyncTypeOK
  <2>4. HandlerCalls(event)' = HandlerCalls(event)
    BY <2>1, <2>2 DEF HandlerCalls
  <2>5. SyncPlace'
    BY <1>0, <2>1, <2>2, <2>4 DEF SyncPlace
  <2> QED BY <2>2, <2>3, <2>5 DEF SyncInv
<1> QED BY <1>1, <1>2, <1>3, <1>4, <1>5, <1>6, SyncSteps

LEMMA AlwaysSyncInv == SyncSpec => []SyncInv
  BY InitSync, NextSync, PTL DEF SyncSpec

\* After a call that raised the handler names the store and goes on with the
\* next one; the other stores are as before.
RaisedMoves ==
    \/ /\ Rewriting(1) \/ Rewriting(2)
       /\ failed' = failed \union {"milvus"} /\ Rewriting(3)'
       /\ UNCHANGED <<pg, graph>>
    \/ /\ Rewriting(3) \/ Rewriting(4) \/ Rewriting(5)
       /\ failed' = failed \union {"neo4j"} /\ phase' = "report"
       /\ UNCHANGED <<pg, vectors>>
    \/ /\ Removing(1)
       /\ failed' = failed \union {"milvus"} /\ Removing(2)'
    \/ /\ Removing(2)
       /\ failed' = failed \union {"neo4j"} /\ phase' = "report"

LEMMA HandlerRaisesMoves ==
  ASSUME SyncInv, HandlerRaises
  PROVE  RaisedMoves
<1>0. /\ phase = "call" /\ event \in Sagas /\ syncCall \in DOMAIN HandlerCalls(event)
      /\ UNCHANGED stores \/ HandlerEffect(HandlerCall)
      /\ failed' = failed \union {HandlerStore(HandlerCall)} /\ ContinueAt(NextStore)
      /\ kind' = kind /\ event' = event
  BY DEF SyncInv, SyncPlace, HandlerRaises, control
<1>1. /\ HandlerStore(HandlerCall) = "milvus" => UNCHANGED <<pg, graph>>
      /\ HandlerStore(HandlerCall) = "neo4j" => UNCHANGED <<pg, vectors>>
  <2>1. CASE UNCHANGED stores
    BY <2>1 DEF stores, pg, graph
  <2>2. CASE HandlerEffect(HandlerCall)
    BY <2>2, HandlerStores
       DEF HandlerEffect, DeleteDocumentGraph, CreateDocumentNode, pg, graph
  <2> QED BY <1>0, <2>1, <2>2
<1>2. CASE kind[event] = "update"
  <2>1. DOMAIN HandlerCalls(event) = 1..5 /\ kind'[event'] = "update"
    BY <1>0, <1>2, UpdateCalls
  <2>2. syncCall = 1 \/ syncCall = 2 \/ syncCall = 3 \/ syncCall = 4 \/ syncCall = 5
    BY <1>0, <2>1
  <2>3. CASE syncCall <= 2
    <3>1. HandlerStore(HandlerCall) = "milvus" /\ NextStore = 3
      BY <1>0, <1>2, <2>3, NextStoreIs
    <3>2. 3 \in DOMAIN HandlerCalls(event)
      BY <2>1
    <3>3. Rewriting(3)'
      BY <1>0, <2>1, <3>1, <3>2 DEF ContinueAt, Rewriting
    <3>4. syncCall = 1 \/ syncCall = 2
      BY <2>2, <2>3
    <3>5. Rewriting(1) \/ Rewriting(2)
      BY <1>0, <1>2, <3>4 DEF Rewriting
    <3> QED BY <1>0, <1>1, <3>1, <3>3, <3>5 DEF RaisedMoves
  <2>4. CASE ~(syncCall <= 2)
    <3>1. HandlerStore(HandlerCall) = "neo4j" /\ NextStore = 6
      BY <1>0, <1>2, <2>4, NextStoreIs
    <3>2. 6 \notin DOMAIN HandlerCalls(event)
      BY <2>1
    <3>3. phase' = "report"
      BY <1>0, <3>1, <3>2 DEF ContinueAt
    <3>4. syncCall = 3 \/ syncCall = 4 \/ syncCall = 5
      BY <2>2, <2>4
    <3>5. Rewriting(3) \/ Rewriting(4) \/ Rewriting(5)
      BY <1>0, <1>2, <3>4 DEF Rewriting
    <3> QED BY <1>0, <1>1, <3>1, <3>3, <3>5 DEF RaisedMoves
  <2> QED BY <2>3, <2>4
<1>3. CASE kind[event] = "delete"
  <2>1. DOMAIN HandlerCalls(event) = 1..2 /\ kind'[event'] = "delete"
    BY <1>0, <1>3, DeleteCalls
  <2>2. syncCall = 1 \/ syncCall = 2
    BY <1>0, <2>1
  <2>3. CASE syncCall = 1
    <3>1. HandlerStore(HandlerCall) = "milvus" /\ NextStore = 2
      BY <1>0, <1>3, <2>3, NextStoreIs
    <3>2. 2 \in DOMAIN HandlerCalls(event)
      BY <2>1
    <3>3. Removing(2)'
      BY <1>0, <2>1, <3>1, <3>2 DEF ContinueAt, Removing
    <3> QED BY <1>0, <1>3, <2>3, <3>1, <3>3 DEF Removing, RaisedMoves
  <2>4. CASE syncCall = 2
    <3>0. syncCall # 1
      BY <2>4
    <3>1. HandlerStore(HandlerCall) = "neo4j" /\ NextStore = 3
      BY <1>0, <1>3, <3>0, NextStoreIs
    <3>2. 3 \notin DOMAIN HandlerCalls(event)
      BY <2>1
    <3>3. phase' = "report"
      BY <1>0, <3>1, <3>2 DEF ContinueAt
    <3> QED BY <1>0, <1>3, <2>4, <3>1, <3>3 DEF Removing, RaisedMoves
  <2> QED BY <2>2, <2>3, <2>4
<1> QED BY <1>0, <1>2, <1>3, CallRange

-----------------------------------------------------------------------------
(* A report is true.  While no saga moves, what the handler read is what   *)
(* PostgreSQL holds, and a store that did not raise has all of it as soon  *)
(* as the handler is past it.                                              *)

PastMilvus == Rewriting(3) \/ Rewriting(4) \/ Rewriting(5)

Alone ==
    /\ phase = "call" /\ kind[event] = "update" => read = pgChunks
    /\ PastMilvus /\ "milvus" \notin failed => pgChunks \subseteq vectors
    /\ (Rewriting(4) \/ Rewriting(5)) /\ "neo4j" \notin failed => contains = {}
    /\ Rewriting(5) /\ "neo4j" \notin failed => docNode
    /\ phase = "report" /\ event # Metadata =>
          \A st \in {"milvus", "neo4j"} \ failed : Synced(event, st)

Unmixed == EdgesHang /\ (~mixed => Alone)

LEMMA EffectHangs ==
  ASSUME NEW s, NEW c, Effect(c, s), EdgesHang
  PROVE  EdgesHang'
  BY DEF EdgesHang, Effect, CreateDocument, CreateChunks, UpdateDocument,
         DeleteChunksByDoc, DeleteDocument, InsertChunks, DeleteByDocUuid,
         CreateDocumentNode, CreateChunkNodes, CreateContainsEdges,
         DeleteDocumentGraph, pg, graph

\* No edge outlives the document node, in a saga or in a handler.
LEMMA SyncHangs ==
  ASSUME EdgesHang, [SyncNext]_syncVars
  PROVE  EdgesHang'
<1>1. CASE UNCHANGED <<docNode, contains>>
  BY <1>1 DEF EdgesHang
<1>2. CASE Next
  <2>1. \/ UNCHANGED stores \/ \E s \in Sagas, c \in {Call(t) : t \in Sagas}
                                 \union {UndoCall(t) : t \in Sagas} : Effect(c, s)
    BY <1>2 DEF Next, Start, Crash, SagaStep, Execute, Refuse, Raise, NoEmbeddings,
                EncodeRaises, Compensate, CompensationRaises
  <2> QED BY <1>1, <2>1, EffectHangs DEF stores
<1>3. CASE \E c : HandlerEffect(c)
  BY <1>3 DEF HandlerEffect, DeleteDocumentGraph, CreateDocumentNode, EdgesHang, pg, graph
<1>4. \/ Next \/ UNCHANGED <<docNode, contains>> \/ \E c : HandlerEffect(c)
  BY SyncSteps
     DEF BesideStep, Publish, Deliver, HandlerStep, ReadChunks, ReadRaises, HandlerExecute,
         HandlerRaises, Report, SyncCrash, syncVars, vars, stores
<1> QED BY <1>1, <1>2, <1>3, <1>4

LEMMA ElsewhereAlone ==
    phase' \notin {"call", "report"} \/ (phase' = "report" /\ event' = Metadata) => Alone'
  BY DEF Alone, PastMilvus, Rewriting

LEMMA ExecuteAlone ==
  ASSUME SyncInv, EdgesHang, Alone, HandlerExecute
  PROVE  Alone'
<1>0. /\ HandlerMoves /\ event' = event /\ failed' = failed /\ read' = read
      /\ kind' = kind /\ phase = "call"
      /\ kind[event] = "update" \/ kind[event] = "delete"
  <2>1. phase = "call" /\ event' = event /\ failed' = failed /\ read' = read /\ kind' = kind
    BY DEF HandlerExecute, control
  <2>2. event \in Sagas
    BY <2>1 DEF SyncInv, SyncPlace
  <2> QED BY <2>1, <2>2, HandlerExecuteMoves, CallRange
<1>1. kind[event] = "update" => read = pgChunks
  BY <1>0 DEF Alone
<1>2. CASE Rewriting(1) /\ HandlerEffect("delete_vectors") /\ Rewriting(2)'
  <2>1. read' = pgChunks' /\ ~Rewriting(4)' /\ ~Rewriting(5)' /\ ~PastMilvus'
    BY <1>0, <1>1, <1>2 DEF Rewriting, PastMilvus, HandlerEffect, pg
  <2>2. ~(phase' = "report")
    BY <1>2 DEF Rewriting
  <2> QED BY <2>1, <2>2 DEF Alone
<1>3. CASE Rewriting(2) /\ HandlerEffect("insert_vectors") /\ Rewriting(3)'
  <2>1. read' = pgChunks' /\ ~Rewriting(4)' /\ ~Rewriting(5)' /\ pgChunks' \subseteq vectors'
    BY <1>0, <1>1, <1>3 DEF Rewriting, HandlerEffect, pg
  <2>2. ~(phase' = "report")
    BY <1>3 DEF Rewriting
  <2> QED BY <2>1, <2>2 DEF Alone
<1>4. CASE Rewriting(3) /\ HandlerEffect("delete_document_graph") /\ Rewriting(4)'
  <2>1. /\ read' = pgChunks' /\ ~Rewriting(5)' /\ contains' = {}
        /\ "milvus" \notin failed' => pgChunks' \subseteq vectors'
    BY <1>0, <1>1, <1>4 DEF Alone, Rewriting, PastMilvus, HandlerEffect, DeleteDocumentGraph,
                            EdgesHang, pg
  <2>2. ~(phase' = "report")
    BY <1>4 DEF Rewriting
  <2> QED BY <2>1, <2>2 DEF Alone
<1>5. CASE Rewriting(4) /\ HandlerEffect("create_document_node") /\ Rewriting(5)'
  <2>1. /\ read' = pgChunks' /\ docNode'
        /\ "milvus" \notin failed' => pgChunks' \subseteq vectors'
        /\ "neo4j" \notin failed' => contains' = {}
    BY <1>0, <1>1, <1>5 DEF Alone, Rewriting, PastMilvus, HandlerEffect, CreateDocumentNode, pg
  <2>2. ~(phase' = "report")
    BY <1>5 DEF Rewriting
  <2> QED BY <2>1, <2>2 DEF Alone
<1>6. CASE Rewriting(5) /\ HandlerEffect("create_chunk_nodes") /\ phase' = "report"
  <2>1. /\ pgChunks' = pgChunks /\ vectors' = vectors /\ docNode' = docNode
        /\ chunkNodes' = chunkNodes \union read /\ contains' = contains
    BY <1>6 DEF HandlerEffect, DeleteDocumentGraph, CreateDocumentNode, pg
  <2>2. kind[event] = "update" /\ read = pgChunks
    BY <1>1, <1>6 DEF Rewriting
  <2>3. "milvus" \notin failed => pgChunks \subseteq vectors
    BY <1>6 DEF Alone, PastMilvus
  <2>4. "neo4j" \notin failed => docNode /\ contains = {}
    BY <1>6 DEF Alone
  <2>5. \A st \in {"milvus", "neo4j"} \ failed' : Synced(event, st)'
    BY <1>0, <2>1, <2>2, <2>3, <2>4 DEF Synced
  <2>6. ~PastMilvus' /\ ~Rewriting(4)' /\ ~Rewriting(5)' /\ ~(phase' = "call")
    BY <1>6 DEF PastMilvus, Rewriting
  <2> QED BY <2>5, <2>6 DEF Alone
<1>7. CASE Removing(1) /\ HandlerEffect("delete_vectors") /\ Removing(2)'
  <2>1. /\ ~(phase' = "report") /\ kind'[event'] # "update"
        /\ ~PastMilvus' /\ ~Rewriting(4)' /\ ~Rewriting(5)'
    BY <1>7 DEF Removing, PastMilvus, Rewriting
  <2> QED BY <2>1 DEF Alone
<1>8. CASE Removing(2) /\ HandlerEffect("delete_document_graph") /\ phase' = "report"
  <2>1. ~docNode' /\ contains' = {} /\ kind'[event'] = "delete"
    BY <1>0, <1>8 DEF HandlerEffect, DeleteDocumentGraph, EdgesHang, Removing
  <2>2. \A st \in {"milvus", "neo4j"} \ failed' : Synced(event, st)'
    BY <2>1 DEF Synced
  <2>3. ~PastMilvus' /\ ~Rewriting(4)' /\ ~Rewriting(5)' /\ ~(phase' = "call")
    BY <1>8 DEF PastMilvus, Rewriting
  <2> QED BY <2>2, <2>3 DEF Alone
<1> QED BY <1>0, <1>2, <1>3, <1>4, <1>5, <1>6, <1>7, <1>8 DEF HandlerMoves

LEMMA RaisesAlone ==
  ASSUME SyncInv, Alone, HandlerRaises
  PROVE  Alone'
<1>0. /\ RaisedMoves /\ event' = event /\ read' = read /\ kind' = kind /\ phase = "call"
  BY HandlerRaisesMoves DEF HandlerRaises, control
<1>1. CASE /\ Rewriting(1) \/ Rewriting(2)
           /\ failed' = failed \union {"milvus"} /\ Rewriting(3)'
           /\ UNCHANGED <<pg, graph>>
  <2>1. /\ kind[event] = "update" /\ read' = pgChunks' /\ "milvus" \in failed'
        /\ ~Rewriting(4)' /\ ~Rewriting(5)'
    BY <1>0, <1>1 DEF Alone, Rewriting, pg
  <2>2. ~(phase' = "report")
    BY <1>1 DEF Rewriting
  <2> QED BY <2>1, <2>2 DEF Alone
<1>2. CASE /\ Rewriting(3) \/ Rewriting(4) \/ Rewriting(5)
           /\ failed' = failed \union {"neo4j"} /\ phase' = "report"
           /\ UNCHANGED <<pg, vectors>>
  <2>1. kind[event] = "update" /\ ("milvus" \notin failed => pgChunks \subseteq vectors)
    BY <1>2 DEF Alone, PastMilvus, Rewriting
  <2>2. \A st \in {"milvus", "neo4j"} \ failed' : st = "milvus" /\ pgChunks' \subseteq vectors'
    BY <1>2, <2>1 DEF pg
  <2>3. \A st \in {"milvus", "neo4j"} \ failed' : Synced(event, st)'
    BY <1>0, <2>1, <2>2 DEF Synced
  <2>4. ~PastMilvus' /\ ~Rewriting(4)' /\ ~Rewriting(5)' /\ ~(phase' = "call")
    BY <1>2 DEF PastMilvus, Rewriting
  <2> QED BY <2>3, <2>4 DEF Alone
<1>3. CASE Removing(1) /\ failed' = failed \union {"milvus"} /\ Removing(2)'
  <2>1. /\ ~(phase' = "report") /\ kind'[event'] # "update"
        /\ ~PastMilvus' /\ ~Rewriting(4)' /\ ~Rewriting(5)'
    BY <1>3 DEF Removing, PastMilvus, Rewriting
  <2> QED BY <2>1 DEF Alone
<1>4. CASE Removing(2) /\ failed' = failed \union {"neo4j"} /\ phase' = "report"
  <2>1. kind'[event'] = "delete" /\ \A st \in {"milvus", "neo4j"} \ failed' : st # "neo4j"
    BY <1>0, <1>4 DEF Removing
  <2>2. \A st \in {"milvus", "neo4j"} \ failed' : Synced(event, st)'
    BY <2>1 DEF Synced
  <2>3. ~PastMilvus' /\ ~Rewriting(4)' /\ ~Rewriting(5)' /\ ~(phase' = "call")
    BY <1>4 DEF PastMilvus, Rewriting
  <2> QED BY <2>2, <2>3 DEF Alone
<1> QED BY <1>0, <1>1, <1>2, <1>3, <1>4 DEF RaisedMoves

LEMMA NextUnmixed ==
  ASSUME SyncInv, Unmixed, [SyncNext]_syncVars
  PROVE  Unmixed'
<1>0. SyncInv' /\ SyncPlace /\ EdgesHang /\ EdgesHang'
  BY NextSync, SyncHangs DEF SyncInv, Unmixed
<1>1. CASE BesideStep
  <2>1. mixed' \/ phase' = "idle"
    BY <1>1 DEF BesideStep
  <2>2. CASE phase' = "idle"
    <3>1. Alone'
      BY <2>2, ElsewhereAlone
    <3> QED BY <1>0, <3>1 DEF Unmixed
  <2> QED BY <1>0, <2>1, <2>2 DEF Unmixed
<1>2. CASE (\E s \in Sagas : Publish(s)) \/ UNCHANGED syncVars
  <2>1. UNCHANGED <<vars, event, phase, syncCall, read, failed, mixed>>
    BY <1>2 DEF Publish, syncVars, sync
  <2>2. UNCHANGED <<kind, pgChunks, vectors, docNode, chunkNodes, contains>>
    BY <2>1 DEF vars, control, stores
  <2>3. \A i : Rewriting(i)' <=> Rewriting(i)
    BY <2>1, <2>2 DEF Rewriting
  <2>4. \A st : Synced(event, st)' <=> Synced(event, st)
    BY <2>1, <2>2 DEF Synced
  <2>5. Alone => Alone'
    BY <2>1, <2>2, <2>3, <2>4 DEF Alone, PastMilvus
  <2> QED BY <1>0, <2>1, <2>5 DEF Unmixed
<1>3. CASE \E e \in Sagas \union {Metadata} : Deliver(e)
  <2>1. phase' = "read" \/ (phase' = "report" /\ event' = Metadata)
    BY <1>3 DEF Deliver
  <2>2. Alone'
    BY <2>1, ElsewhereAlone
  <2> QED BY <1>0, <2>2 DEF Unmixed
<1>4. CASE ReadChunks
  <2>1. /\ phase = "read" /\ event \in Sagas /\ read' = pgChunks
        /\ UNCHANGED <<vars, topic, event, failed, report, mixed, syncRaised>>
        /\ \/ ContinueAt(1)
           \/ kind[event] = "delete" /\ ContinueAt(2)
           \/ (phase' = "idle" /\ UNCHANGED syncCall)
    BY <1>0, <1>4 DEF ReadChunks, GetChunksByDoc, SyncPlace
  <2>2. pgChunks' = pgChunks /\ kind' = kind /\ event' = event
    BY <2>1 DEF vars, stores, control
  <2>3. CASE phase' = "idle"
    <3>1. Alone'
      BY <2>3, ElsewhereAlone
    <3> QED BY <1>0, <3>1 DEF Unmixed
  <2>4. CASE ContinueAt(1)
    <3>1. 1 \in DOMAIN HandlerCalls(event)
      BY <2>1, CallRange
    <3>2. phase' = "call" /\ syncCall' = 1
      BY <2>4, <3>1 DEF ContinueAt
    <3>3. ~PastMilvus' /\ ~Rewriting(4)' /\ ~Rewriting(5)'
      BY <3>2 DEF PastMilvus, Rewriting
    <3>4. ~(phase' = "report")
      BY <3>2
    <3>5. Alone'
      BY <2>1, <2>2, <3>3, <3>4 DEF Alone
    <3> QED BY <1>0, <3>5 DEF Unmixed
  <2>5. CASE kind[event] = "delete" /\ ContinueAt(2)
    <3>1. 2 \in DOMAIN HandlerCalls(event)
      BY <2>1, <2>5, CallRange
    <3>2. phase' = "call" /\ kind'[event'] = "delete"
      BY <2>2, <2>5, <3>1 DEF ContinueAt
    <3>3. ~PastMilvus' /\ ~Rewriting(4)' /\ ~Rewriting(5)'
      BY <3>2 DEF PastMilvus, Rewriting
    <3>4. ~(phase' = "report")
      BY <3>2
    <3>5. Alone'
      BY <3>2, <3>3, <3>4 DEF Alone
    <3> QED BY <1>0, <3>5 DEF Unmixed
  <2> QED BY <2>1, <2>3, <2>4, <2>5
<1>5. CASE ReadRaises
  <2>1. phase' = "report" /\ failed' = {"milvus", "neo4j"}
    BY <1>5 DEF ReadRaises
  <2>2. ~PastMilvus' /\ ~Rewriting(4)' /\ ~Rewriting(5)' /\ ~(phase' = "call")
    BY <2>1 DEF PastMilvus, Rewriting
  <2>3. Alone'
    BY <2>1, <2>2 DEF Alone
  <2> QED BY <1>0, <2>3 DEF Unmixed
<1>6. CASE HandlerExecute
  <2>1. mixed' = mixed
    BY <1>6 DEF HandlerExecute
  <2> QED BY <1>0, <1>6, <2>1, ExecuteAlone DEF Unmixed
<1>7. CASE HandlerRaises
  <2>1. mixed' = mixed
    BY <1>7 DEF HandlerRaises
  <2> QED BY <1>0, <1>7, <2>1, RaisesAlone DEF Unmixed
<1>8. CASE Report \/ SyncCrash
  <2>1. phase' = "idle"
    BY <1>8 DEF Report, SyncCrash
  <2>2. Alone'
    BY <2>1, ElsewhereAlone
  <2> QED BY <1>0, <2>2 DEF Unmixed
<1> QED BY <1>1, <1>2, <1>3, <1>4, <1>5, <1>6, <1>7, <1>8, SyncSteps DEF HandlerStep

\* A result event is true of what its handler wrote: however often the event
\* has come, in whatever order, after whatever earlier sagas, syncs, failures
\* and stops, a store it does not name holds vectors, document node and chunk
\* nodes for every chunk row after an update, and no other content is reached
\* in the graph; after a delete document node and edges are gone.  The edges
\* after an update and Milvus after a delete are not claimed: the handlers do
\* not keep them.
THEOREM ReportsAreTrue == SyncSpec => ReportIsTrue
<1>1. SyncInit => Unmixed
  BY DEF SyncInit, Init, StoresInit, EdgesHang, Unmixed, Alone, PastMilvus, Rewriting
<1>2. SyncInv /\ Unmixed /\ [SyncNext]_syncVars => Unmixed'
  BY NextUnmixed
<1>3. Unmixed => [(phase = "report" /\ report' # "none" /\ event # Metadata /\ ~mixed) =>
                     \A st \in {"milvus", "neo4j"} \ failed : Synced(event, st)]_syncVars
  BY DEF Unmixed, Alone
<1> QED BY <1>1, <1>2, <1>3, AlwaysSyncInv, PTL DEF SyncSpec, ReportIsTrue

-----------------------------------------------------------------------------
(* Syncs between the calls of sagas, as long as nothing raises and nobody  *)
(* deletes.  A chunk row without vectors has someone about to write them:  *)
(* its own saga, or the handler that has just deleted them; or an update   *)
(* is about to replace the chunk rows.                                     *)

Replacing == \E t \in Sagas : Stands(t, "update", 3, 1) \/ Stands(t, "update", 3, 2)

VectorsOf(c) ==
    \/ c \in vectors
    \/ Stands(c, "create", 2, 1) \/ Stands(c, "update", 4, 1)
    \/ Replacing
    \/ Rewriting(2) /\ c \in read

NodeComing == docNode \/ Rewriting(4) \/ \E t \in Sagas : NodeWriter(t)

Kept == /\ \A c \in pgChunks : VectorsOf(c)
        /\ SomeCreate => RowComing /\ ChunksComing /\ NodeComing

\* No deletion, and no call that raised.
Smooth == Calm /\ ~syncRaised

LEMMA SagaVectors ==
  ASSUME TypeInv, Calm, NEW s \in Sagas, Execute(s), NEW c \in Sagas,
         c \in pgChunks => VectorsOf(c), c \in pgChunks',
         Rewriting(2)' <=> Rewriting(2), read' = read
  PROVE  VectorsOf(c)'
<1>0. SagaStep(s) /\ SagaTypeOK
  BY DEF SagaStep, TypeInv, TypeOK
<1>1. CreateMoves(s) \/ UpdateMoves(s)
  BY ExecuteMoves DEF Calm
<1>2. \A t \in Sagas \ {s} : \A k, i, j : Stands(t, k, i, j)' <=> Stands(t, k, i, j)
  BY <1>0, OthersStand
<1>3. CASE c \notin pgChunks
  <2>1. c = s /\ (Stands(s, "create", 2, 1)' \/ Stands(s, "update", 4, 1)')
    BY <1>1, <1>3
       DEF CreateMoves, UpdateMoves, CreateDocument, CreateChunks, UpdateDocument,
           DeleteChunksByDoc, InsertChunks, DeleteByDocUuid, DeleteDocumentGraph,
           CreateDocumentNode, CreateChunkNodes, CreateContainsEdges, pg, graph
  <2> QED BY <2>1 DEF VectorsOf
<1>4. CASE c \in pgChunks /\ Rewriting(2) /\ c \in read
  BY <1>4 DEF VectorsOf
<1>5. CASE \E t \in Sagas \ {s} : Stands(t, "update", 3, 1) \/ Stands(t, "update", 3, 2)
  <2>1. Replacing'
    BY <1>2, <1>5 DEF Replacing
  <2> QED BY <2>1 DEF VectorsOf
<1>6. CASE Stands(s, "update", 3, 1) \/ Stands(s, "update", 3, 2)
  <2>1. \/ Stands(s, "update", 3, 2)'
        \/ DeleteChunksByDoc
    BY <1>1, <1>6 DEF CreateMoves, UpdateMoves, Stands
  <2>2. ~DeleteChunksByDoc
    BY DEF DeleteChunksByDoc
  <2>3. Replacing'
    BY <2>1, <2>2 DEF Replacing
  <2> QED BY <2>3 DEF VectorsOf
<1>7. CASE c \in vectors
  <2>1. c \in vectors' \/ Stands(s, "update", 3, 1)'
    BY <1>1, <1>7
       DEF CreateMoves, UpdateMoves, CreateDocument, CreateChunks, UpdateDocument,
           DeleteChunksByDoc, InsertChunks, DeleteByDocUuid, DeleteDocumentGraph,
           CreateDocumentNode, CreateChunkNodes, CreateContainsEdges, pg, graph
  <2> QED BY <2>1 DEF VectorsOf, Replacing
<1>8. CASE Stands(c, "create", 2, 1) \/ Stands(c, "update", 4, 1)
  <2>1. CASE c # s
    BY <1>2, <1>8, <2>1 DEF VectorsOf
  <2>2. CASE c = s
    <3>1. InsertChunks(s)
      BY <1>1, <1>8, <2>2 DEF CreateMoves, UpdateMoves, Stands
    <3> QED BY <2>2, <3>1 DEF InsertChunks, VectorsOf
  <2> QED BY <2>1, <2>2
<1> QED BY <1>3, <1>4, <1>5, <1>6, <1>7, <1>8 DEF VectorsOf, Replacing

LEMMA SagaNode ==
  ASSUME TypeInv, Calm, NEW s \in Sagas, Execute(s), NodeComing,
         Rewriting(4)' <=> Rewriting(4)
  PROVE  NodeComing'
<1>0. SagaStep(s) /\ SagaTypeOK
  BY DEF SagaStep, TypeInv, TypeOK
<1>1. CreateMoves(s) \/ UpdateMoves(s)
  BY ExecuteMoves DEF Calm
<1>2. CASE \E t \in Sagas \ {s} : NodeWriter(t)
  BY <1>0, <1>2, OthersStand DEF NodeComing
<1>3. CASE Rewriting(4)
  BY <1>3 DEF NodeComing
<1>4. CASE docNode
  <2>1. docNode' \/ Stands(s, "update", 2, 1)'
    BY <1>1, <1>4
       DEF CreateMoves, UpdateMoves, CreateDocument, CreateChunks, UpdateDocument,
           DeleteChunksByDoc, InsertChunks, DeleteByDocUuid, DeleteDocumentGraph,
           CreateDocumentNode, CreateChunkNodes, CreateContainsEdges, pg, graph
  <2> QED BY <2>1 DEF NodeComing, NodeWriter
<1>5. CASE NodeWriter(s)
  <2>1. NodeWriter(s)' \/ CreateDocumentNode
    <3>1. CASE CreateMoves(s)
      <4>1. ~Stands(s, "create", 3, 2) /\ ~Stands(s, "create", 3, 3)
        BY <1>5 DEF RowWriter, VectorWriter, NodeWriter, Stands
      <4>2. \/ Stands(s, "create", 1, 2)' \/ Stands(s, "create", 2, 1)'
            \/ Stands(s, "create", 3, 1)' \/ CreateDocumentNode
        BY <3>1, <4>1 DEF CreateMoves
      <4> QED BY <4>2 DEF RowWriter, VectorWriter, NodeWriter
    <3>2. CASE UpdateMoves(s)
      <4>1. ~Stands(s, "update", 5, 2) /\ ~Stands(s, "update", 5, 3)
        BY <1>5 DEF RowWriter, VectorWriter, NodeWriter, Stands
      <4>2. \/ Stands(s, "update", 2, 1)' \/ Stands(s, "update", 3, 1)'
            \/ Stands(s, "update", 3, 2)' \/ Stands(s, "update", 3, 3)'
            \/ Stands(s, "update", 4, 1)' \/ Stands(s, "update", 5, 1)'
            \/ CreateDocumentNode
        BY <3>2, <4>1 DEF UpdateMoves
      <4> QED BY <4>2 DEF RowWriter, VectorWriter, NodeWriter
    <3> QED BY <1>1, <3>1, <3>2
  <2> QED BY <2>1 DEF CreateDocumentNode, NodeComing
<1> QED BY <1>2, <1>3, <1>4, <1>5 DEF NodeComing

\* The handler's own place does not depend on what the sagas do.
LEMMA BesideRewriting ==
  ASSUME SyncInv, BesideStep, NEW i
  PROVE  Rewriting(i)' <=> Rewriting(i)
<1>1. UNCHANGED <<event, phase, syncCall>> /\ [Next]_vars /\ TypeInv
  BY DEF BesideStep, SyncInv
<1>2. CASE phase = "call"
  <2>1. event \in Sagas /\ kind[event] \in {"update", "delete"}
    BY <1>2 DEF SyncInv, SyncPlace
  <2>2. kind'[event] = kind[event]
    BY <1>1, <2>1, KindsStay
  <2> QED BY <1>1, <2>2 DEF Rewriting
<1> QED BY <1>1, <1>2 DEF Rewriting

LEMMA SagaKept ==
  ASSUME SyncInv, Calm => Kept, BesideStep, Calm'
  PROVE  Kept'
<1>0. /\ TypeInv /\ SagaTypeOK /\ StoresTypeOK /\ Next /\ read' = read
      /\ Rewriting(2)' <=> Rewriting(2)
      /\ Rewriting(4)' <=> Rewriting(4)
  BY BesideRewriting DEF SyncInv, TypeInv, TypeOK, BesideStep
<1>1. CASE \E s \in Sagas, k \in Kinds : Start(s, k)
  <2>1. PICK s \in Sagas, k \in Kinds : Start(s, k)
    BY <1>1
  <2>2. /\ kind' = [kind EXCEPT ![s] = k] /\ status' = [status EXCEPT ![s] = "executing"]
        /\ UNCHANGED <<stores, at, call>>
        /\ status[s] = "idle" /\ at[s] = 1 /\ call[s] = 1 /\ kind[s] = "none"
    BY <1>0, <2>1, StartKeeps
  <2>3. Calm /\ Kept
    BY <1>0, <2>2 DEF Calm, SagaTypeOK
  <2>4. k # "delete" /\ status'[s] = "executing" /\ at'[s] = 1 /\ call'[s] = 1 /\ kind'[s] = k
    BY <1>0, <2>2 DEF Calm, SagaTypeOK
  <2>5. \A t \in Sagas : /\ RowWriter(t) => RowWriter(t)'
                         /\ ChunkWriter(t) => ChunkWriter(t)'
                         /\ NodeWriter(t) => NodeWriter(t)'
    <3>1. TAKE t \in Sagas
    <3> QED BY <1>0, <2>1, StartKeeps
  <2>6. \A t \in Sagas : \A l, i, j : Stands(t, l, i, j) => Stands(t, l, i, j)'
    <3>1. TAKE t \in Sagas
    <3>2. CASE t = s
      BY <2>2, <3>2 DEF Stands
    <3>3. CASE t # s
      BY <1>0, <2>1, <3>3, StartKeeps
    <3> QED BY <3>2, <3>3
  <2>7. UNCHANGED <<pgDoc, pgChunks, vectors, docNode>> /\ pgChunks \subseteq Sagas
    BY <1>0, <2>2 DEF stores, StoresTypeOK
  <2>8. \A c \in pgChunks' : VectorsOf(c)'
    <3>1. Replacing => Replacing'
      BY <2>6 DEF Replacing
    <3> QED BY <1>0, <2>3, <2>6, <2>7, <3>1 DEF Kept, VectorsOf
  <2>9. CASE k = "create"
    <3>1. RowWriter(s)'
      BY <2>4, <2>9 DEF RowWriter, Stands
    <3>2. ChunkWriter(s)' /\ NodeWriter(s)'
      BY <3>1 DEF ChunkWriter, VectorWriter, NodeWriter
    <3> QED BY <2>8, <3>1, <3>2 DEF Kept, RowComing, ChunksComing, NodeComing
  <2>10. CASE k = "update"
    <3>1. SomeCreate' => SomeCreate
      BY <1>0, <2>2, <2>10 DEF SomeCreate, SagaTypeOK
    <3>2. SomeCreate => RowComing' /\ ChunksComing' /\ NodeComing'
      BY <1>0, <2>3, <2>5, <2>7 DEF Kept, RowComing, ChunksComing, NodeComing
    <3> QED BY <2>8, <3>1, <3>2 DEF Kept
  <2> QED BY <2>4, <2>9, <2>10 DEF Kinds
<1>2. CASE \E s \in Sagas : SagaStep(s)
  <2>1. PICK s \in Sagas : SagaStep(s)
    BY <1>2
  <2>2. Execute(s)
    <3>1. status'[s] \in {"idle", "executing", "success"}
      BY DEF Calm
    <3> QED BY <1>0, <2>1, <3>1
            DEF SagaStep, Refuse, Raise, NoEmbeddings, EncodeRaises, Compensate,
                CompensationRaises, StepFails, NextUndo, SagaTypeOK
  <2>3. Calm /\ Kept
    <3>1. status[s] = "executing"
      BY <2>2 DEF Execute
    <3> QED BY <1>0, <2>1, <3>1, OneMoves DEF Calm
  <2>4. ASSUME NEW c \in pgChunks' PROVE VectorsOf(c)'
    <3>1. c \in Sagas /\ (c \in pgChunks => VectorsOf(c))
      BY <1>0, <2>3, NextTypeInv DEF Kept, TypeInv, TypeOK, StoresTypeOK
    <3> QED BY <1>0, <2>2, <2>3, <3>1, SagaVectors
  <2>5. kind' = kind
    BY <1>0, <2>1, OneMoves
  <2>6. SomeCreate' => RowComing' /\ ChunksComing' /\ NodeComing'
    BY <1>0, <2>2, <2>3, <2>5, ExecuteRows, SagaNode DEF Kept, SomeCreate
  <2> QED BY <2>4, <2>6 DEF Kept
<1>3. CASE Crash
  <2>1. \E s \in Sagas : status'[s] = "crashed"
    BY <1>0, <1>3 DEF Crash, SagaTypeOK
  <2> QED BY <2>1 DEF Calm
<1> QED BY <1>0, <1>1, <1>2, <1>3 DEF Next

\* A handler's call that succeeds, while nobody deletes.
LEMMA HandlerKept ==
  ASSUME SyncInv, Calm, Kept, HandlerExecute
  PROVE  Kept'
<1>0. /\ HandlerMoves /\ read' = read /\ phase = "call" /\ UNCHANGED control
      /\ StoresTypeOK /\ read \in SUBSET Sagas
  BY HandlerExecuteMoves DEF HandlerExecute, SyncInv, TypeInv, TypeOK, SyncTypeOK
<1>1. UNCHANGED pg
  BY <1>0, HandlerEffectType DEF HandlerExecute
<1>2. UNCHANGED <<kind, status, at, call, pgDoc, pgChunks>>
  BY <1>0, <1>1 DEF control, pg
<1>3. \A t : \A k, i, j : Stands(t, k, i, j)' <=> Stands(t, k, i, j)
  BY <1>2 DEF Stands
<1>4. \A t : /\ RowWriter(t)' <=> RowWriter(t)
             /\ ChunkWriter(t)' <=> ChunkWriter(t)
             /\ NodeWriter(t)' <=> NodeWriter(t)
  BY <1>3 DEF RowWriter, ChunkWriter, VectorWriter, NodeWriter
<1>5. kind[event] # "delete"
  <2>1. event \in Sagas
    BY <1>0 DEF SyncInv, SyncPlace
  <2> QED BY <2>1 DEF Calm
<1>6. ASSUME NEW c \in pgChunks PROVE VectorsOf(c)'
  <2>1. VectorsOf(c)
    BY <1>6 DEF Kept
  <2>2. CASE Rewriting(1) /\ HandlerEffect("delete_vectors") /\ Rewriting(2)'
    <3>1. c \in vectors => c \in vectors' \/ c \in read'
      BY <1>0, <2>2 DEF HandlerEffect
    <3>2. ~Rewriting(2)
      BY <2>2 DEF Rewriting
    <3> QED BY <1>3, <2>1, <2>2, <3>1, <3>2 DEF VectorsOf, Replacing
  <2>3. CASE Rewriting(2) /\ HandlerEffect("insert_vectors")
    <3>1. vectors' = vectors \union read
      BY <2>3 DEF HandlerEffect
    <3> QED BY <1>3, <2>1, <3>1 DEF VectorsOf, Replacing
  <2>4. CASE ~Rewriting(1) /\ ~Rewriting(2)
    <3>1. vectors' = vectors
      BY <1>0, <1>5, <2>4
         DEF HandlerMoves, Removing, HandlerEffect, DeleteDocumentGraph, CreateDocumentNode
    <3> QED BY <1>3, <2>1, <2>4, <3>1 DEF VectorsOf, Replacing
  <2>5. Rewriting(1) => ~Rewriting(2) /\ ~Rewriting(3) /\ ~Rewriting(4) /\ ~Rewriting(5)
    BY DEF Rewriting
  <2>6. Rewriting(2) => ~Rewriting(3) /\ ~Rewriting(4) /\ ~Rewriting(5)
    BY DEF Rewriting
  <2>7. ~Removing(1) /\ ~Removing(2)
    BY <1>5 DEF Removing
  <2> QED BY <1>0, <2>2, <2>3, <2>4, <2>5, <2>6, <2>7 DEF HandlerMoves
<1>7. ASSUME NodeComing PROVE NodeComing'
  <2>1. CASE \E t \in Sagas : NodeWriter(t)
    BY <1>4, <2>1 DEF NodeComing
  <2>2. CASE Rewriting(4)
    <3>1. HandlerEffect("create_document_node")
      BY <1>0, <2>2 DEF HandlerMoves, Rewriting, Removing
    <3>2. docNode'
      BY <3>1 DEF HandlerEffect, CreateDocumentNode
    <3> QED BY <3>2 DEF NodeComing
  <2>3. CASE docNode /\ ~Rewriting(4)
    <3>1. docNode' \/ Rewriting(4)'
      BY <1>0, <1>5, <2>3
         DEF HandlerMoves, Removing, HandlerEffect, DeleteDocumentGraph,
             CreateDocumentNode, graph
    <3> QED BY <3>1 DEF NodeComing
  <2> QED BY <1>7, <2>1, <2>2, <2>3 DEF NodeComing
<1>8. SomeCreate' => RowComing' /\ ChunksComing' /\ NodeComing'
  BY <1>2, <1>4, <1>7 DEF Kept, SomeCreate, RowComing, ChunksComing
<1> QED BY <1>2, <1>6, <1>8 DEF Kept

LEMMA NextKept ==
  ASSUME SyncInv, Smooth => Kept, [SyncNext]_syncVars, Smooth'
  PROVE  Kept'
<1>1. CASE BesideStep
  <2>1. ~syncRaised /\ Calm'
    BY <1>1 DEF BesideStep, Smooth
  <2> QED BY <1>1, <2>1, SagaKept DEF Smooth
<1>2. CASE HandlerExecute
  <2>1. ~syncRaised /\ Calm
    BY <1>2 DEF HandlerExecute, Smooth, Calm, control
  <2> QED BY <1>2, <2>1, HandlerKept DEF Smooth
<1>3. CASE \/ \E s \in Sagas : Publish(s)
           \/ \E e \in Sagas \union {Metadata} : Deliver(e)
           \/ ReadChunks \/ Report \/ UNCHANGED syncVars
  <2>1. /\ UNCHANGED vars /\ syncRaised' = syncRaised
        /\ phase # "call" \/ UNCHANGED <<event, phase, syncCall, read>>
    BY <1>3 DEF Publish, Deliver, ReadChunks, Report, syncVars, sync
  <2>2. UNCHANGED <<kind, status, at, call, pgDoc, pgChunks, vectors, docNode>>
    BY <2>1 DEF vars, stores, control
  <2>3. Smooth
    BY <2>1, <2>2 DEF Smooth, Calm
  <2>4. \A t : \A k, i, j : Stands(t, k, i, j)' <=> Stands(t, k, i, j)
    BY <2>2 DEF Stands
  <2>5. \A t : /\ RowWriter(t)' <=> RowWriter(t)
               /\ ChunkWriter(t)' <=> ChunkWriter(t)
               /\ NodeWriter(t)' <=> NodeWriter(t)
    BY <2>4 DEF RowWriter, ChunkWriter, VectorWriter, NodeWriter
  <2>6. Rewriting(4) => Rewriting(4)'
    BY <2>1, <2>2 DEF Rewriting
  <2>7. Rewriting(2) => Rewriting(2)' /\ read' = read
    BY <2>1, <2>2 DEF Rewriting
  <2>8. \A c : VectorsOf(c) => VectorsOf(c)'
    BY <2>2, <2>4, <2>7 DEF VectorsOf, Replacing
  <2> QED BY <2>2, <2>3, <2>5, <2>6, <2>8
          DEF Kept, SomeCreate, RowComing, ChunksComing, NodeComing
<1>4. CASE ReadRaises \/ HandlerRaises \/ SyncCrash
  BY <1>4 DEF ReadRaises, HandlerRaises, SyncCrash, Smooth
<1> QED BY <1>1, <1>2, <1>3, <1>4, SyncSteps DEF HandlerStep

\* However syncs run between the calls of overlapping updates and the create,
\* once all are at rest, nothing raised and nobody deleted, every chunk row has
\* its vectors and the document its node.
THEOREM SyncLosesNothing == SyncSpec => []SyncKeepsVectors
<1> DEFINE SmoothKept == Smooth => Kept
<1>1. SyncInit => SmoothKept
  BY DEF SyncInit, Init, StoresInit, Kept, SomeCreate
<1>2. SyncInv /\ SmoothKept /\ [SyncNext]_syncVars => SmoothKept'
  BY NextKept
<1>3. SyncInv /\ SmoothKept => SyncKeepsVectors
  <2>1. SUFFICES ASSUME SyncInv, SmoothKept, Quiet, phase = "idle", ~syncRaised, SomeCreate,
                        \A s \in Sagas : kind[s] # "delete",
                        \A s \in Sagas : Over(s) => status[s] = "success"
                 PROVE  pgChunks # {} /\ pgChunks \subseteq vectors /\ docNode
    BY DEF SyncKeepsVectors, SomeCreate
  <2>2. Calm
    BY <2>1 DEF Calm, Quiet, InFlight, Over, SyncInv, TypeInv, TypeOK, SagaTypeOK
  <2>3. Kept
    BY <2>1, <2>2 DEF Smooth
  <2>4. \A s \in Sagas : \A k, i, j : ~Stands(s, k, i, j)
    BY <2>1 DEF Quiet, InFlight, Stands
  <2>5. ~Rewriting(2) /\ ~Rewriting(4) /\ pgChunks \subseteq Sagas
    BY <2>1 DEF Rewriting, SyncInv, TypeInv, TypeOK, StoresTypeOK
  <2>6. pgChunks \subseteq vectors
    BY <2>3, <2>4, <2>5 DEF Kept, VectorsOf, Replacing
  <2> QED BY <2>1, <2>3, <2>4, <2>5, <2>6
          DEF Kept, ChunksComing, NodeComing, RowWriter, ChunkWriter, VectorWriter, NodeWriter
<1> HIDE DEF SmoothKept
<1> QED BY <1>1, <1>2, <1>3, AlwaysSyncInv, PTL DEF SyncSpec

=============================================================================
