--------------------------- MODULE DocumentContract ---------------------------
(***************************************************************************)
(* What the sagas promise of one document, as long as there is one request *)
(* at a time: success puts every store where the request wants it, and a   *)
(* failure leaves every store that did not fail whole, with the content it *)
(* had, the content of the request, or nothing.  Which of the three depends *)
(* on the request: a failed create leaves nothing, a failed delete keeps the *)
(* row, a failed update keeps a row but may take the document out of search. *)
(* Of Neo4j the contract sees what a search can reach: the document node and *)
(* the chunks its CONTAINS edges lead to, not Chunk nodes without an edge. *)
(***************************************************************************)
CONSTANTS Sagas, NoDoc

VARIABLES
    view,    \* what each store holds of the document, as of the last request
    request, \* what each saga was asked to do
    outcome, \* how far it is
    raised,  \* the stores that failed it
    overlapped \* did two requests ever overlap?

cvars == <<view, request, outcome, raised, overlapped>>

Stores == {"postgres", "milvus", "neo4j"}

Empty(st) ==
    CASE st = "postgres" -> [row |-> NoDoc, chunks |-> {}]
      [] st = "milvus"   -> {}
      [] st = "neo4j"    -> [node |-> FALSE, chunks |-> {}]

Holding(st, s) ==
    CASE st = "postgres" -> [row |-> s, chunks |-> {s}]
      [] st = "milvus"   -> {s}
      [] st = "neo4j"    -> [node |-> TRUE, chunks |-> {s}]

CInit ==
    /\ view = [st \in Stores |-> Empty(st)]
    /\ request = [s \in Sagas |-> "none"]
    /\ outcome = [s \in Sagas |-> "idle"]
    /\ raised = [s \in Sagas |-> {}]
    /\ overlapped = FALSE

Begin(s, k) ==
    /\ outcome[s] = "idle"
    /\ \A t \in Sagas : outcome[t] # "pending"
    /\ k # "create" => view["postgres"].row # NoDoc
    /\ request' = [request EXCEPT ![s] = k]
    /\ outcome' = [outcome EXCEPT ![s] = "pending"]
    /\ UNCHANGED <<view, raised>>

\* A store fails a call of a saga that goes on.
Fault(s, st) ==
    /\ outcome[s] = "pending"
    /\ raised' = [raised EXCEPT ![s] = @ \union {st}]
    /\ UNCHANGED <<view, request, outcome>>

Finish(s, how) ==
    /\ outcome[s] = "pending"
    /\ outcome' = [outcome EXCEPT ![s] = how]
    /\ UNCHANGED request

Succeed(s) ==
    /\ Finish(s, "success")
    /\ raised[s] = {}
    /\ UNCHANGED raised
    /\ view' = [st \in Stores |->
                    IF request[s] = "delete" THEN Empty(st) ELSE Holding(st, s)]

\* What a failed request may leave in a store that did not fail it.
LeftBy(s, st) ==
    CASE request[s] = "create" -> {Empty(st)}
      [] request[s] = "delete" -> IF st = "postgres" THEN {view[st]}
                                                     ELSE {view[st], Empty(st)}
      [] request[s] = "update" -> IF st = "postgres" THEN {view[st], Holding(st, s)}
                                                     ELSE {view[st], Empty(st)}

Fail(s) ==
    /\ Finish(s, "failed")
    /\ \E st \in Stores : raised' = [raised EXCEPT ![s] = @ \union {st}] \/ raised' = raised
    /\ \A st \in Stores \ raised'[s] : view'[st] \in LeftBy(s, st)

\* Nothing is promised of the stores when the process stops.
Stop(s) ==
    /\ Finish(s, "crashed")
    /\ UNCHANGED raised

Promised ==
    \E s \in Sagas :
        \/ \E k \in {"create", "delete", "update"} : Begin(s, k)
        \/ \E st \in Stores : Fault(s, st)
        \/ Succeed(s)
        \/ Fail(s)
        \/ Stop(s)

\* Nothing is promised once requests overlap.
CNext == overlapped' \/ (Promised /\ UNCHANGED overlapped)

CSpec == CInit /\ [][CNext]_cvars
=============================================================================
