---------------------------- MODULE SagaRefinement ----------------------------
(***************************************************************************)
(* The saga coordinator, as long as its requests come one after the other, *)
(* implements DocumentContract.  The contract sees the stores only between *)
(* requests: the history variable "before" keeps what they held then.      *)
(***************************************************************************)
EXTENDS SagaCoordinator

VARIABLE before

\* The rows, the vectors and the graph that hangs on the document node.  Chunk
\* nodes without an edge are not part of it (NoOrphans is about them).
View == [postgres |-> [row |-> pgDoc, chunks |-> pgChunks],
         milvus   |-> vectors,
         neo4j    |-> [node |-> docNode, chunks |-> contains]]

HInit == Init /\ before = View
HNext == Next /\ before' = IF Quiet' THEN View' ELSE before
HSpec == HInit /\ [][HNext]_<<vars, before>>

Outcome(s) ==
    CASE InFlight(s) -> "pending"
      [] status[s] \in {"failed", "exception"} -> "failed"
      [] OTHER -> status[s]

Contract == INSTANCE DocumentContract
                WITH view <- before,
                     request <- kind,
                     outcome <- [s \in Sagas |-> Outcome(s)],
                     raised <- raised,
                     overlapped <- overlapped

\* Every step of the coordinator is a step the contract allows, or is
\* invisible to it.
ImplementsContract == Contract!CSpec
=============================================================================
