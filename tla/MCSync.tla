------------------------------- MODULE MCSync -------------------------------
\* Model-checking instances of the sync handlers beside the sagas.
EXTENDS SyncHandlers

MilvusAndNeo4j == {"milvus", "neo4j"}
NoStore == {}

\* Sagas are interchangeable: it is enough to look at the behaviours in which
\* they start in one order (symmetry reduction that keeps liveness sound).
InOrder == \A s, t \in Sagas : (s < t /\ kind[t] # "none") => kind[s] # "none"

OrderedSpec ==
    /\ SyncInit /\ [][SyncNext /\ InOrder' /\ ~overlapped']_syncVars
    /\ WF_syncVars(HandlerStep)
    /\ \A s \in Sagas : WF_syncVars(SagaMoves(s))
=============================================================================
