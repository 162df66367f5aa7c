------------------------------- MODULE MCSaga -------------------------------
\* Model-checking instance of the saga coordinator and of its refinement.
EXTENDS SagaProperties, SagaRefinement, TLC

AllStores == {"postgres", "milvus", "neo4j"}

\* Sagas are interchangeable: they differ only in the request they serve.
SagaSymmetry == Permutations(Sagas)
=============================================================================
