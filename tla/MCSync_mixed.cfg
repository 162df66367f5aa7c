\* A create and two further requests, one after the other, and syncs between
\* the calls of the sagas: every failure of Milvus and Neo4j, and crashes of
\* the sync service.
CONSTANTS
    Sagas = {1, 2, 3}
    NoDoc = NoDoc
    Metadata = Metadata
    NoEvent = NoEvent
    ConcretePg = FALSE
    Faulty <- MilvusAndNeo4j
    MayCrash = FALSE
SPECIFICATION OrderedSpec
INVARIANTS
    SyncKeepsVectors
PROPERTIES
    ReportIsTrue
    SyncEnds
    SagasEnd
CHECK_DEADLOCK FALSE
