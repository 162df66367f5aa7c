\* A create and two further requests, one after the other or overlapping: every
\* failure of every call, and crashes.
CONSTANTS
    Sagas = {a, b, c}
    NoDoc = NoDoc
    ConcretePg = FALSE
    Faulty <- AllStores
    MayCrash = TRUE
SPECIFICATION HSpec
SYMMETRY SagaSymmetry
INVARIANTS
    TypeOK
    SearchNeverStale
    PostgresWhole
    UpdatesKeepDocumentSearchable
    NothingLeftUndone
PROPERTIES
    SuccessIsComplete
    CreateFailureConfined
    FailedDeleteCanBeRetried
    ImplementsContract
    DeletedStaysDeleted
CHECK_DEADLOCK FALSE
