\* What the delete event's handler leaves, when requests come one after the
\* other and nothing raises: a create, an update and a delete, and the handlers
\* of the last two between their calls.
CONSTANTS
    Sagas = {1, 2, 3}
    NoDoc = NoDoc
    Metadata = Metadata
    NoEvent = NoEvent
    ConcretePg = FALSE
    Faulty <- NoStore
    MayCrash = FALSE
SPECIFICATION OrderedSpec
INVARIANTS
    SyncCompletesDelete
CHECK_DEADLOCK FALSE
