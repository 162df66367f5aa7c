\* start() is called again only when the last call has returned; stops, crashes,
\* rebalances, failing connects and failing reads.  No symmetry: liveness.
CONSTANTS
    Partitions = {p, q}
    Starts = {a, b}
    HandlerCount = 2
    Disturbances = {"stop", "crash", "rebalance", "startFails", "readFails"}
    Overlap = FALSE
    MaxMessages = 2
    MaxRebalances = 1
SPECIFICATION FairSpec
INVARIANTS
    TypeOK
    AtLeastOnce
PROPERTIES
    FirstInOrder
    CommitsForward
    EventuallyTried
CHECK_DEADLOCK FALSE
