\* start() while the loop of the last call still handles a message, then a crash.
CONSTANTS
    Partitions = {p}
    Starts = {a, b, c}
    HandlerCount = 1
    Disturbances = {"stop", "crash"}
    Overlap = TRUE
    MaxMessages = 3
    MaxRebalances = 0
SPECIFICATION Spec
INVARIANTS
    AtLeastOnce
CHECK_DEADLOCK FALSE
