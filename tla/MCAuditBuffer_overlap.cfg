\* Five logs in a buffer of three: the periodic flush and two background ones
\* overlap and fail, before or after their commit, and the service is stopped.
CONSTANTS
    BatchSize = 2
    MaxBuffer = 3
    Background = {t1, t2}
    MaxLogs = 5
    MaxFailures = 2
SPECIFICATION FairSpec
INVARIANTS
    TypeOK
    InOnePlace
    StoredInOrder
PROPERTIES
    LostOnlyWhenFull
    NothingStuck
CHECK_DEADLOCK FALSE
