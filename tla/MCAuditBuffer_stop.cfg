\* stop() while the periodic flush writes; no write fails.
CONSTANTS
    BatchSize = 9
    MaxBuffer = 4
    Background = {}
    MaxLogs = 2
    MaxFailures = 0
SPECIFICATION Spec
INVARIANTS
    StopFlushesRemaining
CHECK_DEADLOCK FALSE
