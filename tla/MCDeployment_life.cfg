\* Scripts that fail and are interrupted anywhere, resets, and an application
\* that starts, fails to, stops and is killed.
CONSTANTS
    Indexes = 5
    Statements = 3
    NoScript = NoScript
    Classes <- AsWrittenOrWhole
SPECIFICATION Spec
INVARIANTS
    SuccessMeansUsable
PROPERTIES
    LifespanEnds
CHECK_DEADLOCK FALSE
