--------------------------- MODULE MCEventConsumer ---------------------------
\* Model-checking instances of the event consumer.  The liveness property rules
\* out symmetry.
EXTENDS EventConsumer
=============================================================================
