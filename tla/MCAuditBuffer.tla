---------------------------- MODULE MCAuditBuffer ----------------------------
\* Model-checking instances of the audit buffer.  The liveness property rules
\* out symmetry.
EXTENDS AuditBuffer
=============================================================================
