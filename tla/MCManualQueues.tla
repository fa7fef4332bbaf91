--------------------------- MODULE MCManualQueues ---------------------------
\* Model-checking instances of ManualQueues.
EXTENDS ManualQueues
=============================================================================
