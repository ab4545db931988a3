--------------------------- MODULE BulkheadConfig ----------------------------
\* The configuration of a bulkhead, and who calls it.
EXTENDS Naturals

CONSTANTS Callers,        \* the callers of execute(), one call each at a time
          MaxConcurrent,  \* config.maxConcurrent
          MaxQueued       \* config.maxQueued

ASSUME ConfigAssumption ==
    /\ MaxConcurrent \in Nat
    /\ MaxQueued \in Nat
==============================================================================
