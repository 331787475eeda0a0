--------------------------- MODULE MCOptimistic ---------------------------
EXTENDS OptimisticStrategy, Scenarios
=============================================================================
