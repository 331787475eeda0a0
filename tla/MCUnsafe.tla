--------------------------- MODULE MCUnsafe ---------------------------
EXTENDS UnsafeStrategy, InvariantChecker, Scenarios
=============================================================================
