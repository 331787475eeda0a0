--------------------------- MODULE MCPessimistic ----------------------------
EXTENDS PessimisticStrategy, Scenarios
=============================================================================
