---------------------------- MODULE MCPolicyStore ----------------------------
EXTENDS PolicyStore
=============================================================================
