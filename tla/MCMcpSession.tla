---------------------------- MODULE MCMcpSession ----------------------------
EXTENDS McpSession, TLC

\* The servers no client talks to are interchangeable.
IdleSymmetry == Permutations(Servers \ Driven)
=============================================================================
