------------------------- MODULE MCConnectionMigration -------------------------
(* Two personal Connections, one for each CODEX_HOME, and the shared one of   *)
(* the first of two projects.                                                 *)
EXTENDS ConnectionMigration

CONSTANTS personal, other, shared, p1, p2

Scopes == [c \in Connections |-> IF c = shared THEN p1 ELSE User]
=============================================================================
