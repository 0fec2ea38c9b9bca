----------------------------- MODULE MCCoreCommit -----------------------------
(* Instances of CoreCommit for TLC, with its view as a ledger. *)
EXTENDS LedgerRefinement, TLC

CONSTANTS h1, h2, k1, k2, b1, c1, c2, p1, p2

HandleSymmetry == Permutations(Handles)
=============================================================================
