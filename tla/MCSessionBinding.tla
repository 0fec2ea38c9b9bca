--------------------------- MODULE MCSessionBinding ---------------------------
(* Instances of SessionBinding for TLC. *)
EXTENDS SessionBinding, FiniteSets, TLC

Perms ==
  Permutations(Runtimes) \cup Permutations(Projects) \cup Permutations(Threads)
    \cup Permutations(Policies)

\* Bound: how many Agent Sessions are ever anchored.
MaxAnchors == 2

FewAnchors ==
  Cardinality({x \in Projects \X SessionIds : anchor[x[1]][x[2]] # NoAnchor}) <= MaxAnchors
=============================================================================
