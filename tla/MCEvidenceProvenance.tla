------------------------- MODULE MCEvidenceProvenance -------------------------
(* EvidenceProvenance for TLC. *)
EXTENDS EvidenceProvenance, TLC

Symmetry == Permutations(Agents) \cup Permutations(Artifacts) \cup Permutations(Actions)
=============================================================================
