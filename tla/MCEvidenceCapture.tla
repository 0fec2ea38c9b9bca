-------------------------- MODULE MCEvidenceCapture --------------------------
(* EvidenceCapture for TLC. *)
EXTENDS EvidenceCapture, TLC

Symmetry == Permutations(Agents) \cup Permutations(Intents) \cup Permutations(Handles)
            \cup Permutations(Captures)
=============================================================================
