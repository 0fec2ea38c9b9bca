------------------------- MODULE MCShapingAuthority -------------------------
(* Instances of ShapingAuthority for TLC. *)
EXTENDS ShapingAuthority, TLC

CONSTANTS b1, b2, scope, product, technical

MCKinds == {scope, product, technical}
MCModes == {"work", "advisor"}
MCBaselines == {b1, b2}

\* Only the scope decision has a kind of its own.
MCSymmetry == Permutations(MCKinds \ {scope}) \cup Permutations(MCBaselines)
=============================================================================
