------------------------- MODULE MCGuardObservation -------------------------
(***************************************************************************)
(* An instance of GuardObservation: a write of turn t1 that announces path *)
(* a and may write b too, in a session whose host also opens a turn t2.    *)
(***************************************************************************)
EXTENDS GuardObservation, TLC

CONSTANTS i1, t1, t2, s1, a, b, k1, h1, h2, h3

MCSessionOf == i1 :> s1

MCTurnOf == i1 :> t1

MCEffectOf == i1 :> "may_write_product"

MCTargetsOf == i1 :> {a}

MCScopeOf == k1 :> {a}

HookSymmetry == Permutations(Hooks)

=============================================================================
