--------------------------- MODULE MCTaskAuthority ---------------------------
(* Instances of TaskAuthority for TLC. *)
EXTENDS TaskAuthority, TLC

CONSTANTS t1, t2, x1, x2, a1, a2, doc, key, none

\* Every default at Tracked, no Light work, nothing denied.
TrackedPolicy ==
    [direct |-> Tracked, work |-> Tracked, light |-> FALSE, lightPaths |-> {}, denied |-> {},
     lightAcceptance |-> PolicyDependent, idle |-> 0, rest |-> 0]
\* Light direct work on doc, which may complete without acceptance.
LightPolicy ==
    [TrackedPolicy EXCEPT !.direct = Light, !.light = TRUE, !.lightPaths = Targets]
\* The same with key denied and a ticket idle timeout.
DenyingPolicy == [LightPolicy EXCEPT !.denied = {key}, !.idle = 1]
\* Differs from LightPolicy only outside the write authority.
RewordedPolicy == [LightPolicy EXCEPT !.rest = 1]
\* Direct work may stay at Observe.
ObservePolicy == [TrackedPolicy EXCEPT !.direct = Observe]

TicketPolicies == {LightPolicy, DenyingPolicy, RewordedPolicy}
OnlyLight == {LightPolicy}
OnlyObserve == {ObservePolicy}
RisingPolicies == {LightPolicy, TrackedPolicy, ObservePolicy}

TicketSymmetry == Permutations(Tickets)
ActionSymmetry == Permutations(Actions)
==============================================================================
