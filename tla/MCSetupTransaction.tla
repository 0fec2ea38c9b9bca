-------------------------- MODULE MCSetupTransaction --------------------------
(* Small instances of SetupTransaction. *)
EXTENDS SetupTransaction

CONSTANTS ours, theirs

(* Files that setup creates, removes and replaces: a retired one has nothing  *)
(* but managed text, the others are missing or the user's.                    *)
MixedFiles == {b \in [Files -> {Missing, [user |-> NoText, managed |-> FALSE],
                                [user |-> ours, managed |-> FALSE]}] :
  \A f \in Files : f \in Retired <=> (b[f] # Missing /\ b[f].user = NoText)}
=============================================================================
