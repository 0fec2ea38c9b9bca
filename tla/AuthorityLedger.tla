--------------------------- MODULE AuthorityLedger ---------------------------
(***************************************************************************)
(* What the Core pipeline promises its callers, without processes, replay  *)
(* rows, versions or clocks: one ledger of authority events.  A request    *)
(* with a key either enters the ledger in one step, once, or leaves it     *)
(* alone, and what its caller is told is true of the ledger at that step.  *)
(***************************************************************************)
EXTENDS Naturals, Sequences

CONSTANTS Callers,   \* whoever is waiting for an answer
          Keys,      \* idempotency keys
          Digests,   \* request contents
          Contexts,  \* verified caller contexts
          None

VARIABLES ledger,    \* the events, each the key of its request or "policy_apply"
          record,    \* per key: the request that entered the ledger, and where
          asked,     \* per caller: the request it waits for
          answer     \* per caller: what it was told

vars == <<ledger, record, asked, answer>>

Request == [key : Keys, digest : Digests, ctx : Contexts]

Init ==
  /\ ledger = <<>>
  /\ record = [k \in Keys |-> None]
  /\ asked = [c \in Callers |-> None]
  /\ answer = [c \in Callers |-> None]

Waiting(c) == asked[c] # None /\ answer[c] = None

Tell(c, a) == answer' = [answer EXCEPT ![c] = a]

Ask(c, r) ==
  /\ asked[c] = None
  /\ asked' = [asked EXCEPT ![c] = r]
  /\ UNCHANGED <<ledger, record, answer>>

(* The request takes effect: it becomes the next event. *)
Enter(c) ==
  /\ Waiting(c)
  /\ record[asked[c].key] = None
  /\ ledger' = Append(ledger, asked[c].key)
  /\ record' = [record EXCEPT ![asked[c].key] =
       [digest |-> asked[c].digest, ctx |-> asked[c].ctx, at |-> Len(ledger) + 1]]
  /\ Tell(c, [kind |-> "recorded", at |-> Len(ledger) + 1])
  /\ UNCHANGED asked

(* The same request from the same context is told where it entered before; *)
(* another one under the key is refused.                                   *)
Repeat(c) ==
  /\ Waiting(c)
  /\ record[asked[c].key] # None
  /\ LET r == record[asked[c].key]
     IN  Tell(c, IF r.digest = asked[c].digest /\ r.ctx = asked[c].ctx
                   THEN [kind |-> "recorded", at |-> r.at] ELSE [kind |-> "conflict"])
  /\ UNCHANGED <<ledger, record, asked>>

(* A caller told that it is out of date has not been recorded. *)
OutOfDate(c) ==
  /\ Waiting(c)
  /\ record[asked[c].key] = None \/ record[asked[c].key].digest # asked[c].digest
  /\ Tell(c, [kind |-> "stale"])
  /\ UNCHANGED <<ledger, record, asked>>

Decline(c) ==
  /\ Waiting(c)
  /\ Tell(c, [kind |-> "refused"])
  /\ UNCHANGED <<ledger, record, asked>>

(* The caller has its answer, or will never get one. *)
Leave(c) ==
  /\ asked' = [asked EXCEPT ![c] = None]
  /\ answer' = [answer EXCEPT ![c] = None]
  /\ UNCHANGED <<ledger, record>>

(* A project-policy change is an event without a key. *)
Administer ==
  /\ ledger' = Append(ledger, "policy_apply")
  /\ UNCHANGED <<record, asked, answer>>

Next ==
  \/ \E c \in Callers : \/ \E r \in Request : Ask(c, r)
                        \/ Enter(c) \/ Repeat(c) \/ OutOfDate(c) \/ Decline(c) \/ Leave(c)
  \/ Administer

Spec == Init /\ [][Next]_vars
=============================================================================
