--------------------------- MODULE LedgerRefinement ---------------------------
(* CoreCommit seen as the ledger of AuthorityLedger. *)
EXTENDS CoreCommit

(* The ledger is the event log; a key's record is its replay row. *)
LedgerView == [i \in 1..Len(authorityEvents) |-> authorityEvents[i].key]

RecordView(row) ==
  IF row = None THEN None
  ELSE [digest |-> row.hash, ctx |-> row.ctx, at |-> row.committed]

(* A caller is a handle serving a tool request. *)
AskedView(r) ==
  IF r.kind = "tool" THEN [key |-> r.key, digest |-> RequestHash(r), ctx |-> r.ctx] ELSE None

AnswerView(r, a) ==
  IF r.kind # "tool" \/ a.kind = "none" THEN None
  ELSE CASE a.kind \in {"committed", "replayed"} -> [kind |-> "recorded", at |-> a.committed]
         [] a.kind \in {"context_mismatch", "idempotency_conflict"} -> [kind |-> "conflict"]
         [] a.kind = "stale" -> [kind |-> "stale"]
         [] OTHER -> [kind |-> "refused"]

(* The view of a row or of a request is never the absent one. *)
ASSUME NoneIsNoView ==
  /\ None \notin [digest : Bodies \X (Versions \cup {None}), ctx : Contexts, at : Versions]
  /\ None \notin [key : Keys, digest : Bodies \X (Versions \cup {None}), ctx : Contexts]

Atomic == INSTANCE AuthorityLedger
  WITH Callers <- Handles,
       Digests <- Bodies \X (Versions \cup {None}),
       ledger <- LedgerView,
       record <- [k \in Keys |-> RecordView(toolInvocations[k])],
       asked  <- [h \in Handles |-> AskedView(req[h])],
       answer <- [h \in Handles |-> AnswerView(req[h], reply[h])]

(* The pipeline of many processes, with its preflight outside the commit    *)
(* transaction, its crashes and its retries, implements the atomic ledger:  *)
(* every step of prepare_request and commit_with is one ledger step or none. *)
LedgerRefined == Atomic!Spec
=============================================================================
