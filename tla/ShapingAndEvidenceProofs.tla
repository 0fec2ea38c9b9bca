----------------------- MODULE ShapingAndEvidenceProofs -----------------------
(***************************************************************************)
(* Proofs about the two kinds of record a Task gathers: those of its       *)
(* shaping (ShapingAuthority) and those of captured evidence               *)
(* (EvidenceCapture).  The two modules share no variable and no constant.  *)
(*                                                                         *)
(* Shaping, for every set of kinds of decision, baselines and modes and    *)
(* every bound.  The invariant says that a decision's row has one of four  *)
(* forms (RowsInv), that the checkpoint is the Task's own (CheckpointInv), *)
(* and what the two ways out of shaping leave behind (OutcomeInv).         *)
(*                                                                         *)
(* Captured evidence is sound for any number of connections, capture       *)
(* processes, intents, handles and tool calls, and for every lifetime: a   *)
(* source serves one intent, a staged row keeps its bytes, and a finalised *)
(* producer is whole.                                                      *)
(*                                                                         *)
(* record_run checks an intent while planning and not again when it        *)
(* commits.  The invariant says why that is enough: what the plan has read *)
(* of the intent changes only with the state version, which the commit     *)
(* compares; what changes without it (receipts, staged rows, bytes, time)  *)
(* either only grows or is read again.                                     *)
(***************************************************************************)
EXTENDS ShapingAuthority, EvidenceCapture, TLAPS

(* Zenon proves most leaves; the ones with arithmetic or large records say SMT. *)
USE Zenon

-----------------------------------------------------------------------------
(* Shaping.                                                                *)

(* A row of a decision that was asked for on the Task's coordinates, answered *)
(* or not; of one whose answer is applied there; and of one whose application *)
(* a change of scope overtook.                                                *)
Waiting(r) ==
  /\ r.gap \in Answers \cup {"current"} /\ r.own
  /\ r.basis = "current" /\ r.at = Here /\ r.app = "none"

Held(r) ==
  /\ r.gap = "applied" /\ r.basis = "current" /\ r.app = "current"
  /\ r.linked /\ r.on = Here /\ (r.own => r.at = Here)

Overtaken(r) == r.gap = "applied" /\ r.basis = "stale" /\ r.app = "stale"

(* There are no other rows. *)
RowsInv ==
  \A k \in Kinds : dec[k] = NoDecision \/ Waiting(dec[k]) \/ Held(dec[k]) \/ Overtaken(dec[k])

(* The checkpoint is the Task's, and without one nothing has been asked. *)
CheckpointInv ==
  /\ cp.st = "none" => \A k \in Kinds : dec[k] = NoDecision
  /\ cp.st # "none" => cp.rev = task.rev /\ cp.base = task.base
  /\ cp.st = "ready" => ~GapOpen /\ cp.base # Null /\ cp.boundary

(* What the two ways out of shaping leave behind. *)
OutcomeInv ==
  /\ task.open /\ task.phase = "implementation" =>
       /\ cp.st = "ready" /\ task.cu # 0
       /\ \A k \in Kinds : dec[k] = NoDecision \/ Held(dec[k])
  /\ task.mode = "work" => task.close = Null
  /\ AdviceBasisCurrent

ShapingInv == ShapingTypeOK /\ RowsInv /\ CheckpointInv /\ OutcomeInv

-----------------------------------------------------------------------------
(* Rows *)

(* A missing decision is a row. *)
LEMMA NoRow ==
  ASSUME MaxRev \in Nat
  PROVE  Nowhere \in Coordinates /\ NoDecision \in DecisionRows
<1>1. Nowhere \in Coordinates
  BY SMT DEF Nowhere, Coordinates
<1>2. QED
  BY SMT, <1>1 DEF DecisionRows, NoDecision

(* The rows the operations write, field by field: one a successor checkpoint carries, *)
LEMMA CarriedRow ==
  ASSUME NEW r \in DecisionRows, NEW v, v = [r EXCEPT !.own = FALSE]
  PROVE  v \in DecisionRows /\ v = [gap |-> r.gap, own |-> FALSE, basis |-> r.basis, at |-> r.at,
               expired |-> r.expired, app |-> r.app, on |-> r.on, linked |-> r.linked]
BY Zenon DEF DecisionRows

(* an answered one, *)
LEMMA AnsweredRow ==
  ASSUME NEW r \in DecisionRows, NEW a \in Answers, NEW v, v = [r EXCEPT !.gap = a]
  PROVE  v \in DecisionRows /\ v = [gap |-> a, own |-> r.own, basis |-> r.basis, at |-> r.at,
               expired |-> r.expired, app |-> r.app, on |-> r.on, linked |-> r.linked]
BY Zenon DEF DecisionRows

(* an expired one, *)
LEMMA ExpiredRow ==
  ASSUME NEW r \in DecisionRows, NEW v, v = [r EXCEPT !.expired = TRUE]
  PROVE  v \in DecisionRows /\ v = [gap |-> r.gap, own |-> r.own, basis |-> r.basis, at |-> r.at,
               expired |-> TRUE, app |-> r.app, on |-> r.on, linked |-> r.linked]
BY Zenon DEF DecisionRows

(* one that moves with the checkpoint, *)
LEMMA MovedRow ==
  ASSUME NEW r \in DecisionRows, NEW c \in Coordinates, NEW v, v = [r EXCEPT !.at = c]
  PROVE  v \in DecisionRows /\ v = [gap |-> r.gap, own |-> r.own, basis |-> r.basis, at |-> c,
               expired |-> r.expired, app |-> r.app, on |-> r.on, linked |-> r.linked]
BY Zenon DEF DecisionRows

(* one that is applied where it was asked for, *)
LEMMA AppliedRow ==
  ASSUME NEW r \in DecisionRows, NEW c \in Coordinates,
         NEW v, v = [r EXCEPT !.gap = "applied", !.app = "current", !.on = c, !.linked = TRUE]
  PROVE  v \in DecisionRows /\ v = [gap |-> "applied", own |-> r.own, basis |-> r.basis, at |-> r.at,
               expired |-> r.expired, app |-> "current", on |-> c, linked |-> TRUE]
BY Zenon DEF DecisionRows

(* or on the coordinates the scope moves to, *)
LEMMA AppliedThereRow ==
  ASSUME NEW r \in DecisionRows, NEW c \in Coordinates,
         NEW v, v = [r EXCEPT !.gap = "applied", !.at = c, !.app = "current", !.on = c, !.linked = TRUE]
  PROVE  v \in DecisionRows /\ v = [gap |-> "applied", own |-> r.own, basis |-> r.basis, at |-> c,
               expired |-> r.expired, app |-> "current", on |-> c, linked |-> TRUE]
BY Zenon DEF DecisionRows

(* one whose application is overtaken, *)
LEMMA StaleRow ==
  ASSUME MaxRev \in Nat, NEW r \in DecisionRows, NEW v, v = Stale(r)
  PROVE  v \in DecisionRows /\ v = [gap |-> r.gap, own |-> r.own, basis |-> "stale", at |-> Nowhere,
               expired |-> r.expired, app |-> "stale", on |-> Nowhere, linked |-> r.linked]
<1>1. v = [r EXCEPT !.app = "stale", !.basis = "stale", !.at = Nowhere, !.on = Nowhere]
  BY DEF Stale
<1>2. QED
  BY <1>1, NoRow, Zenon DEF DecisionRows

(* and a new question. *)
LEMMA AskedRow ==
  ASSUME MaxRev \in Nat, NEW c \in Coordinates,
         NEW v, v = [NoDecision EXCEPT !.gap = "current", !.own = TRUE, !.basis = "current", !.at = c]
  PROVE  v \in DecisionRows /\ v = [gap |-> "current", own |-> TRUE, basis |-> "current", at |-> c,
               expired |-> FALSE, app |-> "none", on |-> Nowhere, linked |-> FALSE]
<1>1. v = [gap |-> "current", own |-> TRUE, basis |-> "current", at |-> c,
           expired |-> FALSE, app |-> "none", on |-> Nowhere, linked |-> FALSE]
  BY Zenon DEF NoDecision
<1>2. QED
  BY <1>1, NoRow, Zenon DEF DecisionRows

-----------------------------------------------------------------------------
(* What the projection makes of the rows *)

(* The fields of a decision nobody asked for. *)
LEMMA NoRowFields ==
  /\ NoDecision.gap = "none" /\ ~NoDecision.own /\ NoDecision.basis = "stale"
  /\ NoDecision.app = "none"
BY Zenon DEF NoDecision

(* There is nothing to carry of it. *)
LEMMA NothingCarried == [NoDecision EXCEPT !.own = FALSE] = NoDecision
<1>1. PICK t \in BOOLEAN : t = FALSE
  OBVIOUS
<1>2. NoDecision = [gap |-> "none", own |-> t, basis |-> "stale", at |-> Nowhere,
                    expired |-> t, app |-> "none", on |-> Nowhere, linked |-> t]
  BY <1>1, Zenon DEF NoDecision
<1>3. [NoDecision EXCEPT !.own = t] = NoDecision
  BY SMT, <1>2
<1>4. QED
  BY <1>1, <1>3, Zenon

(* Each form of row has its evaluation. *)
LEMMA Evaluated ==
  ASSUME NEW k \in Kinds
  PROVE  /\ Waiting(dec[k]) =>
              /\ dec[k].gap = "current" => Evaluate(k) \in {"awaiting_user", "expired"}
              /\ dec[k].gap = "current" /\ Evaluate(k) = "awaiting_user" => ~dec[k].expired
              /\ dec[k].gap = "accepted" => Evaluate(k) = "accepted_unapplied"
              /\ dec[k].gap \in {"rejected", "deferred"} => Evaluate(k) = dec[k].gap
         /\ Held(dec[k]) => Evaluate(k) = "applied"
         /\ Overtaken(dec[k]) => Evaluate(k) = "stale"
<1>1. ASSUME Waiting(dec[k])
      PROVE  /\ dec[k].gap = "current" => Evaluate(k) \in {"awaiting_user", "expired"}
             /\ dec[k].gap = "current" /\ Evaluate(k) = "awaiting_user" => ~dec[k].expired
             /\ dec[k].gap = "accepted" => Evaluate(k) = "accepted_unapplied"
             /\ dec[k].gap \in {"rejected", "deferred"} => Evaluate(k) = dec[k].gap
  <2>1. Evaluate(k) = IF Status(dec[k]) # "resolved"
                        THEN IF Status(dec[k]) = "pending" THEN "awaiting_user" ELSE "expired"
                      ELSE IF dec[k].gap = "accepted" THEN "accepted_unapplied"
                      ELSE IF dec[k].gap \in {"rejected", "deferred"} THEN dec[k].gap ELSE "inconsistent"
    BY <1>1 DEF Waiting, Evaluate, Status
  <2>2. Status(dec[k]) = IF dec[k].gap # "current" THEN "resolved"
                         ELSE IF dec[k].expired THEN "expired" ELSE "pending"
    BY <1>1 DEF Waiting, Status
  <2>3. QED
    BY <2>1, <2>2
<1>2. ASSUME Held(dec[k])
      PROVE  Evaluate(k) = "applied"
  BY <1>2 DEF Held, Evaluate, Status
<1>3. ASSUME Overtaken(dec[k])
      PROVE  Evaluate(k) = "stale"
  BY <1>3 DEF Overtaken, Evaluate, Status
<1>4. QED
  BY <1>1, <1>2, <1>3

(* The authority graph has every decision there is. *)
LEMMA GraphRows ==
  ASSUME RowsInv
  PROVE  /\ Graph = {k \in Kinds : Waiting(dec[k]) \/ Held(dec[k]) \/ Overtaken(dec[k])}
         /\ \A k \in Kinds : dec[k] # NoDecision => k \in Graph
         /\ \A k \in Graph : Evaluate(k) # "inconsistent"
<1>1. ASSUME NEW k \in Kinds, Waiting(dec[k]) \/ Held(dec[k]) \/ Overtaken(dec[k])
      PROVE  k \in Graph
  BY <1>1, Zenon DEF Waiting, Held, Overtaken, Graph, Gaps, Applications, Answers
<1>2. ASSUME NEW k \in Graph
      PROVE  k \in Kinds /\ dec[k] # NoDecision
  BY <1>2, NoRowFields DEF Graph, Gaps, Applications
<1>3. ASSUME NEW k \in Graph
      PROVE  Evaluate(k) # "inconsistent"
  <2>1. k \in Kinds /\ (Waiting(dec[k]) \/ Held(dec[k]) \/ Overtaken(dec[k]))
    BY <1>2, <1>3 DEF RowsInv
  <2>2. Waiting(dec[k]) => dec[k].gap \in {"current", "accepted", "rejected", "deferred"}
    BY DEF Waiting, Answers
  <2>3. QED
    BY <2>1, <2>2, Evaluated
<1>4. QED
  BY <1>1, <1>2, <1>3 DEF RowsInv

(* The scope may not move while an application is overtaken. *)
LEMMA ScopeAdmitted ==
  ASSUME RowsInv, "scope" \in Admitted
  PROVE  task.open /\ \A k \in Kinds : ~Overtaken(dec[k])
<1>1. "scope" \in Workflow.may
  BY DEF Admitted
<1>2. task.open /\ Authority({"stale"}) = {}
  BY <1>1, Zenon DEF Workflow, Offer
<1>3. QED
  BY <1>2, GraphRows, Evaluated DEF Authority
-----------------------------------------------------------------------------
(* The operations *)

(* What the types say of the coordinates. *)
LEMMA HereTyped ==
  ASSUME ShapingTypeOK
  PROVE  Here \in Coordinates /\ \A k \in Kinds : dec[k] \in DecisionRows
BY SMT DEF ShapingTypeOK, Tasks, Here, Coordinates

(* A Task without a close basis is otherwise the same. *)
LEMMA CloseWithdrawn ==
  ASSUME NEW t \in Tasks, NEW v, v = [t EXCEPT !.close = Null]
  PROVE  v \in Tasks /\ v = [mode |-> t.mode, phase |-> t.phase, open |-> t.open, rev |-> t.rev,
               base |-> t.base, cu |-> t.cu, cuBase |-> t.cuBase, close |-> Null]
BY Zenon DEF Tasks

(* A successor checkpoint: its own questions, and the applications it carries. *)
LEMMA RecordStep ==
  ASSUME MaxRev \in Nat, ShapingInv,
         NEW asked \in SUBSET Kinds, NEW plain \in BOOLEAN, NEW boundary \in BOOLEAN,
         RecordCheckpoint(asked, plain, boundary)
  PROVE  ShapingInv'
<1>0. ShapingTypeOK /\ RowsInv /\ task \in Tasks
  BY DEF ShapingInv, ShapingTypeOK
<1>1. PICK ready \in BOOLEAN : ready = (asked = {} /\ ~plain /\ task.base # Null /\ boundary)
  OBVIOUS
<1>2. /\ task' = [task EXCEPT !.close = Null]
      /\ cp' = [st |-> IF ready THEN "ready" ELSE "blocked", rev |-> task.rev,
                base |-> task.base, boundary |-> boundary, plain |-> plain]
      /\ dec' = [k \in Kinds |->
           IF k \in asked
             THEN [NoDecision EXCEPT !.gap = "current", !.own = TRUE,
                                     !.basis = "current", !.at = Here]
           ELSE IF k \in Retired \cup Applications("stale") THEN NoDecision
           ELSE [dec[k] EXCEPT !.own = FALSE]]
      /\ task.phase = "shaping"
  BY <1>1, Zenon DEF RecordCheckpoint, MayRecordAs, MayRecord, Complete
<1>3. task' \in Tasks /\ task' = [mode |-> task.mode, phase |-> task.phase, open |-> task.open,
                rev |-> task.rev, base |-> task.base, cu |-> task.cu, cuBase |-> task.cuBase,
                close |-> Null]
  BY <1>0, <1>2, CloseWithdrawn
<1>4. /\ Here' = Here /\ task'.phase = "shaping" /\ task'.close = Null
      /\ task'.rev = task.rev /\ task'.base = task.base
  BY <1>2, <1>3 DEF Here
<1>5. ASSUME NEW k \in asked
      PROVE  dec'[k] \in DecisionRows /\ Waiting(dec[k])'
  <2>1. dec'[k] = [NoDecision EXCEPT !.gap = "current", !.own = TRUE, !.basis = "current", !.at = Here]
    BY <1>2
  <2>2. dec'[k] \in DecisionRows
        /\ dec'[k] = [gap |-> "current", own |-> TRUE, basis |-> "current", at |-> Here,
               expired |-> FALSE, app |-> "none", on |-> Nowhere, linked |-> FALSE]
    BY <1>0, <2>1, HereTyped, AskedRow
  <2>3. /\ dec'[k].gap = "current" /\ dec'[k].own /\ dec'[k].basis = "current"
        /\ dec'[k].at = Here /\ dec'[k].app = "none"
    BY SMT, <2>2
  <2>4. QED
    BY <1>4, <2>2, <2>3 DEF Waiting
<1>6. ASSUME NEW k \in Kinds \ asked
      PROVE  dec'[k] \in DecisionRows /\ ~dec'[k].own /\ (dec'[k] = NoDecision \/ Held(dec[k])')
  <2>1. CASE k \in Retired \cup Applications("stale")
    BY <1>2, <2>1, NoRow, NoRowFields
  <2>2. CASE k \notin Retired \cup Applications("stale")
    <3>1. dec'[k] = [dec[k] EXCEPT !.own = FALSE]
      BY <1>2, <2>2
    <3>2. dec'[k] \in DecisionRows
          /\ dec'[k] = [gap |-> dec[k].gap, own |-> FALSE, basis |-> dec[k].basis, at |-> dec[k].at,
               expired |-> dec[k].expired, app |-> dec[k].app, on |-> dec[k].on, linked |-> dec[k].linked]
      BY <1>0, <3>1, HereTyped, CarriedRow
    <3>3. ~Waiting(dec[k]) /\ ~Overtaken(dec[k])
      BY <2>2, Zenon DEF Waiting, Overtaken, Retired, Gaps, Applications, Answers
    <3>4. CASE dec[k] = NoDecision
      <4>1. dec'[k] = NoDecision
        BY <3>1, <3>4, NothingCarried
      <4>2. QED
        BY <3>2, <4>1, NoRowFields
    <3>5. CASE Held(dec[k])
      <4>1. /\ dec'[k].gap = dec[k].gap /\ ~dec'[k].own /\ dec'[k].basis = dec[k].basis
            /\ dec'[k].app = dec[k].app /\ dec'[k].on = dec[k].on /\ dec'[k].linked = dec[k].linked
        BY SMT, <3>2
      <4>2. QED
        BY <1>4, <3>2, <3>5, <4>1, Zenon DEF Held
    <3>6. QED
      BY <1>0, <3>3, <3>4, <3>5 DEF RowsInv
  <2>3. QED
    BY <2>1, <2>2
<1>7. cp' \in CheckpointRows /\ cp'.st # "none" /\ cp'.rev = task'.rev /\ cp'.base = task'.base
      /\ (cp'.st = "ready" => asked = {} /\ ~cp'.plain /\ cp'.base # Null /\ cp'.boundary)
  BY <1>0, <1>1, <1>2, <1>4 DEF CheckpointRows, Tasks
<1>8. ShapingTypeOK'
  BY <1>2, <1>3, <1>5, <1>6, <1>7 DEF ShapingTypeOK
<1>9. RowsInv'
  BY <1>5, <1>6 DEF RowsInv
<1>10. CheckpointInv'
  BY <1>6, <1>7 DEF CheckpointInv, GapOpen, Gaps
<1>11. OutcomeInv'
  BY <1>4 DEF OutcomeInv, AdviceBasisCurrent
<1>12. QED
  BY <1>8, <1>9, <1>10, <1>11 DEF ShapingInv

(* A question that is pending. *)
LEMMA PendingRow ==
  ASSUME ShapingInv, NEW k \in Pending
  PROVE  /\ k \in Kinds /\ Waiting(dec[k]) /\ dec[k].gap = "current" /\ k \in Gaps
         /\ cp.st = "blocked"
         /\ task.open => task.phase = "shaping" /\ task.close = Null
<1>0. k \in Kinds /\ dec[k].basis \in {"current", "stale"}
  BY DEF Pending, ShapingInv, ShapingTypeOK, DecisionRows
<1>1. k \in Kinds /\ dec[k].gap = "current"
  BY <1>0, Zenon DEF Pending, Status
<1>2. Waiting(dec[k])
  BY <1>1, NoRowFields DEF ShapingInv, RowsInv, Held, Overtaken
<1>3. k \in Gaps /\ dec[k].gap # "applied" /\ dec[k] # NoDecision
  BY <1>1, <1>2, NoRowFields DEF Waiting, Gaps
<1>4. cp.st = "blocked"
  BY <1>1, <1>3 DEF ShapingInv, ShapingTypeOK, CheckpointRows, CheckpointInv, GapOpen
<1>5. ASSUME task.open
      PROVE  task.phase = "shaping" /\ task.close = Null
  BY <1>1, <1>3, <1>5 DEF ShapingInv, ShapingTypeOK, Tasks, OutcomeInv, AdviceBasisCurrent, Held
<1>6. QED
  BY <1>1, <1>2, <1>3, <1>4, <1>5

(* A row nobody touches, on a Task that does not move, keeps its form. *)
LEMMA RowKept ==
  ASSUME NEW k \in Kinds, Here' = Here, dec'[k] = dec[k],
         dec[k] = NoDecision \/ Waiting(dec[k]) \/ Held(dec[k]) \/ Overtaken(dec[k])
  PROVE  (dec[k] = NoDecision \/ Waiting(dec[k]) \/ Held(dec[k]) \/ Overtaken(dec[k]))'
<1>1. Waiting(dec[k]) => Waiting(dec[k])'
  BY DEF Waiting
<1>2. Held(dec[k]) => Held(dec[k])'
  BY DEF Held
<1>3. Overtaken(dec[k]) => Overtaken(dec[k])'
  BY DEF Overtaken
<1>4. QED
  BY <1>1, <1>2, <1>3 DEF NoDecision, Nowhere

(* An answer. *)
LEMMA ResolveStep ==
  ASSUME MaxRev \in Nat, ShapingInv, NEW k \in Kinds, NEW answer \in Answers, Resolve(k, answer)
  PROVE  ShapingInv'
<1>0. ShapingTypeOK /\ RowsInv /\ CheckpointInv /\ OutcomeInv
  BY DEF ShapingInv
<1>1. k \in Pending /\ task' = task /\ Here' = Here
  BY DEF Resolve, MayResolve, Here
<1>2. /\ Waiting(dec[k]) /\ dec[k].gap = "current" /\ k \in Gaps
      /\ cp.st = "blocked"
      /\ task.open => task.phase = "shaping" /\ task.close = Null
  BY <1>1, PendingRow
<1>3. PICK open \in BOOLEAN : open = (cp.plain \/ \E o \in Gaps \ {k} : dec[o].gap = "current")
  OBVIOUS
<1>4. /\ dec' = [dec EXCEPT ![k].gap = answer]
      /\ cp' = [cp EXCEPT !.st =
           IF cp.st = "blocked" /\ cp.base # Null /\ cp.boundary /\ ~open THEN "ready" ELSE cp.st]
  BY <1>3, Zenon DEF Resolve
<1>5. /\ dec'[k] = [dec[k] EXCEPT !.gap = answer]
      /\ \A o \in Kinds \ {k} : dec'[o] = dec[o]
      /\ dec' = [o \in Kinds |-> dec'[o]]
  BY <1>0, <1>4 DEF ShapingTypeOK
<1>6. dec'[k] \in DecisionRows
      /\ dec'[k] = [gap |-> answer, own |-> dec[k].own, basis |-> dec[k].basis, at |-> dec[k].at,
           expired |-> dec[k].expired, app |-> dec[k].app, on |-> dec[k].on, linked |-> dec[k].linked]
  BY <1>0, <1>5, HereTyped, AnsweredRow
<1>7. /\ dec'[k].gap = answer /\ dec'[k].own = dec[k].own /\ dec'[k].basis = dec[k].basis
      /\ dec'[k].at = dec[k].at /\ dec'[k].app = dec[k].app
  BY SMT, <1>6
<1>8. Waiting(dec[k])'
  BY <1>1, <1>2, <1>7 DEF Waiting
<1>9. /\ cp' \in CheckpointRows
      /\ cp'.rev = cp.rev /\ cp'.base = cp.base /\ cp'.boundary = cp.boundary /\ cp'.plain = cp.plain
      /\ cp'.st # "none"
      /\ cp'.st = "ready" => cp.base # Null /\ cp.boundary /\ ~open
  BY SMT, <1>0, <1>2, <1>4 DEF ShapingTypeOK, CheckpointRows
<1>10. \A o \in Gaps' : o \in Gaps /\ (dec'[o].gap = "current" => o # k /\ dec[o].gap = "current")
  BY <1>2, <1>5, <1>7 DEF Gaps, Answers
<1>11. ShapingTypeOK'
  BY <1>0, <1>1, <1>5, <1>6, <1>9 DEF ShapingTypeOK
<1>12. RowsInv'
  BY <1>0, <1>1, <1>5, <1>8, RowKept DEF RowsInv
<1>13. CheckpointInv'
  BY <1>0, <1>1, <1>2, <1>3, <1>9, <1>10 DEF CheckpointInv, GapOpen
<1>14. OutcomeInv'
  BY <1>0, <1>1, <1>2 DEF OutcomeInv, AdviceBasisCurrent
<1>15. QED
  BY <1>11, <1>12, <1>13, <1>14 DEF ShapingInv

(* A deadline that passes. *)
LEMMA ExpireStep ==
  ASSUME MaxRev \in Nat, ShapingInv, NEW k \in Kinds, Expire(k)
  PROVE  ShapingInv'
<1>0. ShapingTypeOK /\ RowsInv /\ CheckpointInv /\ OutcomeInv
  BY DEF ShapingInv
<1>1. k \in Pending /\ task' = task /\ cp' = cp /\ Here' = Here
  BY DEF Expire, Here
<1>2. /\ Waiting(dec[k]) /\ dec[k].gap = "current" /\ k \in Gaps
      /\ cp.st = "blocked"
      /\ task.open => task.phase = "shaping" /\ task.close = Null
  BY <1>1, PendingRow
<1>3. dec' = [dec EXCEPT ![k].expired = TRUE]
  BY DEF Expire
<1>4. /\ dec'[k] = [dec[k] EXCEPT !.expired = TRUE]
      /\ \A o \in Kinds \ {k} : dec'[o] = dec[o]
      /\ dec' = [o \in Kinds |-> dec'[o]]
  BY <1>0, <1>3 DEF ShapingTypeOK
<1>5. dec'[k] \in DecisionRows
      /\ dec'[k] = [gap |-> dec[k].gap, own |-> dec[k].own, basis |-> dec[k].basis, at |-> dec[k].at,
           expired |-> TRUE, app |-> dec[k].app, on |-> dec[k].on, linked |-> dec[k].linked]
  BY <1>0, <1>4, HereTyped, ExpiredRow
<1>6. /\ dec'[k].gap = dec[k].gap /\ dec'[k].own = dec[k].own /\ dec'[k].basis = dec[k].basis
      /\ dec'[k].at = dec[k].at /\ dec'[k].app = dec[k].app
  BY SMT, <1>5
<1>7. Waiting(dec[k])'
  BY <1>1, <1>2, <1>6 DEF Waiting
<1>8. ShapingTypeOK'
  BY <1>0, <1>1, <1>4, <1>5 DEF ShapingTypeOK
<1>9. RowsInv'
  BY <1>0, <1>1, <1>4, <1>7, RowKept DEF RowsInv
<1>10. CheckpointInv'
  BY <1>0, <1>1, <1>2 DEF CheckpointInv
<1>11. OutcomeInv'
  BY <1>0, <1>1, <1>2 DEF OutcomeInv, AdviceBasisCurrent
<1>12. QED
  BY <1>8, <1>9, <1>10, <1>11 DEF ShapingInv

(* The end of the Task. *)
LEMMA EndStep ==
  ASSUME MaxRev \in Nat, ShapingInv, CloseTask
  PROVE  ShapingInv'
<1>0. ShapingTypeOK /\ RowsInv /\ CheckpointInv /\ OutcomeInv
  BY DEF ShapingInv
<1>1. /\ task' = [task EXCEPT !.open = FALSE] /\ cp' = cp
      /\ dec' = [k \in Kinds |-> IF dec[k].app = "current" THEN NoDecision ELSE dec[k]]
  BY DEF CloseTask
<1>2. task' \in Tasks /\ task' = [mode |-> task.mode, phase |-> task.phase, open |-> FALSE,
         rev |-> task.rev, base |-> task.base, cu |-> task.cu, cuBase |-> task.cuBase,
         close |-> task.close]
  BY <1>0, <1>1, Zenon DEF ShapingTypeOK, Tasks
<1>3. /\ ~task'.open /\ task'.mode = task.mode /\ task'.close = task.close
      /\ task'.rev = task.rev /\ task'.base = task.base /\ task'.cu = task.cu
  BY SMT, <1>2
<1>4. Here' = Here
  BY <1>3 DEF Here
<1>5. ASSUME NEW k \in Kinds
      PROVE  dec'[k] \in DecisionRows /\ (dec'[k] = NoDecision \/ dec'[k] = dec[k])
  BY <1>0, <1>1, NoRow DEF ShapingTypeOK
<1>6. ShapingTypeOK'
  BY <1>0, <1>1, <1>2, <1>5 DEF ShapingTypeOK
<1>7. RowsInv'
  BY <1>0, <1>4, <1>5 DEF RowsInv, Waiting, Held, Overtaken
<1>8. Gaps' \subseteq Gaps /\ \A k \in Gaps' : dec'[k] = dec[k]
  BY <1>5, NoRowFields DEF Gaps
<1>9. CheckpointInv'
  BY <1>0, <1>1, <1>3, <1>5, <1>8 DEF CheckpointInv, GapOpen
<1>10. OutcomeInv'
  BY <1>0, <1>3 DEF OutcomeInv, AdviceBasisCurrent
<1>11. QED
  BY <1>6, <1>7, <1>9, <1>10 DEF ShapingInv

(* What applying the accepted answers of a shaped Task leaves. *)
LEMMA AppliedRows ==
  ASSUME MaxRev \in Nat, ShapingInv, Shaped, NEW ks,
         \A k \in ks : k \in Gaps /\ dec[k].gap = "accepted",
         \A k \in Gaps : Owner(k) # "update_scope" /\ dec[k].gap # "applied" => k \in ks,
         dec' = Applying(ks), Here' = Here
  PROVE  /\ dec' \in [Kinds -> DecisionRows]
         /\ \A k \in Kinds : dec'[k] = NoDecision \/ Held(dec[k])'
         /\ Applications("current")' = Applications("current") \cup ks
<1>0. ShapingTypeOK /\ RowsInv /\ Here \in Coordinates /\ \A k \in Kinds : dec[k] \in DecisionRows
  BY HereTyped DEF ShapingInv
<1>1. \A k \in Kinds : ~Overtaken(dec[k])
  BY <1>0, GraphRows, Evaluated DEF Shaped, Unblocked, Authority
<1>2. ASSUME NEW k \in Kinds, Waiting(dec[k])
      PROVE  k \in ks
  <2>1. k \in Gaps /\ dec[k].gap \in Answers \cup {"current"}
    BY <1>2, Zenon DEF Waiting, Gaps, Answers
  <2>2. dec[k].gap # "applied"
    BY <2>1, Zenon DEF Answers
  <2>3. k \notin Owned("update_scope")
    BY <2>2 DEF Shaped
  <2>4. QED
    BY <2>1, <2>2, <2>3 DEF Owned
<1>3. ASSUME NEW k \in ks
      PROVE  /\ k \in Kinds /\ dec'[k] \in DecisionRows /\ Held(dec[k])'
             /\ dec'[k].app = "current"
  <2>1. k \in Kinds /\ dec[k].gap = "accepted"
    BY <1>3 DEF Gaps
  <2>2. Waiting(dec[k])
    BY <1>0, <2>1, NoRowFields DEF RowsInv, Held, Overtaken
  <2>3. dec'[k] = [dec[k] EXCEPT !.gap = "applied", !.app = "current", !.on = Here, !.linked = TRUE]
    BY <1>3, <2>1 DEF Applying
  <2>4. dec'[k] \in DecisionRows
        /\ dec'[k] = [gap |-> "applied", own |-> dec[k].own, basis |-> dec[k].basis, at |-> dec[k].at,
               expired |-> dec[k].expired, app |-> "current", on |-> Here, linked |-> TRUE]
    BY <1>0, <2>1, <2>3, AppliedRow
  <2>5. /\ dec'[k].gap = "applied" /\ dec'[k].own = dec[k].own /\ dec'[k].basis = dec[k].basis
        /\ dec'[k].at = dec[k].at /\ dec'[k].app = "current" /\ dec'[k].on = Here /\ dec'[k].linked
    BY SMT, <2>4
  <2>6. QED
    BY <2>1, <2>2, <2>4, <2>5 DEF Waiting, Held
<1>4. ASSUME NEW k \in Kinds \ ks
      PROVE  dec'[k] = dec[k] /\ (dec'[k] = NoDecision \/ Held(dec[k])')
  <2>1. dec'[k] = dec[k]
    BY DEF Applying
  <2>2. dec[k] = NoDecision \/ Held(dec[k])
    BY <1>0, <1>1, <1>2 DEF RowsInv
  <2>3. QED
    BY <2>1, <2>2 DEF Held
<1>5. dec' \in [Kinds -> DecisionRows]
  <2>1. dec' = [k \in Kinds |-> dec'[k]]
    BY DEF Applying
  <2>2. QED
    BY <1>0, <1>3, <1>4, <2>1
<1>6. Applications("current")' = Applications("current") \cup ks
  BY <1>3, <1>4 DEF Applications
<1>7. QED
  BY <1>3, <1>4, <1>5, <1>6

(* After it the checkpoint is still ready, and every gap applied. *)
LEMMA AppliedReady ==
  ASSUME ShapingInv, Shaped, cp' = cp, task'.rev = task.rev, task'.base = task.base, Here' = Here,
         \A k \in Kinds : dec'[k] = NoDecision \/ Held(dec[k])'
  PROVE  /\ RowsInv' /\ CheckpointInv' /\ cp'.st = "ready"
         /\ \A k \in Gaps' : dec'[k].gap = "applied"
<1>1. \A k \in Gaps' : dec'[k].gap = "applied"
  BY NoRowFields DEF Gaps, Held
<1>2. cp.st = "ready" /\ ~cp.plain /\ cp.rev = task.rev /\ cp.base = task.base /\ cp.base # Null
      /\ cp.boundary
  BY DEF ShapingInv, CheckpointInv, Shaped, CheckpointReady, GapOpen
<1>3. RowsInv'
  BY DEF RowsInv
<1>4. CheckpointInv'
  BY <1>1, <1>2 DEF CheckpointInv, GapOpen
<1>5. QED
  BY <1>1, <1>2, <1>3, <1>4

(* Into implementation. *)
LEMMA AdvanceStep ==
  ASSUME MaxRev \in Nat, ShapingInv, AdvanceTask
  PROVE  ShapingInv'
<1>0. ShapingTypeOK /\ OutcomeInv /\ task \in Tasks
  BY DEF ShapingInv, ShapingTypeOK
<1>1. PICK ks : ks = Owned("advance_task")
  OBVIOUS
<1>2. /\ task.mode = "work" /\ Shaped /\ cp' = cp /\ dec' = Applying(ks)
      /\ \A k \in ks : dec[k].gap = "accepted"
      /\ task' = [task EXCEPT !.phase = "implementation"]
  BY <1>1, Zenon DEF AdvanceTask, MayAdvance
<1>3. task' \in Tasks /\ task' = [mode |-> task.mode, phase |-> "implementation", open |-> task.open,
         rev |-> task.rev, base |-> task.base, cu |-> task.cu, cuBase |-> task.cuBase,
         close |-> task.close]
  BY <1>0, <1>2, Zenon DEF Tasks
<1>4. /\ task'.mode = task.mode /\ task'.close = task.close
      /\ task'.rev = task.rev /\ task'.base = task.base /\ task'.cu = task.cu
  BY SMT, <1>3
<1>5. Here' = Here
  BY <1>4 DEF Here
<1>6. \A k \in Gaps : Owner(k) # "update_scope" => k \in ks
  BY <1>1, <1>2 DEF Owner, Owned
<1>7. \A k \in ks : k \in Gaps /\ dec[k].gap = "accepted"
  BY <1>1, <1>2 DEF Owned
<1>8. /\ dec' \in [Kinds -> DecisionRows]
      /\ \A k \in Kinds : dec'[k] = NoDecision \/ Held(dec[k])'
  BY <1>2, <1>5, <1>6, <1>7, AppliedRows
<1>9. RowsInv' /\ CheckpointInv' /\ cp'.st = "ready"
  BY <1>2, <1>4, <1>5, <1>8, AppliedReady
<1>10. ShapingTypeOK'
  BY <1>0, <1>2, <1>3, <1>8 DEF ShapingTypeOK
<1>11. task'.cu # 0 /\ task'.close = Null
  BY <1>0, <1>2, <1>4 DEF Shaped, OutcomeInv
<1>12. OutcomeInv'
  BY <1>8, <1>9, <1>11 DEF OutcomeInv, AdviceBasisCurrent
<1>13. QED
  BY <1>9, <1>10, <1>12 DEF ShapingInv

(* The advice is final. *)
LEMMA FinalizeStep ==
  ASSUME MaxRev \in Nat, ShapingInv, FinalizeAdvice
  PROVE  ShapingInv'
<1>0. ShapingTypeOK /\ OutcomeInv /\ task \in Tasks /\ Here \in Coordinates
  BY HereTyped DEF ShapingInv, ShapingTypeOK
<1>1. PICK ks : ks = {k \in Owned("finalize_advice") : dec[k].gap = "accepted"}
  OBVIOUS
<1>2. PICK close : close = [at |-> Here, apps |-> Applications("current") \cup ks]
  OBVIOUS
<1>3. /\ task.mode = "advisor" /\ Shaped /\ cp' = cp /\ dec' = Applying(ks)
      /\ \A k \in Owned("finalize_advice") : dec[k].gap \in {"accepted", "applied"}
      /\ task' = [task EXCEPT !.close = close]
  BY <1>1, <1>2, Zenon DEF FinalizeAdvice, MayFinalize
<1>4. /\ close \in [at : Coordinates, apps : SUBSET Kinds]
      /\ close.at = Here /\ close.apps = Applications("current") \cup ks
  BY <1>0, <1>1, <1>2, SMT DEF Applications, Owned, Gaps
<1>5. task' \in Tasks /\ task' = [mode |-> task.mode, phase |-> task.phase, open |-> task.open,
         rev |-> task.rev, base |-> task.base, cu |-> task.cu, cuBase |-> task.cuBase,
         close |-> close]
  BY <1>0, <1>3, <1>4, Zenon DEF Tasks
<1>6. /\ task'.mode = "advisor" /\ task'.phase = "shaping" /\ task'.close = close
      /\ task'.rev = task.rev /\ task'.base = task.base /\ task'.cu = task.cu
  BY SMT, <1>3, <1>5 DEF Shaped
<1>7. Here' = Here
  BY <1>6 DEF Here
<1>8. \A k \in Gaps : Owner(k) # "update_scope" /\ dec[k].gap # "applied" => k \in ks
  BY <1>1, <1>3 DEF Owner, Owned
<1>9. \A k \in ks : k \in Gaps /\ dec[k].gap = "accepted"
  BY <1>1 DEF Owned
<1>10. /\ dec' \in [Kinds -> DecisionRows]
       /\ \A k \in Kinds : dec'[k] = NoDecision \/ Held(dec[k])'
       /\ Applications("current")' = Applications("current") \cup ks
  BY <1>3, <1>7, <1>8, <1>9, AppliedRows
<1>11. RowsInv' /\ CheckpointInv' /\ cp'.st = "ready" /\ \A k \in Gaps' : dec'[k].gap = "applied"
  BY <1>3, <1>6, <1>7, <1>10, AppliedReady
<1>12. ShapingTypeOK'
  BY <1>0, <1>3, <1>5, <1>10 DEF ShapingTypeOK
<1>13. AdviceBasisCurrent'
  BY <1>4, <1>6, <1>7, <1>10, <1>11 DEF AdviceBasisCurrent, CloseBasisCurrent
<1>14. OutcomeInv'
  BY <1>6, <1>13 DEF OutcomeInv
<1>15. QED
  BY <1>11, <1>12, <1>14 DEF ShapingInv

(* The scope moves and the checkpoint moves with it. *)
LEMMA RebasedRow ==
  ASSUME MaxRev \in Nat, ShapingInv, NEW there \in Coordinates, there # Here, Here' = there,
         NEW applied, \A l \in applied : dec[l].gap = "accepted",
         dec' = Rebased(there, applied),
         NEW k \in Kinds, ~Overtaken(dec[k])
  PROVE  /\ dec'[k] \in DecisionRows
         /\ dec[k] = NoDecision => dec'[k] = NoDecision
         /\ (dec[k] = NoDecision \/ Waiting(dec[k]) \/ Held(dec[k]) \/ Overtaken(dec[k]))'
         /\ dec'[k].gap = "current" => dec[k].gap = "current" /\ k \in Gaps
<1>0. dec[k] \in DecisionRows /\ (dec[k] = NoDecision \/ Waiting(dec[k]) \/ Held(dec[k]))
  BY HereTyped DEF ShapingInv, RowsInv
<1>1. dec'[k] = IF k \in applied
                  THEN [dec[k] EXCEPT !.gap = "applied", !.at = there, !.app = "current",
                                      !.on = there, !.linked = TRUE]
                ELSE IF dec[k].app = "current" /\ dec[k].on # there THEN Stale(dec[k])
                ELSE IF k \in Gaps /\ dec[k].basis = "current" THEN [dec[k] EXCEPT !.at = there]
                ELSE dec[k]
  BY DEF Rebased
<1>2. CASE k \in applied
  <2>1. Waiting(dec[k])
    BY <1>0, <1>2, NoRowFields DEF Held
  <2>2. dec'[k] \in DecisionRows
        /\ dec'[k] = [gap |-> "applied", own |-> dec[k].own, basis |-> dec[k].basis, at |-> there,
               expired |-> dec[k].expired, app |-> "current", on |-> there, linked |-> TRUE]
    BY <1>0, <1>1, <1>2, AppliedThereRow
  <2>3. /\ dec'[k].gap = "applied" /\ dec'[k].basis = dec[k].basis
        /\ dec'[k].at = there /\ dec'[k].app = "current" /\ dec'[k].on = there /\ dec'[k].linked
    BY SMT, <2>2
  <2>4. Held(dec[k])'
    BY <2>1, <2>3 DEF Waiting, Held
  <2>5. QED
    BY <1>2, <2>2, <2>3, <2>4, NoRowFields
<1>3. CASE k \notin applied /\ dec[k] = NoDecision
  <2>1. k \notin Gaps /\ dec[k].app # "current"
    BY <1>3, NoRowFields DEF Gaps
  <2>2. dec'[k] = NoDecision
    BY <1>1, <1>3, <2>1
  <2>3. QED
    BY <1>0, <1>3, <2>2, NoRowFields DEF NoDecision, Nowhere
<1>4. CASE k \notin applied /\ Waiting(dec[k])
  <2>1. k \in Gaps /\ dec[k].basis = "current" /\ dec[k].app # "current" /\ dec[k] # NoDecision
    BY <1>4, NoRowFields, Zenon DEF Waiting, Gaps, Answers
  <2>2. dec'[k] \in DecisionRows
        /\ dec'[k] = [gap |-> dec[k].gap, own |-> dec[k].own, basis |-> dec[k].basis, at |-> there,
               expired |-> dec[k].expired, app |-> dec[k].app, on |-> dec[k].on, linked |-> dec[k].linked]
    BY <1>0, <1>1, <1>4, <2>1, MovedRow
  <2>3. /\ dec'[k].gap = dec[k].gap /\ dec'[k].own = dec[k].own /\ dec'[k].basis = dec[k].basis
        /\ dec'[k].at = there /\ dec'[k].app = dec[k].app
    BY SMT, <2>2
  <2>4. Waiting(dec[k])'
    BY <1>4, <2>3 DEF Waiting
  <2>5. QED
    BY <2>1, <2>2, <2>3, <2>4
<1>5. CASE k \notin applied /\ Held(dec[k])
  <2>1. dec[k].app = "current" /\ dec[k].on # there /\ dec[k].gap = "applied" /\ dec[k] # NoDecision
    BY <1>5, NoRowFields DEF Held
  <2>2. dec'[k] \in DecisionRows
        /\ dec'[k] = [gap |-> dec[k].gap, own |-> dec[k].own, basis |-> "stale", at |-> Nowhere,
               expired |-> dec[k].expired, app |-> "stale", on |-> Nowhere, linked |-> dec[k].linked]
    BY <1>0, <1>1, <1>5, <2>1, StaleRow
  <2>3. dec'[k].gap = "applied" /\ dec'[k].basis = "stale" /\ dec'[k].app = "stale"
    BY SMT, <2>1, <2>2
  <2>4. Overtaken(dec[k])'
    BY <2>3 DEF Overtaken
  <2>5. QED
    BY <2>1, <2>2, <2>3, <2>4
<1>6. QED
  BY <1>0, <1>2, <1>3, <1>4, <1>5

(* In implementation nothing is left to apply, and the checkpoint always moves along. *)
LEMMA ImplementationRebases ==
  ASSUME ShapingInv, task.open, task.phase = "implementation", ImplementationGuard,
         NEW base, base = task.base \/ base # Null, NEW applied, NEW changed
  PROVE  /\ \A k \in Kinds : dec[k] = NoDecision
         /\ ~GapOpen /\ task.cu # 0 /\ CanRebase(base, applied, changed)
<1>1. /\ cp.st = "ready" /\ task.cu # 0 /\ ~GapOpen /\ cp.base = task.base /\ cp.base # Null
      /\ cp.boundary /\ \A k \in Kinds : dec[k] = NoDecision \/ Held(dec[k])
  BY DEF ShapingInv, OutcomeInv, CheckpointInv
<1>2. \A k \in Kinds : dec[k] = NoDecision
  BY <1>1 DEF ImplementationGuard, Applications, Held
<1>3. Gaps = {} /\ ~cp.plain
  BY <1>1, <1>2, NoRowFields DEF Gaps, GapOpen
<1>4. CanRebase(base, applied, changed)
  BY <1>1, <1>3 DEF CanRebase
<1>5. QED
  BY <1>1, <1>2, <1>4

(* A change of scope. *)
LEMMA UpdateScopeStep ==
  ASSUME MaxRev \in Nat, ShapingInv, NEW op, NEW edit \in BOOLEAN, NEW crit \in BOOLEAN,
         NEW base \in Baselines \cup {Null}, UpdateScope(op, edit, crit, base)
  PROVE  ShapingInv'
<1>0. ShapingTypeOK /\ RowsInv /\ CheckpointInv /\ OutcomeInv /\ task \in Tasks /\ cp \in CheckpointRows
  BY DEF ShapingInv, ShapingTypeOK
<1>1. PICK newBase : newBase = IF base = Null THEN task.base ELSE base
  OBVIOUS
<1>2. PICK fresh \in BOOLEAN : fresh <=> op \in {"create", "replace"}
  OBVIOUS
<1>3. PICK applied : applied = {k \in Gaps : dec[k].gap = "accepted" /\ Owner(k) = "update_scope"}
  OBVIOUS
<1>4. PICK changed \in BOOLEAN : changed = (edit \/ newBase # task.base \/ crit \/ op = "replace")
  OBVIOUS
<1>5. PICK there : there = [rev |-> task.rev + 1, base |-> newBase,
                            cu |-> IF fresh THEN task.rev + 1 ELSE task.cu]
  OBVIOUS
<1>6. PICK rebase \in BOOLEAN : rebase = CanRebase(newBase, applied, changed)
  BY DEF CanRebase
<1>7. /\ "scope" \in Admitted /\ ImplementationGuard /\ task.rev < MaxRev
      /\ task' = [task EXCEPT !.rev = there.rev, !.base = newBase, !.cu = there.cu,
                              !.cuBase = IF fresh THEN base ELSE @, !.close = Null]
      /\ dec' = IF rebase THEN Rebased(there, applied) ELSE Detached
      /\ cp' = IF rebase THEN [cp EXCEPT !.rev = there.rev, !.base = newBase,
                                         !.st = IF GapOpen THEN @ ELSE "ready"]
               ELSE NoCheckpoint
  BY <1>1, <1>2, <1>3, <1>4, <1>5, <1>6, Zenon DEF UpdateScope, MayUpdateScope, NewBase, Fresh, ScopeAnswers, BasisChanged, ScopeEdited
<1>8. task.open /\ \A k \in Kinds : ~Overtaken(dec[k])
  BY <1>0, <1>7, ScopeAdmitted
<1>9. /\ there \in Coordinates /\ there.rev = task.rev + 1 /\ there.base = newBase
      /\ there.cu = IF fresh THEN task.rev + 1 ELSE task.cu
  BY SMT, <1>0, <1>1, <1>5, <1>7 DEF Tasks, Coordinates
<1>10. /\ there.rev \in 0..MaxRev /\ there.base \in Baselines \cup {Null} /\ there.cu \in 0..MaxRev
       /\ there.rev # task.rev /\ (fresh => there.cu # 0)
  BY SMT, <1>0, <1>7, <1>9 DEF Tasks, Coordinates
<1>11. PICK cb : cb = IF fresh THEN base ELSE task.cuBase
  OBVIOUS
<1>12. cb \in Baselines \cup {Null}
  BY <1>0, <1>11, SMT DEF Tasks
<1>13. task' = [mode |-> task.mode, phase |-> task.phase, open |-> task.open,
                rev |-> there.rev, base |-> there.base, cu |-> there.cu, cuBase |-> cb,
                close |-> Null]
  BY <1>0, <1>7, <1>9, <1>11, Zenon DEF Tasks
<1>14. task' \in Tasks
  BY <1>0, <1>10, <1>12, <1>13, SMT DEF Tasks
<1>15. /\ task'.mode = task.mode /\ task'.phase = task.phase /\ task'.close = Null
       /\ task'.rev = there.rev /\ task'.base = there.base /\ task'.cu = there.cu
  BY SMT, <1>13
<1>16. Here' = there /\ there # Here
  <2>1. Here' = there
    BY <1>9, <1>15, SMT, <1>5 DEF Here
  <2>2. there # Here
    BY <1>10, SMT DEF Here
  <2>3. QED
    BY <2>1, <2>2
<1>17. CASE rebase
  <2>1. cp.st # "none" /\ newBase # Null /\ cp.boundary
    BY <1>6, <1>17 DEF CanRebase
  <2>2. ASSUME NEW k \in Kinds
        PROVE  /\ dec'[k] \in DecisionRows
               /\ dec[k] = NoDecision => dec'[k] = NoDecision
               /\ (dec[k] = NoDecision \/ Waiting(dec[k]) \/ Held(dec[k]) \/ Overtaken(dec[k]))'
               /\ dec'[k].gap = "current" => dec[k].gap = "current" /\ k \in Gaps
    BY <1>3, <1>7, <1>8, <1>9, <1>16, <1>17, RebasedRow
  <2>3. PICK st : st = IF GapOpen THEN cp.st ELSE "ready"
    OBVIOUS
  <2>4. st \in {"ready", "blocked"} /\ (st = "ready" => ~GapOpen)
    BY <1>0, <2>1, <2>3 DEF CheckpointRows, CheckpointInv
  <2>5. cp' = [st |-> st, rev |-> there.rev, base |-> there.base, boundary |-> cp.boundary,
               plain |-> cp.plain]
    BY <1>0, <1>7, <1>9, <1>17, <2>3, Zenon DEF CheckpointRows
  <2>6. /\ cp' \in CheckpointRows /\ cp'.st = st /\ cp'.rev = there.rev /\ cp'.base = there.base
        /\ cp'.boundary = cp.boundary /\ cp'.plain = cp.plain
    BY <1>0, <1>10, <2>4, <2>5, SMT DEF CheckpointRows
  <2>7. dec' = [k \in Kinds |-> dec'[k]]
    BY <1>7, <1>17 DEF Rebased
  <2>8. ShapingTypeOK'
    BY <1>14, <2>2, <2>6, <2>7 DEF ShapingTypeOK
  <2>9. RowsInv'
    BY <2>2 DEF RowsInv
  <2>10. ~GapOpen => ~GapOpen'
    BY <2>2, <2>6 DEF GapOpen, Gaps
  <2>11. CheckpointInv'
    BY <1>9, <1>15, <2>1, <2>4, <2>6, <2>10 DEF CheckpointInv
  <2>12. ASSUME task'.phase = "implementation"
         PROVE  cp'.st = "ready" /\ task'.cu # 0 /\ \A k \in Kinds : dec'[k] = NoDecision
    <3>1. /\ \A k \in Kinds : dec[k] = NoDecision
          /\ ~GapOpen /\ task.cu # 0
      BY <1>1, <1>7, <1>8, <1>15, <2>12, ImplementationRebases
    <3>2. QED
      BY <1>9, <1>10, <1>15, <2>2, <2>3, <2>6, <3>1
  <2>13. OutcomeInv'
    BY <1>15, <2>12 DEF OutcomeInv, AdviceBasisCurrent
  <2>14. QED
    BY <2>8, <2>9, <2>11, <2>13 DEF ShapingInv
<1>18. CASE ~rebase
  <2>1. dec' = Detached /\ cp' = NoCheckpoint
    BY <1>7, <1>18
  <2>2. ASSUME NEW k \in Kinds
        PROVE  dec'[k] = NoDecision
    <3>1. dec[k].app # "stale"
      BY <1>0, <1>8, NoRowFields DEF RowsInv, Waiting, Held
    <3>2. QED
      BY <2>1, <3>1 DEF Detached
  <2>3. cp' \in CheckpointRows /\ cp'.st = "none"
    BY <2>1, SMT DEF NoCheckpoint, CheckpointRows
  <2>4. ShapingTypeOK'
    BY <1>14, <2>1, <2>2, <2>3, NoRow DEF ShapingTypeOK, Detached
  <2>5. RowsInv'
    BY <2>2 DEF RowsInv, NoDecision, Nowhere
  <2>6. CheckpointInv'
    BY <2>2, <2>3 DEF CheckpointInv, NoDecision, Nowhere
  <2>7. task.phase # "implementation"
    BY <1>1, <1>6, <1>7, <1>8, <1>18, ImplementationRebases
  <2>8. OutcomeInv'
    BY <1>15, <2>7 DEF OutcomeInv, AdviceBasisCurrent
  <2>9. QED
    BY <2>4, <2>5, <2>6, <2>8 DEF ShapingInv
<1>19. QED
  BY <1>17, <1>18

-----------------------------------------------------------------------------
(* Every behaviour *)

(* What intake leaves. *)
LEMMA ShapingInvInit ==
  ASSUME MaxRev \in Nat, ShapingInit
  PROVE  ShapingInv
<1>1. cp = NoCheckpoint /\ dec = [k \in Kinds |-> NoDecision]
  BY DEF ShapingInit
<1>2. PICK m \in Modes, b \in Baselines \cup {Null} :
        task = [mode |-> m, phase |-> "shaping", open |-> TRUE, rev |-> 0, base |-> b,
                cu |-> 0, cuBase |-> Null, close |-> Null]
  BY SMT DEF ShapingInit
<1>3. 0 \in 0..MaxRev
  BY SMT
<1>4. task \in Tasks /\ task.phase = "shaping" /\ task.close = Null
  BY <1>2, <1>3, Zenon DEF Tasks
<1>5. cp \in CheckpointRows /\ cp.st = "none"
  BY <1>1, SMT DEF NoCheckpoint, CheckpointRows
<1>6. ShapingTypeOK
  BY <1>1, <1>4, <1>5, NoRow DEF ShapingTypeOK
<1>7. RowsInv /\ CheckpointInv
  BY <1>1, <1>5 DEF RowsInv, CheckpointInv
<1>8. OutcomeInv
  BY <1>4 DEF OutcomeInv, AdviceBasisCurrent
<1>9. QED
  BY <1>6, <1>7, <1>8 DEF ShapingInv

(* Every step. *)
LEMMA ShapingInvStep ==
  ASSUME MaxRev \in Nat, ShapingInv, [ShapingNext]_shapingVars
  PROVE  ShapingInv'
<1>1. CASE \E asked \in SUBSET Kinds, plain, boundary \in BOOLEAN :
             RecordCheckpoint(asked, plain, boundary)
  BY <1>1, RecordStep
<1>2. CASE \E k \in Kinds, a \in Answers : Resolve(k, a)
  BY <1>2, ResolveStep
<1>3. CASE \E op \in {"create", "keep", "replace"}, edit, crit \in BOOLEAN,
              b \in Baselines \cup {Null} : UpdateScope(op, edit, crit, b)
  BY <1>3, UpdateScopeStep
<1>4. CASE AdvanceTask
  BY <1>4, AdvanceStep
<1>5. CASE FinalizeAdvice
  BY <1>5, FinalizeStep
<1>6. CASE \E k \in Kinds : Expire(k)
  BY <1>6, ExpireStep
<1>7. CASE CloseTask
  BY <1>7, EndStep
<1>8. CASE UNCHANGED shapingVars
  <2>1. task' = task /\ cp' = cp /\ dec' = dec
    BY <1>8 DEF shapingVars
  <2>2. Here' = Here
    BY <2>1 DEF Here
  <2>3. RowsInv'
    BY <2>1, <2>2, RowKept DEF ShapingInv, RowsInv
  <2>4. ShapingTypeOK' /\ CheckpointInv'
    BY <2>1 DEF ShapingInv, ShapingTypeOK, CheckpointInv, GapOpen, Gaps
  <2>5. \A k \in Kinds : Held(dec[k]) => Held(dec[k])'
    BY <2>1, <2>2 DEF Held
  <2>6. AdviceBasisCurrent'
    BY <2>1, <2>2 DEF ShapingInv, OutcomeInv, AdviceBasisCurrent, CloseBasisCurrent, Gaps, Applications
  <2>7. OutcomeInv'
    BY <2>1, <2>5, <2>6 DEF ShapingInv, OutcomeInv
  <2>8. QED
    BY <2>3, <2>4, <2>7 DEF ShapingInv
<1>9. QED
  BY <1>1, <1>2, <1>3, <1>4, <1>5, <1>6, <1>7, <1>8 DEF ShapingNext, Progress

(* The invariant holds for ever. *)
LEMMA ShapingAlways == ShapingSpec => []ShapingInv
<1>0. MaxRev \in Nat
  BY ShapingAssumption
<1>1. ShapingInit => ShapingInv
  BY <1>0, ShapingInvInit
<1>2. ShapingInv /\ [ShapingNext]_shapingVars => ShapingInv'
  BY <1>0, ShapingInvStep
<1>3. QED
  BY <1>1, <1>2, PTL DEF ShapingSpec

(* The readers. *)
LEMMA Accepting ==
  ASSUME ShapingInv
  PROVE  ReadersAccept
<1>0. RowsInv /\ CheckpointInv
  BY DEF ShapingInv
<1>1. Authority({"inconsistent"}) = {}
  BY <1>0, GraphRows DEF Authority
<1>2. ASSUME NEW k \in Kinds, dec[k].gap # "none"
      PROVE  /\ dec[k].gap = "applied" <=> dec[k].app # "none"
             /\ dec[k].app = "current" => dec[k].linked /\ dec[k].on = Here /\ Status(dec[k]) = "resolved"
             /\ dec[k].app = "stale" => dec[k].basis = "stale"
             /\ task.open /\ dec[k].own => cp.st # "none" /\ (dec[k].at = Here \/ dec[k].app = "stale")
             /\ task.open /\ dec[k].basis = "current" => dec[k].own \/ dec[k].app = "current"
  <2>1. cp.st # "none"
    BY <1>0, <1>2, NoRowFields DEF CheckpointInv
  <2>2. CASE Waiting(dec[k])
    BY <2>1, <2>2, Zenon DEF Waiting, Answers
  <2>3. CASE Held(dec[k])
    BY <2>1, <2>3, Zenon DEF Held, Status
  <2>4. CASE Overtaken(dec[k])
    BY <2>1, <2>4, Zenon DEF Overtaken
  <2>5. QED
    BY <1>0, <1>2, <2>2, <2>3, <2>4, NoRowFields DEF RowsInv
<1>3. QED
  BY <1>0, <1>1, <1>2 DEF ReadersAccept, CheckpointInv

(* The Task in implementation. *)
LEMMA SettledTask ==
  ASSUME ShapingInv
  PROVE  ImplementationSettled
<1>1. SUFFICES ASSUME task.open, task.phase = "implementation"
               PROVE  /\ cp.st = "ready" /\ task.cu # 0
                      /\ Pending = {}
                      /\ \A k \in Gaps : dec[k].gap = "applied"
                      /\ Graph = Authority({"applied"})
  BY DEF ImplementationSettled
<1>2. /\ cp.st = "ready" /\ task.cu # 0 /\ RowsInv
      /\ \A k \in Kinds : dec[k] = NoDecision \/ Held(dec[k])
  BY <1>1 DEF ShapingInv, OutcomeInv
<1>3. Pending = {}
  BY <1>2, PendingRow
<1>4. \A k \in Gaps : dec[k].gap = "applied"
  BY <1>2, NoRowFields DEF Gaps, Held
<1>5. \A k \in Graph : Evaluate(k) = "applied"
  BY <1>2, Evaluated, NoRowFields DEF Graph, Gaps, Applications
<1>6. QED
  BY <1>2, <1>3, <1>4, <1>5 DEF Authority

(* Steps on a Task with an overtaken application. *)
LEMMA StaleStep ==
  ASSUME MaxRev \in Nat, ShapingInv, ShapingNext, task.open, task'.open, Applications("stale") # {}
  PROVE  \/ task' = task /\ Applications("stale")' = Applications("stale")
         \/ /\ task.phase = "shaping"
            /\ task' = [task EXCEPT !.close = Null]
            /\ \A k \in Applications("stale") : dec'[k].gap \in {"none", "current"}
<1>0. ShapingTypeOK /\ RowsInv
  BY DEF ShapingInv
<1>1. PICK k0 \in Kinds : Overtaken(dec[k0])
  BY <1>0, NoRowFields DEF Applications, RowsInv, Waiting, Held
<1>2. ~Unblocked
  BY <1>0, <1>1, GraphRows, Evaluated DEF Unblocked, Authority
<1>3. ASSUME NEW asked \in SUBSET Kinds, NEW plain \in BOOLEAN, NEW boundary \in BOOLEAN,
             RecordCheckpoint(asked, plain, boundary)
      PROVE  /\ task.phase = "shaping" /\ task' = [task EXCEPT !.close = Null]
             /\ \A k \in Applications("stale") : dec'[k].gap \in {"none", "current"}
  <2>1. /\ task' = [task EXCEPT !.close = Null] /\ task.phase = "shaping"
        /\ dec' = [k \in Kinds |->
             IF k \in asked
               THEN [NoDecision EXCEPT !.gap = "current", !.own = TRUE,
                                       !.basis = "current", !.at = Here]
             ELSE IF k \in Retired \cup Applications("stale") THEN NoDecision
             ELSE [dec[k] EXCEPT !.own = FALSE]]
    BY <1>3, Zenon DEF RecordCheckpoint, MayRecordAs, MayRecord
  <2>2. ASSUME NEW k \in Applications("stale"), k \in asked
        PROVE  dec'[k].gap = "current"
    <3>1. dec'[k] = [NoDecision EXCEPT !.gap = "current", !.own = TRUE, !.basis = "current", !.at = Here]
      BY <2>1, <2>2 DEF Applications
    <3>2. dec'[k] = [gap |-> "current", own |-> TRUE, basis |-> "current", at |-> Here,
               expired |-> FALSE, app |-> "none", on |-> Nowhere, linked |-> FALSE]
      BY <1>0, <3>1, HereTyped, AskedRow
    <3>3. QED
      BY SMT, <3>2
  <2>3. ASSUME NEW k \in Applications("stale"), k \notin asked
        PROVE  dec'[k].gap = "none"
    BY <2>1, <2>3, NoRowFields DEF Applications
  <2>4. QED
    BY <2>1, <2>2, <2>3
<1>4. ASSUME NEW k \in Kinds, task' = task, \A o \in Kinds : dec'[o].app = dec[o].app
      PROVE  task' = task /\ Applications("stale")' = Applications("stale")
  BY <1>4 DEF Applications
<1>5. ASSUME NEW k \in Kinds, NEW a \in Answers, Resolve(k, a)
      PROVE  task' = task /\ \A o \in Kinds : dec'[o].app = dec[o].app
  <2>1. task' = task /\ dec' = [dec EXCEPT ![k].gap = a]
    BY <1>5 DEF Resolve, MayResolve
  <2>2. dec'[k] = [dec[k] EXCEPT !.gap = a] /\ \A o \in Kinds \ {k} : dec'[o] = dec[o]
    BY <1>0, <2>1 DEF ShapingTypeOK
  <2>3. dec'[k] = [gap |-> a, own |-> dec[k].own, basis |-> dec[k].basis, at |-> dec[k].at,
           expired |-> dec[k].expired, app |-> dec[k].app, on |-> dec[k].on, linked |-> dec[k].linked]
    BY <1>0, <2>2, HereTyped, AnsweredRow
  <2>4. dec'[k].app = dec[k].app
    BY SMT, <2>3
  <2>5. QED
    BY <2>1, <2>2, <2>4
<1>6. ASSUME NEW k \in Kinds, Expire(k)
      PROVE  task' = task /\ \A o \in Kinds : dec'[o].app = dec[o].app
  <2>1. task' = task /\ dec' = [dec EXCEPT ![k].expired = TRUE]
    BY <1>6 DEF Expire
  <2>2. dec'[k] = [dec[k] EXCEPT !.expired = TRUE] /\ \A o \in Kinds \ {k} : dec'[o] = dec[o]
    BY <1>0, <2>1 DEF ShapingTypeOK
  <2>3. dec'[k] = [gap |-> dec[k].gap, own |-> dec[k].own, basis |-> dec[k].basis, at |-> dec[k].at,
           expired |-> TRUE, app |-> dec[k].app, on |-> dec[k].on, linked |-> dec[k].linked]
    BY <1>0, <2>2, HereTyped, ExpiredRow
  <2>4. dec'[k].app = dec[k].app
    BY SMT, <2>3
  <2>5. QED
    BY <2>1, <2>2, <2>4
<1>7. ASSUME NEW op, NEW edit, NEW crit, NEW b, UpdateScope(op, edit, crit, b)
      PROVE  FALSE
  <2>1. "scope" \in Admitted
    BY <1>7 DEF UpdateScope, MayUpdateScope
  <2>2. QED
    BY <1>0, <1>1, <2>1, ScopeAdmitted
<1>8. ~AdvanceTask /\ ~FinalizeAdvice
  BY <1>2 DEF AdvanceTask, FinalizeAdvice, MayAdvance, MayFinalize, Shaped
<1>9. ~CloseTask
  <2>1. ASSUME task' = [task EXCEPT !.open = FALSE]
        PROVE  ~task'.open
    <3>1. task' = [mode |-> task.mode, phase |-> task.phase, open |-> FALSE,
             rev |-> task.rev, base |-> task.base, cu |-> task.cu, cuBase |-> task.cuBase,
             close |-> task.close]
      BY <1>0, <2>1, Zenon DEF ShapingTypeOK, Tasks
    <3>2. QED
      BY SMT, <3>1
  <2>2. QED
    BY <2>1 DEF CloseTask
<1>10. QED
  BY <1>3, <1>4, <1>5, <1>6, <1>7, <1>8, <1>9 DEF ShapingNext, Progress

-----------------------------------------------------------------------------

\* Task, checkpoint and decision rows stay well formed (ShapingTypeOK), whatever the methods
\* commit and in whatever order.
THEOREM ShapingTypeCorrect == ShapingSpec => []ShapingTypeOK
<1>1. ShapingInv => ShapingTypeOK
  BY DEF ShapingInv
<1>2. QED
  BY <1>1, ShapingAlways, PTL

\* The store's readers never refuse what the methods commit, and the projection never
\* has to report inconsistent authority (ReadersAccept): the checkpoint, gap, request
\* and application rows of every interleaving of record_shaping_checkpoint, answers,
\* deadlines, update_scope, advance_task and finalize_advice pass every reader's test.
THEOREM ReadersNeverRefuse == ShapingSpec => []ReadersAccept
<1>1. ShapingInv => ReadersAccept
  BY Accepting
<1>2. QED
  BY <1>1, ShapingAlways, PTL

\* In implementation every decision is applied and still holds (ImplementationSettled):
\* advance_task leaves none behind, and update_scope moves nothing from under one.
THEOREM ImplementationIsSettled == ShapingSpec => []ImplementationSettled
<1>1. ShapingInv => ImplementationSettled
  BY SettledTask
<1>2. QED
  BY <1>1, ShapingAlways, PTL

\* The close basis of finalize_advice never outlives the coordinates and the
\* applications it names (AdviceBasisCurrent): whatever moves them withdraws it.
THEOREM AdviceStaysCurrent == ShapingSpec => []AdviceBasisCurrent
<1>1. ShapingInv => AdviceBasisCurrent
  BY DEF ShapingInv, OutcomeInv
<1>2. QED
  BY <1>1, ShapingAlways, PTL

\* A stale application freezes its Task until one successor checkpoint consumes all of
\* them (StaleConsumedWhole): no method goes around the obligation.
THEOREM StaleNeverDropped == ShapingSpec => StaleConsumedWhole
<1>1. MaxRev \in Nat
  BY ShapingAssumption
<1>2. ShapingInv /\ [ShapingNext]_shapingVars =>
        [LET stale == Applications("stale")
         IN task.open /\ task'.open /\ stale # {} =>
              \/ task' = task /\ Applications("stale")' = stale
              \/ /\ task.phase = "shaping"
                 /\ task' = [task EXCEPT !.close = Null]
                 /\ \A k \in stale : dec'[k].gap \in {"none", "current"}]_shapingVars
  BY <1>1, StaleStep
<1>3. QED
  BY <1>2, ShapingAlways, PTL DEF ShapingSpec, StaleConsumedWhole

-----------------------------------------------------------------------------
(* A Task being shaped can go on *)

(* A pending question can be answered. *)
LEMMA PendingResolves ==
  ASSUME ShapingInv, task.open, NEW k \in Pending
  PROVE  CanProgress
<1>1. k \in Kinds /\ dec[k].at = Here
  BY PendingRow DEF Waiting
<1>2. "resolve" \in Admitted
  BY DEF Admitted
<1>3. QED
  BY <1>1, <1>2 DEF CanProgress, MayResolve

(* A question that waits and is not pending has expired. *)
LEMMA UnansweredExpired ==
  ASSUME ShapingInv, Pending = {}, NEW k \in Kinds, dec[k].gap = "current"
  PROVE  Waiting(dec[k]) /\ Status(dec[k]) = "expired" /\ k \in Recovery
<1>1. Waiting(dec[k])
  BY NoRowFields DEF ShapingInv, RowsInv, Held, Overtaken
<1>2. dec[k].basis = "current"
  BY <1>1 DEF Waiting
<1>3. Status(dec[k]) # "pending"
  BY DEF Pending
<1>4. Status(dec[k]) = "expired"
  BY <1>2, <1>3 DEF Status
<1>5. k \in Graph
  BY <1>1, GraphRows DEF ShapingInv
<1>6. Evaluate(k) # "awaiting_user"
  <2>1. dec[k].expired
    BY <1>2, <1>3 DEF Status
  <2>2. QED
    BY <1>1, <2>1, Evaluated
<1>7. Evaluate(k) = "expired"
  BY <1>1, <1>6, Evaluated
<1>8. QED
  BY <1>1, <1>4, <1>5, <1>7 DEF Recovery, Authority

(* With nothing pending, nothing awaits the user. *)
LEMMA NothingAwaited ==
  ASSUME ShapingInv, Pending = {}
  PROVE  Authority({"awaiting_user"}) = {}
<1>1. SUFFICES ASSUME NEW k \in Graph, Evaluate(k) = "awaiting_user"
               PROVE  FALSE
  BY DEF Authority
<1>2. k \in Kinds /\ (Waiting(dec[k]) \/ Held(dec[k]) \/ Overtaken(dec[k]))
  BY <1>1, GraphRows DEF ShapingInv
<1>3. Waiting(dec[k])
  BY <1>1, <1>2, Evaluated
<1>4. dec[k].gap \in {"current", "accepted", "rejected", "deferred"}
  BY <1>3 DEF Waiting, Answers
<1>5. dec[k].gap = "current" /\ ~dec[k].expired
  BY <1>1, <1>2, <1>3, <1>4, Evaluated
<1>6. Status(dec[k]) = "pending"
  BY <1>3, <1>5 DEF Waiting, Status
<1>7. QED
  BY <1>2, <1>5, <1>6 DEF Pending

(* Where the workflow offers update_scope, it goes through. *)
LEMMA ScopeGoes ==
  ASSUME ShapingInv, task.open, task.phase = "shaping", task.rev < MaxRev, Pending = {},
         Recovery = {}, "scope" \in Workflow.may
  PROVE  CanProgress
<1>1. PICK op \in {"create", "keep"} : op = IF task.cu = 0 THEN "create" ELSE "keep"
  OBVIOUS
<1>2. op \in ChangeUnitOperations
  BY <1>1 DEF ChangeUnitOperations
<1>3. PendingScope = {}
  BY DEF PendingScope
<1>4. "scope" \in Admitted
  BY <1>3 DEF Admitted
<1>5. ASSUME NEW k \in ScopeAnswers
      PROVE  Status(dec[k]) = "resolved" /\ dec[k].at = Here
  <2>1. k \in Kinds /\ dec[k].gap = "accepted"
    BY DEF ScopeAnswers, Gaps
  <2>2. Waiting(dec[k])
    BY <2>1, NoRowFields DEF ShapingInv, RowsInv, Held, Overtaken
  <2>3. QED
    BY <2>1, <2>2 DEF Waiting, Status
<1>6. NewBase(Null) = task.base
  BY DEF NewBase
<1>7. ImplementationGuard /\ ReplacementAllowed
  BY DEF ImplementationGuard, ReplacementAllowed
<1>8. MayUpdateScope(op, FALSE, TRUE, Null)
  BY <1>2, <1>3, <1>4, <1>5, <1>6, <1>7 DEF MayUpdateScope, BasisChanged
<1>9. QED
  BY <1>8 DEF CanProgress

(* Where it offers a new checkpoint and no accepted answer waits, that one does. *)
LEMMA RecordGoes ==
  ASSUME ShapingInv, task.phase = "shaping", Pending = {},
         Authority({"accepted_unapplied"}) = {}, "record" \in Workflow.may
  PROVE  CanProgress
<1>1. "record" \in Admitted
  BY DEF Admitted
<1>2. ASSUME NEW k \in Retired
      PROVE  dec[k].basis = "current" /\ Recoverable(dec[k])
  <2>1. k \in Kinds /\ dec[k].gap # "none" /\ dec[k].gap # "applied"
    BY DEF Retired, Gaps
  <2>2. Waiting(dec[k])
    BY <2>1, NoRowFields DEF ShapingInv, RowsInv, Held, Overtaken
  <2>3. dec[k].basis = "current" /\ dec[k].gap \in {"current", "accepted", "rejected", "deferred"}
    BY <2>2 DEF Waiting, Answers
  <2>4. dec[k].gap # "accepted"
    <3>1. k \in Graph
      BY <2>1, <2>2, GraphRows DEF ShapingInv
    <3>2. QED
      BY <2>1, <2>2, <3>1, Evaluated DEF Authority
  <2>5. dec[k].gap = "current" => Status(dec[k]) = "expired"
    BY <2>1, UnansweredExpired
  <2>6. QED
    BY <2>3, <2>4, <2>5 DEF Recoverable
<1>3. ASSUME NEW k \in Applications("current")
      PROVE  dec[k].linked /\ dec[k].on = Here
  <2>1. k \in Kinds /\ dec[k].app = "current"
    BY DEF Applications
  <2>2. Held(dec[k])
    BY <2>1, NoRowFields DEF ShapingInv, RowsInv, Waiting, Overtaken
  <2>3. QED
    BY <2>2 DEF Held
<1>4. cp.st = "none" => Applications("stale") = {}
  BY NoRowFields DEF ShapingInv, CheckpointInv, Applications
<1>5. MayRecord
  BY <1>1, <1>2, <1>3, <1>4 DEF MayRecord
<1>6. MayRecordAs({}, TRUE, FALSE)
  BY <1>5 DEF MayRecordAs
<1>7. QED
  BY <1>6 DEF CanProgress

(* The workflow offers one of the two, and the checkpoint alone only where something is to *)
(* be revised.                                                                             *)
LEMMA WorkflowOffers ==
  ASSUME ShapingInv, task.open, task.phase = "shaping", Pending = {}
  PROVE  \/ Recovery = {} /\ "scope" \in Workflow.may
         \/ /\ "record" \in Workflow.may
            /\ Recovery # {} \/ Authority({"stale"}) # {} \/ cp.plain
<1>1. Authority({"awaiting_user"}) = {}
  BY NothingAwaited
<1>2. Authority({"inconsistent"}) = {}
  BY GraphRows DEF ShapingInv, Authority
<1>3. CASE Recovery # {} \/ Authority({"stale"}) # {}
  <2>1. "record" \in Workflow.may
    BY <1>3, Zenon DEF Workflow, Offer
  <2>2. QED
    BY <1>3, <2>1
<1>4. CASE Recovery = {} /\ Authority({"stale"}) = {}
  <2>1. GapOpen => cp.plain
    BY <1>4, UnansweredExpired DEF GapOpen, Gaps
  <2>2. CASE cp.plain
    <3>1. "record" \in Workflow.may \/ "scope" \in Workflow.may
      BY <1>1, <1>2, <1>4, ZenonT(30) DEF Workflow, Offer
    <3>2. QED
      BY <1>4, <2>2, <3>1
  <2>3. CASE ~GapOpen
    <3>1. "scope" \in Workflow.may
      BY <1>1, <1>2, <1>4, <2>3, ZenonT(30) DEF Workflow, Offer
    <3>2. QED
      BY <1>4, <3>1
  <2>4. QED
    BY <2>1, <2>2, <2>3
<1>5. QED
  BY <1>3, <1>4

\* For every number of decisions, baselines and revisions (NotStranded): a Task being shaped
\* can go on by some method other than close_task, unless an accepted answer stands beside
\* something that must be revised. What the workflow machine offers, the method accepts.
THEOREM ShapingNotStranded == ShapingSpec => []NotStranded
<1>1. ShapingInv => NotStranded
  <2>1. SUFFICES ASSUME ShapingInv, task.open, task.phase = "shaping", task.rev < MaxRev,
                        \/ Authority({"accepted_unapplied"}) = {}
                        \/ ~cp.plain /\ Recovery = {} /\ Authority({"stale"}) = {}
                 PROVE  CanProgress
    BY DEF NotStranded
  <2>2. CASE Pending # {}
    BY <2>1, <2>2, PendingResolves
  <2>3. CASE Pending = {}
    <3>1. CASE Recovery = {} /\ "scope" \in Workflow.may
      BY <2>1, <2>3, <3>1, ScopeGoes
    <3>2. CASE /\ "record" \in Workflow.may
               /\ Recovery # {} \/ Authority({"stale"}) # {} \/ cp.plain
      BY <2>1, <2>3, <3>2, RecordGoes
    <3>3. QED
      BY <2>1, <2>3, <3>1, <3>2, WorkflowOffers
  <2>4. QED
    BY <2>2, <2>3
<1>2. QED
  BY <1>1, ShapingAlways, PTL

-----------------------------------------------------------------------------
(* Captured evidence.                                                      *)

\* A receipt belongs to an intent and names a staged row of the intent's connection and
\* lifetime; it holds the claim on its source.
ReceiptFacts ==
    \A i \in Intents :
        receipt[i] # None =>
            /\ intent[i] # None
            /\ staging[receipt[i].handle] # None
            /\ staging[receipt[i].handle].by = intent[i].by
            /\ staging[receipt[i].handle].expires = intent[i].expires
            /\ HoldsItsClaim(i)

\* A capture in flight has its intent, and an artifact its consumed row.
RowFacts ==
    /\ \A p \in Captures : capture[p] # None => intent[capture[p].intent] # None
    /\ \A h \in Handles : artifact[h] # None => staging[h] # None

\* A planned run was planned on a version the project has reached; while it is still that
\* version, what the plan has read of its capture stands.
PlanFacts ==
    \A a \in Agents :
        plan[a] # None =>
            /\ plan[a].version <= version
            /\ plan[a].version = version /\ plan[a].intent # None =>
                  /\ intent[plan[a].intent] # None
                  /\ receipt[plan[a].intent] # None
                  /\ producer[plan[a].intent] = None
                  /\ IntentCurrent(a, plan[a].intent)

IInv ==
    /\ TypeOK
    /\ RowsHaveBodies
    /\ ReceiptFacts
    /\ RowFacts
    /\ PlanFacts
    /\ ProducersGrounded

-----------------------------------------------------------------------------
USE CaptureAssumption, NoneIsNoRow

\* Staging a body: the row is written only with its file, under a name no row has.
LEMMA StageBodyEffect ==
  ASSUME IInv, NEW h \in Handles, NEW row \in StagingRows, NEW outcome \in Outcomes,
         StageBody(h, row, outcome)
  PROVE  /\ staging' \in [Handles -> Maybe(StagingRows)]
         /\ body' \in [Handles -> {"absent", "intact", "damaged"}]
         /\ staging[h] = None
         /\ \A g \in Handles \ {h} : staging'[g] = staging[g] /\ body'[g] = body[g]
         /\ staging'[h] = IF outcome = "committed" THEN row ELSE None
         /\ outcome = "committed" => body'[h] = "intact"
  BY DEF IInv, TypeOK, StageBody, NewHandle, Outcomes, Maybe

LEMMA InitIInv == Init => IInv
  BY SMT DEF Init, IInv, TypeOK, RowsHaveBodies, ReceiptFacts, RowFacts, PlanFacts, ProducersGrounded,
     Maybe, Times

LEMMA StageArtifactKeeps ==
  ASSUME IInv, NEW a \in Agents, NEW h \in Handles, NEW outcome \in Outcomes,
         StageArtifact(a, h, outcome)
  PROVE  IInv'
<1>1. StagedRow(a, now + StagingTtl) \in StagingRows
  BY SMT DEF StageArtifact, StagedRow, StagingRows, IInv, TypeOK, Times
<1>2. /\ staging' \in [Handles -> Maybe(StagingRows)]
      /\ body' \in [Handles -> {"absent", "intact", "damaged"}]
      /\ staging[h] = None
      /\ \A g \in Handles \ {h} : staging'[g] = staging[g] /\ body'[g] = body[g]
      /\ staging'[h] # None => body'[h] = "intact"
  BY <1>1, StageBodyEffect, Zenon DEF StageArtifact
<1>3. TypeOK'
  BY <1>2 DEF StageArtifact, IInv, TypeOK
<1>4. RowsHaveBodies'
  BY <1>2 DEF StageArtifact, IInv, RowsHaveBodies, Verified
<1>5. ReceiptFacts' /\ RowFacts'
  BY SMT, <1>2 DEF StageArtifact, IInv, TypeOK, ReceiptFacts, RowFacts, HoldsItsClaim, Receipts, Maybe
<1>6. PlanFacts'
  BY DEF StageArtifact, IInv, PlanFacts, IntentCurrent
<1>7. ProducersGrounded'
  BY SMT, <1>2 DEF StageArtifact, IInv, TypeOK, ProducersGrounded, ReceiptFacts, Receipts, Maybe
<1> QED BY <1>3, <1>4, <1>5, <1>6, <1>7 DEF IInv

LEMMA PrepareKeeps ==
  ASSUME IInv, NEW a \in Agents, NEW i \in Intents, NEW kind \in {"command", "tool"},
         PrepareEvidenceCapture(a, i, kind)
  PROVE  IInv'
<1>1. IntentRow(a, kind) \in IntentRows
  BY SMT DEF PrepareEvidenceCapture, IntentRow, IntentRows, IInv, TypeOK, Times
<1>2. /\ intent' \in [Intents -> Maybe(IntentRows)]
      /\ intent[i] = None /\ intent'[i] = IntentRow(a, kind)
      /\ \A j \in Intents \ {i} : intent'[j] = intent[j]
  BY <1>1 DEF PrepareEvidenceCapture, IInv, TypeOK, Maybe
<1>3. TypeOK'
  BY SMT, <1>2 DEF PrepareEvidenceCapture, IInv, TypeOK, IntentRow, Times
<1>4. RowsHaveBodies'
  BY DEF PrepareEvidenceCapture, IInv, RowsHaveBodies, Verified
<1>5. ReceiptFacts' /\ RowFacts'
  BY SMT, <1>1, <1>2 DEF PrepareEvidenceCapture, IInv, TypeOK, ReceiptFacts, RowFacts, HoldsItsClaim,
     Observed, Maybe
<1>6. PlanFacts'
  BY SMT DEF PrepareEvidenceCapture, IInv, TypeOK, PlanFacts, Plans, Maybe
<1>7. ProducersGrounded'
  <2>1. UNCHANGED <<receipt, staging, artifact, producer, runs>>
    BY DEF PrepareEvidenceCapture
  <2>2. \A j \in Intents : producer[j] # None => receipt[j] # None /\ intent[j] # None
    BY DEF IInv, ProducersGrounded, ReceiptFacts
  <2>3. \A j \in Intents : producer[j] # None => intent'[j] = intent[j]
    BY <1>2, <2>2
  <2> QED BY <2>1, <2>3 DEF IInv, ProducersGrounded
<1> QED BY <1>3, <1>4, <1>5, <1>6, <1>7 DEF IInv

LEMMA ObserveKeeps ==
  ASSUME IInv, NEW p \in Captures, NEW i \in Intents, NEW s \in Sources, CaptureObserve(p, i, s)
  PROVE  IInv'
<1>1. [intent |-> i, source |-> s, observed |-> now] \in Observed
  BY DEF Observed, IInv, TypeOK
<1>2. TypeOK'
  BY <1>1 DEF CaptureObserve, rows, IInv, TypeOK, Maybe
<1>3. RowsHaveBodies' /\ ReceiptFacts' /\ PlanFacts' /\ ProducersGrounded'
  BY ZenonT(30) DEF CaptureObserve, rows, IInv, RowsHaveBodies, Verified, ReceiptFacts, HoldsItsClaim,
     PlanFacts, IntentCurrent, ProducersGrounded
<1>4. RowFacts'
  BY <1>1 DEF CaptureObserve, Open, rows, IInv, TypeOK, RowFacts
<1> QED BY <1>2, <1>3, <1>4 DEF IInv

LEMMA PersistKeeps ==
  ASSUME IInv, NEW p \in Captures, NEW h \in Handles, NEW outcome \in Outcomes,
         CapturePersist(p, h, outcome)
  PROVE  IInv'
<1> DEFINE k == capture[p]
           i == k.intent
           done == outcome = "committed" /\ Fulfillable(k)
           how == IF outcome = "committed" /\ ~Fulfillable(k) THEN "failed" ELSE outcome
           row == StagedRow(intent[i].by, intent[i].expires)
<1>1. /\ k \in Observed /\ i \in Intents /\ k.source \in Sources
      /\ intent[i] # None /\ intent[i] \in IntentRows
  BY DEF CapturePersist, IInv, TypeOK, RowFacts, Observed, Maybe
<1>2. row \in StagingRows
  BY <1>1 DEF StagedRow, StagingRows, IntentRows
<1>3. how \in Outcomes /\ (how = "committed" <=> done)
  BY DEF Outcomes
<1>4. StageBody(h, row, how)
  BY DEF CapturePersist
<1>5. /\ staging' \in [Handles -> Maybe(StagingRows)]
      /\ body' \in [Handles -> {"absent", "intact", "damaged"}]
      /\ staging[h] = None
      /\ \A g \in Handles \ {h} : staging'[g] = staging[g] /\ body'[g] = body[g]
      /\ staging'[h] = IF done THEN row ELSE None
      /\ done => body'[h] = "intact"
  <2> HIDE DEF how, row, done
  <2> QED BY <1>2, <1>3, <1>4, StageBodyEffect
<1>6. /\ receipt' = IF ~done THEN receipt ELSE [receipt EXCEPT ![i] = [handle |-> h, source |-> k.source]]
      /\ claim' = IF ~done THEN claim ELSE [claim EXCEPT ![k.source] = i]
      /\ capture' = [capture EXCEPT ![p] = None]
      /\ UNCHANGED <<now, version, scope, intent, artifact, producer, runs, plan, lost>>
  BY DEF CapturePersist
<1>7. done => receipt[i] = None /\ claim[k.source] = None
  BY DEF Fulfillable
<1>8. [handle |-> h, source |-> k.source] \in Receipts
  BY <1>1 DEF Receipts
<1>9. row.by = intent[i].by /\ row.expires = intent[i].expires
  BY DEF StagedRow
<1> HIDE DEF done, row, how
<1>10. TypeOK'
  BY <1>1, <1>5, <1>6, <1>8 DEF IInv, TypeOK, Maybe
<1>11. RowsHaveBodies'
  BY <1>5, <1>6 DEF IInv, RowsHaveBodies, Verified
<1>12. ReceiptFacts'
  <2> SUFFICES ASSUME NEW j \in Intents, receipt'[j] # None
               PROVE  /\ intent[j] # None
                      /\ staging'[receipt'[j].handle] # None
                      /\ staging'[receipt'[j].handle].by = intent[j].by
                      /\ staging'[receipt'[j].handle].expires = intent[j].expires
                      /\ claim'[receipt'[j].source] = j
    BY <1>6 DEF ReceiptFacts, HoldsItsClaim
  <2>1. CASE done /\ j = i
    BY <2>1, <1>1, <1>2, <1>5, <1>6, <1>9 DEF IInv, TypeOK
  <2>2. CASE ~(done /\ j = i)
    <3>1. receipt'[j] = receipt[j] /\ receipt[j] \in Receipts
      BY <2>2, <1>1, <1>6 DEF IInv, TypeOK, Maybe
    <3>2. /\ receipt[j].handle \in Handles /\ receipt[j].source \in Sources
          /\ staging[receipt[j].handle] # None /\ claim[receipt[j].source] = j
      BY <3>1 DEF IInv, ReceiptFacts, HoldsItsClaim, Receipts
    <3>3. claim'[receipt[j].source] = j
      BY <3>2, <1>1, <1>6, <1>7 DEF IInv, TypeOK
    <3> QED BY SMT, <3>1, <3>2, <3>3, <1>5 DEF IInv, ReceiptFacts
  <2> QED BY <2>1, <2>2
<1>13. RowFacts'
  BY <1>5, <1>6 DEF IInv, TypeOK, RowFacts
<1>14. PlanFacts'
  BY <1>1, <1>6, <1>8, SMTT(20) DEF IInv, TypeOK, PlanFacts, IntentCurrent, Plans, Maybe
<1>15. ProducersGrounded'
  BY SMT, <1>1, <1>5, <1>6, <1>7 DEF IInv, TypeOK, ProducersGrounded, ReceiptFacts, Receipts, Maybe
<1> QED BY <1>10, <1>11, <1>12, <1>13, <1>14, <1>15 DEF IInv

LEMMA PlanKeeps ==
  ASSUME IInv, NEW a \in Agents, NEW h \in Handles \cup {None}, NEW i \in Intents \cup {None},
         PlanRecordRun(a, h, i)
  PROVE  IInv'
<1>1. [version |-> version, input |-> h, intent |-> i] \in Plans
  BY DEF Plans, IInv, TypeOK, Maybe
<1>2. TypeOK'
  BY <1>1 DEF PlanRecordRun, rows, IInv, TypeOK, Maybe
<1>3. RowsHaveBodies' /\ ReceiptFacts' /\ RowFacts' /\ ProducersGrounded'
  BY DEF PlanRecordRun, rows, IInv, RowsHaveBodies, Verified, ReceiptFacts, HoldsItsClaim,
     RowFacts, ProducersGrounded
<1>4. PlanFacts'
  BY SMT, <1>1 DEF PlanRecordRun, CaptureReady, rows, IInv, TypeOK, PlanFacts, IntentCurrent
<1> QED BY <1>2, <1>3, <1>4 DEF IInv

LEMMA CommitKeeps ==
  ASSUME IInv, NEW a \in Agents, CommitRecordRun(a)
  PROVE  IInv'
<1> DEFINE k == plan[a]
           n == Len(runs) + 1
           promoted == Promotions(k)
<1>1. k # None /\ k \in Plans /\ k.version = version
  BY DEF CommitRecordRun, Applicable, IInv, TypeOK, Maybe
<1>2. \A h \in promoted : h \in Handles /\ artifact[h] = None /\ StagedFor(a, h)
  BY DEF CommitRecordRun, Applicable, Promotions
<1>3. \A h \in promoted : /\ staging[h] # None /\ staging[h] \in StagingRows
                          /\ staging[h].by = a /\ now < staging[h].expires
  BY SMT, <1>2 DEF StagedFor, IInv, TypeOK, Maybe
<1>4. k.intent # None =>
        /\ k.intent \in Intents /\ producer[k.intent] = None
        /\ intent[k.intent] # None /\ receipt[k.intent] # None
        /\ intent[k.intent].by = a /\ intent[k.intent].scope = scope
        /\ receipt[k.intent].handle \in promoted
  <2>1. k.intent # None => /\ k.intent \in Intents /\ producer[k.intent] = None
                           /\ intent[k.intent] # None /\ receipt[k.intent] # None
                           /\ intent[k.intent].by = a /\ intent[k.intent].scope = scope
    BY <1>1 DEF IInv, PlanFacts, IntentCurrent, Plans, Maybe
  <2>2. k.intent # None => receipt[k.intent].handle \in Handles
    BY <2>1 DEF IInv, TypeOK, Receipts, Maybe
  <2> QED BY <2>1, <2>2 DEF Promotions
<1> HIDE DEF promoted
<1>5. /\ artifact' = [h \in Handles |-> IF h \in promoted THEN [run |-> n, by |-> a, at |-> now]
                                        ELSE artifact[h]]
      /\ staging' = [h \in Handles |-> IF h \in promoted THEN [staging[h] EXCEPT !.status = "consumed"]
                                       ELSE staging[h]]
      /\ producer' = IF k.intent = None THEN producer ELSE [producer EXCEPT ![k.intent] = n]
      /\ runs' = Append(runs, scope) /\ version' = version + 1
      /\ plan' = [plan EXCEPT ![a] = None]
      /\ UNCHANGED <<now, scope, intent, receipt, claim, body, capture, lost>>
  BY DEF CommitRecordRun, WithProducer, promoted
<1>6. /\ n \in Nat /\ n = Len(runs') /\ DOMAIN runs' = DOMAIN runs \cup {n}
      /\ runs' \in Seq(1 .. MaxScope) /\ runs'[n] = scope
      /\ \A m \in DOMAIN runs : runs'[m] = runs[m] /\ m # n
  <2>1. runs \in Seq(1 .. MaxScope) /\ scope \in 1 .. MaxScope /\ runs' = Append(runs, scope)
    BY <1>5 DEF IInv, TypeOK
  <2> QED BY SMT, <2>1
<1>7. [run |-> n, by |-> a, at |-> now] \in ArtifactRows
  BY <1>6 DEF ArtifactRows, IInv, TypeOK
<1>8. \A h \in promoted :
        /\ staging'[h] \in StagingRows /\ staging'[h] # None /\ staging'[h].status = "consumed"
        /\ staging'[h].by = staging[h].by /\ staging'[h].expires = staging[h].expires
        /\ artifact'[h] \in ArtifactRows
        /\ artifact'[h].run = n /\ artifact'[h].by = a /\ artifact'[h].at = now
  <2> SUFFICES ASSUME NEW h \in promoted
               PROVE  /\ staging'[h] \in StagingRows /\ staging'[h].status = "consumed"
                      /\ staging'[h].by = staging[h].by /\ staging'[h].expires = staging[h].expires
                      /\ artifact'[h] \in ArtifactRows
                      /\ artifact'[h].run = n /\ artifact'[h].by = a /\ artifact'[h].at = now
    OBVIOUS
  <2>1. staging'[h] = [staging[h] EXCEPT !.status = "consumed"]
    BY <1>2, <1>5
  <2>2. artifact'[h] = [run |-> n, by |-> a, at |-> now]
    BY <1>2, <1>5
  <2> QED BY <2>1, <2>2, <1>3, <1>7, SMTT(20) DEF StagingRows
<1>9. \A h \in Handles \ promoted : staging'[h] = staging[h] /\ artifact'[h] = artifact[h]
  BY <1>5
<1> HIDE DEF n, k
<1>10. TypeOK'
  <2>1. staging' \in [Handles -> Maybe(StagingRows)] /\ artifact' \in [Handles -> Maybe(ArtifactRows)]
    BY <1>5, <1>7, <1>8, <1>9, Zenon DEF IInv, TypeOK, Maybe
  <2>2. producer' \in [Intents -> Maybe(Nat)] /\ plan' \in [Agents -> Maybe(Plans)]
    BY <1>4, <1>5, <1>6 DEF IInv, TypeOK, Maybe
  <2>3. \A i \in Intents : producer'[i] # None => producer'[i] \in DOMAIN runs'
    BY <1>4, <1>5, <1>6 DEF IInv, TypeOK
  <2>4. \A h \in Handles : artifact'[h] # None => artifact'[h].run \in DOMAIN runs' /\ artifact'[h].at <= now
    <3> SUFFICES ASSUME NEW h \in Handles, artifact'[h] # None
                 PROVE  artifact'[h].run \in DOMAIN runs' /\ artifact'[h].at <= now
      OBVIOUS
    <3>1. CASE h \in promoted
      BY SMT, <3>1, <1>6, <1>8 DEF IInv, TypeOK, Times
    <3>2. CASE h \notin promoted
      BY <3>2, <1>6, <1>9 DEF IInv, TypeOK
    <3> QED BY <3>1, <3>2
  <2> QED BY SMT, <2>1, <2>2, <2>3, <2>4, <1>5, <1>6 DEF IInv, TypeOK
<1>11. RowsHaveBodies'
  BY <1>3, <1>5, <1>9 DEF IInv, RowsHaveBodies, Verified
<1>12. ReceiptFacts' /\ RowFacts'
  <2>1. \A h \in Handles :
          staging[h] # None => /\ staging'[h] # None
                               /\ staging'[h].by = staging[h].by
                               /\ staging'[h].expires = staging[h].expires
    BY <1>8, <1>9
  <2>2. \A i \in Intents : receipt[i] # None => receipt[i].handle \in Handles
    BY DEF IInv, TypeOK, Receipts, Maybe
  <2>3. intent' = intent /\ receipt' = receipt /\ claim' = claim /\ capture' = capture
    BY <1>5
  <2>4. ReceiptFacts'
    BY <2>1, <2>2, <2>3 DEF IInv, ReceiptFacts, HoldsItsClaim
  <2>5. \A h \in Handles : artifact'[h] # None => staging'[h] # None
    BY <1>8, <1>9 DEF IInv, RowFacts
  <2> QED BY <2>3, <2>4, <2>5 DEF IInv, RowFacts
<1>13. PlanFacts'
  BY SMT, <1>5 DEF IInv, TypeOK, PlanFacts, Plans, Maybe
<1>14. ProducersGrounded'
  <2> SUFFICES ASSUME NEW i \in Intents, producer'[i] # None
               PROVE  /\ receipt[i] # None
                      /\ runs'[producer'[i]] = intent[i].scope
                      /\ staging'[receipt[i].handle].status = "consumed"
                      /\ artifact'[receipt[i].handle].run = producer'[i]
                      /\ artifact'[receipt[i].handle].by = intent[i].by
                      /\ artifact'[receipt[i].handle].at < intent[i].expires
    <3>1. intent' = intent /\ receipt' = receipt
      BY <1>5, Zenon
    <3> QED BY <3>1 DEF ProducersGrounded
  <2>1. CASE i = k.intent
    <3>1. producer'[i] = n /\ k.intent # None
      BY <2>1, <1>5 DEF IInv, TypeOK
    <3>2. staging[receipt[i].handle].expires = intent[i].expires
      BY <2>1, <3>1, <1>4, ZenonT(30) DEF IInv, ReceiptFacts
    <3> QED BY <2>1, <3>1, <3>2, <1>3, <1>4, <1>6, <1>8
  <2>2. CASE i # k.intent
    <3>1. producer'[i] = producer[i] /\ producer[i] \in DOMAIN runs
      BY <2>2, <1>4, <1>5 DEF IInv, TypeOK
    <3>2. receipt[i] # None /\ receipt[i].handle \in Handles /\ artifact[receipt[i].handle].run = producer[i]
      BY SMT, <3>1 DEF IInv, TypeOK, ProducersGrounded, Receipts, Maybe
    <3>3. receipt[i].handle \notin promoted
      <4>1. staging[receipt[i].handle].status = "consumed"
        BY <3>1 DEF IInv, ProducersGrounded
      <4> QED BY <4>1, <1>2 DEF StagedFor
    <3> QED BY SMT, <3>1, <3>2, <3>3, <1>6, <1>9 DEF IInv, ProducersGrounded
  <2> QED BY <2>1, <2>2
<1> QED BY <1>10, <1>11, <1>12, <1>13, <1>14 DEF IInv

LEMMA RejectKeeps ==
  ASSUME IInv, NEW a \in Agents, RejectRecordRun(a)
  PROVE  IInv'
<1>1. TypeOK'
  BY SMTT(20) DEF RejectRecordRun, rows, IInv, TypeOK, Maybe
<1>2. PlanFacts'
  BY SMTT(20) DEF RejectRecordRun, rows, IInv, TypeOK, PlanFacts, IntentCurrent
<1>3. RowsHaveBodies' /\ ReceiptFacts' /\ RowFacts' /\ ProducersGrounded'
  BY ZenonT(30) DEF RejectRecordRun, rows, IInv, RowsHaveBodies, Verified, ReceiptFacts, HoldsItsClaim,
     RowFacts, ProducersGrounded
<1> QED BY <1>1, <1>2, <1>3 DEF IInv

LEMMA WorldKeeps ==
  ASSUME IInv, RaiseScope \/ Tick \/ \E h \in Handles : LoseBody(h)
  PROVE  IInv'
<1>1. CASE RaiseScope
  <2>1. TypeOK' /\ PlanFacts'
    BY <1>1, SMTT(20) DEF RaiseScope, rows, IInv, TypeOK, PlanFacts, Plans, IntentRows, Maybe
  <2>2. RowsHaveBodies' /\ ReceiptFacts' /\ RowFacts' /\ ProducersGrounded'
    BY <1>1 DEF RaiseScope, rows, IInv, RowsHaveBodies, Verified, ReceiptFacts, HoldsItsClaim,
       RowFacts, ProducersGrounded
  <2> QED BY <2>1, <2>2 DEF IInv
<1>2. CASE Tick
  <2>1. TypeOK'
    BY SMT, <1>2 DEF Tick, rows, IInv, TypeOK, Times, IntentRows, ArtifactRows, Maybe
  <2>2. RowsHaveBodies' /\ ReceiptFacts' /\ RowFacts' /\ PlanFacts' /\ ProducersGrounded'
    BY <1>2, ZenonT(30) DEF Tick, rows, IInv, RowsHaveBodies, Verified, ReceiptFacts, HoldsItsClaim,
       RowFacts, PlanFacts, IntentCurrent, ProducersGrounded
  <2> QED BY <2>1, <2>2 DEF IInv
<1>3. ASSUME NEW h \in Handles, LoseBody(h) PROVE IInv'
  <2>1. TypeOK' /\ RowsHaveBodies'
    BY <1>3, SMTT(20) DEF LoseBody, IInv, TypeOK, RowsHaveBodies, Verified
  <2>2. ReceiptFacts' /\ RowFacts' /\ PlanFacts' /\ ProducersGrounded'
    BY SMT, <1>3 DEF LoseBody, IInv, ReceiptFacts, HoldsItsClaim, RowFacts, PlanFacts, IntentCurrent,
       ProducersGrounded
  <2> QED BY <2>1, <2>2 DEF IInv
<1> QED BY <1>1, <1>2, <1>3

LEMMA NextKeeps == IInv /\ [Next]_vars => IInv'
<1> SUFFICES ASSUME IInv, [Next]_vars PROVE IInv'
  OBVIOUS
<1>1. CASE UNCHANGED vars
  BY <1>1 DEF vars, IInv, TypeOK, RowsHaveBodies, Verified, ReceiptFacts, HoldsItsClaim,
     RowFacts, PlanFacts, IntentCurrent, ProducersGrounded
<1>2. CASE Next
  BY <1>2, StageArtifactKeeps, PrepareKeeps, ObserveKeeps, PersistKeeps, PlanKeeps, CommitKeeps,
     RejectKeeps, WorldKeeps, Zenon DEF Next
<1> QED BY <1>1, <1>2

\* The invariant holds in every reachable state.
THEOREM CaptureInvariant == Spec => []IInv
<1> QED BY InitIInv, NextKeeps, PTL DEF Spec

\* artifact_staging, receipts, claims and producers are always well formed.
THEOREM CaptureTypeCorrect == Spec => []TypeOK
<1>1. IInv => TypeOK
  BY DEF IInv
<1> QED BY <1>1, CaptureInvariant, PTL

\* A committed staging row has its bytes, unless something outside damaged them: in
\* insert_artifact_staging_tx the file precedes the row, and create_artifact_staging
\* removes a file only when its row was not committed.
THEOREM StagedRowsKeepBytes == Spec => []RowsHaveBodies
<1>1. IInv => RowsHaveBodies
  BY DEF IInv
<1> QED BY <1>1, CaptureInvariant, PTL

\* However many capture processes race, a command or tool invocation is the source of one
\* intent's receipt (fulfill_evidence_capture_source).
THEOREM SourcesServeOneIntent == Spec => []OneSourceOneIntent
<1>1. IInv => OneSourceOneIntent
  BY SMT DEF IInv, ReceiptFacts, OneSourceOneIntent, HoldsItsClaim
<1> QED BY <1>1, CaptureInvariant, PTL

\* A producer record_run has finalised rests on an intent of its run's scope and on the
\* receipt's own bytes, promoted by the same run in the intent's lifetime, although the
\* intent is checked while planning only (plan_record_run_capture_authority).
THEOREM ProducersAreGrounded == Spec => []ProducersGrounded
<1>1. IInv => ProducersGrounded
  BY DEF IInv
<1> QED BY <1>1, CaptureInvariant, PTL

\* No step promotes bytes that are consumed, expired, damaged or of another actor
\* (promote_staged_artifact).
THEOREM PromotionsAreChecked == Spec => PromotionChecked
<1>1. ASSUME IInv, Next, NEW h \in Handles, artifact[h] = None, artifact'[h] # None
      PROVE  /\ staging[h].status = "staged" /\ now < staging[h].expires
             /\ artifact'[h].by = staging[h].by /\ Verified(h)
  <2>1. PICK a \in Agents : CommitRecordRun(a)
    BY <1>1, ZenonT(30) DEF Next, StageArtifact, PrepareEvidenceCapture, CaptureObserve, CapturePersist,
       PlanRecordRun, RejectRecordRun, RaiseScope, LoseBody, Tick, rows
  <2> DEFINE promoted == Promotions(plan[a])
  <2>2. h \in promoted /\ artifact'[h].by = a
    BY <2>1, <1>1 DEF CommitRecordRun, IInv, TypeOK
  <2>3. StagedFor(a, h)
    BY <2>1, <2>2 DEF CommitRecordRun, Applicable
  <2> QED BY <2>2, <2>3, Zenon DEF StagedFor
<1>2. IInv /\ [Next]_vars =>
        [\A h \in Handles :
          artifact[h] = None /\ artifact'[h] # None =>
              /\ staging[h].status = "staged"
              /\ now < staging[h].expires
              /\ artifact'[h].by = staging[h].by
              /\ Verified(h)]_vars
  BY <1>1
<1> QED BY <1>2, CaptureInvariant, PTL DEF Spec, PromotionChecked

=============================================================================
