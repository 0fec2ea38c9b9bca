------------------------ MODULE GuardObservationProofs ------------------------
(***************************************************************************)
(* Proofs about GuardObservation, for every set of invocations, sessions,  *)
(* turns, paths, tickets and hooks, every effect, target and scope, and    *)
(* every behaviour of the clock.                                           *)
(*                                                                         *)
(* The argument follows one row.  Once a row exists its first event never  *)
(* changes, an unavailable row keeps its reason and a complete one changes *)
(* no more (RowKept), so what a hook learned of a row before its           *)
(* transaction still holds inside it, whatever came between (HookFine).    *)
(* And no invocation has written before it ran, so a baseline taken for it *)
(* holds none of its writes (HostFine, RowFine).                           *)
(***************************************************************************)
EXTENDS GuardObservation, TLAPS

(* Zenon proves most leaves; the ones with arithmetic or large records say SMT. *)
USE Zenon

\* A row before its insertion is empty; a baseline is older than the tool; a
\* complete row splits its net delta in two.
RowFine(i) ==
  /\ row[i].state = "absent" => row[i] = NoRow
  /\ row[i].baseline # None => \A p \in Paths : row[i].baseline[p] # i
  /\ row[i].state = "complete" =>
       /\ row[i].matched \cup row[i].unrecorded = Changed(row[i].baseline, row[i].outcome)
       /\ row[i].matched \cap row[i].unrecorded = {}

\* What an allowance of a hook rests on.
AllowedOn(i) ==
  /\ row[i].state # "absent"
  /\ row[i].pre # None
  /\ ~row[i].denied
  /\ EffectOf[i] # "no_product_write" => row[i].baseline # None

\* An allowed tool has its row, and a tool that has not run has written nothing.
HostFine(i) ==
  /\ host[i] \in {"allowed", "ran"} => AllowedOn(i)
  /\ host[i] \notin {"ran", "ran_unguarded"} => \A p \in Paths : repo[p] # i

Boundaries == {"post_tool_not_observed", "managed_session_terminated"}

\* What a hook holds between its reads and its transaction.
HookFine(h) ==
  LET i == hook[h].of
      plan == hook[h].plan
  IN /\ hook[h].phase \in {"pre", "answer", "post"} => i \in Invocations
     /\ hook[h].phase = "prompt" => i \in Sessions \X Turns
     /\ hook[h].phase = "pre" =>
          /\ plan.reason \notin Boundaries
          /\ plan.reason = None => plan.snapshot # None
          /\ plan.snapshot # None => \A p \in Paths : plan.snapshot[p] # i
          /\ plan.snapshot = None /\ EffectOf[i] # "no_product_write" => plan.denied
     /\ hook[h].phase = "answer" /\ ~plan.denied => AllowedOn(i)
     /\ hook[h].phase = "post" =>
          /\ plan.reason = None => plan.snapshot # None
          /\ plan.reason \in Boundaries =>
               row[i].state = "unavailable" /\ row[i].reason = plan.reason

IInv ==
  /\ TypeOK
  /\ \A i \in Invocations : RowFine(i) /\ HostFine(i)
  /\ \A h \in Hooks : HookFine(h)
  /\ ClosedByItsBoundary

-----------------------------------------------------------------------------
(* The rows the transactions write.                                        *)

\* None is apart from what it stands for the absence of.
LEMMA NoneApart ==
  /\ \A t \in Times : t # None
  /\ \A r \in Reasons : r # None
  /\ \A s \in Snapshots : s # None
  BY GuardDistinct

LEMMA PreRowFacts ==
  ASSUME NEW i \in Invocations, NEW at \in Times, NEW plan \in Plans,
         plan.reason = None => plan.snapshot # None
  PROVE  LET r == PreRow(i, at, plan)
         IN /\ r \in Rows /\ FitsSchema(r)
            /\ r.state \in {"open", "unavailable"}
            /\ r.reason = plan.reason /\ r.pre = at /\ r.denied = plan.denied
            /\ r.baseline = plan.snapshot
<1>1. /\ plan.reason \in Reasons \cup {None} /\ plan.denied \in BOOLEAN
      /\ plan.snapshot \in Snapshots \cup {None} /\ plan.expected \in SUBSET Paths
  BY DEF Plans
<1>2. NoRow \in Rows
  BY SMT, GuardAssumption DEF NoRow, Rows, Times
<1>3. at # None
  BY NoneApart
<1> DEFINE st == IF plan.reason = None THEN "open" ELSE "unavailable"
           done == IF plan.reason = None THEN None ELSE at
<1>4. /\ st \in {"open", "unavailable"} /\ (st = "open" <=> plan.reason = None)
      /\ done \in Times \cup {None} /\ (done = None <=> plan.reason = None)
  BY <1>3
<1>5. PreRow(i, at, plan) =
        [NoRow EXCEPT !.state = st, !.reason = plan.reason, !.pre = at, !.denied = plan.denied,
                      !.baseline = plan.snapshot, !.started = at, !.completed = done,
                      !.expected = plan.expected]
  BY DEF PreRow
<1> HIDE DEF st, done
<1>6. PreRow(i, at, plan) =
        [state |-> st, reason |-> plan.reason, pre |-> at, denied |-> plan.denied,
         post |-> None, baseline |-> plan.snapshot, outcome |-> None, started |-> at,
         completed |-> done, expected |-> plan.expected, matched |-> {}, unrecorded |-> {}]
  BY <1>5 DEF NoRow
<1> QED BY SMT, <1>1, <1>3, <1>4, <1>6 DEF Rows, FitsSchema

LEMMA CompleteRowFacts ==
  ASSUME NEW r \in Rows, FitsSchema(r), r.state = "open",
         NEW at \in Times, NEW after \in Snapshots
  PROVE  LET c == CompleteRow(r, at, after)
         IN /\ c \in Rows /\ FitsSchema(c)
            /\ c.state = "complete" /\ c.reason = None
            /\ c.pre = r.pre /\ c.denied = r.denied /\ c.baseline = r.baseline
            /\ c.started = r.started
            /\ c.matched \cup c.unrecorded = Changed(c.baseline, c.outcome)
            /\ c.matched \cap c.unrecorded = {}
<1> DEFINE delta == Changed(r.baseline, after)
           m == Covered(r, delta)
<1>1. at # None /\ after # None
  BY NoneApart
<1>2. delta \in SUBSET Paths /\ m \in SUBSET delta
  BY DEF Changed, Covered
<1>3. CompleteRow(r, at, after) =
        [r EXCEPT !.state = "complete", !.post = at, !.completed = at, !.outcome = after,
                  !.matched = m, !.unrecorded = delta \ m]
  BY DEF CompleteRow
<1> HIDE DEF m
<1>4. m \cup (delta \ m) = delta /\ m \cap (delta \ m) = {}
  BY <1>2
<1> HIDE DEF delta
<1>5. CompleteRow(r, at, after) =
        [state |-> "complete", reason |-> r.reason, pre |-> r.pre, denied |-> r.denied,
         post |-> at, baseline |-> r.baseline, outcome |-> after, started |-> r.started,
         completed |-> at, expected |-> r.expected, matched |-> m, unrecorded |-> delta \ m]
  BY <1>3 DEF Rows
<1>6. /\ r.reason = None /\ r.pre # None /\ r.baseline # None
  BY DEF FitsSchema
<1>7. CompleteRow(r, at, after) \in Rows
  BY SMT, <1>2, <1>5 DEF Rows
<1>8. FitsSchema(CompleteRow(r, at, after))
  BY SMT, <1>1, <1>5, <1>6 DEF FitsSchema
<1> QED BY SMT, <1>4, <1>5, <1>6, <1>7, <1>8 DEF delta

LEMMA UnavailableRowFacts ==
  ASSUME NEW r \in Rows, FitsSchema(r), r.state # "complete", r.state = "absent" => r = NoRow,
         NEW at \in Times, NEW reason \in Reasons
  PROVE  LET u == UnavailableRow(r, at, reason)
         IN /\ u \in Rows /\ FitsSchema(u)
            /\ u.state = "unavailable" /\ u.reason = reason
            /\ u.pre = r.pre /\ u.denied = r.denied /\ u.baseline = r.baseline
            /\ r.state # "absent" => u.started = r.started
<1>1. at # None /\ reason # None
  BY NoneApart
<1>2. r.outcome = None /\ (r.baseline # None => r.pre # None)
  <2>1. CASE r.state = "absent"
    BY SMT, <2>1 DEF NoRow
  <2> QED BY <2>1 DEF FitsSchema, Rows
<1> DEFINE start == IF r.state = "absent" THEN at ELSE r.started
<1>a. start \in Times /\ (r.state # "absent" => start = r.started)
  BY DEF Rows
<1>b. UnavailableRow(r, at, reason) =
        [r EXCEPT !.state = "unavailable", !.reason = reason, !.post = at, !.completed = at,
                  !.started = start]
  BY DEF UnavailableRow
<1> HIDE DEF start
<1>3. UnavailableRow(r, at, reason) =
        [state |-> "unavailable", reason |-> reason, pre |-> r.pre, denied |-> r.denied,
         post |-> at, baseline |-> r.baseline, outcome |-> r.outcome,
         started |-> start, completed |-> at, expected |-> r.expected, matched |-> r.matched,
         unrecorded |-> r.unrecorded]
  BY <1>b DEF Rows
<1>4. UnavailableRow(r, at, reason) \in Rows
  BY SMT, <1>3, <1>a DEF Rows
<1>5. FitsSchema(UnavailableRow(r, at, reason))
  BY SMT, <1>1, <1>2, <1>3 DEF FitsSchema
<1> QED BY SMT, <1>3, <1>4, <1>5, <1>a

\* What Closed makes of a row.
ClosedRow(r, reason, at) == [r EXCEPT !.state = "unavailable", !.reason = reason, !.completed = at]

LEMMA ClosedRowFacts ==
  ASSUME NEW r \in Rows, FitsSchema(r), r.state = "open", NEW at \in Times, NEW reason \in Reasons
  PROVE  LET c == ClosedRow(r, reason, at)
         IN /\ c \in Rows /\ FitsSchema(c)
            /\ c.state = "unavailable" /\ c.reason = reason
            /\ c.pre = r.pre /\ c.denied = r.denied /\ c.baseline = r.baseline
            /\ c.started = r.started
<1> DEFINE c == ClosedRow(r, reason, at)
<1>1. at # None /\ reason # None
  BY NoneApart
<1> HIDE DEF c
<1>d. c = [r EXCEPT !.state = "unavailable", !.reason = reason, !.completed = at]
  BY DEF c, ClosedRow
<1>2. c = [state |-> "unavailable", reason |-> reason, pre |-> r.pre, denied |-> r.denied,
           post |-> r.post, baseline |-> r.baseline, outcome |-> r.outcome,
           started |-> r.started, completed |-> at, expected |-> r.expected,
           matched |-> r.matched, unrecorded |-> r.unrecorded]
  BY <1>d DEF Rows
<1>3. r.outcome = None /\ r.pre # None
  BY DEF FitsSchema
<1>4. c \in Rows
  BY SMT, <1>2 DEF Rows
<1>5. FitsSchema(c)
  BY SMT, <1>1, <1>2, <1>3 DEF FitsSchema
<1>6. /\ c.state = "unavailable" /\ c.reason = reason
      /\ c.pre = r.pre /\ c.denied = r.denied /\ c.baseline = r.baseline
      /\ c.started = r.started
  BY <1>2
<1> QED BY <1>4, <1>5, <1>6 DEF c

-----------------------------------------------------------------------------
(* What lasts.                                                             *)

\* What no step changes of a row that exists.
RowKept(i) ==
  /\ row[i].state # "absent" =>
       /\ row'[i].state # "absent"
       /\ row'[i].pre = row[i].pre /\ row'[i].denied = row[i].denied
       /\ row'[i].baseline = row[i].baseline /\ row'[i].started = row[i].started
  /\ row[i].state = "unavailable" =>
       row'[i].state = "unavailable" /\ row'[i].reason = row[i].reason

RowsKept == \A i \in Invocations : RowKept(i)

HookRows == [phase : {"new", "pre", "answer", "post", "prompt", "done"},
             of : Invocations \cup (Sessions \X Turns) \cup {None},
             at : Times, plan : Plans]

LEMMA HookTyped ==
  ASSUME IInv
  PROVE  /\ hook \in [Hooks -> HookRows]
         /\ \A h \in Hooks : hook[h].at \in Times /\ hook[h].plan \in Plans
  BY DEF IInv, TypeOK, HookRows

LEMMA RowTyped ==
  ASSUME IInv, NEW i \in Invocations
  PROVE  /\ row[i] \in Rows /\ FitsSchema(row[i]) /\ RowFine(i) /\ HostFine(i)
         /\ row[i].state \in {"absent", "open", "complete", "unavailable"}
  BY DEF IInv, TypeOK, Rows

LEMMA Untouched ==
  ASSUME IInv, UNCHANGED row
  PROVE  RowsKept /\ \A i \in Invocations : RowFine(i)'
  BY DEF IInv, RowFine, RowsKept, RowKept, Changed

\* An allowance outlives every step.
LEMMA AllowedKept ==
  ASSUME NEW i \in Invocations, RowsKept, AllowedOn(i)
  PROVE  AllowedOn(i)'
  BY DEF RowsKept, RowKept, AllowedOn

\* What a hook holds outlives every step of the others.
LEMMA HookKept ==
  ASSUME IInv, NEW h \in Hooks, RowsKept, hook'[h] = hook[h]
  PROVE  HookFine(h)'
<1>1. HookFine(h)
  BY DEF IInv
<1>2. hook[h].phase = "answer" /\ ~hook[h].plan.denied => AllowedOn(hook[h].of)'
  <2> SUFFICES ASSUME hook[h].phase = "answer", ~hook[h].plan.denied
               PROVE  AllowedOn(hook[h].of)'
    OBVIOUS
  <2>1. hook[h].of \in Invocations /\ AllowedOn(hook[h].of)
    BY <1>1 DEF HookFine
  <2>2. hook'[h].of = hook[h].of
    OBVIOUS
  <2> QED BY <2>1, <2>2 DEF RowsKept, RowKept, AllowedOn
<1>3. hook[h].phase = "post" /\ hook[h].plan.reason \in Boundaries =>
        row'[hook[h].of].state = "unavailable" /\ row'[hook[h].of].reason = hook[h].plan.reason
  BY <1>1 DEF HookFine, RowsKept, RowKept
<1> QED BY <1>1, <1>2, <1>3 DEF HookFine

LEMMA HooksAfter ==
  ASSUME IInv, NEW h \in Hooks, RowsKept, NEW v \in HookRows,
         hook' = [hook EXCEPT ![h] = v], HookFine(h)'
  PROVE  /\ hook' \in [Hooks -> HookRows]
         /\ \A g \in Hooks : HookFine(g)'
<1>1. hook' \in [Hooks -> HookRows] /\ \A g \in Hooks \ {h} : hook'[g] = hook[g]
  BY HookTyped
<1> QED BY <1>1, HookKept

LEMMA NoHooksAfter ==
  ASSUME IInv, RowsKept, UNCHANGED hook
  PROVE  /\ hook' \in [Hooks -> HookRows]
         /\ \A g \in Hooks : HookFine(g)'
  BY HookTyped, HookKept

LEMMA NoPlanType == NoPlan \in Plans
  BY SMT DEF NoPlan, Plans

\* A hook that ended holds nothing.
LEMMA FinishAfter ==
  ASSUME IInv, NEW h \in Hooks, RowsKept, Finish(h)
  PROVE  /\ hook' \in [Hooks -> HookRows]
         /\ \A g \in Hooks : HookFine(g)'
<1> DEFINE v == [NoHook EXCEPT !.phase = "done"]
<1>1. v = [phase |-> "done", of |-> None, at |-> 0, plan |-> NoPlan]
  BY SMT DEF NoHook
<1>2. hook' = [hook EXCEPT ![h] = v]
  BY DEF Finish
<1> HIDE DEF v
<1>3. v \in HookRows
  BY SMT, <1>1, NoPlanType, GuardAssumption DEF HookRows, Times
<1>4. hook'[h].phase = "done"
  BY <1>1, <1>2, HookTyped
<1>5. HookFine(h)'
  BY <1>4 DEF HookFine
<1> QED BY <1>2, <1>3, <1>5, HooksAfter

\* A hook that starts holds what it read.
LEMMA StartAfter ==
  ASSUME IInv, NEW h \in Hooks, RowsKept, NEW phase \in {"pre", "post", "prompt"},
         NEW of \in Invocations \cup (Sessions \X Turns), NEW plan \in Plans,
         Start(h, phase, of, plan)
  PROVE  /\ hook' \in [Hooks -> HookRows]
         /\ hook'[h] = [phase |-> phase, of |-> of, at |-> clock, plan |-> plan]
         /\ HookFine(h)' => \A g \in Hooks : HookFine(g)'
<1> DEFINE v == [phase |-> phase, of |-> of, at |-> clock, plan |-> plan]
<1>1. clock \in Times
  BY DEF IInv, TypeOK
<1>2. v \in HookRows
  BY <1>1 DEF HookRows
<1>3. hook' = [hook EXCEPT ![h] = v]
  BY DEF Start
<1>4. hook' \in [Hooks -> HookRows] /\ hook'[h] = v
  <2> HIDE DEF v
  <2> QED BY <1>2, <1>3, HookTyped
<1> HIDE DEF v
<1>5. HookFine(h)' => \A g \in Hooks : HookFine(g)'
  BY <1>2, <1>3, HooksAfter
<1> QED BY <1>4, <1>5 DEF v

\* The row of a hook that leaves its transaction.
Answering(r, plan) == [r EXCEPT !.phase = "answer", !.plan = plan]

LEMMA AnswerRow ==
  ASSUME NEW r \in HookRows, NEW plan \in Plans
  PROVE  /\ Answering(r, plan) \in HookRows
         /\ Answering(r, plan).phase = "answer"
         /\ Answering(r, plan).plan = plan
         /\ Answering(r, plan).of = r.of
<1>1. Answering(r, plan) = [phase |-> "answer", of |-> r.of, at |-> r.at, plan |-> plan]
  <2>1. PICK v : v = [r EXCEPT !.phase = "answer", !.plan = plan]
    OBVIOUS
  <2>2. v = [phase |-> "answer", of |-> r.of, at |-> r.at, plan |-> plan]
    BY <2>1 DEF HookRows
  <2> QED BY <2>1, <2>2 DEF Answering
<1> QED BY SMT, <1>1 DEF HookRows

\* A hook that decided holds its decision.
LEMMA DecidedAfter ==
  ASSUME IInv, NEW h \in Hooks, RowsKept, NEW denied \in BOOLEAN, Decided(h, denied),
         NEW i \in Invocations, hook[h].of = i, ~denied => AllowedOn(i)'
  PROVE  /\ hook' \in [Hooks -> HookRows]
         /\ \A g \in Hooks : HookFine(g)'
<1> DEFINE plan == [NoPlan EXCEPT !.denied = denied]
           v == Answering(hook[h], plan)
<1>1. plan = [reason |-> None, denied |-> denied, snapshot |-> None, expected |-> {}]
  BY SMT DEF NoPlan
<1>2. plan \in Plans /\ plan.denied = denied
  BY <1>1 DEF Plans
<1>3. hook' = [hook EXCEPT ![h] = v]
  BY HookTyped DEF Decided, Answering
<1>4. v \in HookRows /\ v.phase = "answer" /\ v.plan = plan /\ v.of = hook[h].of
  <2> HIDE DEF plan
  <2> QED BY <1>2, HookTyped, AnswerRow
<1> HIDE DEF v, plan
<1>5. hook'[h] = v
  BY <1>3, HookTyped
<1>6. hook'[h].phase = "answer" /\ hook'[h].plan.denied = denied /\ hook'[h].of = i
  BY <1>2, <1>4, <1>5
<1>7. HookFine(h)'
  BY <1>6 DEF HookFine, AllowedOn
<1> QED BY <1>3, <1>4, <1>7, HooksAfter

-----------------------------------------------------------------------------
(* The steps.                                                              *)

\* The state of an invocation moves only the ways the host moves it.
HostMoves(i) ==
  \/ host'[i] = host[i]
  \/ host[i] \notin {"ran", "ran_unguarded"} /\ host'[i] \in {"asked", "denied", "unguarded"}
  \/ host[i] = "asked" /\ host'[i] = "allowed" /\ AllowedOn(i)

LEMMA HostAfter ==
  ASSUME IInv, RowsKept, UNCHANGED repo, NEW i \in Invocations, HostMoves(i)
  PROVE  HostFine(i)'
<1>1. HostFine(i)
  BY DEF IInv
<1>2. AllowedOn(i) => AllowedOn(i)'
  BY AllowedKept
<1> QED BY <1>1, <1>2 DEF HostFine, HostMoves

\* A step that leaves the rows, the repository and the boundaries alone.
LEMMA QuietStep ==
  ASSUME IInv, UNCHANGED <<repo, row, captured, ended>>,
         \A i \in Invocations : HostMoves(i),
         hook' \in [Hooks -> HookRows], \A h \in Hooks : HookFine(h)',
         clock' \in Times, setup' \in BOOLEAN, host' \in [Invocations -> HostStates],
         tickets' \in [Tickets -> {"none", "active", "stale"}]
  PROVE  IInv'
<1>1. TypeOK'
  BY DEF IInv, TypeOK, HookRows
<1>2. \A i \in Invocations : RowFine(i)' /\ HostFine(i)'
  BY Untouched, HostAfter
<1>3. ClosedByItsBoundary'
  BY DEF IInv, ClosedByItsBoundary
<1> QED BY <1>1, <1>2, <1>3 DEF IInv

LEMMA Frame ==
  ASSUME IInv
  PROVE  /\ clock \in Times /\ setup \in BOOLEAN /\ host \in [Invocations -> HostStates]
         /\ repo \in Snapshots
         /\ tickets \in [Tickets -> {"none", "active", "stale"}]
  BY DEF IInv, TypeOK

\* The plan of PreToolUse: open only over a snapshot, no allowance to write
\* without one.
LEMMA PrePlanFacts ==
  ASSUME NEW i \in Invocations, NEW snapshot \in Snapshots \cup {None}
  PROVE  LET plan == PrePlan(i, snapshot)
         IN /\ plan \in Plans /\ plan.snapshot = snapshot
            /\ plan.reason \in {"snapshot_unavailable", "invocation_denied", None}
            /\ plan.reason = None => snapshot # None
            /\ snapshot = None /\ EffectOf[i] # "no_product_write" => plan.denied
<1> DEFINE denied == Denied(i, snapshot)
           reason == IF snapshot = None THEN "snapshot_unavailable"
                     ELSE IF denied THEN "invocation_denied" ELSE None
           expected == ExpectedPaths(i, denied)
<1>1. denied \in BOOLEAN /\ (snapshot = None /\ EffectOf[i] # "no_product_write" => denied)
  BY DEF Denied
<1>2. expected \in SUBSET Paths
  BY GuardAssumption DEF ExpectedPaths
<1>3. PrePlan(i, snapshot) = [reason |-> reason, denied |-> denied, snapshot |-> snapshot,
                              expected |-> expected]
  BY DEF PrePlan
<1> HIDE DEF denied, expected
<1>4. /\ reason \in {"snapshot_unavailable", "invocation_denied", None}
      /\ reason = None => snapshot # None
  BY GuardDistinct DEF Reasons
<1>5. reason \in Reasons \cup {None}
  BY <1>4 DEF Reasons
<1> HIDE DEF reason
<1>6. PrePlan(i, snapshot) \in Plans
  BY SMT, <1>1, <1>2, <1>3, <1>5 DEF Plans
<1> QED BY SMT, <1>1, <1>3, <1>4, <1>6

LEMMA PreToolPlanKeeps ==
  ASSUME IInv, NEW h \in Hooks, NEW i \in Invocations, PreToolPlan(h, i)
  PROVE  IInv'
<1>1. RowsKept
  BY Untouched DEF PreToolPlan
<1>2. PICK snapshot \in {repo, None} : Start(h, "pre", i, PrePlan(i, snapshot))
  BY DEF PreToolPlan
<1>3. snapshot \in Snapshots \cup {None}
  BY Frame
<1> DEFINE plan == PrePlan(i, snapshot)
<1>4. /\ plan \in Plans /\ plan.snapshot = snapshot
      /\ plan.reason \in {"snapshot_unavailable", "invocation_denied", None}
      /\ plan.reason = None => snapshot # None
      /\ snapshot = None /\ EffectOf[i] # "no_product_write" => plan.denied
  BY <1>3, PrePlanFacts
<1>5. snapshot # None => \A p \in Paths : snapshot[p] # i
  <2>1. HostFine(i) /\ host[i] \notin {"ran", "ran_unguarded"}
    BY DEF IInv, PreToolPlan
  <2> QED BY <2>1 DEF HostFine
<1>6. plan.reason \notin Boundaries
  BY <1>4, GuardDistinct DEF Boundaries, Reasons
<1> HIDE DEF plan
<1>7. /\ hook' \in [Hooks -> HookRows]
      /\ hook'[h] = [phase |-> "pre", of |-> i, at |-> clock, plan |-> plan]
      /\ HookFine(h)' => \A g \in Hooks : HookFine(g)'
  BY <1>1, <1>2, <1>4, StartAfter DEF plan
<1>8. /\ hook'[h].phase = "pre" /\ hook'[h].of = i /\ hook'[h].plan = plan
  BY SMT, <1>7
<1>9. HookFine(h)'
  <2>1. /\ plan.reason = None => plan.snapshot # None
        /\ plan.snapshot # None => \A p \in Paths : plan.snapshot[p] # i
        /\ plan.snapshot = None /\ EffectOf[i] # "no_product_write" => plan.denied
    BY <1>4, <1>5
  <2> QED BY <1>6, <1>8, <2>1 DEF HookFine
<1>10. host' \in [Invocations -> HostStates] /\ \A j \in Invocations : HostMoves(j)
  BY Frame DEF PreToolPlan, HostMoves, HostStates
<1> QED BY <1>7, <1>9, <1>10, QuietStep, Frame DEF PreToolPlan

LEMMA PreToolDuringSetupKeeps ==
  ASSUME IInv, NEW i \in Invocations, PreToolDuringSetup(i)
  PROVE  IInv'
<1>1. host' \in [Invocations -> HostStates] /\ \A j \in Invocations : HostMoves(j)
  BY Frame DEF PreToolDuringSetup, HostMoves, HostStates
<1>2. RowsKept
  BY Untouched DEF PreToolDuringSetup
<1> QED BY <1>1, <1>2, NoHooksAfter, QuietStep, Frame DEF PreToolDuringSetup

LEMMA PreToolFailsKeeps ==
  ASSUME IInv, NEW h \in Hooks, PreToolFails(h)
  PROVE  IInv'
<1>1. RowsKept
  BY Untouched DEF PreToolFails
<1>2. PICK i \in Invocations : hook[h].of = i
  BY DEF IInv, HookFine, PreToolFails
<1>3. hook' \in [Hooks -> HookRows] /\ \A g \in Hooks : HookFine(g)'
  BY <1>1, <1>2, DecidedAfter DEF PreToolFails
<1>4. \A j \in Invocations : HostMoves(j)
  BY DEF PreToolFails, HostMoves
<1> QED BY <1>3, <1>4, QuietStep, Frame DEF PreToolFails

\* An answer reaches a host that still waits for one.
LEMMA AnswerAfter ==
  ASSUME IInv, NEW i \in Invocations, NEW reply \in {"allowed", "denied", "unguarded"},
         Answer(i, reply), reply = "allowed" => AllowedOn(i)
  PROVE  host' \in [Invocations -> HostStates] /\ \A j \in Invocations : HostMoves(j)
  BY Frame DEF Answer, HostMoves, HostStates

LEMMA PreToolAnswerKeeps ==
  ASSUME IInv, NEW h \in Hooks, PreToolAnswer(h)
  PROVE  IInv'
<1>1. RowsKept
  BY Untouched DEF PreToolAnswer
<1>2. HookFine(h) /\ hook[h].phase = "answer"
  BY DEF IInv, PreToolAnswer
<1>3. PICK reply \in {"allowed", "denied"} :
        Answer(hook[h].of, reply) /\ (reply = "allowed" => ~hook[h].plan.denied)
  BY DEF PreToolAnswer
<1>4. hook[h].of \in Invocations /\ (reply = "allowed" => AllowedOn(hook[h].of))
  BY <1>2, <1>3 DEF HookFine
<1>5. host' \in [Invocations -> HostStates] /\ \A j \in Invocations : HostMoves(j)
  BY <1>3, <1>4, AnswerAfter
<1> QED BY <1>1, <1>5, FinishAfter, QuietStep, Frame DEF PreToolAnswer

LEMMA HookDiesKeeps ==
  ASSUME IInv, NEW h \in Hooks, HookDies(h)
  PROVE  IInv'
<1>1. RowsKept
  BY Untouched DEF HookDies
<1>2. host' \in [Invocations -> HostStates] /\ \A j \in Invocations : HostMoves(j)
  <2>1. CASE hook[h].phase \in {"pre", "answer"}
    <3>1. hook[h].of \in Invocations /\ Answer(hook[h].of, "unguarded")
      BY <2>1 DEF IInv, HookFine, HookDies
    <3> QED BY <3>1, AnswerAfter
  <2>2. CASE hook[h].phase \notin {"pre", "answer"}
    BY <2>2, Frame DEF HookDies, HostMoves
  <2> QED BY <2>1, <2>2
<1> QED BY <1>1, <1>2, FinishAfter, QuietStep, Frame DEF HookDies

LEMMA RunToolKeeps ==
  ASSUME IInv, NEW i \in Invocations, RunTool(i)
  PROVE  IInv'
<1>1. RowsKept /\ \A j \in Invocations : RowFine(j)'
  BY Untouched DEF RunTool
<1>2. PICK written \in SUBSET Paths :
        repo' = [p \in Paths |-> IF p \in written THEN i ELSE repo[p]]
  BY DEF RunTool
<1>3. /\ host[i] \in {"allowed", "unguarded"}
      /\ host' = [host EXCEPT ![i] = IF host[i] = "allowed" THEN "ran" ELSE "ran_unguarded"]
  BY DEF RunTool
<1>4. repo' \in Snapshots
  BY <1>2, Frame DEF Snapshots, Writers
<1>5. host' \in [Invocations -> HostStates]
  BY <1>3, Frame DEF HostStates
<1>6. ASSUME NEW j \in Invocations PROVE HostFine(j)'
  <2>1. HostFine(j) /\ HostFine(i)
    BY DEF IInv
  <2>2. AllowedOn(j) => AllowedOn(j)'
    BY <1>1, AllowedKept
  <2>3. CASE j = i
    <3>1. host'[i] \in {"ran", "ran_unguarded"} /\ (host'[i] = "ran" => host[i] = "allowed")
      BY <1>3, Frame
    <3> QED BY <2>1, <2>2, <2>3, <3>1 DEF HostFine
  <2>4. CASE j # i
    <3>1. host'[j] = host[j]
      BY <1>3, <2>4, Frame
    <3>2. \A p \in Paths : repo[p] # j => repo'[p] # j
      BY <1>2, <2>4
    <3> QED BY <2>1, <2>2, <3>1, <3>2 DEF HostFine
  <2> QED BY <2>3, <2>4
<1>7. hook' \in [Hooks -> HookRows] /\ \A h \in Hooks : HookFine(h)'
  BY <1>1, NoHooksAfter DEF RunTool
<1>8. TypeOK'
  BY <1>4, <1>5, <1>7 DEF IInv, TypeOK, RunTool, HookRows
<1>9. ClosedByItsBoundary'
  BY DEF IInv, ClosedByItsBoundary, RunTool
<1> QED BY <1>1, <1>6, <1>7, <1>8, <1>9 DEF IInv

LEMMA UserEditsKeeps ==
  ASSUME IInv, NEW q \in UserPaths, UserEdits(q)
  PROVE  IInv'
<1>1. RowsKept /\ \A j \in Invocations : RowFine(j)'
  BY Untouched DEF UserEdits
<1>2. q \in Paths /\ repo' = [repo EXCEPT ![q] = "user"] /\ UNCHANGED host
  BY GuardAssumption DEF UserEdits
<1>3. repo' \in Snapshots
  BY <1>2, Frame DEF Snapshots, Writers
<1>4. ASSUME NEW j \in Invocations PROVE HostFine(j)'
  <2>1. HostFine(j) /\ j # "user"
    BY GuardDistinct DEF IInv
  <2>2. AllowedOn(j) => AllowedOn(j)'
    BY <1>1, AllowedKept
  <2>3. \A p \in Paths : repo[p] # j => repo'[p] # j
    BY <1>2, <2>1, Frame DEF Snapshots
  <2> QED BY <1>2, <2>1, <2>2, <2>3 DEF HostFine
<1>5. hook' \in [Hooks -> HookRows] /\ \A h \in Hooks : HookFine(h)'
  BY <1>1, NoHooksAfter DEF UserEdits
<1>6. TypeOK'
  BY <1>3, <1>5 DEF IInv, TypeOK, UserEdits, HookRows
<1>7. ClosedByItsBoundary'
  BY DEF IInv, ClosedByItsBoundary, UserEdits
<1> QED BY <1>1, <1>4, <1>5, <1>6, <1>7 DEF IInv

LEMMA NoPlanWith ==
  ASSUME NEW reason, NEW snapshot
  PROVE  /\ [NoPlan EXCEPT !.snapshot = snapshot] =
              [reason |-> None, denied |-> FALSE, snapshot |-> snapshot, expected |-> {}]
         /\ [NoPlan EXCEPT !.reason = reason] =
              [reason |-> reason, denied |-> FALSE, snapshot |-> None, expected |-> {}]
<1>1. PICK v : v = [NoPlan EXCEPT !.snapshot = snapshot]
  OBVIOUS
<1>2. v = [reason |-> None, denied |-> FALSE, snapshot |-> snapshot, expected |-> {}]
  BY <1>1 DEF NoPlan
<1>3. PICK w : w = [NoPlan EXCEPT !.reason = reason]
  OBVIOUS
<1>4. w = [reason |-> reason, denied |-> FALSE, snapshot |-> None, expected |-> {}]
  BY <1>3 DEF NoPlan
<1> QED BY <1>1, <1>2, <1>3, <1>4

\* The plans of PostToolUse: to complete only over a snapshot, and the reason of
\* a boundary only from a row that has it.
LEMMA PostPlansFacts ==
  ASSUME IInv, NEW i \in Invocations, NEW plan \in PostPlans(i)
  PROVE  /\ plan \in Plans
         /\ plan.reason = None => plan.snapshot # None
         /\ plan.reason \in Boundaries =>
              row[i].state = "unavailable" /\ row[i].reason = plan.reason
<1>1. row[i] \in Rows /\ FitsSchema(row[i])
  BY RowTyped
<1>2. repo \in Snapshots /\ repo # None
  BY Frame, NoneApart
<1>3. CASE plan = [NoPlan EXCEPT !.snapshot = repo]
  <2>1. plan = [reason |-> None, denied |-> FALSE, snapshot |-> repo, expected |-> {}]
    BY <1>3, NoPlanWith
  <2>2. plan \in Plans /\ plan.reason = None /\ plan.snapshot # None
    BY SMT, <1>2, <2>1 DEF Plans
  <2> QED BY <2>2, NoneApart DEF Boundaries, Reasons
<1>4. ASSUME NEW reason \in Reasons, plan = [NoPlan EXCEPT !.reason = reason]
      PROVE  plan \in Plans /\ plan.reason = reason /\ reason # None
  <2>1. plan = [reason |-> reason, denied |-> FALSE, snapshot |-> None, expected |-> {}]
    BY <1>4, NoPlanWith
  <2> QED BY SMT, <2>1, NoneApart DEF Plans
<1>5. CASE plan = [NoPlan EXCEPT !.reason = "snapshot_unavailable"]
  BY <1>4, <1>5 DEF Boundaries, Reasons
<1>6. CASE plan = [NoPlan EXCEPT !.reason = "missing_open_observation"]
  BY <1>4, <1>6 DEF Boundaries, Reasons
<1>7. CASE row[i].state = "unavailable" /\ plan = [NoPlan EXCEPT !.reason = row[i].reason]
  <2>1. row[i].reason \in Reasons
    BY <1>1, <1>7 DEF Rows, FitsSchema
  <2> QED BY <1>4, <1>7, <2>1
<1> QED BY <1>3, <1>5, <1>6, <1>7 DEF PostPlans

LEMMA PostToolPlanKeeps ==
  ASSUME IInv, NEW h \in Hooks, NEW i \in Invocations, PostToolPlan(h, i)
  PROVE  IInv'
<1>1. RowsKept
  BY Untouched DEF PostToolPlan
<1>2. PICK plan \in PostPlans(i) : Start(h, "post", i, plan)
  BY DEF PostToolPlan
<1>3. /\ plan \in Plans
      /\ plan.reason = None => plan.snapshot # None
      /\ plan.reason \in Boundaries =>
           row'[i].state = "unavailable" /\ row'[i].reason = plan.reason
  BY PostPlansFacts DEF PostToolPlan
<1>4. /\ hook' \in [Hooks -> HookRows]
      /\ hook'[h] = [phase |-> "post", of |-> i, at |-> clock, plan |-> plan]
      /\ HookFine(h)' => \A g \in Hooks : HookFine(g)'
  BY <1>1, <1>2, <1>3, StartAfter
<1>5. hook'[h].phase = "post" /\ hook'[h].of = i /\ hook'[h].plan = plan
  BY SMT, <1>4
<1>6. HookFine(h)'
  BY <1>3, <1>5 DEF HookFine
<1>7. \A j \in Invocations : HostMoves(j)
  BY DEF PostToolPlan, HostMoves
<1> QED BY <1>4, <1>6, <1>7, QuietStep, Frame DEF PostToolPlan

LEMMA PromptStartKeeps ==
  ASSUME IInv, NEW h \in Hooks, NEW s \in Sessions, NEW t \in Turns, PromptStart(h, s, t)
  PROVE  IInv'
<1>1. RowsKept
  BY Untouched DEF PromptStart
<1>2. <<s, t>> \in Sessions \X Turns
  OBVIOUS
<1>3. /\ hook' \in [Hooks -> HookRows]
      /\ hook'[h] = [phase |-> "prompt", of |-> <<s, t>>, at |-> clock, plan |-> NoPlan]
      /\ HookFine(h)' => \A g \in Hooks : HookFine(g)'
  BY <1>1, <1>2, NoPlanType, StartAfter DEF PromptStart
<1>4. hook'[h].phase = "prompt" /\ hook'[h].of = <<s, t>>
  BY SMT, <1>3
<1>5. HookFine(h)'
  BY <1>2, <1>4 DEF HookFine
<1>6. \A j \in Invocations : HostMoves(j)
  BY DEF PromptStart, HostMoves
<1> QED BY <1>3, <1>5, <1>6, QuietStep, Frame DEF PromptStart

-----------------------------------------------------------------------------
(* The steps that write rows.                                              *)

\* ClosedByItsBoundary for one invocation.
BoundaryFine(i) ==
  /\ row[i].reason = "post_tool_not_observed" =>
       \E t \in Turns \ {TurnOf[i]} :
         captured[SessionOf[i]][t] # None /\ captured[SessionOf[i]][t] >= row[i].started
  /\ row[i].reason = "managed_session_terminated" =>
       ended[SessionOf[i]] # None /\ ended[SessionOf[i]] >= row[i].started

\* The two boundaries are facts: nothing changes them.
BoundariesStand ==
  /\ \A s \in Sessions, t \in Turns : captured[s][t] # None => captured'[s][t] = captured[s][t]
  /\ \A s \in Sessions : ended[s] # None => ended'[s] = ended[s]

LEMMA BoundaryByRow == ClosedByItsBoundary <=> \A i \in Invocations : BoundaryFine(i)
  BY DEF ClosedByItsBoundary, BoundaryFine

LEMMA BoundaryByRowNext == ClosedByItsBoundary' <=> \A i \in Invocations : BoundaryFine(i)'
  BY DEF ClosedByItsBoundary, BoundaryFine

LEMMA BoundaryKept ==
  ASSUME IInv, BoundariesStand, NEW i \in Invocations,
         row'[i].reason = row[i].reason, row'[i].started = row[i].started
  PROVE  BoundaryFine(i)'
<1>1. BoundaryFine(i) /\ SessionOf[i] \in Sessions
  BY BoundaryByRow, GuardAssumption DEF IInv
<1> QED BY <1>1 DEF BoundaryFine, BoundariesStand

LEMMA BoundaryFree ==
  ASSUME NEW i \in Invocations, row'[i].reason \notin Boundaries
  PROVE  BoundaryFine(i)'
  BY DEF BoundaryFine, Boundaries

\* One row is written.
LEMMA OneRow ==
  ASSUME IInv, NEW i \in Invocations, NEW r, row' = [row EXCEPT ![i] = r]
  PROVE  /\ row'[i] = r
         /\ \A j \in Invocations \ {i} : row'[j] = row[j]
         /\ RowKept(i) => RowsKept
  BY DEF IInv, TypeOK, RowsKept, RowKept

LEMMA RowStep ==
  ASSUME IInv, NEW i \in Invocations, NEW r \in Rows, FitsSchema(r),
         row' = [row EXCEPT ![i] = r], RowKept(i), RowFine(i)', BoundaryFine(i)',
         UNCHANGED <<clock, setup, repo, tickets, host, captured, ended>>,
         hook' \in [Hooks -> HookRows], \A g \in Hooks : HookFine(g)'
  PROVE  IInv'
<1>1. row'[i] = r /\ RowsKept /\ \A j \in Invocations \ {i} : row'[j] = row[j]
  BY OneRow
<1>2. row' \in [Invocations -> Rows] /\ \A j \in Invocations : FitsSchema(row'[j])
  BY <1>1 DEF IInv, TypeOK
<1>3. TypeOK'
  BY <1>2 DEF IInv, TypeOK, HookRows
<1>4. \A j \in Invocations : RowFine(j)'
  <2> SUFFICES ASSUME NEW j \in Invocations \ {i} PROVE RowFine(j)'
    OBVIOUS
  <2>1. RowFine(j) /\ row'[j] = row[j]
    BY <1>1 DEF IInv
  <2> QED BY <2>1 DEF RowFine, Changed
<1>5. \A j \in Invocations : HostFine(j)'
  BY <1>1, HostAfter DEF HostMoves
<1>6. BoundariesStand
  BY DEF BoundariesStand
<1>7. \A j \in Invocations : BoundaryFine(j)'
  BY <1>1, <1>6, BoundaryKept
<1> QED BY <1>3, <1>4, <1>5, <1>7, BoundaryByRowNext DEF IInv

LEMMA PreToolPersistKeeps ==
  ASSUME IInv, NEW h \in Hooks, PreToolPersist(h)
  PROVE  IInv'
<1> DEFINE i == hook[h].of
           at == hook[h].at
           plan == hook[h].plan
<1>1. /\ i \in Invocations /\ at \in Times /\ plan \in Plans
      /\ plan.reason \notin Boundaries
      /\ plan.reason = None => plan.snapshot # None
      /\ plan.snapshot # None => \A p \in Paths : plan.snapshot[p] # i
      /\ plan.snapshot = None /\ EffectOf[i] # "no_product_write" => plan.denied
  BY HookTyped DEF IInv, HookFine, PreToolPersist
<1>2. plan.denied \in BOOLEAN
  BY <1>1 DEF Plans
<1>3. /\ row[i] \in Rows /\ FitsSchema(row[i]) /\ RowFine(i)
  BY <1>1, RowTyped
<1>4. UNCHANGED <<clock, setup, repo, tickets, host, captured, ended>>
  BY DEF PreToolPersist
<1>5. CASE row[i].state = "absent"
  <2> DEFINE r == PreRow(i, at, plan)
  <2>1. /\ r \in Rows /\ FitsSchema(r)
        /\ r.state \in {"open", "unavailable"}
        /\ r.reason = plan.reason /\ r.pre = at /\ r.denied = plan.denied
        /\ r.baseline = plan.snapshot
    BY <1>1, PreRowFacts
  <2>2. row' = [row EXCEPT ![i] = r] /\ Decided(h, plan.denied)
    BY <1>5 DEF PreToolPersist
  <2>3. PICK j \in Invocations : j = i
    BY <1>1
  <2> HIDE DEF r
  <2>4. row'[i] = r
    BY <1>1, <2>2, OneRow
  <2>5. RowKept(j) /\ RowsKept
    BY <1>1, <1>5, <2>2, <2>3, OneRow DEF RowKept
  <2>6. RowFine(j)'
    BY <1>1, <2>1, <2>3, <2>4 DEF RowFine
  <2>7. BoundaryFine(j)'
    BY <1>1, <2>1, <2>3, <2>4, BoundaryFree
  <2>8. ~plan.denied => AllowedOn(j)'
    BY <1>1, <2>1, <2>3, <2>4, NoneApart DEF AllowedOn
  <2>9. hook' \in [Hooks -> HookRows] /\ \A g \in Hooks : HookFine(g)'
    BY <1>2, <2>2, <2>3, <2>5, <2>8, DecidedAfter
  <2> QED BY <1>4, <2>1, <2>2, <2>3, <2>5, <2>6, <2>7, <2>9, RowStep
<1>6. CASE row[i].state # "absent"
  <2>1. UNCHANGED row /\ Decided(h, PreAnswer(row[i], at, plan))
    BY <1>6 DEF PreToolPersist
  <2>2. RowsKept
    BY <2>1, Untouched
  <2>3. PICK j \in Invocations : j = i
    BY <1>1
  <2>4. PICK d \in BOOLEAN : d = PreAnswer(row[i], at, plan)
    BY <1>3 DEF PreAnswer, Rows
  <2>5. ~d => AllowedOn(j)
    BY <1>1, <1>6, <2>3, <2>4 DEF PreAnswer, PreReplayMatches, AllowedOn
  <2>6. ~d => AllowedOn(j)'
    BY <2>2, <2>5, AllowedKept
  <2>7. hook' \in [Hooks -> HookRows] /\ \A g \in Hooks : HookFine(g)'
    BY <2>1, <2>2, <2>3, <2>4, <2>6, DecidedAfter
  <2>8. \A k \in Invocations : HostMoves(k)
    BY <1>4 DEF HostMoves
  <2> QED BY <1>4, <2>1, <2>7, <2>8, QuietStep, Frame
<1> QED BY <1>5, <1>6

LEMMA PostToolPersistKeeps ==
  ASSUME IInv, NEW h \in Hooks, PostToolPersist(h)
  PROVE  IInv'
<1> DEFINE at == hook[h].at
           plan == hook[h].plan
<1>1. PICK i \in Invocations : i = hook[h].of
  BY DEF IInv, HookFine, PostToolPersist
<1>2. /\ at \in Times /\ plan \in Plans
      /\ plan.reason = None => plan.snapshot # None
      /\ plan.reason \in Boundaries =>
           row[i].state = "unavailable" /\ row[i].reason = plan.reason
  BY <1>1, HookTyped DEF IInv, HookFine, PostToolPersist
<1>3. /\ plan.reason \in Reasons \cup {None} /\ plan.snapshot \in Snapshots \cup {None}
  BY <1>2 DEF Plans
<1>4. /\ row[i] \in Rows /\ FitsSchema(row[i]) /\ RowFine(i)
      /\ row[i].state \in {"absent", "open", "complete", "unavailable"}
  BY RowTyped
<1>5. UNCHANGED <<clock, setup, repo, tickets, host, captured, ended>> /\ Finish(h)
  BY DEF PostToolPersist
<1>6. CASE ~PostAccepted(row[i], plan)
  <2>1. UNCHANGED row
    BY <1>1, <1>6 DEF PostToolPersist
  <2>2. hook' \in [Hooks -> HookRows] /\ \A g \in Hooks : HookFine(g)'
    BY <1>5, <2>1, Untouched, FinishAfter
  <2>3. \A k \in Invocations : HostMoves(k)
    BY <1>5 DEF HostMoves
  <2> QED BY <1>5, <2>1, <2>2, <2>3, QuietStep, Frame
<1>7. ASSUME NEW r \in Rows, FitsSchema(r), row' = [row EXCEPT ![i] = r],
             RowKept(i), RowFine(i)', BoundaryFine(i)'
      PROVE  IInv'
  <2>1. RowsKept
    BY <1>7, OneRow
  <2>2. hook' \in [Hooks -> HookRows] /\ \A g \in Hooks : HookFine(g)'
    BY <1>5, <2>1, FinishAfter
  <2> QED BY <1>5, <1>7, <2>2, RowStep
<1>8. CASE PostAccepted(row[i], plan) /\ plan.reason = None
  <2> DEFINE c == CompleteRow(row[i], at, plan.snapshot)
  <2>1. row[i].state = "open"
    BY <1>4, <1>8, NoneApart DEF PostAccepted, FitsSchema, Reasons
  <2>2. plan.snapshot \in Snapshots
    BY <1>2, <1>3, <1>8
  <2>3. /\ c \in Rows /\ FitsSchema(c)
        /\ c.state = "complete" /\ c.reason = None
        /\ c.pre = row[i].pre /\ c.denied = row[i].denied /\ c.baseline = row[i].baseline
        /\ c.started = row[i].started
        /\ c.matched \cup c.unrecorded = Changed(c.baseline, c.outcome)
        /\ c.matched \cap c.unrecorded = {}
    BY <1>2, <1>4, <2>1, <2>2, CompleteRowFacts
  <2>4. row' = [row EXCEPT ![i] = c]
    BY <1>1, <1>8 DEF PostToolPersist
  <2> HIDE DEF c
  <2>5. row'[i] = c
    BY <2>4, OneRow
  <2>6. RowKept(i)
    BY <2>1, <2>3, <2>5 DEF RowKept
  <2>7. RowFine(i)'
    BY <1>4, <2>3, <2>5 DEF RowFine, Changed
  <2>8. BoundaryFine(i)'
    BY <2>3, <2>5, BoundaryFree, NoneApart DEF Boundaries, Reasons
  <2> QED BY <1>7, <2>3, <2>4, <2>6, <2>7, <2>8
<1>9. CASE PostAccepted(row[i], plan) /\ plan.reason # None
  <2> DEFINE u == UnavailableRow(row[i], at, plan.reason)
  <2>1. /\ plan.reason \in Reasons
        /\ row[i].state # "complete"
        /\ row[i].state = "unavailable" => row[i].reason = plan.reason
    BY <1>3, <1>9 DEF PostAccepted
  <2>2. /\ u \in Rows /\ FitsSchema(u)
        /\ u.state = "unavailable" /\ u.reason = plan.reason
        /\ u.pre = row[i].pre /\ u.denied = row[i].denied /\ u.baseline = row[i].baseline
        /\ row[i].state # "absent" => u.started = row[i].started
    <3>1. row[i].state = "absent" => row[i] = NoRow
      BY <1>4 DEF RowFine
    <3> QED BY <1>2, <1>4, <2>1, <3>1, UnavailableRowFacts
  <2>3. row' = [row EXCEPT ![i] = u]
    BY <1>1, <1>9 DEF PostToolPersist
  <2> HIDE DEF u
  <2>4. row'[i] = u
    BY <2>3, OneRow
  <2>5. RowKept(i)
    BY <2>1, <2>2, <2>4 DEF RowKept
  <2>6. RowFine(i)'
    BY <1>4, <2>2, <2>4 DEF RowFine
  <2>7. BoundaryFine(i)'
    <3>1. CASE plan.reason \in Boundaries
      <4>1. row'[i].reason = row[i].reason /\ row'[i].started = row[i].started
        BY <1>2, <2>2, <2>4, <3>1
      <4>2. BoundariesStand
        BY <1>5 DEF BoundariesStand
      <4> QED BY <4>1, <4>2, BoundaryKept
    <3>2. CASE plan.reason \notin Boundaries
      BY <2>2, <2>4, <3>2, BoundaryFree
    <3> QED BY <3>1, <3>2
  <2> QED BY <1>7, <2>2, <2>3, <2>5, <2>6, <2>7
<1> QED BY <1>6, <1>8, <1>9

\* The open rows of a session are closed together at a boundary.
LEMMA ClosedKeepsRows ==
  ASSUME IInv, NEW sel \in SUBSET Invocations, \A i \in sel : row[i].state = "open",
         NEW at \in Times, NEW reason \in Boundaries, row' = Closed(sel, reason, at)
  PROVE  /\ RowsKept
         /\ row' \in [Invocations -> Rows]
         /\ \A i \in Invocations : FitsSchema(row'[i]) /\ RowFine(i)'
         /\ \A i \in sel : row'[i].reason = reason /\ row'[i].started = row[i].started
         /\ \A i \in Invocations \ sel : row'[i] = row[i]
<1>1. \A i \in Invocations \ sel : row'[i] = row[i]
  BY DEF Closed
<1>2. ASSUME NEW i \in sel
      PROVE  /\ row'[i] \in Rows /\ FitsSchema(row'[i])
             /\ row'[i].state = "unavailable" /\ row'[i].reason = reason
             /\ row'[i].pre = row[i].pre /\ row'[i].denied = row[i].denied
             /\ row'[i].baseline = row[i].baseline /\ row'[i].started = row[i].started
  <2>1. row'[i] = ClosedRow(row[i], reason, at)
    BY DEF Closed, ClosedRow
  <2>2. row[i] \in Rows /\ FitsSchema(row[i]) /\ row[i].state = "open"
    BY RowTyped
  <2>3. reason \in Reasons
    BY DEF Boundaries, Reasons
  <2> QED BY SMT, <2>1, <2>2, <2>3, ClosedRowFacts
<1>3. ASSUME NEW i \in Invocations
      PROVE  row'[i] \in Rows /\ FitsSchema(row'[i]) /\ RowFine(i)' /\ RowKept(i)
  <2>1. row[i] \in Rows /\ FitsSchema(row[i]) /\ RowFine(i)
    BY RowTyped
  <2>2. CASE i \in sel
    BY <1>2, <2>1, <2>2 DEF RowFine, RowKept
  <2>3. CASE i \notin sel
    <3>1. row'[i] = row[i]
      BY <1>1, <2>3
    <3> QED BY <2>1, <3>1 DEF RowFine, RowKept, Changed
  <2> QED BY <2>2, <2>3
<1>4. row' \in [Invocations -> Rows]
  BY <1>3 DEF Closed
<1> QED BY <1>1, <1>2, <1>3, <1>4 DEF RowsKept

LEMMA ClosedStep ==
  ASSUME IInv, NEW sel \in SUBSET Invocations, \A i \in sel : row[i].state = "open",
         NEW at \in Times, NEW reason \in Boundaries, row' = Closed(sel, reason, at),
         BoundariesStand, \A i \in sel : BoundaryFine(i)',
         UNCHANGED <<clock, setup, repo, tickets, host>>,
         captured' \in [Sessions -> [Turns -> Times \cup {None}]],
         ended' \in [Sessions -> Times \cup {None}],
         hook' \in [Hooks -> HookRows], \A g \in Hooks : HookFine(g)'
  PROVE  IInv'
<1>1. /\ RowsKept /\ row' \in [Invocations -> Rows]
      /\ \A i \in Invocations : FitsSchema(row'[i]) /\ RowFine(i)'
      /\ \A i \in Invocations \ sel : row'[i] = row[i]
  BY ClosedKeepsRows
<1>2. TypeOK'
  BY <1>1 DEF IInv, TypeOK, HookRows
<1>3. \A i \in Invocations : HostFine(i)'
  BY <1>1, HostAfter DEF HostMoves
<1>4. \A i \in Invocations : BoundaryFine(i)'
  BY <1>1, BoundaryKept
<1> QED BY <1>1, <1>2, <1>3, <1>4, BoundaryByRowNext DEF IInv

LEMMA PromptCaptureKeeps ==
  ASSUME IInv, NEW h \in Hooks, PromptCapture(h)
  PROVE  IInv'
<1>1. PICK s \in Sessions, t \in Turns : s = hook[h].of[1] /\ t = hook[h].of[2]
  BY DEF IInv, HookFine, PromptCapture
<1>2. PICK at \in Times : at = hook[h].at
  BY HookTyped
<1> DEFINE sel == EarlierTurns(s, t)
<1>3. /\ captured[s][t] \in {None, at}
      /\ Closable(sel, at)
      /\ captured' = [captured EXCEPT ![s][t] = at]
      /\ row' = Closed(sel, "post_tool_not_observed", at)
      /\ Finish(h)
      /\ UNCHANGED <<clock, setup, repo, tickets, host, ended>>
  BY <1>1, <1>2 DEF PromptCapture
<1>4. /\ sel \in SUBSET Invocations
      /\ \A i \in sel : row[i].state = "open" /\ SessionOf[i] = s /\ TurnOf[i] # t
  BY DEF EarlierTurns, OpenIn
<1> HIDE DEF sel
<1>5. captured \in [Sessions -> [Turns -> Times \cup {None}]]
  BY DEF IInv, TypeOK
<1>6. /\ captured' \in [Sessions -> [Turns -> Times \cup {None}]]
      /\ captured'[s][t] = at
      /\ \A u \in Sessions, v \in Turns :
           captured'[u][v] = captured[u][v] \/ (u = s /\ v = t)
  BY SMT, <1>3, <1>5
<1>7. BoundariesStand
  BY <1>3, <1>6 DEF BoundariesStand
<1>8. "post_tool_not_observed" \in Boundaries
  BY DEF Boundaries
<1>9. /\ RowsKept
      /\ \A i \in sel : /\ row'[i].reason = "post_tool_not_observed"
                        /\ row'[i].started = row[i].started
  BY <1>3, <1>4, <1>8, ClosedKeepsRows
<1>10. ASSUME NEW i \in sel PROVE BoundaryFine(i)'
  <2>1. row[i].started <= at /\ row[i].started \in Times
    BY <1>3, <1>4, RowTyped DEF Closable, Rows
  <2>2. at >= row[i].started
    BY SMT, <2>1, GuardAssumption DEF Times
  <2>3. SessionOf[i] = s /\ t \in Turns \ {TurnOf[i]}
    BY <1>4
  <2>4. at # None
    BY NoneApart
  <2> QED BY <1>6, <1>9, <2>2, <2>3, <2>4 DEF BoundaryFine
<1>11. hook' \in [Hooks -> HookRows] /\ \A g \in Hooks : HookFine(g)'
  BY <1>3, <1>9, FinishAfter
<1>12. ended' \in [Sessions -> Times \cup {None}]
  BY <1>3 DEF IInv, TypeOK
<1> QED BY <1>3, <1>4, <1>6, <1>7, <1>8, <1>10, <1>11, <1>12, ClosedStep

LEMMA CloseManagedSessionKeeps ==
  ASSUME IInv, NEW s \in Sessions, CloseManagedSession(s)
  PROVE  IInv'
<1> DEFINE sel == OpenIn(s)
<1>1. PICK at \in Times : at = ended[s]
  BY DEF IInv, TypeOK, CloseManagedSession
<1>2. /\ Closable(sel, at)
      /\ row' = Closed(sel, "managed_session_terminated", at)
      /\ UNCHANGED <<clock, setup, repo, tickets, host, captured, ended, hook>>
  BY <1>1 DEF CloseManagedSession
<1>3. /\ sel \in SUBSET Invocations
      /\ \A i \in sel : row[i].state = "open" /\ SessionOf[i] = s
  BY DEF OpenIn
<1> HIDE DEF sel
<1>4. BoundariesStand
  BY <1>2 DEF BoundariesStand
<1>5. "managed_session_terminated" \in Boundaries
  BY DEF Boundaries
<1>6. /\ RowsKept
      /\ \A i \in sel : /\ row'[i].reason = "managed_session_terminated"
                        /\ row'[i].started = row[i].started
  BY <1>2, <1>3, <1>5, ClosedKeepsRows
<1>7. ASSUME NEW i \in sel PROVE BoundaryFine(i)'
  <2>1. row[i].started <= at /\ row[i].started \in Times
    BY <1>2, <1>3, RowTyped DEF Closable, Rows
  <2>2. at >= row[i].started
    BY SMT, <2>1, GuardAssumption DEF Times
  <2>3. SessionOf[i] = s /\ at # None
    BY <1>3, NoneApart
  <2> QED BY <1>1, <1>2, <1>6, <2>2, <2>3 DEF BoundaryFine
<1>8. hook' \in [Hooks -> HookRows] /\ \A g \in Hooks : HookFine(g)'
  BY <1>2, <1>6, NoHooksAfter
<1>9. /\ captured' \in [Sessions -> [Turns -> Times \cup {None}]]
      /\ ended' \in [Sessions -> Times \cup {None}]
  BY <1>2 DEF IInv, TypeOK
<1> QED BY <1>2, <1>3, <1>4, <1>5, <1>7, <1>8, <1>9, ClosedStep

LEMMA RuntimeEndsKeeps ==
  ASSUME IInv, NEW s \in Sessions, RuntimeEnds(s)
  PROVE  IInv'
<1>1. /\ ended[s] = None /\ ended' = [ended EXCEPT ![s] = clock]
      /\ UNCHANGED <<clock, setup, repo, tickets, host, row, captured, hook>>
  BY DEF RuntimeEnds
<1>2. ended' \in [Sessions -> Times \cup {None}]
  BY <1>1 DEF IInv, TypeOK
<1>3. BoundariesStand
  BY <1>1 DEF IInv, TypeOK, BoundariesStand
<1>4. \A i \in Invocations : BoundaryFine(i)'
  BY <1>1, <1>3, BoundaryKept
<1>5. RowsKept /\ \A i \in Invocations : RowFine(i)' /\ HostFine(i)'
  BY <1>1, Untouched, HostAfter DEF HostMoves
<1>6. hook' \in [Hooks -> HookRows] /\ \A g \in Hooks : HookFine(g)'
  BY <1>1, <1>5, NoHooksAfter
<1>7. TypeOK'
  BY <1>1, <1>2 DEF IInv, TypeOK
<1> QED BY <1>4, <1>5, <1>6, <1>7, BoundaryByRowNext DEF IInv

-----------------------------------------------------------------------------
(* The invariant.                                                          *)

LEMMA InitIInv == Init => IInv
<1> SUFFICES ASSUME Init PROVE IInv
  OBVIOUS
<1>1. NoRow \in Rows /\ FitsSchema(NoRow)
  BY SMT, GuardAssumption DEF NoRow, Rows, FitsSchema, Times
<1>2. NoHook \in HookRows
  BY SMT, NoPlanType, GuardAssumption DEF NoHook, HookRows, Times
<1>3. NoHook.phase = "new"
  BY DEF NoHook
<1>4. 0 \in Times
  BY SMT, GuardAssumption DEF Times
<1>5. TypeOK
  BY <1>1, <1>2, <1>4 DEF Init, TypeOK, HookRows, Snapshots, Writers, HostStates
<1>6. NoRow.state = "absent" /\ NoRow.baseline = None /\ NoRow.reason = None
  BY DEF NoRow
<1>7. \A i \in Invocations : RowFine(i)
  BY <1>6 DEF Init, RowFine
<1>8. \A i \in Invocations : HostFine(i)
  BY GuardDistinct DEF Init, HostFine
<1>9. \A h \in Hooks : HookFine(h)
  BY <1>3 DEF Init, HookFine
<1>10. ClosedByItsBoundary
  BY <1>6, GuardDistinct DEF Init, ClosedByItsBoundary, Reasons
<1> QED BY <1>5, <1>7, <1>8, <1>9, <1>10 DEF IInv

LEMMA NextIInv == IInv /\ [Next]_vars => IInv'
<1> SUFFICES ASSUME IInv, [Next]_vars PROVE IInv'
  OBVIOUS
<1>1. ASSUME NEW k \in Tickets, TicketChanges(k) PROVE IInv'
  <2>1. /\ tickets' \in [Tickets -> {"none", "active", "stale"}]
        /\ UNCHANGED <<clock, setup, repo, host, row, captured, ended, hook>>
    BY <1>1, Frame DEF TicketChanges
  <2> QED BY <2>1, Untouched, NoHooksAfter, QuietStep, Frame DEF HostMoves
<1>2. CASE Setup
  <2>1. setup' \in BOOLEAN /\ UNCHANGED <<clock, repo, tickets, host, row, captured, ended, hook>>
    BY <1>2, Frame DEF Setup
  <2> QED BY <2>1, Untouched, NoHooksAfter, QuietStep, Frame DEF HostMoves
<1>3. CASE ClockMoves
  <2>1. clock' \in Times /\ UNCHANGED <<setup, repo, tickets, host, row, captured, ended, hook>>
    BY <1>3 DEF ClockMoves
  <2> QED BY <2>1, Untouched, NoHooksAfter, QuietStep, Frame DEF HostMoves
<1>4. CASE UNCHANGED vars
  <2>1. UNCHANGED <<clock, setup, repo, tickets, host, row, captured, ended, hook>>
    BY <1>4 DEF vars
  <2> QED BY <2>1, Untouched, NoHooksAfter, QuietStep, Frame DEF HostMoves
<1>5. CASE Next
  BY <1>1, <1>2, <1>3, <1>5, PreToolPlanKeeps, PostToolPlanKeeps, PromptStartKeeps,
     PreToolPersistKeeps, PreToolFailsKeeps, PreToolAnswerKeeps, PostToolPersistKeeps,
     PromptCaptureKeeps, HookDiesKeeps, PreToolDuringSetupKeeps, RunToolKeeps,
     UserEditsKeeps, RuntimeEndsKeeps, CloseManagedSessionKeeps DEF Next
<1> QED BY <1>4, <1>5

LEMMA Invariance == Spec => []IInv
  BY InitIInv, NextIInv, PTL DEF Spec

-----------------------------------------------------------------------------
\* Whatever hooks overlap, are delivered twice, fail or die, no transaction of
\* theirs writes a row the table's CHECK constraint would refuse.
THEOREM GuardTypeCorrect == Spec => []TypeOK
<1>1. IInv => TypeOK
  BY DEF IInv
<1> QED BY <1>1, Invariance, PTL

\* A tool runs on an allowance only if the PreToolUse event on record is not a
\* denial, for any number of hooks that decide about it at once.
THEOREM DecisionsStand == Spec => []DecisionStands
<1>1. IInv => DecisionStands
  BY DEF IInv, DecisionStands, HostFine, AllowedOn
<1> QED BY <1>1, Invariance, PTL

\* An invocation that may write and was allowed runs over a committed baseline
\* that holds none of its writes.
THEOREM BaselinesPrecedeRuns == Spec => []BaselineBeforeRun
<1>1. IInv => BaselineBeforeRun
  BY DEF IInv, BaselineBeforeRun, HostFine, AllowedOn, RowFine
<1> QED BY <1>1, Invariance, PTL

\* A complete observation divides its net delta between the expected write and
\* the one unrecorded change, and no write of the tool it still sees is missed.
THEOREM WritesAreAccounted == Spec => []WritesAccounted
<1>1. IInv => WritesAccounted
  <2> SUFFICES ASSUME IInv, NEW i \in Invocations, row[i].state = "complete"
               PROVE  /\ \A p \in Paths : row[i].outcome[p] = i =>
                                          p \in row[i].matched \cup row[i].unrecorded
                      /\ row[i].matched \cup row[i].unrecorded =
                           Changed(row[i].baseline, row[i].outcome)
                      /\ row[i].matched \cap row[i].unrecorded = {}
    BY DEF WritesAccounted
  <2>1. RowFine(i) /\ row[i].baseline # None
    BY RowTyped DEF FitsSchema
  <2> QED BY <2>1 DEF RowFine, Changed
<1> QED BY <1>1, Invariance, PTL

\* A row closed without its PostToolUse was closed by the boundary it names.
THEOREM BoundariesAreReal == Spec => []ClosedByItsBoundary
<1>1. IInv => ClosedByItsBoundary
  BY DEF IInv
<1> QED BY <1>1, Invariance, PTL

=============================================================================
