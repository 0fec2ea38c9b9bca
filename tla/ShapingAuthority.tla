--------------------------- MODULE ShapingAuthority ---------------------------
(***************************************************************************)
(* How a Task is shaped: the checkpoints the agent records, the decisions  *)
(* a checkpoint asks the user for, the answers, the methods that apply an  *)
(* accepted answer, and what a change of scope does to all of them.        *)
(*                                                                         *)
(* Three places decide together.  The workflow machine reads the records   *)
(* and admits methods; a method plans its mutations under finer conditions *)
(* of its own; and the store's readers refuse as corrupt every combination *)
(* of rows they think no writer commits.  Nothing but care keeps the three *)
(* in step.  Every operation is one transaction under a compare-and-swap   *)
(* of the state version (CoreCommit), so operations are atomic here and    *)
(* interleave freely.                                                      *)
(*                                                                         *)
(* Identifiers are derived in the code (an application from its            *)
(* resolution, a resolution from its request, a request from its gap), so  *)
(* one record holds a user-owned gap, its request, its resolution and its  *)
(* application; the gap's status is the resolution's outcome, both being   *)
(* written by one transaction.  A checkpoint asks at most once for a kind  *)
(* of decision, and never for the kind of an application it carries, so    *)
(* one record per kind is enough.  Only what is current or stale is kept:  *)
(* a superseded checkpoint, a superseded application and a request that    *)
(* was withdrawn without one are rows no operation reads again.  A scope   *)
(* decision affects its Task, so a pending one blocks update_scope.  Left  *)
(* out: the lifecycle label, the lineage rows of consumed applications     *)
(* (write-only here), refs to evidence and all text.  Whether a Task may   *)
(* complete is TaskAuthority's matter.                                     *)
(***************************************************************************)
EXTENDS Naturals, FiniteSets

CONSTANTS
  Kinds,      \* kinds of user-owned shaping gap
  Scope,      \* the one that update_scope applies
  Baselines,  \* baseline refs
  Modes,      \* the Task modes that are shaped
  MaxRev,     \* bound: the scope revision
  Null

ASSUME ShapingAssumption ==
  /\ Scope \in Kinds
  /\ Modes \subseteq {"advisor", "work"}
  /\ MaxRev \in Nat
  /\ Null \notin Baselines

VARIABLES
  task,  \* the tasks row and its current Change Unit
  cp,    \* the current shaping checkpoint
  dec    \* per kind of decision: gap, request, resolution and application

shapingVars == <<task, cp, dec>>

\* A Change Unit is named by the scope revision its creation led to; 0 is none.
Coordinates == [rev : 0..MaxRev, base : Baselines \cup {Null}, cu : 0..MaxRev]

Here == [rev |-> task.rev, base |-> task.base, cu |-> task.cu]

\* close: the close basis finalize_advice writes, with the applications it names.
Tasks == [mode : Modes, phase : {"shaping", "implementation"}, open : BOOLEAN,
          rev : 0..MaxRev, base : Baselines \cup {Null}, cu : 0..MaxRev,
          cuBase : Baselines \cup {Null},
          close : [at : Coordinates, apps : SUBSET Kinds] \cup {Null}]

\* boundary: whether it states the implementation boundary; plain: whether it
\* has a gap that is not the user's to close.
CheckpointRows ==
  [st : {"none", "ready", "blocked"}, rev : 0..MaxRev,
   base : Baselines \cup {Null}, boundary : BOOLEAN, plain : BOOLEAN]

Answers == {"accepted", "rejected", "deferred"}

\* own: the gap is the current checkpoint's; linked: the application is linked
\* to it; at: the request's coordinates; on: the application's.
DecisionRows ==
  [gap : Answers \cup {"none", "current", "applied"}, own : BOOLEAN,
   basis : {"current", "stale"}, at : Coordinates, expired : BOOLEAN,
   app : {"none", "current", "stale"}, on : Coordinates, linked : BOOLEAN]

Nowhere == [rev |-> 0, base |-> Null, cu |-> 0]

NoCheckpoint == [st |-> "none", rev |-> 0, base |-> Null, boundary |-> FALSE,
                 plain |-> FALSE]

NoDecision == [gap |-> "none", own |-> FALSE, basis |-> "stale", at |-> Nowhere,
               expired |-> FALSE, app |-> "none", on |-> Nowhere, linked |-> FALSE]

\* An application that no longer matches the Task, and its request.
Stale(r) == [r EXCEPT !.app = "stale", !.basis = "stale", !.at = Nowhere, !.on = Nowhere]

ShapingTypeOK ==
  /\ task \in Tasks
  /\ cp \in CheckpointRows
  /\ dec \in [Kinds -> DecisionRows]

-----------------------------------------------------------------------------
(* What the records say: gaps, statuses and the current authority graph.   *)

\* decision_policy_for_mode: the method that applies a decision of a kind.
Owner(k) ==
  IF k = Scope THEN "update_scope"
  ELSE IF task.mode = "work" THEN "advance_task" ELSE "finalize_advice"

\* The user-owned gaps of the current checkpoint.
Gaps == {k \in Kinds : dec[k].gap # "none" /\ dec[k].own}

\* effective_user_action_status: the basis first, then the answer, then the time.
Status(r) ==
  IF r.basis # "current" THEN r.basis
  ELSE IF r.gap # "current" THEN "resolved"
  ELSE IF r.expired THEN "expired" ELSE "pending"

Applications(status) == {k \in Kinds : dec[k].app = status}

\* Mutant: the graph leaves stale applications out.
Graph_CurrentOnly == {k \in Gaps : dec[k].basis = "current"} \cup Applications("current")

\* The current authority graph: the gaps whose request is current, and every
\* current or stale application.
Graph == {k \in Gaps : dec[k].basis = "current"}
           \cup Applications("current") \cup Applications("stale")

\* evaluate_shaping_decision_authority
Evaluate(k) ==
  LET r == dec[k]
  IN IF Status(r) = "stale" \/ r.app = "stale"
       THEN IF r.app = "stale" /\ r.gap # "applied" THEN "inconsistent" ELSE "stale"
     ELSE IF (IF r.app = "none" THEN r.at ELSE r.on) # Here THEN "inconsistent"
     ELSE IF Status(r) # "resolved"
       THEN IF Status(r) = "pending" THEN "awaiting_user" ELSE "expired"
     ELSE IF r.app = "current"
       THEN IF r.linked /\ r.gap = "applied" THEN "applied" ELSE "inconsistent"
     ELSE IF r.gap = "accepted" THEN "accepted_unapplied"
     ELSE IF r.gap \in {"rejected", "deferred"} THEN r.gap ELSE "inconsistent"

\* task_wide_shaping_authority: the decisions of the graph in some states.
Authority(states) == {k \in Graph : Evaluate(k) \in states}

Recovery == Authority({"rejected", "deferred", "expired"})

\* pending_user_action_refs, and those of them that block a scope update.
Pending == {k \in Kinds : dec[k].gap # "none" /\ Status(dec[k]) = "pending"}

PendingScope == {k \in Pending : k = Scope /\ dec[k].at = Here}

\* Whether some gap of the current checkpoint is still current.
GapOpen == cp.plain \/ \E k \in Gaps : dec[k].gap = "current"

CheckpointReady ==
  cp.st = "ready" /\ cp.rev = task.rev /\ cp.base = task.base /\ task.base # Null

\* The close basis finalize_advice wrote is still the current one.
CloseBasisCurrent == task.close # Null /\ task.close.at = Here

-----------------------------------------------------------------------------
(* The workflow machine: the method it requires and the ones it offers.    *)

Offer(required, methods) == [req |-> required, may |-> methods]

Workflow ==
  IF ~task.open THEN Offer("none", {})
  ELSE IF Recovery # {} THEN Offer("record", {"record"})
  ELSE IF Authority({"stale"}) # {}
    THEN IF task.phase = "shaping" THEN Offer("record", {"record"}) ELSE Offer("close", {})
  ELSE IF task.phase = "implementation" THEN Offer("none", {"scope"})
  ELSE IF Authority({"awaiting_user"}) # {}
    THEN Offer("resolve", IF Authority({"accepted_unapplied"}) = {} THEN {} ELSE {"scope"})
  ELSE IF cp.st = "none" THEN Offer("record", {"record", "scope"})
  ELSE IF Authority({"inconsistent"}) # {} THEN Offer("record", {"record"})
  ELSE IF \E k \in Gaps : dec[k].gap = "accepted" /\ Owner(k) = "update_scope"
    THEN Offer("scope", {"scope"})
  ELSE IF GapOpen THEN Offer("record", {"record"})
  ELSE IF task.mode = "advisor" /\ cp.st = "ready" /\ CloseBasisCurrent
    THEN Offer("check_close", {"finalize", "record", "scope"})
  ELSE IF task.cu = 0 THEN Offer("scope", {"record", "scope"})
  ELSE IF task.mode = "advisor" /\ cp.st = "ready"
    THEN Offer("finalize", {"finalize", "record", "scope"})
  ELSE Offer("advance", {"advance", "record", "scope"})

\* evaluation: accepted answers keep the checkpoint and a pending scope decision
\* keeps the scope, unless that method is the required one.
Admitted ==
  LET w == Workflow
      kept == (IF Authority({"accepted_unapplied"}) # {} THEN {"record"} ELSE {})
                \cup (IF PendingScope # {} THEN {"scope"} ELSE {})
  IN (w.may \ (kept \ {w.req}))
       \cup (IF task.open THEN {"close"} ELSE {})
       \cup (IF task.open /\ Pending # {} THEN {"resolve"} ELSE {})

\* implementation_authority_allows_change_unit_replacement
ReplacementAllowed ==
  task.phase # "implementation" \/ Authority({"applied"}) = {}

ChangeUnitOperations ==
  IF task.cu = 0 THEN {"create"}
  ELSE {"keep"} \cup (IF ReplacementAllowed THEN {"replace"} ELSE {})

-----------------------------------------------------------------------------
(* volicord.record_shaping_checkpoint                                      *)

\* Mutant: an expired question cannot be retired.
Recoverable_AnsweredOnly(r) == r.gap \in {"rejected", "deferred"}

\* A decision of the checkpoint to be replaced that it may retire.
Recoverable(r) ==
  r.gap \in {"rejected", "deferred"} \/ (r.gap = "current" /\ Status(r) = "expired")

Retired == {k \in Gaps : dec[k].gap # "applied"}

\* Every condition but the successor's own content: the current applications
\* are carried, the stale ones are all consumed, the rest must be retirable.
MayRecord ==
  /\ "record" \in Admitted
  /\ task.phase = "shaping"
  /\ IF cp.st = "none" THEN Applications("stale") = {}
     ELSE /\ \A k \in Retired : dec[k].basis = "current" /\ Recoverable(dec[k])
          /\ \A k \in Applications("current") : dec[k].linked /\ dec[k].on = Here

\* The successor has no gap and lacks nothing.
Complete(asked, plain, boundary) == asked = {} /\ ~plain /\ task.base # Null /\ boundary

\* asked: the kinds of decision the successor asks for, again where it reissues
\* a stale application.
MayRecordAs(asked, plain, boundary) ==
  /\ MayRecord
  /\ asked \cap Applications("current") = {}
  /\ Complete(asked, plain, boundary) \/ plain \/ asked # {}

RecordCheckpoint(asked, plain, boundary) ==
  LET ready == Complete(asked, plain, boundary)
  IN /\ MayRecordAs(asked, plain, boundary)
     /\ cp' = [st |-> IF ready THEN "ready" ELSE "blocked", rev |-> task.rev,
               base |-> task.base, boundary |-> boundary, plain |-> plain]
     /\ dec' = [k \in Kinds |->
          IF k \in asked
            THEN [NoDecision EXCEPT !.gap = "current", !.own = TRUE,
                                    !.basis = "current", !.at = Here]
          ELSE IF k \in Retired \cup Applications("stale") THEN NoDecision
          ELSE [dec[k] EXCEPT !.own = FALSE]]
     /\ task' = [task EXCEPT !.close = Null]

-----------------------------------------------------------------------------
(* The user's answer, and the deadline of the question.                    *)

MayResolve(k) == "resolve" \in Admitted /\ k \in Pending /\ dec[k].at = Here

\* resolve_shaping_gap, with what becomes of the checkpoint.
Resolve(k, answer) ==
  LET open == cp.plain \/ \E o \in Gaps \ {k} : dec[o].gap = "current"
  IN /\ MayResolve(k)
     /\ dec' = [dec EXCEPT ![k].gap = answer]
     /\ cp' = [cp EXCEPT !.st =
          IF @ = "blocked" /\ cp.base # Null /\ cp.boundary /\ ~open THEN "ready" ELSE @]
     /\ UNCHANGED task

\* expires_at passes; nothing is written.
Expire(k) ==
  /\ task.open
  /\ k \in Pending
  /\ dec' = [dec EXCEPT ![k].expired = TRUE]
  /\ UNCHANGED <<task, cp>>

-----------------------------------------------------------------------------
(* volicord.update_scope                                                   *)

\* shaping_checkpoint_can_rebase
CanRebase(base, applied, basisChanged) ==
  /\ cp.st # "none"
  /\ base # Null
  /\ cp.boundary
  /\ ~(/\ basisChanged /\ applied = {}
       /\ cp.plain \/ \E k \in Gaps : dec[k].gap # "applied")
  /\ \A k \in Gaps : Owner(k) = "update_scope" => dec[k].gap = "applied" \/ k \in applied

\* Mutant: applications made for the old coordinates are left current.
Rebased_ApplicationsLeft(there, applied) ==
  [k \in Kinds |->
     IF k \in applied
       THEN [dec[k] EXCEPT !.gap = "applied", !.at = there, !.app = "current",
                           !.on = there, !.linked = TRUE]
     ELSE IF k \in Gaps /\ dec[k].basis = "current" THEN [dec[k] EXCEPT !.at = there]
     ELSE dec[k]]

\* ApplyScopeAndRebaseCurrent: the checkpoint's requests move to the new
\* coordinates, accepted scope decisions are applied there, and an application
\* made for other coordinates becomes stale.
Rebased(there, applied) ==
  [k \in Kinds |->
     IF k \in applied
       THEN [dec[k] EXCEPT !.gap = "applied", !.at = there, !.app = "current",
                           !.on = there, !.linked = TRUE]
     ELSE IF dec[k].app = "current" /\ dec[k].on # there THEN Stale(dec[k])
     ELSE IF k \in Gaps /\ dec[k].basis = "current" THEN [dec[k] EXCEPT !.at = there]
     ELSE dec[k]]

\* SupersedeCurrent: requests are withdrawn and applications end with the
\* checkpoint; one that was stale stays an obligation.
Detached == [k \in Kinds |-> IF dec[k].app = "stale" THEN dec[k] ELSE NoDecision]

\* Mutant: the schema lets the row through.
ImplementationGuard_Absent == TRUE

\* trg_implementation_task_shaping_authority_guard aborts the transaction: the
\* plan does not ask whether the acceptance criteria change, and they move the
\* scope revision too.
ImplementationGuard == task.phase = "implementation" => Applications("current") = {}

\* The baseline submitted, Null keeping the Task's.
NewBase(base) == IF base = Null THEN task.base ELSE base

\* The operation makes a Change Unit.
Fresh(op) == op \in {"create", "replace"}

\* The accepted answers an update of the scope applies.
ScopeAnswers == {k \in Gaps : dec[k].gap = "accepted" /\ Owner(k) = "update_scope"}

\* edit: some text of the scope differs; crit: the acceptance criteria differ.
ScopeEdited(edit, base) == edit \/ NewBase(base) # task.base

BasisChanged(op, edit, crit, base) == ScopeEdited(edit, base) \/ crit \/ op = "replace"

MayUpdateScope(op, edit, crit, base) ==
  /\ "scope" \in Admitted
  /\ op \in ChangeUnitOperations
  /\ Recovery = {}
  /\ \A k \in ScopeAnswers : Status(dec[k]) = "resolved" /\ dec[k].at = Here
  /\ PendingScope = {}
  /\ ScopeEdited(edit, base) \/ op = "replace" => ReplacementAllowed
  /\ op = "keep" => NewBase(base) = task.base
  /\ ImplementationGuard
  /\ BasisChanged(op, edit, crit, base) \/ Fresh(op) \/ ScopeAnswers # {}
  /\ task.rev < MaxRev

UpdateScope(op, edit, crit, base) ==
  LET newBase == NewBase(base)
      fresh == Fresh(op)
      applied == ScopeAnswers
      there == [rev |-> task.rev + 1, base |-> newBase,
                cu |-> IF fresh THEN task.rev + 1 ELSE task.cu]
      rebase == CanRebase(newBase, applied, BasisChanged(op, edit, crit, base))
  IN /\ MayUpdateScope(op, edit, crit, base)
     /\ task' = [task EXCEPT !.rev = there.rev, !.base = newBase, !.cu = there.cu,
                             !.cuBase = IF fresh THEN base ELSE @, !.close = Null]
     /\ dec' = IF rebase THEN Rebased(there, applied) ELSE Detached
     /\ cp' = IF rebase THEN [cp EXCEPT !.rev = there.rev, !.base = newBase,
                                        !.st = IF GapOpen THEN @ ELSE "ready"]
              ELSE NoCheckpoint

-----------------------------------------------------------------------------
(* The two ways out of shaping, and the end of the Task.                   *)

\* The gaps of the current checkpoint that a method applies.
Owned(method) == {k \in Gaps : Owner(k) = method}

\* shaping_authority_blocks_advance, negated.
Unblocked ==
  Authority({"awaiting_user", "rejected", "deferred", "expired", "stale", "inconsistent"}) = {}

\* The conditions the two methods share.
Shaped ==
  /\ task.phase = "shaping"
  /\ CheckpointReady
  /\ ~GapOpen
  /\ Unblocked
  /\ \A k \in Owned("update_scope") : dec[k].gap = "applied"
  /\ task.cu # 0 /\ task.cuBase = task.base

\* apply_selected_gaps
Applying(ks) ==
  [k \in Kinds |->
     IF k \in ks THEN [dec[k] EXCEPT !.gap = "applied", !.app = "current", !.on = Here,
                                     !.linked = TRUE]
     ELSE dec[k]]

CurrentAnswer(k) == Status(dec[k]) = "resolved" /\ dec[k].at = Here

MayAdvance ==
  /\ "advance" \in Admitted
  /\ task.mode = "work"
  /\ Shaped
  /\ \A k \in Owned("advance_task") : dec[k].gap = "accepted" /\ CurrentAnswer(k)

AdvanceTask ==
  /\ MayAdvance
  /\ dec' = Applying(Owned("advance_task"))
  /\ task' = [task EXCEPT !.phase = "implementation"]
  /\ UNCHANGED cp

MayFinalize ==
  /\ "finalize" \in Admitted
  /\ task.mode = "advisor"
  /\ Shaped
  /\ \A k \in Owned("finalize_advice") : dec[k].gap \in {"accepted", "applied"}
  /\ \A k \in Gaps : CurrentAnswer(k)

\* Mutant: the close basis names the new applications only.
FinalizeAdvice_CarriedForgotten ==
  LET ks == {k \in Owned("finalize_advice") : dec[k].gap = "accepted"}
  IN /\ MayFinalize
     /\ dec' = Applying(ks)
     /\ task' = [task EXCEPT !.close = [at |-> Here, apps |-> ks]]
     /\ UNCHANGED cp

FinalizeAdvice ==
  LET ks == {k \in Owned("finalize_advice") : dec[k].gap = "accepted"}
  IN /\ MayFinalize
     /\ dec' = Applying(ks)
     /\ task' = [task EXCEPT !.close =
                   [at |-> Here, apps |-> Applications("current") \cup ks]]
     /\ UNCHANGED cp

\* close_task, and the Task another one supersedes: current applications end
\* with the Task.
CloseTask ==
  /\ "close" \in Admitted
  /\ task' = [task EXCEPT !.open = FALSE]
  /\ dec' = [k \in Kinds |-> IF dec[k].app = "current" THEN NoDecision ELSE dec[k]]
  /\ UNCHANGED cp

-----------------------------------------------------------------------------

\* Intake opens the Task, with no baseline or one carried over.
ShapingInit ==
  /\ task \in {[mode |-> m, phase |-> "shaping", open |-> TRUE, rev |-> 0, base |-> b,
                cu |-> 0, cuBase |-> Null, close |-> Null] :
               m \in Modes, b \in Baselines \cup {Null}}
  /\ cp = NoCheckpoint
  /\ dec = [k \in Kinds |-> NoDecision]

\* Everything but the passing of time and the end of the Task.
Progress ==
  \/ \E asked \in SUBSET Kinds, plain, boundary \in BOOLEAN :
       RecordCheckpoint(asked, plain, boundary)
  \/ \E k \in Kinds, a \in Answers : Resolve(k, a)
  \/ \E op \in {"create", "keep", "replace"}, edit, crit \in BOOLEAN,
        b \in Baselines \cup {Null} : UpdateScope(op, edit, crit, b)
  \/ AdvanceTask
  \/ FinalizeAdvice

ShapingNext == Progress \/ (\E k \in Kinds : Expire(k)) \/ CloseTask

ShapingSpec == ShapingInit /\ [][ShapingNext]_shapingVars

-----------------------------------------------------------------------------
(* Properties.                                                             *)

\* Whatever the methods commit, the store's readers accept: they refuse, as a
\* corrupt database, a checkpoint of another scope revision, a ready one with
\* something missing, an applied gap without its application, an application
\* or a request that is neither at the Task's coordinates nor marked stale, a
\* current request that no current checkpoint or application accounts for; and
\* the projection never has to report inconsistent authority.
ReadersAccept ==
  /\ cp.st # "none" => cp.rev = task.rev
  /\ cp.st = "ready" => ~GapOpen /\ cp.base # Null /\ cp.boundary
  /\ Authority({"inconsistent"}) = {}
  /\ \A k \in {l \in Kinds : dec[l].gap # "none"} :
       LET r == dec[k]
       IN /\ r.gap = "applied" <=> r.app # "none"
          /\ r.app = "current" => r.linked /\ r.on = Here /\ Status(r) = "resolved"
          /\ r.app = "stale" => r.basis = "stale"
          /\ task.open /\ r.own => /\ cp.st # "none"
                                   /\ r.at = Here \/ r.app = "stale"
          /\ task.open /\ r.basis = "current" => r.own \/ r.app = "current"

\* In implementation every decision has been applied and still holds: none is
\* asked, refused, expired, or accepted and waiting, and no update moves the
\* scope, the baseline or the Change Unit away from under an application.
ImplementationSettled ==
  task.open /\ task.phase = "implementation" =>
    /\ cp.st = "ready" /\ task.cu # 0
    /\ Pending = {}
    /\ \A k \in Gaps : dec[k].gap = "applied"
    /\ Graph = Authority({"applied"})

\* A stale application obliges: until it is gone an open Task keeps its phase,
\* scope and close basis, and what ends it is a successor checkpoint that ends
\* all of them and inherits none of their answers.
StaleConsumedWhole ==
  [][LET stale == Applications("stale")
     IN task.open /\ task'.open /\ stale # {} =>
          \/ task' = task /\ Applications("stale")' = stale
          \/ /\ task.phase = "shaping"
             /\ task' = [task EXCEPT !.close = Null]
             /\ \A k \in stale : dec'[k].gap \in {"none", "current"}]_shapingVars

\* The close basis an advisor Task carries is the one of its present scope,
\* baseline and Change Unit, its checkpoint is ready with every gap applied,
\* and it names exactly the applications that are current.
AdviceBasisCurrent ==
  task.open /\ task.close # Null =>
    /\ CloseBasisCurrent
    /\ cp.st = "ready" /\ \A k \in Gaps : dec[k].gap = "applied"
    /\ task.close.apps = Applications("current")

\* Some method other than close_task would be carried out.
CanProgress ==
  \/ \E asked \in SUBSET Kinds, plain, boundary \in BOOLEAN : MayRecordAs(asked, plain, boundary)
  \/ \E k \in Kinds : MayResolve(k)
  \/ \E op \in {"create", "keep", "replace"}, edit, crit \in BOOLEAN,
        b \in Baselines \cup {Null} : MayUpdateScope(op, edit, crit, b)
  \/ MayAdvance
  \/ MayFinalize

\* A Task being shaped can always go on by some method other than closing it,
\* unless an accepted answer stands beside something that must be revised: the
\* workflow then requires a replacement checkpoint, which may not retire the
\* accepted answer.
NotStranded ==
  task.open /\ task.phase = "shaping" /\ task.rev < MaxRev /\ ~CanProgress =>
    /\ Authority({"accepted_unapplied"}) # {}
    /\ cp.plain \/ Recovery \cup Authority({"stale"}) # {}

\* agent-workflow.md: after a rejection, a deferral or an expiration the plan is
\* revised with record_shaping_checkpoint.  Even when every question has its
\* answer, that call is refused while one of them is accepted and not applied.
RecoveryPossible == task.open /\ Recovery # {} /\ Pending = {} => MayRecord

=============================================================================
