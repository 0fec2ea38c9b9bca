--------------------------- MODULE TaskAuthority ---------------------------
(***************************************************************************)
(* The durable authority a project grants its Tasks: the workflow policy,  *)
(* the active-Task pointer, each Task's control level, scope and close     *)
(* basis, the write tickets, the Runs, and the user actions that approve   *)
(* sensitive writes, accept results and authorise cancellation.            *)
(*                                                                         *)
(* One action is one committed method call.  Methods plan on one           *)
(* state_version and commit only if it is unchanged (module CoreCommit,    *)
(* PlannedOnBasis), so a method's reads and writes are one atomic step     *)
(* here; a rejected or blocked call changes nothing and is no step.        *)
(*                                                                         *)
(* Abstracted: a write's operation, paths and baseline are one `target`    *)
(* (NoTarget: no product file); a Change Unit is named by the              *)
(* scope_revision that created it; shaping (checkpoints, gaps) only        *)
(* decides when AdvanceTask and FinalizeAdvice are taken; the blockers     *)
(* that come from outside this module (evidence, unrecorded changes,       *)
(* recovery) can only withhold a step.                                     *)
(***************************************************************************)
EXTENDS Integers, FiniteSets

CONSTANTS
    Tasks,          \* task ids
    Tickets,        \* write-ticket ids
    Actions,        \* user-action request ids
    Targets,        \* what a write touches
    NoTarget,       \* the target of a write with no product file
    Policies,       \* project workflow policies
    Modes,          \* the Task modes explored, of "advisor", "direct", "work"
    Requests,       \* the requested control levels explored
    Intents,        \* the user-action kinds explored
    MaxScope,       \* bound on scope_revision
    MaxBasis,       \* bound on close_basis_revision
    MaxTime,        \* bound on the clock
    None

Observe == 0
Light == 1
Tracked == 2
Sensitive == 3
Levels == Observe .. Sensitive

NotRequired == 0
PolicyDependent == 1
Required == 2
Acceptances == NotRequired .. Required

\* A write attempt: what it touches and whether it declares sensitive categories.
Writes == [target : Targets, sensitive : BOOLEAN]
Product(w) == w.target # NoTarget

\* A policy: the default levels, the Light section, the ticket idle timeout (0: none),
\* and `rest`, everything that the write-authority fingerprint does not cover.
PolicyType == [direct : Levels, work : Levels, light : BOOLEAN, lightPaths : SUBSET Targets,
               denied : SUBSET Targets, lightAcceptance : Acceptances, idle : Nat, rest : Nat]

ASSUME TaskAuthorityAssumption ==
    /\ NoTarget \in Targets
    /\ Policies \subseteq PolicyType
    /\ Modes \subseteq {"advisor", "direct", "work"}
    /\ Requests \subseteq Levels
    /\ Intents \subseteq {"approval", "acceptance", "cancellation"}
    /\ MaxScope \in Nat /\ MaxBasis \in Nat /\ MaxTime \in Nat
    /\ None \notin Actions \cup Tasks

Max2(a, b) == IF a >= b THEN a ELSE b

VARIABLES
    policy,         \* the project workflow policy
    now,            \* the canonical clock
    activeTask,     \* project_state.active_task_id
    task,           \* tasks rows
    ticket,         \* write_tickets rows
    userAction,     \* user_action_requests rows with their resolutions
    runs,           \* runs rows
    closeEvents     \* authority_events of close_task, with the Task control they closed under

vars == <<policy, now, activeTask, task, ticket, userAction, runs, closeEvents>>

Outcomes == {"completed", "cancelled", "superseded"}
Mark == [level : Levels, acceptance : Acceptances]
Basis == [revision : 1 .. MaxBasis, scope : 1 .. MaxScope, cu : 1 .. MaxScope,
          requirements : SUBSET Writes]
Task == [mode : Modes, requested : Levels, level : Levels, acceptance : Acceptances,
         mark : Mark \cup {None}, phase : {"shaping", "implementation"},
         outcome : Outcomes \cup {"open"}, scope : 0 .. MaxScope, cu : 0 .. MaxScope,
         sensitiveEffect : BOOLEAN, locked : BOOLEAN,
         revision : 0 .. MaxBasis, basis : Basis \cup {None}]
Ticket == [task : Tasks, cu : 1 .. MaxScope, scope : 1 .. MaxScope, fingerprint : PolicyType,
           write : Writes, approval : Actions \cup {None}, idleExpires : Nat,
           status : {"active", "consumed", "invalidated"}]
UserAction == [task : Tasks, kind : Intents, scope : 0 .. MaxScope, cu : 0 .. MaxScope,
               revision : 0 .. MaxBasis, write : Writes \cup {None}, expires : Nat,
               answer : {"none", "accepted", "rejected"},
               basisStatus : {"current", "stale", "superseded"}]
CloseEvent == [task : Tasks, outcome : Outcomes, level : Levels, acceptance : Acceptances,
               basis : Basis \cup {None}]
\* Runs are told apart by what they record.
Run == [task : Tasks, cu : 1 .. MaxScope, scope : 1 .. MaxScope, write : Writes,
        ticket : Tickets \cup {None}]

ASSUME NoneIsNoRow == None \notin Task \cup Ticket \cup UserAction \cup Mark \cup Basis

\* Every record keeps its shape, and revisions and times stay within their bounds.
TypeOK ==
    /\ policy \in Policies
    /\ now \in 0 .. MaxTime
    /\ activeTask \in Tasks \cup {None}
    /\ task \in [Tasks -> Task \cup {None}]
    /\ ticket \in [Tickets -> Ticket \cup {None}]
    /\ userAction \in [Actions -> UserAction \cup {None}]
    /\ runs \subseteq Run
    /\ closeEvents \subseteq CloseEvent

----------------------------------------------------------------------------
(* Policy resolution: core/src/policy/workflow.rs, store/workflow_records.rs *)

Fingerprint(p) == [p EXCEPT !.rest = 0]

LightPathsAllowed(p, w) ==
    /\ p.light
    /\ Product(w) => w.target \in p.lightPaths \ p.denied

\* `auto` asks for the mode's default, which is never above the project minimum: it is
\* the request Observe.
EffectiveControlLevel(mode, requested, p) ==
    LET minimum == IF mode = "direct" THEN p.direct ELSE Max2(p.work, Tracked)
        chosen == Max2(requested, minimum)
    IN  IF mode = "advisor" THEN Observe
        ELSE IF chosen = Light /\ ~p.light THEN Tracked
        ELSE chosen

AcceptanceForControl(level, p) ==
    CASE level = Observe -> NotRequired
      [] level = Light -> p.lightAcceptance
      [] OTHER -> Required

\* The level and acceptance a Task must have under p: never below what it has, what p
\* asks, or what a reevaluation mark records.
ResolvedLevel(k, p) ==
    LET selected == Max2(k.level, EffectiveControlLevel(k.mode, k.requested, p))
    IN  IF k.mark = None THEN selected ELSE Max2(selected, k.mark.level)

ResolvedAcceptance(k, p) ==
    LET selected == Max2(k.acceptance, AcceptanceForControl(ResolvedLevel(k, p), p))
    IN  IF k.mark = None THEN selected ELSE Max2(selected, k.mark.acceptance)

PendingReevaluation(k) ==
    k.mark # None /\ (k.mark.level > k.level \/ k.mark.acceptance > k.acceptance)

\* update_task_control_level: a mark the new values satisfy is removed.
WithControl(k, level, acceptance) ==
    [k EXCEPT !.level = level, !.acceptance = acceptance,
              !.mark = IF @ # None /\ (@.level > level \/ @.acceptance > acceptance)
                       THEN @ ELSE None]

\* A method that raises only when something rises.
Raised(k, level, acceptance) ==
    IF level > k.level \/ acceptance > k.acceptance THEN WithControl(k, level, acceptance) ELSE k

\* The control a method resolves when the Change Unit's effect contract may be sensitive.
ScopedLevel(k, p, sensitiveEffect) == IF sensitiveEffect THEN Sensitive ELSE ResolvedLevel(k, p)
ScopedAcceptance(k, p, sensitiveEffect) ==
    Max2(ResolvedAcceptance(k, p), AcceptanceForControl(ScopedLevel(k, p, sensitiveEffect), p))

----------------------------------------------------------------------------
(* Rows and their currency *)

Exists(t) == task[t] # None
Open(t) == Exists(t) /\ task[t].outcome = "open"
ActiveTickets(t) == {x \in Tickets : ticket[x] # None /\ ticket[x].status = "active"
                                     /\ ticket[x].task = t}

Elapsed(deadline) == deadline # 0 /\ now >= deadline

\* effective_user_action_status = pending, on a current basis.
Pending(a) ==
    /\ userAction[a] # None
    /\ userAction[a].basisStatus = "current"
    /\ userAction[a].answer = "none"
    /\ ~Elapsed(userAction[a].expires)

(* Mutant: any accepted answer of the kind counts, whatever it was asked about. *)
Accepted_Variant(a, kind, t) ==
    userAction[a] # None /\ userAction[a].kind = kind /\ userAction[a].task = t
    /\ userAction[a].answer = "accepted"

\* accepted_current_user_authority at the Task's scope and Change Unit.
Accepted(a, kind, t) ==
    /\ userAction[a] # None
    /\ userAction[a].kind = kind
    /\ userAction[a].task = t
    /\ userAction[a].answer = "accepted"
    /\ userAction[a].basisStatus = "current"
    /\ userAction[a].scope = task[t].scope
    /\ userAction[a].cu = task[t].cu

\* What an approval, or a ticket, for g allows: the same target, no category beyond g's.
Covers(g, w) == g.target = w.target /\ (w.sensitive => g.sensitive)

CurrentApproval(a, t, w) ==
    /\ Accepted(a, "approval", t)
    /\ ~Elapsed(userAction[a].expires)
    /\ Covers(userAction[a].write, w)

ApprovalRequired(level, w) == level = Sensitive \/ w.sensitive

\* assess_write_ticket_approval: the ticket's recorded approval, or its absence, still
\* satisfies the Task at `level`.
ApprovalHolds(x, level) ==
    IF x.approval = None THEN ~ApprovalRequired(level, x.write)
    ELSE CurrentApproval(x.approval, x.task, x.write)

Invalidate(xs) == [x \in Tickets |-> IF x \in xs THEN [ticket[x] EXCEPT !.status = "invalidated"]
                                     ELSE ticket[x]]

\* MarkSupersededOrStale: current actions of t lose their basis, answered ones as stale.
LoseBasis(t, kinds) ==
    [a \in Actions |->
        IF /\ userAction[a] # None
           /\ userAction[a].task = t
           /\ userAction[a].kind \in kinds
           /\ userAction[a].basisStatus = "current"
        THEN [userAction[a] EXCEPT
                 !.basisStatus = IF userAction[a].answer = "none" THEN "superseded" ELSE "stale"]
        ELSE userAction[a]]

BasisCurrent(k) ==
    /\ k.basis # None
    /\ k.basis.scope = k.scope
    /\ k.basis.cu = k.cu
    /\ k.basis.revision = k.revision

----------------------------------------------------------------------------
(* Intake, scope and phase *)

\* The acceptance policies intake can record for a new Task.
IntakeAcceptances(mode, level, p) ==
    CASE mode = "advisor" -> {Required}
      [] level = Light -> {c \in Acceptances : c >= p.lightAcceptance}
      [] OTHER -> {AcceptanceForControl(level, p)}

NewTask(mode, requested, level, acceptance) ==
    [mode |-> mode, requested |-> requested, level |-> level, acceptance |-> acceptance,
     mark |-> None, phase |-> IF mode = "direct" THEN "implementation" ELSE "shaping",
     outcome |-> "open", scope |-> 0, cu |-> 0, sensitiveEffect |-> FALSE, locked |-> FALSE,
     revision |-> 0, basis |-> None]

\* A new Task becomes the active one; supersede_active also ends the Task it replaces.
IntakeCreate(t, mode, requested, acceptance, supersede) ==
    LET level == EffectiveControlLevel(mode, requested, policy)
        old == activeTask
        row == NewTask(mode, requested, level, acceptance)
    IN  /\ ~Exists(t)
        /\ mode = "advisor" => requested = Observe
        /\ acceptance \in IntakeAcceptances(mode, level, policy)
        /\ supersede => old # None
        /\ task' = [u \in Tasks |-> IF u = t THEN row
                                     ELSE IF supersede /\ u = old
                                     THEN [task[u] EXCEPT !.outcome = "superseded"]
                                     ELSE task[u]]
        /\ ticket' = IF old = None THEN ticket ELSE Invalidate(ActiveTickets(old))
        /\ activeTask' = t
        /\ UNCHANGED <<policy, now, userAction, runs, closeEvents>>

\* resume_active raises the active Task to what the current policy asks.
IntakeResume ==
    /\ activeTask # None
    /\ LET k == task[activeTask]
       IN  task' = [task EXCEPT ![activeTask] = Raised(k, ResolvedLevel(k, policy),
                                                         ResolvedAcceptance(k, policy))]
    /\ UNCHANGED <<policy, now, activeTask, ticket, userAction, runs, closeEvents>>

\* A method that may bump the Task's scope and close basis revisions leaves no basis.
NextRevision(k) == [k EXCEPT !.revision = @ + 1, !.basis = None]

\* update_scope with a scope, baseline or Change Unit change: `op` says what becomes of the
\* Change Unit, `sensitiveEffect` what the requested effect contract allows.
UpdateScope(t, op, sensitiveEffect) ==
    LET k == task[t]
        next == k.scope + 1
        raised == Raised(k, ScopedLevel(k, policy, sensitiveEffect),
                            ScopedAcceptance(k, policy, sensitiveEffect))
        scoped == [NextRevision(raised) EXCEPT !.scope = next]
    IN  /\ Open(t)
        /\ ~k.locked
        /\ k.scope < MaxScope /\ k.revision < MaxBasis
        /\ (op = "create") <=> (k.cu = 0)
        /\ sensitiveEffect => op # "keep" /\ k.mode # "advisor"
        /\ task' = [task EXCEPT ![t] =
               IF op = "keep" THEN scoped
               ELSE [scoped EXCEPT !.cu = next, !.sensitiveEffect = sensitiveEffect]]
        /\ ticket' = Invalidate(ActiveTickets(t))
        /\ userAction' = LoseBasis(t, Intents)
        /\ UNCHANGED <<policy, now, activeTask, runs, closeEvents>>

\* update_scope that changes nothing in the scope still raises control.
UpdateScopeUnchanged(t) ==
    /\ Open(t)
    /\ task[t].cu # 0
    /\ task' = [task EXCEPT ![t] = Raised(@, ResolvedLevel(@, policy), ResolvedAcceptance(@, policy))]
    /\ UNCHANGED <<policy, now, activeTask, ticket, userAction, runs, closeEvents>>

\* record_shaping_checkpoint, for what it does here: it withdraws a current close basis.
RecordShaping(t) ==
    /\ Open(t)
    /\ task[t].phase = "shaping"
    /\ task[t].basis # None
    /\ task[t].revision < MaxBasis
    /\ task' = [task EXCEPT ![t] = NextRevision(@)]
    /\ UNCHANGED <<policy, now, activeTask, ticket, userAction, runs, closeEvents>>

\* `locked`: a decision applied during shaping fixes the scope of the implementation.
AdvanceTask(t, locked) ==
    /\ Open(t)
    /\ task[t].mode = "work"
    /\ task[t].phase = "shaping"
    /\ task[t].cu # 0
    /\ task' = [task EXCEPT ![t].phase = "implementation", ![t].locked = locked]
    /\ UNCHANGED <<policy, now, activeTask, ticket, userAction, runs, closeEvents>>

WithBasis(k, requirements) ==
    [k EXCEPT !.revision = @ + 1,
              !.basis = [revision |-> k.revision + 1, scope |-> k.scope, cu |-> k.cu,
                         requirements |-> requirements]]

FinalizeAdvice(t) ==
    /\ Open(t)
    /\ task[t].mode = "advisor"
    /\ task[t].cu # 0
    /\ task[t].revision < MaxBasis
    /\ task' = [task EXCEPT ![t] = WithBasis(@, {})]
    /\ UNCHANGED <<policy, now, activeTask, ticket, userAction, runs, closeEvents>>

----------------------------------------------------------------------------
(* Write tickets: core/src/write_ticket *)

\* decide_prepare_write_policy.
WriteLevel(k, p, w) ==
    LET resolved == ResolvedLevel(k, p)
    IN  IF w.target \in p.denied \ {NoTarget} \/ w.sensitive THEN Sensitive
        ELSE IF resolved = Light /\ ~LightPathsAllowed(p, w) THEN Tracked
        ELSE resolved

(* Mutant: preparing a write leaves the Task's control alone. *)
WriteControl_Variant(k, p, w) == k

WriteControl(k, p, w) ==
    LET level == WriteLevel(k, p, w)
        acceptance == Max2(ResolvedAcceptance(k, p), AcceptanceForControl(level, p))
    IN  IF level > k.level \/ acceptance > k.acceptance \/ k.mark # None
        THEN WithControl(k, level, acceptance) ELSE k

\* The active tickets a preparation finds: usable for w, or no longer valid.
Reusable(x, k, w) ==
    LET r == ticket[x]
    IN  /\ ~Elapsed(r.idleExpires)
        /\ r.fingerprint = Fingerprint(policy)
        /\ r.cu = k.cu /\ r.scope = k.scope
        /\ Covers(r.write, w)

Compatible(t, k, w) == {x \in ActiveTickets(t) : Reusable(x, k, w) /\ ApprovalHolds(ticket[x], k.level)}
StaleTickets(t, k, w) ==
    {x \in ActiveTickets(t) :
        /\ ~Elapsed(ticket[x].idleExpires)
        /\ \/ ticket[x].fingerprint # Fingerprint(policy)
           \/ Reusable(x, k, w) /\ ~ApprovalHolds(ticket[x], k.level)}

PrepareWriteAllowed(t) ==
    /\ Open(t)
    /\ task[t].mode # "advisor"
    /\ task[t].phase = "implementation"
    /\ task[t].cu # 0
    /\ ResolvedLevel(task[t], policy) # Observe

NewTicket(t, k, w, approval) ==
    [task |-> t, cu |-> k.cu, scope |-> k.scope, fingerprint |-> Fingerprint(policy),
     write |-> w, approval |-> approval,
     idleExpires |-> IF policy.idle = 0 THEN 0 ELSE now + policy.idle, status |-> "active"]

\* A ticket is issued: nothing objects and no active ticket covers the write.
PrepareWriteIssue(t, w, x, approval) ==
    LET k == WriteControl(task[t], policy, w)
        approvals == {a \in Actions : CurrentApproval(a, t, w)}
    IN  /\ PrepareWriteAllowed(t)
        /\ activeTask = t
        /\ ticket[x] = None
        /\ \A a \in Actions : ~(Pending(a) /\ userAction[a].kind = "approval" /\ userAction[a].task = t)
        /\ Compatible(t, k, w) = {}
        /\ ApprovalRequired(k.level, w) => approvals # {}
        /\ approval \in IF approvals = {} THEN {None} ELSE approvals
        /\ task' = [task EXCEPT ![t] = k]
        /\ ticket' = [Invalidate(StaleTickets(t, k, w)) EXCEPT ![x] = NewTicket(t, k, w, approval)]
        /\ UNCHANGED <<policy, now, activeTask, userAction, runs, closeEvents>>

\* A preparation that reuses a ticket, or that objects (a path outside the Change Unit, a
\* changed workspace, a missing approval): the control and the tickets are still brought
\* up to date.
PrepareWriteDecide(t, w) ==
    LET k == WriteControl(task[t], policy, w)
    IN  /\ PrepareWriteAllowed(t)
        /\ task' = [task EXCEPT ![t] = k]
        /\ ticket' = Invalidate(StaleTickets(t, k, w))
        /\ UNCHANGED <<policy, now, activeTask, userAction, runs, closeEvents>>

----------------------------------------------------------------------------
(* Runs: core/src/recording *)

TicketRequired(k, w) == Product(w) \/ ResolvedLevel(k, policy) = Sensitive

(* Mutant: the approval is not assessed again when the ticket is used. *)
Admits_Variant(x, t, w) ==
    /\ ticket[x] # None /\ ticket[x].status = "active"
    /\ ticket[x].fingerprint = Fingerprint(policy)
    /\ ticket[x].task = t /\ ticket[x].cu = task[t].cu /\ ticket[x].scope = task[t].scope
    /\ ticket[x].write = w

\* admit_record_run: the ticket authorises exactly this Run, now.
Admits(x, t, w) ==
    LET r == ticket[x]
        k == task[t]
    IN  /\ r # None
        /\ r.status = "active"
        /\ ~Elapsed(r.idleExpires)
        /\ ~PendingReevaluation(k)
        /\ r.fingerprint = Fingerprint(policy)
        /\ r.task = t /\ r.cu = k.cu /\ r.scope = k.scope
        /\ r.write = w
        /\ ApprovalHolds(r, k.level)

\* The sensitive-action requirement a consumed ticket carries into the close basis.
Requirement(x) ==
    IF x # None /\ (ticket[x].write.sensitive \/ ticket[x].approval # None)
    THEN {ticket[x].write} ELSE {}

Consume(x) == IF x = None THEN ticket ELSE [ticket EXCEPT ![x].status = "consumed"]

\* `assess`: the Run carries a close assessment, so a close basis is recorded; without one
\* the Task is left with none.
RecordRun(t, w, x, assess) ==
    LET k == task[t]
        \* category-only sensitive reports make final acceptance mandatory
        marked == IF w.sensitive THEN WithControl(k, k.level, Required) ELSE k
        carried == IF BasisCurrent(k) THEN k.basis.requirements ELSE {}
    IN  /\ Open(t)
        /\ k.mode # "advisor"
        /\ k.phase = "implementation"
        /\ k.cu # 0
        /\ k.revision < MaxBasis
        /\ IF TicketRequired(k, w) THEN x # None /\ Admits(x, t, w) ELSE x = None
        /\ x # None /\ ApprovalRequired(ResolvedLevel(k, policy), w) =>
              \A a \in Actions : ~(/\ Pending(a) /\ userAction[a].kind = "approval"
                                   /\ userAction[a].task = t /\ Covers(userAction[a].write, w))
        /\ runs' = runs \cup {[task |-> t, cu |-> k.cu, scope |-> k.scope, write |-> w, ticket |-> x]}
        /\ task' = [task EXCEPT ![t] = IF assess THEN WithBasis(marked, carried \cup Requirement(x))
                                       ELSE NextRevision(marked)]
        /\ userAction' = LoseBasis(t, {"acceptance"})
        /\ ticket' = Consume(x)
        /\ UNCHANGED <<policy, now, activeTask, closeEvents>>

----------------------------------------------------------------------------
(* Close: core/src/close_readiness, core/src/methods/close_task.rs *)

\* resolve_control: the Task as close sees it.
CloseControl(t) ==
    LET k == task[t]
    IN  Raised(k, ScopedLevel(k, policy, k.sensitiveEffect), ScopedAcceptance(k, policy, k.sensitiveEffect))

(* Mutant: an acceptance of an earlier basis counts. *)
CurrentAcceptance_Variant(a, t) == Accepted(a, "acceptance", t)

CurrentAcceptance(a, t) ==
    /\ Accepted(a, "acceptance", t)
    /\ userAction[a].revision = task[t].revision

\* light_completion_without_acceptance_allowed.
LightCompletionAllowed(t) ==
    /\ policy.light
    /\ policy.lightAcceptance # Required
    /\ \A a \in Actions : ~(Pending(a) /\ userAction[a].task = t)
    /\ task[t].basis.requirements = {}
    /\ \A r \in runs :
          r.task = t =>
             /\ ~r.write.sensitive
             /\ Product(r.write) =>
                   /\ LightPathsAllowed(policy, r.write)
                   /\ r.scope = task[t].scope
                   /\ r.cu = task[t].basis.cu
                   /\ r.ticket # None

FinalAcceptanceRequired(t, k) ==
    CASE k.level = Observe -> k.mode = "advisor"
      [] k.level = Light -> k.acceptance = Required \/ ~LightCompletionAllowed(t)
      [] OTHER -> TRUE

\* unresolved_write_ticket_blockers: a ticket that could still be used.
OutstandingTicket(t) ==
    \E x \in ActiveTickets(t) :
        /\ ~Elapsed(ticket[x].idleExpires)
        /\ ticket[x].fingerprint = Fingerprint(policy)
        /\ ~PendingReevaluation(task[t])
        /\ ApprovalHolds(ticket[x], ResolvedLevel(task[t], policy))

(* Mutant: a Sensitive Task may close with no sensitive-action basis. *)
SensitiveCloseApproved_Variant(t, k) ==
    \A w \in k.basis.requirements : \E a \in Actions : CurrentApproval(a, t, w)

SensitiveCloseApproved(t, k) ==
    /\ k.level = Sensitive => k.basis.requirements # {}
    /\ \A w \in k.basis.requirements : \E a \in Actions : CurrentApproval(a, t, w)

PendingBlocksCompletion(t, k) ==
    \E a \in Actions :
        /\ Pending(a) /\ userAction[a].task = t
        /\ userAction[a].scope = k.scope /\ userAction[a].cu = k.cu
        /\ \/ userAction[a].kind = "acceptance" /\ userAction[a].revision = k.basis.revision
           \/ /\ userAction[a].kind = "approval"
              /\ \E w \in k.basis.requirements : Covers(userAction[a].write, w)

Completable(t, k) ==
    /\ ~OutstandingTicket(t)
    /\ k.cu # 0
    /\ BasisCurrent(k)
    /\ ~PendingBlocksCompletion(t, k)
    /\ SensitiveCloseApproved(t, k)
    /\ FinalAcceptanceRequired(t, k) => \E a \in Actions : CurrentAcceptance(a, t)

(* Mutant: the closed Task's tickets are forgotten. *)
CloseAs_Variant(t, k, outcome, nextActive) ==
    /\ task' = [task EXCEPT ![t] = [k EXCEPT !.outcome = outcome]]
    /\ activeTask' = nextActive
    /\ closeEvents' = closeEvents \cup {[task |-> t, outcome |-> outcome, level |-> k.level,
                                         acceptance |-> k.acceptance, basis |-> k.basis]}
    /\ UNCHANGED <<policy, now, ticket, userAction, runs>>

\* The common effect of close_task.
CloseAs(t, k, outcome, nextActive) ==
    /\ task' = [task EXCEPT ![t] = [k EXCEPT !.outcome = outcome]]
    /\ ticket' = Invalidate(ActiveTickets(t))
    /\ activeTask' = nextActive
    /\ closeEvents' = closeEvents \cup {[task |-> t, outcome |-> outcome, level |-> k.level,
                                         acceptance |-> k.acceptance, basis |-> k.basis]}
    /\ UNCHANGED <<policy, now, userAction, runs>>

Closeable(t) == Open(t) /\ activeTask = t

CloseComplete(t) ==
    /\ Closeable(t)
    /\ Completable(t, CloseControl(t))
    /\ CloseAs(t, CloseControl(t), "completed", t)

CloseCancel(t) ==
    /\ Closeable(t)
    /\ \E a \in Actions : Accepted(a, "cancellation", t)
    /\ CloseAs(t, CloseControl(t), "cancelled", t)

CloseSupersede(t, s) ==
    /\ Closeable(t)
    /\ s # t
    /\ Open(s)
    /\ CloseAs(t, CloseControl(t), "superseded", s)

----------------------------------------------------------------------------
(* Policy application: store/src/workflow_records.rs *)

(* Mutant: the newest policy replaces the pending mark. *)
MergedMark_Variant(k, p) ==
    LET required == EffectiveControlLevel(k.mode, k.requested, p)
    IN  [level |-> required, acceptance |-> AcceptanceForControl(required, p)]

\* merge_active_task_policy_reevaluation: the mark on the active Task after p is applied.
MergedMark(k, p) ==
    LET required == EffectiveControlLevel(k.mode, k.requested, p)
        level == Max2(required, IF k.mark = None THEN k.level ELSE k.mark.level)
        control == Max2(AcceptanceForControl(required, p), AcceptanceForControl(level, p))
    IN  [level |-> level,
         acceptance |-> Max2(control, IF k.mark = None THEN k.acceptance ELSE k.mark.acceptance)]

ApplyPolicy(p) ==
    LET changed == Fingerprint(p) # Fingerprint(policy)
    IN  /\ p # policy
        /\ policy' = p
        /\ task' = IF changed /\ activeTask # None
                   THEN [task EXCEPT ![activeTask].mark = MergedMark(task[activeTask], p)]
                   ELSE task
        /\ ticket' = Invalidate({x \in Tickets :
                         /\ ticket[x] # None /\ ticket[x].status = "active"
                         /\ \/ ticket[x].fingerprint # Fingerprint(p)
                            \/ changed /\ ticket[x].task = activeTask})
        /\ UNCHANGED <<now, activeTask, userAction, runs, closeEvents>>

----------------------------------------------------------------------------
(* User actions: user-action-service, core/src/methods/user_action.rs *)

\* expires = 0: no expiry.  An approval's request and its approved scope expire together.
RequestUserAction(a, t, kind, w, expires) ==
    LET k == task[t]
    IN  /\ userAction[a] = None
        /\ Open(t)
        /\ kind \in {"approval", "acceptance"} => k.cu # 0
        /\ kind = "acceptance" => k.basis # None
        /\ (kind = "approval") <=> (w # None)
        /\ expires # 0 => expires > now
        /\ userAction' = [userAction EXCEPT ![a] =
              [task |-> t, kind |-> kind, scope |-> k.scope, cu |-> k.cu,
               revision |-> IF kind = "acceptance" THEN k.basis.revision ELSE 0,
               write |-> w, expires |-> expires, answer |-> "none", basisStatus |-> "current"]]
        /\ UNCHANGED <<policy, now, activeTask, task, ticket, runs, closeEvents>>

\* The user answers; the basis the question was asked on must still be the current one.
ResolveUserAction(a, answer) ==
    /\ Pending(a)
    /\ LET r == userAction[a]
           k == task[r.task]
       IN  /\ Open(r.task)
           /\ r.scope = k.scope /\ r.cu = k.cu
           /\ r.kind = "acceptance" => r.revision = k.revision
    /\ userAction' = [userAction EXCEPT ![a].answer = answer]
    /\ UNCHANGED <<policy, now, activeTask, task, ticket, runs, closeEvents>>

Tick ==
    /\ now < MaxTime
    /\ now' = now + 1
    /\ UNCHANGED <<policy, activeTask, task, ticket, userAction, runs, closeEvents>>

----------------------------------------------------------------------------

Init ==
    /\ policy \in Policies
    /\ now = 0
    /\ activeTask = None
    /\ task = [t \in Tasks |-> None]
    /\ ticket = [x \in Tickets |-> None]
    /\ userAction = [a \in Actions |-> None]
    /\ runs = {}
    /\ closeEvents = {}

Next ==
    \/ \E t \in Tasks, mode \in Modes, requested \in Requests, acceptance \in Acceptances,
          supersede \in BOOLEAN : IntakeCreate(t, mode, requested, acceptance, supersede)
    \/ IntakeResume
    \/ \E t \in Tasks, op \in {"keep", "create", "replace"}, sensitiveEffect \in BOOLEAN :
          UpdateScope(t, op, sensitiveEffect)
    \/ \E t \in Tasks : UpdateScopeUnchanged(t) \/ RecordShaping(t) \/ FinalizeAdvice(t)
    \/ \E t \in Tasks, locked \in BOOLEAN : AdvanceTask(t, locked)
    \/ \E t \in Tasks, w \in Writes, x \in Tickets, approval \in Actions \cup {None} :
          PrepareWriteIssue(t, w, x, approval)
    \/ \E t \in Tasks, w \in Writes : PrepareWriteDecide(t, w)
    \/ \E t \in Tasks, w \in Writes, x \in Tickets \cup {None}, assess \in BOOLEAN :
          RecordRun(t, w, x, assess)
    \/ \E t \in Tasks : CloseComplete(t) \/ CloseCancel(t)
    \/ \E t, s \in Tasks : CloseSupersede(t, s)
    \/ \E p \in Policies : ApplyPolicy(p)
    \/ \E a \in Actions, t \in Tasks, kind \in Intents, w \in Writes \cup {None}, expires \in 0 .. MaxTime :
          RequestUserAction(a, t, kind, w, expires)
    \/ \E a \in Actions, answer \in {"accepted", "rejected"} : ResolveUserAction(a, answer)
    \/ Tick

Spec == Init /\ [][Next]_vars

----------------------------------------------------------------------------
(* Properties *)

\* A ticket still marked active is usable as it stands: its Task is the open, active one in
\* the implementation phase, and its Change Unit, scope revision and write-authority
\* fingerprint are the current ones.  Every method and policy change that moves one of
\* them invalidates the ticket in the same commit.
ActiveTicketsCurrent ==
    \A x \in Tickets :
        ticket[x] # None /\ ticket[x].status = "active" =>
            LET k == task[ticket[x].task]
            IN  /\ Open(ticket[x].task)
                /\ activeTask = ticket[x].task
                /\ k.phase = "implementation"
                /\ ticket[x].cu = k.cu /\ ticket[x].scope = k.scope
                /\ ticket[x].fingerprint = Fingerprint(policy)

\* While a ticket is active its Task's control and acceptance are at least what the current
\* policy asks, and no reevaluation is outstanding: a stricter policy never leaves a ticket
\* issued under the weaker one.
TicketControlCurrent ==
    \A x \in Tickets :
        ticket[x] # None /\ ticket[x].status = "active" =>
            LET k == task[ticket[x].task]
            IN  /\ k.level >= EffectiveControlLevel(k.mode, k.requested, policy)
                /\ k.acceptance >= AcceptanceForControl(k.level, policy)
                /\ ~PendingReevaluation(k)

\* A Task closed as completed under Tracked or Sensitive control, or as an Advisor, was
\* accepted by the user on exactly the basis it closed on: no later Run, scope change or
\* new basis can inherit an earlier acceptance.
CompletedIsAccepted ==
    \A e \in closeEvents :
        e.outcome = "completed" /\ (e.level >= Tracked \/ task[e.task].mode = "advisor") =>
            \E a \in Actions :
                /\ userAction[a] # None
                /\ userAction[a].kind = "acceptance"
                /\ userAction[a].task = e.task
                /\ userAction[a].answer = "accepted"
                /\ userAction[a].revision = e.basis.revision
                /\ userAction[a].scope = e.basis.scope /\ userAction[a].cu = e.basis.cu

\* A Task closed as completed under Sensitive control has a sensitive-action basis, and each
\* requirement in it was approved by the user for the scope it closed on.
SensitiveCompletionApproved ==
    \A e \in closeEvents :
        e.outcome = "completed" /\ e.level = Sensitive =>
            /\ e.basis.requirements # {}
            /\ \A w \in e.basis.requirements : \E a \in Actions :
                  /\ userAction[a] # None
                  /\ userAction[a].kind = "approval"
                  /\ userAction[a].task = e.task
                  /\ userAction[a].answer = "accepted"
                  /\ userAction[a].scope = e.basis.scope
                  /\ Covers(userAction[a].write, w)

\* A Task closed as cancelled was cancelled by the user at the scope it had then.
CancelledIsAuthorized ==
    \A e \in closeEvents :
        e.outcome = "cancelled" =>
            \E a \in Actions :
                /\ userAction[a] # None
                /\ userAction[a].kind = "cancellation"
                /\ userAction[a].task = e.task
                /\ userAction[a].answer = "accepted"
                /\ userAction[a].scope = task[e.task].scope /\ userAction[a].cu = task[e.task].cu

\* Every Run that wrote a product file, or that ran under Sensitive control, consumed a
\* ticket issued for this write of its Task, which was active before the step and becomes
\* consumed in it, on the active open Task; and under Sensitive control, or on a denied
\* path, an approval of the write was then current.
RunsAuthorized ==
    [][\A r \in runs' \ runs :
          Product(r.write) \/ task[r.task].level = Sensitive =>
             /\ r.ticket # None
             /\ ticket[r.ticket].task = r.task /\ ticket[r.ticket].write = r.write
             /\ ticket[r.ticket].status = "active" /\ ticket'[r.ticket].status = "consumed"
             /\ activeTask = r.task /\ Open(r.task)
             /\ task[r.task].level = Sensitive \/ r.write.target \in policy.denied \ {NoTarget} =>
                   \E a \in Actions : CurrentApproval(a, r.task, r.write)]_vars

\* A reevaluation mark stands for an obligation: it is dropped only when the Task has
\* reached the level and acceptance the mark asked for, and a later policy never weakens it.
MarksOnlySettled ==
    [][\A t \in Tasks :
          Exists(t) /\ PendingReevaluation(task[t]) =>
             \/ task'[t].level >= task[t].mark.level /\ task'[t].acceptance >= task[t].mark.acceptance
             \/ /\ task'[t].mark # None
                /\ task'[t].mark.level >= task[t].mark.level
                /\ task'[t].mark.acceptance >= task[t].mark.acceptance]_vars

\* The outcome a Task was closed with is the outcome it keeps: completion, cancellation or
\* supersession ends the Task path (docs/en/reference/core-model.md).  Does not hold:
\* intake supersedes the Task of the active pointer whatever its outcome (TaskTerminal.cfg).
TerminalOutcomeFinal == \A e \in closeEvents : task[e.task].outcome = e.outcome

\* A Task whose acceptance policy was required when it was completed had current final
\* acceptance (docs/en/reference/api/method-record-run.md: a category-only sensitive report
\* makes it mandatory).  Does not hold: final_acceptance_blocker decides an Observe Task by
\* its mode alone (TaskObserve.cfg).
RequiredAcceptanceHonoured ==
    \A e \in closeEvents :
        e.outcome = "completed" /\ e.acceptance = Required =>
            \E a \in Actions :
                /\ userAction[a] # None
                /\ userAction[a].kind = "acceptance"
                /\ userAction[a].task = e.task
                /\ userAction[a].answer = "accepted"
                /\ userAction[a].revision = e.basis.revision

\* Under Sensitive control the approval-bound requirement of a Run's consumed ticket is
\* preserved through close (docs/en/reference/api/method-record-run.md): it is in the basis
\* the Task completes on, when that basis has the Run's scope and Change Unit.  Does not
\* hold: a Run without a close assessment leaves no basis to carry it (TaskRequirements.cfg).
RequirementsReachClose ==
    \A e \in closeEvents, r \in runs :
        /\ e.outcome = "completed" /\ e.level = Sensitive
        /\ r.task = e.task /\ r.scope = e.basis.scope /\ r.cu = e.basis.cu
        /\ r.ticket # None
        => Requirement(r.ticket) \subseteq e.basis.requirements

=============================================================================
