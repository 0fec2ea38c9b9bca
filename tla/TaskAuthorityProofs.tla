-------------------------- MODULE TaskAuthorityProofs --------------------------
(***************************************************************************)
(* Proofs about TaskAuthority, for every set of Tasks, tickets, actions,   *)
(* targets and policies and every bound.                                   *)
(*                                                                         *)
(* Three facts carry everything.  Control is never lowered and a mark is   *)
(* never dropped unsettled (Firm), so what was resolved when a ticket was  *)
(* issued still holds when it is used.  A row of a user action keeps what  *)
(* it was asked about and, once accepted, its answer (Asked), so what a    *)
(* close relied on can still be pointed to.  And every step that moves a   *)
(* coordinate of the active Task takes the active tickets with it          *)
(* (TicketFine).                                                           *)
(***************************************************************************)
EXTENDS TaskAuthority, TLAPS

(* Zenon proves most leaves; the ones with arithmetic or large records say SMT. *)
USE Zenon

-----------------------------------------------------------------------------
(* What the resolution of control returns.                                 *)

\* The larger of two integers is one of them and below neither.
LEMMA Max2Facts ==
  ASSUME NEW a \in Int, NEW b \in Int
  PROVE  Max2(a, b) \in {a, b} /\ Max2(a, b) >= a /\ Max2(a, b) >= b
  BY SMT DEF Max2

\* The acceptance a level asks for is an acceptance policy.
LEMMA AcceptanceType ==
  ASSUME NEW l \in Levels, NEW p \in PolicyType
  PROVE  AcceptanceForControl(l, p) \in Acceptances
<1>1. p.lightAcceptance \in Acceptances
  BY DEF PolicyType
<1> QED BY SMT, <1>1 DEF AcceptanceForControl, Acceptances, NotRequired, PolicyDependent, Required

LEMMA EffectiveType ==
  ASSUME NEW mode, NEW l \in Levels, NEW p \in PolicyType
  PROVE  EffectiveControlLevel(mode, l, p) \in Levels
<1>1. p.direct \in Levels /\ p.work \in Levels
  BY DEF PolicyType
<1> QED BY SMT, <1>1 DEF EffectiveControlLevel, Levels, Max2, Observe, Light, Tracked, Sensitive

\* A level and an acceptance are enough for a Task: not below what it has, and
\* not below its mark.
Dominates(k, l, a) ==
  /\ l \in Levels /\ a \in Acceptances
  /\ l >= k.level /\ a >= k.acceptance
  /\ k.mark # None => l >= k.mark.level /\ a >= k.mark.acceptance

LEMMA ResolvedFacts ==
  ASSUME NEW k \in Task, NEW p \in PolicyType
  PROVE  /\ Dominates(k, ResolvedLevel(k, p), ResolvedAcceptance(k, p))
         /\ ResolvedLevel(k, p) >= EffectiveControlLevel(k.mode, k.requested, p)
         /\ ResolvedAcceptance(k, p) >= AcceptanceForControl(ResolvedLevel(k, p), p)
<1> DEFINE e == EffectiveControlLevel(k.mode, k.requested, p)
           l == ResolvedLevel(k, p)
           c == AcceptanceForControl(l, p)
<1>1. /\ k.level \in Levels /\ k.acceptance \in Acceptances /\ k.requested \in Levels
      /\ k.mark # None => k.mark.level \in Levels /\ k.mark.acceptance \in Acceptances
  BY DEF Task, Mark
<1>2. e \in Levels
  BY <1>1, EffectiveType
<1>3. /\ l \in Levels /\ l >= k.level /\ l >= e
      /\ k.mark # None => l >= k.mark.level
  <2> HIDE DEF e
  <2> QED BY SMT, <1>1, <1>2 DEF ResolvedLevel, Max2, Levels, Observe, Sensitive, e
<1>4. c \in Acceptances
  BY <1>3, AcceptanceType
<1>5. /\ ResolvedAcceptance(k, p) \in Acceptances
      /\ ResolvedAcceptance(k, p) >= k.acceptance /\ ResolvedAcceptance(k, p) >= c
      /\ k.mark # None => ResolvedAcceptance(k, p) >= k.mark.acceptance
  BY SMT, <1>1, <1>4 DEF ResolvedAcceptance, Max2, Acceptances, NotRequired, Required
<1> QED BY <1>3, <1>5 DEF Dominates

\* The same for a sensitive effect contract.
LEMMA ScopedFacts ==
  ASSUME NEW k \in Task, NEW p \in PolicyType, NEW s \in BOOLEAN
  PROVE  Dominates(k, ScopedLevel(k, p, s), ScopedAcceptance(k, p, s))
<1>1. Dominates(k, ResolvedLevel(k, p), ResolvedAcceptance(k, p))
  BY ResolvedFacts
<1>2. k.level \in Levels /\ (k.mark # None => k.mark.level \in Levels)
  BY DEF Task, Mark
<1>3. /\ ScopedLevel(k, p, s) \in Levels
      /\ ScopedLevel(k, p, s) >= k.level
      /\ k.mark # None => ScopedLevel(k, p, s) >= k.mark.level
  BY SMT, <1>1, <1>2 DEF Dominates, ScopedLevel, Levels, Observe, Sensitive
<1>4. AcceptanceForControl(ScopedLevel(k, p, s), p) \in Acceptances
  BY <1>3, AcceptanceType
<1>5. k.acceptance \in Acceptances /\ (k.mark # None => k.mark.acceptance \in Acceptances)
  BY DEF Task, Mark
<1> QED BY SMT, <1>1, <1>3, <1>4, <1>5 DEF Dominates, ScopedAcceptance, Max2, Acceptances,
       NotRequired, Required

\* The control of a prepared write.
WriteAcceptance(k, p, w) ==
  Max2(ResolvedAcceptance(k, p), AcceptanceForControl(WriteLevel(k, p, w), p))

LEMMA WriteFacts ==
  ASSUME NEW k \in Task, NEW p \in PolicyType, NEW w \in Writes
  PROVE  /\ Dominates(k, WriteLevel(k, p, w), WriteAcceptance(k, p, w))
         /\ WriteLevel(k, p, w) >= EffectiveControlLevel(k.mode, k.requested, p)
         /\ WriteAcceptance(k, p, w) >= AcceptanceForControl(WriteLevel(k, p, w), p)
<1> DEFINE l == WriteLevel(k, p, w)
           r == ResolvedLevel(k, p)
           e == EffectiveControlLevel(k.mode, k.requested, p)
<1>1. Dominates(k, r, ResolvedAcceptance(k, p)) /\ r >= e
  BY ResolvedFacts
<1>2. /\ k.level \in Levels /\ k.requested \in Levels
      /\ k.mark # None => k.mark.level \in Levels
  BY DEF Task, Mark
<1>3. e \in Levels
  BY <1>2, EffectiveType
<1>4. l \in Levels /\ l >= r
  BY SMT, <1>1 DEF Dominates, WriteLevel, Levels, Observe, Light, Tracked, Sensitive
<1>5. AcceptanceForControl(l, p) \in Acceptances
  BY <1>4, AcceptanceType
<1>6. k.acceptance \in Acceptances /\ (k.mark # None => k.mark.acceptance \in Acceptances)
  BY DEF Task, Mark
<1>7. l >= k.level /\ l >= e /\ (k.mark # None => l >= k.mark.level)
  <2> HIDE DEF l, r, e
  <2> QED BY SMT, <1>1, <1>2, <1>3, <1>4 DEF Dominates, Levels, Observe, Sensitive
<1>8. /\ WriteAcceptance(k, p, w) \in Acceptances
      /\ WriteAcceptance(k, p, w) >= k.acceptance
      /\ k.mark # None => WriteAcceptance(k, p, w) >= k.mark.acceptance
      /\ WriteAcceptance(k, p, w) >= AcceptanceForControl(l, p)
  BY SMT, <1>1, <1>5, <1>6 DEF Dominates, WriteAcceptance, Max2, Acceptances, NotRequired, Required
<1> QED BY <1>4, <1>7, <1>8 DEF Dominates

-----------------------------------------------------------------------------
(* What raising control does to a Task's row.                              *)

\* The row with another control: everything else is as it was.
Same(k, r) ==
  /\ r.mode = k.mode /\ r.requested = k.requested /\ r.phase = k.phase
  /\ r.outcome = k.outcome /\ r.scope = k.scope /\ r.cu = k.cu
  /\ r.sensitiveEffect = k.sensitiveEffect /\ r.locked = k.locked
  /\ r.revision = k.revision /\ r.basis = k.basis

\* A mark is reached, or stands at least as high.
Settled(k, r) ==
  k.mark # None =>
    \/ r.level >= k.mark.level /\ r.acceptance >= k.mark.acceptance
    \/ /\ r.mark # None
       /\ r.mark.level >= k.mark.level /\ r.mark.acceptance >= k.mark.acceptance

LEMMA WithControlFacts ==
  ASSUME NEW k \in Task, NEW l \in Levels, NEW a \in Acceptances
  PROVE  /\ WithControl(k, l, a) \in Task
         /\ Same(k, WithControl(k, l, a))
         /\ WithControl(k, l, a).level = l /\ WithControl(k, l, a).acceptance = a
         /\ Settled(k, WithControl(k, l, a))
         /\ WithControl(k, l, a).mark = None \/ WithControl(k, l, a).mark = k.mark
         /\ WithControl(k, l, a).mark = None =>
              k.mark = None \/ (l >= k.mark.level /\ a >= k.mark.acceptance)
<1> DEFINE r == WithControl(k, l, a)
<1>1. /\ r \in Task /\ Same(k, r) /\ r.level = l /\ r.acceptance = a
      /\ r.mark = IF k.mark # None /\ (k.mark.level > l \/ k.mark.acceptance > a)
                  THEN k.mark ELSE None
  BY DEF WithControl, Task, Same
<1>2. k.mark # None => k.mark.level \in Levels /\ k.mark.acceptance \in Acceptances
  BY DEF Task, Mark
<1> QED BY SMT, <1>1, <1>2 DEF Settled, Levels, Acceptances, Observe, Sensitive, NotRequired, Required

\* A row whose control was raised to a level and an acceptance that dominate.
RaisedTo(k, r, l, a) ==
  /\ r \in Task /\ Same(k, r)
  /\ r.level = l /\ r.acceptance = a
  /\ Settled(k, r) /\ ~PendingReevaluation(r)

LEMMA RaisedFacts ==
  ASSUME NEW k \in Task, NEW l, NEW a, Dominates(k, l, a)
  PROVE  /\ RaisedTo(k, Raised(k, l, a), l, a)
         /\ RaisedTo(k, WithControl(k, l, a), l, a)
<1> DEFINE w == WithControl(k, l, a)
<1>1. /\ l \in Levels /\ a \in Acceptances
      /\ k.level \in Levels /\ k.acceptance \in Acceptances
      /\ k.mark # None => k.mark.level \in Levels /\ k.mark.acceptance \in Acceptances
  BY DEF Dominates, Task, Mark
<1>2. /\ w \in Task /\ Same(k, w) /\ w.level = l /\ w.acceptance = a /\ Settled(k, w)
      /\ w.mark = None \/ w.mark = k.mark
  BY SMT, <1>1, WithControlFacts
<1>3. RaisedTo(k, w, l, a)
  <2> HIDE DEF w
  <2> QED BY SMT, <1>1, <1>2 DEF RaisedTo, Dominates, PendingReevaluation, Levels, Acceptances, Observe,
          Sensitive, NotRequired, Required
<1>4. ~(l > k.level \/ a > k.acceptance) => RaisedTo(k, k, l, a)
  BY SMT, <1>1 DEF RaisedTo, Same, Settled, Dominates, PendingReevaluation, Levels, Acceptances, Observe,
     Sensitive, NotRequired, Required
<1> QED BY <1>3, <1>4 DEF Raised

LEMMA WriteControlFacts ==
  ASSUME NEW k \in Task, NEW p \in PolicyType, NEW w \in Writes
  PROVE  RaisedTo(k, WriteControl(k, p, w), WriteLevel(k, p, w), WriteAcceptance(k, p, w))
<1> DEFINE l == WriteLevel(k, p, w)
           a == WriteAcceptance(k, p, w)
<1>1. Dominates(k, l, a)
  BY WriteFacts
<1>2. RaisedTo(k, WithControl(k, l, a), l, a) /\ RaisedTo(k, Raised(k, l, a), l, a)
  BY <1>1, RaisedFacts
<1>3. WriteControl(k, p, w) \in {WithControl(k, l, a), Raised(k, l, a)}
  BY DEF WriteControl, WriteAcceptance, Raised
<1> QED BY <1>2, <1>3

\* No step of a Task's life lowers its control, drops a mark unsettled, or
\* moves the scope of a Task that has ended.
Firm(k, r) ==
  /\ r \in Task
  /\ r.mode = k.mode
  /\ r.level >= k.level /\ r.acceptance >= k.acceptance
  /\ Settled(k, r)
  /\ k.outcome # "open" => r.outcome # "open" /\ r.scope = k.scope /\ r.cu = k.cu
  /\ (r.scope = k.scope /\ r.cu = k.cu) \/ r.scope # 0

LEMMA FirmSelf ==
  ASSUME NEW k \in Task
  PROVE  Firm(k, k)
<1>1. /\ k.level \in Levels /\ k.acceptance \in Acceptances
      /\ k.mark # None => k.mark.level \in Levels /\ k.mark.acceptance \in Acceptances
  BY DEF Task, Mark
<1> QED BY SMT, <1>1 DEF Firm, Settled, Levels, Acceptances, Observe, Sensitive, NotRequired, Required

LEMMA FirmRaised ==
  ASSUME NEW k \in Task, NEW r, NEW l, NEW a, Dominates(k, l, a), RaisedTo(k, r, l, a)
  PROVE  Firm(k, r)
  BY DEF Firm, RaisedTo, Dominates, Same

-----------------------------------------------------------------------------
(* The inductive invariant.                                                *)

\* A Change Unit has a scope, and an advisor's result is always accepted.
RowFine(k) ==
  /\ k.cu # 0 => k.scope # 0
  /\ k.mode = "advisor" => k.acceptance = Required

\* An active ticket x of a Task with row k.  The last conjunct is what lets a
\* Run on a denied path find its approval: the ticket made its Task Sensitive.
TicketFine(x, k) ==
  /\ k.outcome = "open" /\ k.phase = "implementation"
  /\ activeTask = x.task
  /\ x.cu = k.cu /\ x.scope = k.scope
  /\ x.fingerprint = Fingerprint(policy)
  /\ k.level >= EffectiveControlLevel(k.mode, k.requested, policy)
  /\ k.acceptance >= AcceptanceForControl(k.level, policy)
  /\ ~PendingReevaluation(k)
  /\ x.write.target \in policy.denied \ {NoTarget} => k.level = Sensitive

IsActive(x) == ticket[x] # None /\ ticket[x].status = "active"

TicketsFine ==
  \A x \in Tickets :
    IsActive(x) => Exists(ticket[x].task) /\ TicketFine(ticket[x], task[ticket[x].task])

\* A Task that was closed is there and has ended.
ClosedEnded ==
  \A e \in closeEvents : Exists(e.task) /\ task[e.task].outcome # "open"

History ==
  /\ ClosedEnded
  /\ CompletedIsAccepted
  /\ SensitiveCompletionApproved
  /\ CancelledIsAuthorized

Pointed == activeTask # None => Exists(activeTask)

RowsFine == \A t \in Tasks : Exists(t) => RowFine(task[t])

IInv == TypeOK /\ Pointed /\ RowsFine /\ TicketsFine /\ History

\* What a step does to the rows of Tasks and of user actions.
TasksKept ==
  \A t \in Tasks :
    /\ Exists(t) => task'[t] # None /\ Firm(task[t], task'[t])
    /\ ~Exists(t) /\ task'[t] # None => RowFine(task'[t])

Asked(u, v) ==
  /\ v.task = u.task /\ v.kind = u.kind /\ v.scope = u.scope /\ v.cu = u.cu
  /\ v.revision = u.revision /\ v.write = u.write
  /\ u.answer = "accepted" => v.answer = "accepted"

ActionsKept ==
  \A a \in Actions :
    userAction[a] # None => userAction'[a] # None /\ Asked(userAction[a], userAction'[a])

-----------------------------------------------------------------------------
(* Lemmas that many steps share.                                           *)

LEMMA RowsKept ==
  ASSUME TypeOK, TypeOK', RowsFine, TasksKept
  PROVE  RowsFine'
<1> SUFFICES ASSUME NEW t \in Tasks, task'[t] # None PROVE RowFine(task'[t])
  BY DEF RowsFine, Exists
<1>1. CASE task[t] # None
  <2>1. /\ RowFine(task[t]) /\ Firm(task[t], task'[t])
        /\ task'[t].acceptance \in Acceptances
    BY <1>1 DEF TypeOK, RowsFine, TasksKept, Exists, Task
  <2> QED BY SMT, <2>1 DEF RowFine, Firm, Acceptances, NotRequired, Required
<1> QED BY <1>1 DEF TasksKept, Exists

\* An accepted answer to a question of this kind about a Task.
Answered(a, kind, t) ==
  /\ userAction[a] # None /\ userAction[a].kind = kind /\ userAction[a].task = t
  /\ userAction[a].answer = "accepted"

\* What History says of one close.
EventFine(e) ==
  /\ Exists(e.task) /\ task[e.task].outcome # "open"
  /\ e.outcome = "completed" /\ (e.level >= Tracked \/ task[e.task].mode = "advisor") =>
       \E a \in Actions :
          /\ Answered(a, "acceptance", e.task) /\ userAction[a].revision = e.basis.revision
          /\ userAction[a].scope = e.basis.scope /\ userAction[a].cu = e.basis.cu
  /\ e.outcome = "completed" /\ e.level = Sensitive =>
       /\ e.basis.requirements # {}
       /\ \A w \in e.basis.requirements : \E a \in Actions :
             /\ Answered(a, "approval", e.task) /\ userAction[a].scope = e.basis.scope
             /\ Covers(userAction[a].write, w)
  /\ e.outcome = "cancelled" =>
       \E a \in Actions :
          /\ Answered(a, "cancellation", e.task)
          /\ userAction[a].scope = task[e.task].scope /\ userAction[a].cu = task[e.task].cu

LEMMA HistoryByEvent == History <=> \A e \in closeEvents : EventFine(e)
<1>1. ClosedEnded /\ CompletedIsAccepted <=>
        \A e \in closeEvents :
          /\ Exists(e.task) /\ task[e.task].outcome # "open"
          /\ e.outcome = "completed" /\ (e.level >= Tracked \/ task[e.task].mode = "advisor") =>
               \E a \in Actions :
                  /\ Answered(a, "acceptance", e.task) /\ userAction[a].revision = e.basis.revision
                  /\ userAction[a].scope = e.basis.scope /\ userAction[a].cu = e.basis.cu
  BY DEF ClosedEnded, CompletedIsAccepted, Answered
<1>2. SensitiveCompletionApproved <=>
        \A e \in closeEvents :
          e.outcome = "completed" /\ e.level = Sensitive =>
            /\ e.basis.requirements # {}
            /\ \A w \in e.basis.requirements : \E a \in Actions :
                  /\ Answered(a, "approval", e.task) /\ userAction[a].scope = e.basis.scope
                  /\ Covers(userAction[a].write, w)
  BY DEF SensitiveCompletionApproved, Answered
<1>3. CancelledIsAuthorized <=>
        \A e \in closeEvents :
          e.outcome = "cancelled" =>
            \E a \in Actions :
               /\ Answered(a, "cancellation", e.task)
               /\ userAction[a].scope = task[e.task].scope /\ userAction[a].cu = task[e.task].cu
  BY DEF CancelledIsAuthorized, Answered
<1> QED BY <1>1, <1>2, <1>3 DEF History, EventFine

\* What a close relied on is still there after any step.
LEMMA EventKept ==
  ASSUME TypeOK, NEW e \in CloseEvent, EventFine(e), TasksKept, ActionsKept
  PROVE  EventFine(e)'
<1>1. /\ e.task \in Tasks /\ task[e.task] # None /\ task'[e.task] # None
      /\ Firm(task[e.task], task'[e.task])
      /\ task[e.task].outcome # "open"
  BY DEF EventFine, TasksKept, Exists, CloseEvent
<1>2. /\ task'[e.task].outcome # "open" /\ task'[e.task].mode = task[e.task].mode
      /\ task'[e.task].scope = task[e.task].scope /\ task'[e.task].cu = task[e.task].cu
  BY <1>1 DEF Firm
<1>3. ASSUME NEW a \in Actions, NEW kind, Answered(a, kind, e.task)
      PROVE  /\ Answered(a, kind, e.task)'
             /\ userAction'[a].revision = userAction[a].revision
             /\ userAction'[a].scope = userAction[a].scope /\ userAction'[a].cu = userAction[a].cu
             /\ userAction'[a].write = userAction[a].write
  BY <1>3 DEF Answered, ActionsKept, Asked
<1> QED BY SMT, <1>1, <1>2, <1>3 DEF EventFine, Exists

LEMMA HistoryKept ==
  ASSUME TypeOK, History, TasksKept, ActionsKept,
         \A e \in closeEvents' : e \in closeEvents \/ EventFine(e)'
  PROVE  History'
<1>1. ASSUME NEW e \in closeEvents' PROVE EventFine(e)'
  BY HistoryByEvent, EventKept DEF TypeOK
<1>2. (\A e \in closeEvents : EventFine(e))'
  BY <1>1
<1> QED BY <1>2, HistoryByEvent, PTL

LEMMA ActionsUnchanged ==
  ASSUME userAction' = userAction
  PROVE  ActionsKept
  BY DEF ActionsKept, Asked

\* One row changes, firmly.
LEMMA OneRow ==
  ASSUME TypeOK, NEW t \in Tasks, Exists(t), NEW r, Firm(task[t], r),
         task' = [task EXCEPT ![t] = r]
  PROVE  /\ TasksKept
         /\ task' \in [Tasks -> Task \cup {None}]
         /\ task'[t] = r /\ \A u \in Tasks \ {t} : task'[u] = task[u]
         /\ \A u \in Tasks : Exists(u) => Exists(u)'
<1>1. r \in Task /\ r # None
  BY NoneIsNoRow DEF Firm
<1>2. /\ task' \in [Tasks -> Task \cup {None}]
      /\ task'[t] = r /\ \A u \in Tasks \ {t} : task'[u] = task[u]
  BY <1>1 DEF TypeOK
<1>3. TasksKept
  <2> SUFFICES ASSUME NEW u \in Tasks
               PROVE  /\ Exists(u) => task'[u] # None /\ Firm(task[u], task'[u])
                      /\ ~Exists(u) /\ task'[u] # None => RowFine(task'[u])
    BY DEF TasksKept
  <2>1. CASE u = t
    BY <1>1, <1>2, <2>1 DEF Exists
  <2>2. CASE u # t
    BY <1>2, <2>2, FirmSelf DEF Exists, TypeOK
  <2> QED BY <2>1, <2>2
<1> QED BY <1>2, <1>3 DEF TasksKept, Exists

LEMMA InvalidateFacts ==
  ASSUME TypeOK, NEW xs, \A x \in xs : x \in Tickets => ticket[x] # None
  PROVE  /\ Invalidate(xs) \in [Tickets -> Ticket \cup {None}]
         /\ \A x \in Tickets :
              Invalidate(xs)[x] # None /\ Invalidate(xs)[x].status = "active" =>
                x \notin xs /\ Invalidate(xs)[x] = ticket[x]
<1>1. ASSUME NEW x \in Tickets, x \in xs
      PROVE  /\ Invalidate(xs)[x] \in Ticket /\ Invalidate(xs)[x].status = "invalidated"
  <2>1. ticket[x] \in Ticket
    BY <1>1 DEF TypeOK
  <2> QED BY <1>1, <2>1 DEF Invalidate, Ticket
<1>2. ASSUME NEW x \in Tickets, x \notin xs
      PROVE  Invalidate(xs)[x] = ticket[x]
  BY <1>2 DEF Invalidate
<1>3. Invalidate(xs) \in [Tickets -> Ticket \cup {None}]
  <2>1. Invalidate(xs) = [x \in Tickets |-> Invalidate(xs)[x]]
    BY DEF Invalidate
  <2> QED BY <1>1, <1>2, <2>1 DEF TypeOK
<1> QED BY <1>1, <1>2, <1>3

LEMMA LoseBasisFacts ==
  ASSUME TypeOK, NEW t \in Tasks, NEW kinds
  PROVE  /\ LoseBasis(t, kinds) \in [Actions -> UserAction \cup {None}]
         /\ \A a \in Actions :
              userAction[a] # None =>
                LoseBasis(t, kinds)[a] # None /\ Asked(userAction[a], LoseBasis(t, kinds)[a])
<1> DEFINE f == LoseBasis(t, kinds)
<1>1. ASSUME NEW a \in Actions, userAction[a] # None
      PROVE  f[a] \in UserAction /\ Asked(userAction[a], f[a])
  <2>1. userAction[a] \in UserAction
    BY <1>1 DEF TypeOK
  <2> QED BY <2>1 DEF LoseBasis, UserAction, Asked
<1>2. ASSUME NEW a \in Actions, userAction[a] = None
      PROVE  f[a] = None
  BY <1>2 DEF LoseBasis
<1>3. f = [a \in Actions |-> f[a]]
  BY DEF LoseBasis
<1> QED BY <1>1, <1>2, <1>3, NoneIsNoRow

LEMMA TicketFineRaised ==
  ASSUME NEW x, NEW k \in Task, NEW r, NEW l, NEW a, TicketFine(x, k), RaisedTo(k, r, l, a),
         Dominates(k, l, a), l >= EffectiveControlLevel(k.mode, k.requested, policy),
         a >= AcceptanceForControl(l, policy)
  PROVE  TicketFine(x, r)
  BY SMT DEF TicketFine, RaisedTo, Same, Dominates, Levels, Observe, Sensitive

\* The active tickets after a step were active before it, or are tickets of t that fit
\* the row the step leaves.
TicketsLeft(t) ==
  \A x \in Tickets :
    ticket'[x] # None /\ ticket'[x].status = "active" =>
      \/ IsActive(x) /\ ticket'[x] = ticket[x]
      \/ ticket'[x].task = t /\ task'[t] # None /\ TicketFine(ticket'[x], task'[t])

\* The row of t as a step that keeps one of its tickets leaves it.
Steady(t) ==
  \A x \in Tickets :
    IsActive(x) /\ ticket'[x] = ticket[x] /\ ticket[x].task = t /\ TicketFine(ticket[x], task[t]) =>
      TicketFine(ticket[x], task'[t])

LEMMA TicketsSteady ==
  ASSUME TypeOK, TicketsFine, UNCHANGED <<policy, activeTask>>,
         NEW t \in Tasks, \A u \in Tasks \ {t} : task'[u] = task[u], Exists(t) => task'[t] # None,
         TicketsLeft(t), Steady(t)
  PROVE  TicketsFine'
<1> SUFFICES ASSUME NEW x \in Tickets, IsActive(x)'
             PROVE  (Exists(ticket[x].task) /\ TicketFine(ticket[x], task[ticket[x].task]))'
  BY DEF TicketsFine
<1> DEFINE u == ticket[x].task
<1>1. CASE IsActive(x) /\ ticket'[x] = ticket[x]
  <2>1. u \in Tasks /\ Exists(u) /\ TicketFine(ticket[x], task[u])
    BY <1>1 DEF TypeOK, IsActive, TicketsFine, Ticket
  <2>2. task'[u] # None /\ TicketFine(ticket[x], task'[u])
    <3>1. CASE u = t
      BY <1>1, <2>1, <3>1 DEF Steady
    <3>2. CASE u # t
      BY <2>1, <3>2 DEF Exists
    <3> QED BY <3>1, <3>2
  <2> QED BY <1>1, <2>2 DEF TicketFine, Exists
<1>2. CASE ticket'[x].task = t /\ task'[t] # None /\ TicketFine(ticket'[x], task'[t])
  BY <1>2 DEF TicketFine, Exists
<1> QED BY <1>1, <1>2 DEF TicketsLeft, IsActive

LEMMA InvalidateLeaves ==
  ASSUME TypeOK, NEW t, NEW xs, \A x \in xs : x \in Tickets => ticket[x] # None,
         ticket' = Invalidate(xs)
  PROVE  /\ TicketsLeft(t) /\ ticket' \in [Tickets -> Ticket \cup {None}]
         /\ \A x \in Tickets : IsActive(x) /\ ticket'[x] = ticket[x] => x \notin xs
<1>1. /\ ticket' \in [Tickets -> Ticket \cup {None}]
      /\ \A x \in Tickets :
           ticket'[x] # None /\ ticket'[x].status = "active" => x \notin xs /\ ticket'[x] = ticket[x]
  BY InvalidateFacts
<1> QED BY <1>1 DEF TicketsLeft, IsActive

LEMMA TicketsUnchanged ==
  ASSUME TypeOK, NEW t, ticket' = ticket
  PROVE  TicketsLeft(t) /\ ticket' \in [Tickets -> Ticket \cup {None}]
  BY DEF TicketsLeft, IsActive, TypeOK

\* A step that changes the row of one Task firmly, closes nothing, and leaves only tickets
\* that fit the row.
LEMMA RowStep ==
  ASSUME IInv, NEW t \in Tasks, Exists(t), NEW r, Firm(task[t], r),
         task' = [task EXCEPT ![t] = r],
         ticket' \in [Tickets -> Ticket \cup {None}],
         TicketsLeft(t), Steady(t),
         userAction' \in [Actions -> UserAction \cup {None}], ActionsKept,
         runs' \subseteq Run,
         UNCHANGED <<policy, now, activeTask, closeEvents>>
  PROVE  IInv' /\ TasksKept
<1>1. /\ TasksKept /\ task' \in [Tasks -> Task \cup {None}]
      /\ task'[t] = r /\ \A u \in Tasks \ {t} : task'[u] = task[u]
      /\ \A u \in Tasks : Exists(u) => task'[u] # None
  BY OneRow DEF IInv, Exists
<1>2. TypeOK'
  BY <1>1 DEF IInv, TypeOK
<1>3. Pointed'
  BY <1>1 DEF IInv, TypeOK, Pointed, Exists
<1>4. TicketsFine'
  BY <1>1, TicketsSteady DEF IInv
<1>5. RowsFine' /\ History'
  BY <1>1, <1>2, RowsKept, HistoryKept DEF IInv
<1> QED BY <1>1, <1>2, <1>3, <1>4, <1>5 DEF IInv

\* A step that raises the control of one Task and may invalidate or issue tickets.
LEMMA RaiseStep ==
  ASSUME IInv, NEW t \in Tasks, Exists(t), NEW r, NEW l, NEW a,
         Dominates(task[t], l, a), RaisedTo(task[t], r, l, a),
         l >= EffectiveControlLevel(task[t].mode, task[t].requested, policy),
         a >= AcceptanceForControl(l, policy),
         task' = [task EXCEPT ![t] = r],
         ticket' \in [Tickets -> Ticket \cup {None}], TicketsLeft(t),
         UNCHANGED <<policy, now, activeTask, userAction, runs, closeEvents>>
  PROVE  IInv' /\ TasksKept
<1>1. task[t] \in Task
  BY DEF IInv, TypeOK, Exists
<1>2. Firm(task[t], r)
  BY <1>1, FirmRaised
<1>3. task'[t] = r
  BY DEF IInv, TypeOK
<1>4. Steady(t)
  BY <1>1, <1>3, TicketFineRaised DEF Steady
<1>5. /\ userAction' \in [Actions -> UserAction \cup {None}] /\ runs' \subseteq Run
      /\ ActionsKept
  BY ActionsUnchanged DEF IInv, TypeOK
<1> QED BY <1>2, <1>4, <1>5, RowStep

LEMMA PolicyIsTyped == TypeOK => policy \in PolicyType
  BY TaskAuthorityAssumption DEF TypeOK

LEMMA IntakeResumeKeeps ==
  ASSUME IInv, IntakeResume
  PROVE  IInv' /\ TasksKept
<1> DEFINE k == task[activeTask]
           l == ResolvedLevel(k, policy)
           a == ResolvedAcceptance(k, policy)
<1>1. activeTask \in Tasks /\ Exists(activeTask) /\ k \in Task
  BY DEF IntakeResume, IInv, TypeOK, Pointed, Exists
<1>2. /\ Dominates(k, l, a) /\ l >= EffectiveControlLevel(k.mode, k.requested, policy)
      /\ a >= AcceptanceForControl(l, policy)
  BY <1>1, ResolvedFacts, PolicyIsTyped DEF IInv
<1>3. RaisedTo(k, Raised(k, l, a), l, a)
  BY <1>1, <1>2, RaisedFacts
<1>4. ticket' \in [Tickets -> Ticket \cup {None}] /\ TicketsLeft(activeTask)
  BY TicketsUnchanged DEF IntakeResume, IInv
<1>5. task' = [task EXCEPT ![activeTask] = Raised(k, l, a)]
  BY DEF IntakeResume
<1> HIDE DEF k, l, a
<1> QED BY <1>1, <1>2, <1>3, <1>4, <1>5, RaiseStep DEF IntakeResume, k

LEMMA UpdateScopeUnchangedKeeps ==
  ASSUME IInv, NEW t \in Tasks, UpdateScopeUnchanged(t)
  PROVE  IInv' /\ TasksKept
<1> DEFINE k == task[t]
           l == ResolvedLevel(k, policy)
           a == ResolvedAcceptance(k, policy)
<1>1. Exists(t) /\ k \in Task
  BY DEF UpdateScopeUnchanged, Open, Exists, IInv, TypeOK
<1>2. /\ Dominates(k, l, a) /\ l >= EffectiveControlLevel(k.mode, k.requested, policy)
      /\ a >= AcceptanceForControl(l, policy)
  BY <1>1, ResolvedFacts, PolicyIsTyped DEF IInv
<1>3. RaisedTo(k, Raised(k, l, a), l, a)
  BY <1>1, <1>2, RaisedFacts
<1>4. ticket' \in [Tickets -> Ticket \cup {None}] /\ TicketsLeft(t)
  BY TicketsUnchanged DEF UpdateScopeUnchanged, IInv
<1>5. task' = [task EXCEPT ![t] = Raised(k, l, a)]
  BY DEF UpdateScopeUnchanged
<1> HIDE DEF k, l, a
<1> QED BY <1>1, <1>2, <1>3, <1>4, <1>5, RaiseStep DEF UpdateScopeUnchanged, k

LEMMA PrepareWriteDecideKeeps ==
  ASSUME IInv, NEW t \in Tasks, NEW w \in Writes, PrepareWriteDecide(t, w)
  PROVE  IInv' /\ TasksKept
<1> DEFINE k == task[t]
           l == WriteLevel(k, policy, w)
           a == WriteAcceptance(k, policy, w)
           xs == StaleTickets(t, WriteControl(k, policy, w), w)
<1>1. Exists(t) /\ k \in Task
  BY DEF PrepareWriteDecide, PrepareWriteAllowed, Open, Exists, IInv, TypeOK
<1>2. /\ Dominates(k, l, a) /\ l >= EffectiveControlLevel(k.mode, k.requested, policy)
      /\ a >= AcceptanceForControl(l, policy)
  BY <1>1, WriteFacts, PolicyIsTyped DEF IInv
<1>3. RaisedTo(k, WriteControl(k, policy, w), l, a)
  BY <1>1, WriteControlFacts, PolicyIsTyped DEF IInv
<1>4. ticket' = Invalidate(xs) /\ \A x \in xs : ticket[x] # None
  BY DEF PrepareWriteDecide, StaleTickets, ActiveTickets
<1>5. ticket' \in [Tickets -> Ticket \cup {None}] /\ TicketsLeft(t)
  <2> HIDE DEF xs
  <2> QED BY <1>4, InvalidateLeaves DEF IInv
<1>6. task' = [task EXCEPT ![t] = WriteControl(k, policy, w)]
  BY DEF PrepareWriteDecide
<1> HIDE DEF k, l, a
<1> QED BY <1>1, <1>2, <1>3, <1>5, <1>6, RaiseStep DEF PrepareWriteDecide, k

LEMMA ActionsTyped ==
  ASSUME TypeOK, userAction' = userAction
  PROVE  userAction' \in [Actions -> UserAction \cup {None}] /\ ActionsKept
  BY ActionsUnchanged DEF TypeOK

LEMMA BasisLost ==
  ASSUME TypeOK, NEW t \in Tasks, NEW kinds, userAction' = LoseBasis(t, kinds)
  PROVE  userAction' \in [Actions -> UserAction \cup {None}] /\ ActionsKept
  BY LoseBasisFacts DEF ActionsKept

\* A row that differs in its revision and basis only.
LEMMA NextRevisionFacts ==
  ASSUME NEW k \in Task, k.revision < MaxBasis
  PROVE  /\ NextRevision(k) \in Task /\ Firm(k, NextRevision(k))
         /\ NextRevision(k) = [k EXCEPT !.revision = k.revision + 1, !.basis = None]
<1>1. k.revision + 1 \in 0 .. MaxBasis
  BY SMT, TaskAuthorityAssumption DEF Task
<1>2. Firm(k, k)
  BY FirmSelf
<1> QED BY <1>1, <1>2 DEF NextRevision, Task, Firm, Settled

LEMMA WithBasisFacts ==
  ASSUME NEW k \in Task, k.revision < MaxBasis, k.cu # 0, k.scope # 0, NEW rs \in SUBSET Writes
  PROVE  /\ WithBasis(k, rs) \in Task /\ Firm(k, WithBasis(k, rs))
         /\ \E b \in Basis : WithBasis(k, rs) = [k EXCEPT !.revision = k.revision + 1, !.basis = b]
<1> DEFINE b == [revision |-> k.revision + 1, scope |-> k.scope, cu |-> k.cu, requirements |-> rs]
<1>1. /\ k.revision + 1 \in 0 .. MaxBasis /\ k.revision + 1 \in 1 .. MaxBasis
      /\ k.scope \in 1 .. MaxScope /\ k.cu \in 1 .. MaxScope
  BY SMT, TaskAuthorityAssumption DEF Task
<1>2. b \in Basis
  BY <1>1 DEF Basis
<1>3. Firm(k, k)
  BY FirmSelf
<1>4. WithBasis(k, rs) = [k EXCEPT !.revision = k.revision + 1, !.basis = b]
  BY DEF WithBasis
<1> HIDE DEF b
<1> QED BY <1>1, <1>2, <1>3, <1>4 DEF Task, Firm, Settled

LEMMA RecordShapingKeeps ==
  ASSUME IInv, NEW t \in Tasks, RecordShaping(t)
  PROVE  IInv' /\ TasksKept
<1> DEFINE r == NextRevision(task[t])
<1>1. Exists(t) /\ task[t] \in Task /\ task[t].phase = "shaping"
  BY DEF RecordShaping, Open, Exists, IInv, TypeOK
<1>2. Firm(task[t], r)
  BY <1>1, NextRevisionFacts DEF RecordShaping
<1>3. task' = [task EXCEPT ![t] = r]
  BY DEF RecordShaping
<1>4. Steady(t)
  BY <1>1 DEF Steady, TicketFine
<1>5. UNCHANGED <<policy, now, activeTask, ticket, userAction, runs, closeEvents>>
  BY DEF RecordShaping
<1>6. runs' \subseteq Run
  BY <1>5 DEF IInv, TypeOK
<1> HIDE DEF r
<1> QED BY <1>1, <1>2, <1>3, <1>4, <1>5, <1>6, TicketsUnchanged, ActionsTyped, RowStep DEF IInv

LEMMA AdvanceTaskKeeps ==
  ASSUME IInv, NEW t \in Tasks, NEW locked \in BOOLEAN, AdvanceTask(t, locked)
  PROVE  IInv' /\ TasksKept
<1> DEFINE r == [task[t] EXCEPT !.phase = "implementation", !.locked = locked]
<1>1. Exists(t) /\ task[t] \in Task /\ task[t].phase = "shaping"
  BY DEF AdvanceTask, Open, Exists, IInv, TypeOK
<1>2. Firm(task[t], r)
  BY <1>1, FirmSelf DEF Task, Firm, Settled
<1>3. task' = [task EXCEPT ![t] = r]
  BY DEF AdvanceTask, IInv, TypeOK
<1>4. Steady(t)
  BY <1>1 DEF Steady, TicketFine
<1>5. UNCHANGED <<policy, now, activeTask, ticket, userAction, runs, closeEvents>>
  BY DEF AdvanceTask
<1>6. runs' \subseteq Run
  BY <1>5 DEF IInv, TypeOK
<1> HIDE DEF r
<1> QED BY <1>1, <1>2, <1>3, <1>4, <1>5, <1>6, TicketsUnchanged, ActionsTyped, RowStep DEF IInv

LEMMA FinalizeAdviceKeeps ==
  ASSUME IInv, NEW t \in Tasks, FinalizeAdvice(t)
  PROVE  IInv' /\ TasksKept
<1> DEFINE r == WithBasis(task[t], {})
<1>1. Exists(t) /\ task[t] \in Task /\ task[t].scope # 0
  BY DEF FinalizeAdvice, Open, Exists, IInv, TypeOK, RowsFine, RowFine
<1>2. Firm(task[t], r) /\ \E b \in Basis : r = [task[t] EXCEPT !.revision = task[t].revision + 1, !.basis = b]
  BY <1>1, WithBasisFacts DEF FinalizeAdvice
<1>3. task' = [task EXCEPT ![t] = r] /\ task'[t] = r
  BY DEF FinalizeAdvice, IInv, TypeOK
<1>4. Steady(t)
  <2>1. /\ r.mode = task[t].mode /\ r.requested = task[t].requested /\ r.level = task[t].level
        /\ r.acceptance = task[t].acceptance /\ r.mark = task[t].mark /\ r.phase = task[t].phase
        /\ r.outcome = task[t].outcome /\ r.scope = task[t].scope /\ r.cu = task[t].cu
    BY <1>1, <1>2 DEF Task
  <2> HIDE DEF r
  <2> QED BY <1>3, <2>1 DEF Steady, TicketFine, PendingReevaluation
<1>5. UNCHANGED <<policy, now, activeTask, ticket, userAction, runs, closeEvents>>
  BY DEF FinalizeAdvice
<1>6. runs' \subseteq Run
  BY <1>5 DEF IInv, TypeOK
<1> HIDE DEF r
<1> QED BY <1>1, <1>2, <1>3, <1>4, <1>5, <1>6, TicketsUnchanged, ActionsTyped, RowStep DEF IInv

LEMMA UpdateScopeKeeps ==
  ASSUME IInv, NEW t \in Tasks, NEW op \in {"keep", "create", "replace"}, NEW s \in BOOLEAN,
         UpdateScope(t, op, s)
  PROVE  IInv' /\ TasksKept
<1> DEFINE k == task[t]
           l == ScopedLevel(k, policy, s)
           a == ScopedAcceptance(k, policy, s)
           raised == Raised(k, l, a)
           scoped == [NextRevision(raised) EXCEPT !.scope = k.scope + 1]
           r == IF op = "keep" THEN scoped
                ELSE [scoped EXCEPT !.cu = k.scope + 1, !.sensitiveEffect = s]
<1>1. /\ Exists(t) /\ k \in Task /\ k.outcome = "open" /\ k.scope < MaxScope /\ k.revision < MaxBasis
      /\ k.scope \in 0 .. MaxScope
  BY DEF UpdateScope, Open, Exists, IInv, TypeOK, Task
<1>2. Dominates(k, l, a)
  BY <1>1, ScopedFacts, PolicyIsTyped DEF IInv
<1>3. RaisedTo(k, raised, l, a)
  BY <1>1, <1>2, RaisedFacts
<1>4. Firm(k, raised) /\ raised \in Task /\ raised.outcome = "open" /\ raised.revision = k.revision
  BY <1>1, <1>2, <1>3, FirmRaised DEF RaisedTo, Same
<1>5. k.scope + 1 \in 0 .. MaxScope /\ k.scope + 1 # 0
  BY SMT, <1>1, TaskAuthorityAssumption
<1>6. Firm(k, r)
  <2> HIDE DEF k, l, a, raised
  <2>1. /\ NextRevision(raised) \in Task
        /\ NextRevision(raised) = [raised EXCEPT !.revision = raised.revision + 1, !.basis = None]
    BY <1>1, <1>4, NextRevisionFacts
  <2>2. r \in Task
    BY <1>5, <2>1 DEF Task
  <2>3. /\ r.mode = raised.mode /\ r.level = raised.level /\ r.acceptance = raised.acceptance
        /\ r.mark = raised.mark /\ r.outcome = raised.outcome /\ r.scope = k.scope + 1
    BY <1>4, <1>5, <2>1 DEF Task
  <2> HIDE DEF r
  <2> QED BY <1>1, <1>4, <1>5, <2>2, <2>3 DEF Firm, Settled
<1>7. task' = [task EXCEPT ![t] = r]
  BY DEF UpdateScope
<1>8. \A x \in ActiveTickets(t) : ticket[x] # None
  BY DEF ActiveTickets
<1>9. /\ TicketsLeft(t) /\ ticket' \in [Tickets -> Ticket \cup {None}]
      /\ \A x \in Tickets : IsActive(x) /\ ticket'[x] = ticket[x] => x \notin ActiveTickets(t)
  BY <1>8, InvalidateLeaves DEF UpdateScope, IInv
<1>10. Steady(t)
  BY <1>9 DEF Steady, ActiveTickets, IsActive
<1>11. /\ UNCHANGED <<policy, now, activeTask, closeEvents>>
       /\ userAction' \in [Actions -> UserAction \cup {None}] /\ ActionsKept
       /\ runs' \subseteq Run
  BY BasisLost DEF UpdateScope, IInv, TypeOK
<1> HIDE DEF r
<1> QED BY <1>1, <1>6, <1>7, <1>9, <1>10, <1>11, RowStep

LEMMA PrepareWriteIssueKeeps ==
  ASSUME IInv, NEW t \in Tasks, NEW w \in Writes, NEW y \in Tickets,
         NEW approval \in Actions \cup {None}, PrepareWriteIssue(t, w, y, approval)
  PROVE  IInv' /\ TasksKept
<1> DEFINE k == task[t]
           l == WriteLevel(k, policy, w)
           a == WriteAcceptance(k, policy, w)
           r == WriteControl(k, policy, w)
           xs == StaleTickets(t, r, w)
           n == NewTicket(t, r, w, approval)
<1>1. /\ Exists(t) /\ k \in Task /\ k.outcome = "open" /\ k.phase = "implementation"
      /\ k.cu # 0 /\ k.scope # 0 /\ activeTask = t
  BY DEF PrepareWriteIssue, PrepareWriteAllowed, Open, Exists, IInv, TypeOK, RowsFine, RowFine
<1>2. policy \in PolicyType
  BY PolicyIsTyped DEF IInv
<1>3. /\ Dominates(k, l, a) /\ l >= EffectiveControlLevel(k.mode, k.requested, policy)
      /\ a >= AcceptanceForControl(l, policy)
  BY <1>1, <1>2, WriteFacts
<1>4. RaisedTo(k, r, l, a)
  BY <1>1, <1>2, WriteControlFacts
<1>5. w.target \in policy.denied \ {NoTarget} => l = Sensitive
  BY DEF WriteLevel
<1>6. task' = [task EXCEPT ![t] = r] /\ task'[t] = r
  BY DEF PrepareWriteIssue, IInv, TypeOK
<1>7. ticket' = [Invalidate(xs) EXCEPT ![y] = n]
  BY DEF PrepareWriteIssue
<1>8. Fingerprint(policy) \in PolicyType
  BY <1>2 DEF Fingerprint, PolicyType
<1>9. /\ n \in Ticket /\ n.task = t /\ n.cu = r.cu /\ n.scope = r.scope /\ n.write = w
      /\ n.fingerprint = Fingerprint(policy)
  <2> HIDE DEF r
  <2>1. r.cu \in 1 .. MaxScope /\ r.scope \in 1 .. MaxScope
    BY SMT, <1>1, <1>4, TaskAuthorityAssumption DEF RaisedTo, Same, Task
  <2>2. (IF policy.idle = 0 THEN 0 ELSE now + policy.idle) \in Nat
    BY SMT, <1>2, TaskAuthorityAssumption DEF PolicyType, IInv, TypeOK
  <2> QED BY <2>1, <2>2, <1>8 DEF NewTicket, Ticket
<1>10. r # None /\ TicketFine(n, r)
  <2> HIDE DEF n, r, l, a
  <2>1. TicketFine(n, r)
    BY <1>1, <1>3, <1>4, <1>5, <1>9 DEF TicketFine, RaisedTo, Same, k
  <2> QED BY <1>4, <2>1, NoneIsNoRow DEF RaisedTo
<1>11. /\ Invalidate(xs) \in [Tickets -> Ticket \cup {None}]
       /\ \A x \in Tickets :
            Invalidate(xs)[x] # None /\ Invalidate(xs)[x].status = "active" =>
              x \notin xs /\ Invalidate(xs)[x] = ticket[x]
  <2>1. \A x \in xs : ticket[x] # None
    BY DEF StaleTickets, ActiveTickets
  <2> HIDE DEF xs
  <2> QED BY <2>1, InvalidateFacts DEF IInv
<1> HIDE DEF k, l, a, r, xs, n
<1>12. /\ ticket' \in [Tickets -> Ticket \cup {None}] /\ ticket'[y] = n
       /\ \A x \in Tickets \ {y} : ticket'[x] = Invalidate(xs)[x]
  BY <1>7, <1>9, <1>11
<1>13. TicketsLeft(t)
  BY <1>6, <1>9, <1>10, <1>11, <1>12 DEF TicketsLeft, IsActive
<1> QED BY <1>1, <1>3, <1>4, <1>6, <1>12, <1>13, RaiseStep DEF PrepareWriteIssue, k

\* A Run may make final acceptance mandatory, and nothing else about control changes.
LEMMA MarkedFacts ==
  ASSUME NEW k \in Task, NEW r, r = k \/ r = WithControl(k, k.level, Required)
  PROVE  /\ r \in Task /\ Same(k, r) /\ Firm(k, r) /\ r.level = k.level
         /\ r.acceptance >= k.acceptance
         /\ ~PendingReevaluation(k) => ~PendingReevaluation(r)
<1>1. CASE r = k
  BY <1>1, FirmSelf DEF Same, Firm
<1>2. CASE r = WithControl(k, k.level, Required)
  <2>1. /\ k.level \in Levels /\ k.acceptance \in Acceptances /\ Required \in Acceptances
        /\ k.mark # None => k.mark.level \in Levels /\ k.mark.acceptance \in Acceptances
    BY SMT DEF Task, Mark, Acceptances, NotRequired, Required
  <2>2. /\ r \in Task /\ Same(k, r) /\ r.level = k.level /\ r.acceptance = Required
        /\ Settled(k, r) /\ (r.mark = None \/ r.mark = k.mark)
    <3> DEFINE l == k.level
               a == Required
    <3>1. l \in Levels /\ a \in Acceptances /\ r = WithControl(k, l, a)
      BY <1>2, <2>1
    <3> HIDE DEF l, a
    <3>2. /\ r \in Task /\ Same(k, r) /\ r.level = l /\ r.acceptance = a /\ Settled(k, r)
          /\ r.mark = None \/ r.mark = k.mark
      BY SMT, <3>1, WithControlFacts
    <3> QED BY <3>2 DEF l, a
  <2>3. r.level >= k.level /\ r.acceptance >= k.acceptance
    BY SMT, <2>1, <2>2 DEF Levels, Acceptances, Observe, Sensitive, NotRequired, Required
  <2>4. Firm(k, r)
    BY <2>2, <2>3 DEF Firm, Same
  <2>5. ~PendingReevaluation(k) => ~PendingReevaluation(r)
    BY SMT, <2>1, <2>2 DEF PendingReevaluation, Levels, Acceptances, Observe, Sensitive, NotRequired, Required
  <2> QED BY <2>2, <2>3, <2>4, <2>5
<1> QED BY <1>1, <1>2

LEMMA ConsumeFacts ==
  ASSUME TypeOK, NEW t, NEW x \in Tickets \cup {None}, x # None => ticket[x] # None,
         ticket' = Consume(x)
  PROVE  TicketsLeft(t) /\ ticket' \in [Tickets -> Ticket \cup {None}]
<1>1. CASE x = None
  BY <1>1, TicketsUnchanged DEF Consume
<1>2. CASE x # None
  <2>1. x \in Tickets /\ ticket[x] \in Ticket
    BY <1>2 DEF TypeOK
  <2>2. [ticket[x] EXCEPT !.status = "consumed"] \in Ticket
        /\ [ticket[x] EXCEPT !.status = "consumed"].status = "consumed"
    BY <2>1 DEF Ticket
  <2>3. ticket' = [ticket EXCEPT ![x] = [ticket[x] EXCEPT !.status = "consumed"]]
    BY <1>2, <2>1 DEF Consume, TypeOK
  <2> QED BY <2>1, <2>2, <2>3 DEF TicketsLeft, IsActive, TypeOK
<1> QED BY <1>1, <1>2

LEMMA RecordRunKeeps ==
  ASSUME IInv, NEW t \in Tasks, NEW w \in Writes, NEW x \in Tickets \cup {None},
         NEW assess \in BOOLEAN, RecordRun(t, w, x, assess)
  PROVE  IInv' /\ TasksKept
<1> DEFINE k == task[t]
           m == IF w.sensitive THEN WithControl(k, k.level, Required) ELSE k
           rs == (IF BasisCurrent(k) THEN k.basis.requirements ELSE {}) \cup Requirement(x)
           r == IF assess THEN WithBasis(m, rs) ELSE NextRevision(m)
<1>1. /\ Exists(t) /\ k \in Task /\ k.cu # 0 /\ k.scope # 0 /\ k.revision < MaxBasis
  BY DEF RecordRun, Open, Exists, IInv, TypeOK, RowsFine, RowFine
<1>2. x # None => x \in Tickets /\ ticket[x] \in Ticket
  BY DEF RecordRun, Admits, IInv, TypeOK
<1>3. rs \in SUBSET Writes
  <2>1. (IF BasisCurrent(k) THEN k.basis.requirements ELSE {}) \in SUBSET Writes
    <3>1. k.basis # None => k.basis \in Basis
      BY <1>1 DEF Task
    <3> QED BY <3>1 DEF BasisCurrent, Basis
  <2>2. Requirement(x) \in SUBSET Writes
    BY <1>2 DEF Requirement, Ticket
  <2> QED BY <2>1, <2>2
<1>4. /\ m \in Task /\ Same(k, m) /\ Firm(k, m) /\ m.level = k.level /\ m.acceptance >= k.acceptance
      /\ ~PendingReevaluation(k) => ~PendingReevaluation(m)
  BY <1>1, MarkedFacts
<1>5. k.acceptance \in Acceptances /\ (w.sensitive => m.acceptance = Required) /\ (~w.sensitive => m = k)
  BY SMT, <1>1, WithControlFacts DEF Task, Acceptances, NotRequired, Required
<1> HIDE DEF rs, m
<1>6. \E b \in Basis \cup {None} : r = [m EXCEPT !.revision = m.revision + 1, !.basis = b]
  <2>1. m.revision < MaxBasis /\ m.cu # 0 /\ m.scope # 0
    BY <1>1, <1>4 DEF Same
  <2>2. CASE assess
    <3>1. PICK b \in Basis : WithBasis(m, rs) = [m EXCEPT !.revision = m.revision + 1, !.basis = b]
      BY <1>3, <1>4, <2>1, WithBasisFacts
    <3> QED BY <2>2, <3>1
  <2>3. CASE ~assess
    <3>1. NextRevision(m) = [m EXCEPT !.revision = m.revision + 1, !.basis = None]
      BY <1>4, <2>1, NextRevisionFacts
    <3> QED BY <2>3, <3>1
  <2> QED BY <2>2, <2>3
<1>7. r \in Task
  BY <1>1, <1>3, <1>4, WithBasisFacts, NextRevisionFacts DEF Same
<1>8. /\ r.mode = m.mode /\ r.requested = m.requested /\ r.level = m.level
      /\ r.acceptance = m.acceptance /\ r.mark = m.mark /\ r.phase = m.phase
      /\ r.outcome = m.outcome /\ r.scope = m.scope /\ r.cu = m.cu
  BY <1>4, <1>6 DEF Task
<1>9. task' = [task EXCEPT ![t] = r] /\ task'[t] = r
  BY DEF RecordRun, IInv, TypeOK, m, rs
<1> HIDE DEF r, k
<1>10. Firm(k, r)
  BY <1>4, <1>7, <1>8 DEF Firm, Settled
<1>11. ASSUME NEW z, TicketFine(z, k) PROVE TicketFine(z, r)
  <2>1. AcceptanceForControl(k.level, policy) \in Acceptances
    BY <1>1, AcceptanceType, PolicyIsTyped DEF Task, IInv
  <2>2. m.acceptance >= AcceptanceForControl(k.level, policy)
    BY SMT, <1>5, <1>11, <2>1 DEF TicketFine, Acceptances, NotRequired, Required
  <2> QED BY <1>4, <1>8, <1>11, <2>2 DEF TicketFine, Same, PendingReevaluation
<1>12. Steady(t)
  BY <1>9, <1>11 DEF Steady, k
<1>13. TicketsLeft(t) /\ ticket' \in [Tickets -> Ticket \cup {None}]
  BY <1>2, ConsumeFacts, NoneIsNoRow DEF RecordRun, IInv
<1>14. UNCHANGED <<policy, now, activeTask, closeEvents>>
  BY DEF RecordRun
<1>15. userAction' \in [Actions -> UserAction \cup {None}] /\ ActionsKept
  BY BasisLost DEF RecordRun, IInv
<1>16. runs' \subseteq Run
  <2>1. k.cu \in 1 .. MaxScope /\ k.scope \in 1 .. MaxScope
    BY SMT, <1>1, TaskAuthorityAssumption DEF Task
  <2> QED BY SMT, <1>2, <2>1 DEF RecordRun, Run, IInv, TypeOK, k
<1> QED BY <1>1, <1>9, <1>10, <1>12, <1>13, <1>14, <1>15, <1>16, RowStep DEF k

-----------------------------------------------------------------------------
(* Steps that leave no active ticket.                                      *)

LEMMA NoActiveTickets ==
  ASSUME \A x \in Tickets : ~(ticket'[x] # None /\ ticket'[x].status = "active")
  PROVE  TicketsFine'
  BY DEF TicketsFine, IsActive

\* Every active ticket is a ticket of the active Task.
LEMMA ActiveTicketsOfActive ==
  ASSUME TypeOK, TicketsFine, NEW x \in Tickets, IsActive(x)
  PROVE  activeTask # None /\ x \in ActiveTickets(activeTask)
  BY SMT, TaskAuthorityAssumption DEF TypeOK, TicketsFine, TicketFine, IsActive, ActiveTickets, Ticket

LEMMA IntakeCreateKeeps ==
  ASSUME IInv, NEW t \in Tasks, NEW mode \in Modes, NEW requested \in Requests,
         NEW acceptance \in Acceptances, NEW supersede \in BOOLEAN,
         IntakeCreate(t, mode, requested, acceptance, supersede)
  PROVE  IInv' /\ TasksKept
<1> DEFINE level == EffectiveControlLevel(mode, requested, policy)
           row == NewTask(mode, requested, level, acceptance)
<1>1. level \in Levels
  BY TaskAuthorityAssumption, EffectiveType, PolicyIsTyped DEF IInv
<1>2. row \in Task /\ row # None /\ row.cu = 0 /\ row.mode = mode /\ row.acceptance = acceptance
  <2>1. row \in Task
    BY SMT, <1>1, TaskAuthorityAssumption DEF NewTask, Task
  <2> QED BY <2>1, NoneIsNoRow DEF NewTask
<1>3. RowFine(row)
  <2>1. mode = "advisor" => IntakeAcceptances(mode, level, policy) = {Required}
    <3>1. mode = "advisor" => level # Light
      BY SMT DEF EffectiveControlLevel, Observe, Light
    <3> HIDE DEF level
    <3> QED BY <3>1 DEF IntakeAcceptances
  <2>2. acceptance \in IntakeAcceptances(mode, level, policy)
    BY DEF IntakeCreate
  <2> QED BY <1>2, <2>1, <2>2 DEF RowFine
<1> HIDE DEF row
<1>4. task[t] = None /\ activeTask' = t /\ UNCHANGED <<policy, now, userAction, runs, closeEvents>>
  BY DEF IntakeCreate, Exists
<1>5. ASSUME NEW u \in Tasks, u # t
      PROVE  /\ task[u] = None => task'[u] = None
             /\ task[u] # None => task'[u] \in Task /\ Firm(task[u], task'[u])
  <2>1. task'[u] \in {task[u], [task[u] EXCEPT !.outcome = "superseded"]} /\
        (task[u] = None => task'[u] = task[u])
    <3>1. task'[u] = IF supersede /\ u = activeTask THEN [task[u] EXCEPT !.outcome = "superseded"]
                     ELSE task[u]
      BY <1>5 DEF IntakeCreate
    <3>2. u = activeTask /\ supersede => task[u] # None
      BY DEF IntakeCreate, IInv, Pointed, Exists
    <3> QED BY <3>1, <3>2
  <2>2. ASSUME task[u] # None
        PROVE  /\ task[u] \in Task /\ Firm(task[u], task[u])
               /\ [task[u] EXCEPT !.outcome = "superseded"] \in Task
               /\ Firm(task[u], [task[u] EXCEPT !.outcome = "superseded"])
    <3>1. task[u] \in Task
      BY <2>2 DEF IInv, TypeOK
    <3>2. [task[u] EXCEPT !.outcome = "superseded"] \in Task
      BY <3>1 DEF Task, Outcomes
    <3> QED BY <3>1, <3>2, FirmSelf DEF Firm, Settled, Task
  <2> QED BY <2>1, <2>2
<1>6. task'[t] = row /\ task' = [u \in Tasks |-> task'[u]]
  BY DEF IntakeCreate, row
<1>7. TasksKept
  BY <1>3, <1>4, <1>5, <1>6, NoneIsNoRow DEF TasksKept, Exists
<1>8. task' \in [Tasks -> Task \cup {None}]
  BY <1>2, <1>5, <1>6
<1>9. /\ ticket' \in [Tickets -> Ticket \cup {None}]
      /\ \A x \in Tickets : ~(ticket'[x] # None /\ ticket'[x].status = "active")
  <2>1. CASE activeTask = None
    <3>1. ticket' = ticket
      BY <2>1 DEF IntakeCreate
    <3> QED BY <2>1, <3>1, ActiveTicketsOfActive DEF IInv, TypeOK, IsActive
  <2>2. CASE activeTask # None
    <3>1. ticket' = Invalidate(ActiveTickets(activeTask))
      BY <2>2 DEF IntakeCreate
    <3>2. \A x \in ActiveTickets(activeTask) : ticket[x] # None
      BY DEF ActiveTickets
    <3>3. /\ ticket' \in [Tickets -> Ticket \cup {None}]
          /\ \A x \in Tickets :
               ticket'[x] # None /\ ticket'[x].status = "active" =>
                 x \notin ActiveTickets(activeTask) /\ ticket'[x] = ticket[x]
      BY <3>1, <3>2, InvalidateFacts DEF IInv
    <3> QED BY <3>3, ActiveTicketsOfActive DEF IInv, IsActive
  <2> QED BY <2>1, <2>2
<1>10. TypeOK'
  BY <1>4, <1>8, <1>9 DEF IInv, TypeOK
<1>11. Pointed'
  BY <1>2, <1>4, <1>6 DEF Pointed, Exists
<1>12. TicketsFine'
  BY <1>9, NoActiveTickets
<1>13. RowsFine' /\ History'
  BY <1>4, <1>7, <1>10, RowsKept, HistoryKept, ActionsUnchanged DEF IInv
<1> QED BY <1>7, <1>10, <1>11, <1>12, <1>13 DEF IInv

\* The Task as a close leaves it: raised control, and ended.
LEMMA CloseControlFacts ==
  ASSUME IInv, NEW t \in Tasks, Open(t)
  PROVE  /\ task[t] \in Task /\ CloseControl(t) \in Task /\ Same(task[t], CloseControl(t))
         /\ CloseControl(t).acceptance >= task[t].acceptance
         /\ Firm(task[t], CloseControl(t))
<1> DEFINE k == task[t]
           l == ScopedLevel(k, policy, k.sensitiveEffect)
           a == ScopedAcceptance(k, policy, k.sensitiveEffect)
<1>1. k \in Task /\ k.sensitiveEffect \in BOOLEAN
  BY DEF Open, Exists, IInv, TypeOK, Task
<1>2. Dominates(k, l, a)
  BY <1>1, ScopedFacts, PolicyIsTyped DEF IInv
<1>3. RaisedTo(k, CloseControl(t), l, a)
  BY <1>1, <1>2, RaisedFacts DEF CloseControl
<1> HIDE DEF l, a
<1> QED BY <1>1, <1>2, <1>3, FirmRaised DEF RaisedTo, Dominates

\* A close whose event stands keeps the invariant.
LEMMA CloseStep ==
  ASSUME IInv, NEW t \in Tasks, Closeable(t), NEW outcome \in Outcomes, NEW s \in Tasks, Exists(s),
         CloseAs(t, CloseControl(t), outcome, s),
         NEW e, e = [task |-> t, outcome |-> outcome, level |-> CloseControl(t).level,
                     acceptance |-> CloseControl(t).acceptance, basis |-> CloseControl(t).basis],
         EventFine(e)'
  PROVE  IInv' /\ TasksKept
<1> DEFINE k == CloseControl(t)
           r == [k EXCEPT !.outcome = outcome]
<1>1. /\ Open(t) /\ Exists(t) /\ activeTask = t /\ task[t].outcome = "open"
      /\ k \in Task /\ Firm(task[t], k)
  BY CloseControlFacts DEF Closeable, Open
<1>2. Firm(task[t], r)
  <2> HIDE DEF k
  <2>1. r \in Task
    BY <1>1 DEF Task
  <2> QED BY <1>1, <2>1 DEF Firm, Settled, Task
<1>3. /\ task' = [task EXCEPT ![t] = r] /\ ticket' = Invalidate(ActiveTickets(t))
      /\ activeTask' = s /\ closeEvents' = closeEvents \cup {e}
      /\ UNCHANGED <<policy, now, userAction, runs>>
  BY DEF CloseAs
<1> HIDE DEF r
<1>4. /\ TasksKept /\ task' \in [Tasks -> Task \cup {None}]
      /\ \A u \in Tasks : Exists(u) => Exists(u)'
  BY <1>1, <1>2, <1>3, OneRow DEF IInv
<1>5. e \in CloseEvent
  BY <1>1 DEF CloseEvent, Task
<1>6. /\ ticket' \in [Tickets -> Ticket \cup {None}]
      /\ \A x \in Tickets : ~(ticket'[x] # None /\ ticket'[x].status = "active")
  <2>1. \A x \in ActiveTickets(t) : ticket[x] # None
    BY DEF ActiveTickets
  <2>2. /\ ticket' \in [Tickets -> Ticket \cup {None}]
        /\ \A x \in Tickets :
             ticket'[x] # None /\ ticket'[x].status = "active" =>
               x \notin ActiveTickets(t) /\ ticket'[x] = ticket[x]
    BY <1>3, <2>1, InvalidateFacts DEF IInv
  <2> QED BY <1>1, <2>2, ActiveTicketsOfActive DEF IInv, IsActive
<1>7. TypeOK'
  BY <1>3, <1>4, <1>5, <1>6 DEF IInv, TypeOK
<1>8. Pointed'
  BY <1>3, <1>4 DEF Pointed, Exists
<1>9. TicketsFine'
  BY <1>6, NoActiveTickets
<1>10. \A d \in closeEvents' : d \in closeEvents \/ EventFine(d)'
  BY <1>3
<1>11. RowsFine' /\ History'
  BY <1>3, <1>4, <1>7, <1>10, RowsKept, HistoryKept, ActionsUnchanged DEF IInv
<1> QED BY <1>4, <1>7, <1>8, <1>9, <1>11 DEF IInv

LEMMA CloseCompleteKeeps ==
  ASSUME IInv, NEW t \in Tasks, CloseComplete(t)
  PROVE  IInv' /\ TasksKept
<1> DEFINE k == CloseControl(t)
<1>1. Closeable(t) /\ Open(t) /\ Exists(t) /\ Completable(t, k) /\ CloseAs(t, k, "completed", t)
  BY DEF CloseComplete, Closeable, Open
<1>2. /\ task[t] \in Task /\ k \in Task /\ Same(task[t], k) /\ k.acceptance >= task[t].acceptance
      /\ task[t].acceptance \in Acceptances /\ k.acceptance \in Acceptances /\ k.level \in Levels
  BY <1>1, CloseControlFacts DEF Task
<1>3. /\ k.basis.revision = task[t].revision
      /\ k.basis.scope = task[t].scope /\ k.basis.cu = task[t].cu
  BY <1>1, <1>2 DEF Completable, BasisCurrent, Same
<1>4. PICK e : e = [task |-> t, outcome |-> "completed", level |-> k.level,
                    acceptance |-> k.acceptance, basis |-> k.basis]
  OBVIOUS
<1> HIDE DEF k
<1>5. e.task = t /\ e.outcome = "completed" /\ e.level = k.level /\ e.basis = k.basis
  BY <1>4
<1>6. /\ task'[t].outcome = "completed" /\ task'[t].mode = task[t].mode /\ task'[t] # None
      /\ UNCHANGED userAction
  <2>1. task'[t] = [k EXCEPT !.outcome = "completed"] /\ UNCHANGED userAction
    BY <1>1 DEF CloseAs, IInv, TypeOK
  <2>2. task'[t] \in Task
    BY <1>2, <2>1 DEF Task, Outcomes
  <2> QED BY <1>2, <2>1, <2>2, NoneIsNoRow DEF Same, Task
<1>7. ASSUME e.level >= Tracked \/ task[t].mode = "advisor"
      PROVE  \E a \in Actions :
                /\ Answered(a, "acceptance", t) /\ userAction[a].revision = k.basis.revision
                /\ userAction[a].scope = k.basis.scope /\ userAction[a].cu = k.basis.cu
  <2>1. k.mode = "advisor" => k.acceptance = Required
    <3>1. task[t].mode = "advisor" => task[t].acceptance = Required
      BY <1>1 DEF IInv, RowsFine, RowFine
    <3>2. k.mode = task[t].mode
      BY <1>2 DEF Same
    <3> QED BY SMT, <1>2, <3>1, <3>2 DEF Acceptances, NotRequired, Required
  <2>2. FinalAcceptanceRequired(t, k)
    BY SMT, <1>2, <1>5, <1>7, <2>1 DEF FinalAcceptanceRequired, Same, Levels, Observe, Light, Tracked, Sensitive
  <2>3. PICK a \in Actions : CurrentAcceptance(a, t)
    BY <1>1, <2>2 DEF Completable
  <2> QED BY <1>3, <2>3 DEF CurrentAcceptance, Accepted, Answered
<1>8. ASSUME k.level = Sensitive
      PROVE  /\ k.basis.requirements # {}
             /\ \A w \in k.basis.requirements : \E a \in Actions :
                   /\ Answered(a, "approval", t) /\ userAction[a].scope = k.basis.scope
                   /\ Covers(userAction[a].write, w)
  BY <1>1, <1>3, <1>8 DEF Completable, SensitiveCloseApproved, CurrentApproval, Accepted, Answered
<1>9. EventFine(e)'
  <2>1. ASSUME NEW a \in Actions, NEW kind PROVE Answered(a, kind, t)' <=> Answered(a, kind, t)
    BY <1>6 DEF Answered
  <2> QED BY <1>5, <1>6, <1>7, <1>8, <2>1 DEF EventFine, Exists
<1> QED BY <1>1, <1>4, <1>9, CloseStep DEF Outcomes, k

LEMMA CloseCancelKeeps ==
  ASSUME IInv, NEW t \in Tasks, CloseCancel(t)
  PROVE  IInv' /\ TasksKept
<1> DEFINE k == CloseControl(t)
<1>1. Closeable(t) /\ Open(t) /\ Exists(t) /\ CloseAs(t, k, "cancelled", t)
  BY DEF CloseCancel, Closeable, Open
<1>2. k \in Task /\ Same(task[t], k)
  BY <1>1, CloseControlFacts
<1>3. PICK e : e = [task |-> t, outcome |-> "cancelled", level |-> k.level,
                    acceptance |-> k.acceptance, basis |-> k.basis]
  OBVIOUS
<1> HIDE DEF k
<1>4. e.task = t /\ e.outcome = "cancelled"
  BY <1>3
<1>5. /\ task'[t].outcome = "cancelled" /\ task'[t] # None /\ UNCHANGED userAction
      /\ task'[t].scope = task[t].scope /\ task'[t].cu = task[t].cu
  <2>1. task'[t] = [k EXCEPT !.outcome = "cancelled"] /\ UNCHANGED userAction
    BY <1>1 DEF CloseAs, IInv, TypeOK
  <2>2. task'[t] \in Task
    BY <1>2, <2>1 DEF Task, Outcomes
  <2> QED BY <1>2, <2>1, <2>2, NoneIsNoRow DEF Same, Task
<1>6. PICK a \in Actions : Accepted(a, "cancellation", t)
  BY DEF CloseCancel
<1>7. EventFine(e)'
  BY <1>4, <1>5, <1>6 DEF EventFine, Exists, Answered, Accepted
<1> QED BY <1>1, <1>3, <1>7, CloseStep DEF Outcomes, k

LEMMA CloseSupersedeKeeps ==
  ASSUME IInv, NEW t \in Tasks, NEW s \in Tasks, CloseSupersede(t, s)
  PROVE  IInv' /\ TasksKept
<1> DEFINE k == CloseControl(t)
<1>1. Closeable(t) /\ Open(t) /\ Exists(s) /\ CloseAs(t, k, "superseded", s)
  BY DEF CloseSupersede, Closeable, Open
<1>2. k \in Task
  BY <1>1, CloseControlFacts
<1>3. PICK e : e = [task |-> t, outcome |-> "superseded", level |-> k.level,
                    acceptance |-> k.acceptance, basis |-> k.basis]
  OBVIOUS
<1> HIDE DEF k
<1>4. e.task = t /\ e.outcome = "superseded"
  BY <1>3
<1>5. task'[t].outcome = "superseded" /\ task'[t] # None
  <2>1. task'[t] = [k EXCEPT !.outcome = "superseded"]
    BY <1>1 DEF CloseAs, IInv, TypeOK
  <2>2. task'[t] \in Task
    BY <1>2, <2>1 DEF Task, Outcomes
  <2> QED BY <1>2, <2>1, <2>2, NoneIsNoRow DEF Task
<1>6. EventFine(e)'
  BY <1>4, <1>5 DEF EventFine, Exists
<1> QED BY <1>1, <1>3, <1>6, CloseStep DEF Outcomes, k

-----------------------------------------------------------------------------
(* Policy changes, user actions and the clock.                             *)

\* Policies with the same write-authority fingerprint resolve control alike.
LEMMA FingerprintFields ==
  ASSUME NEW p \in PolicyType, NEW q \in PolicyType, Fingerprint(p) = Fingerprint(q)
  PROVE  /\ \A mode, l : EffectiveControlLevel(mode, l, p) = EffectiveControlLevel(mode, l, q)
         /\ \A l : AcceptanceForControl(l, p) = AcceptanceForControl(l, q)
         /\ p.denied = q.denied
<1>1. /\ p.direct = q.direct /\ p.work = q.work /\ p.light = q.light /\ p.denied = q.denied
      /\ p.lightAcceptance = q.lightAcceptance
  <2>1. ASSUME NEW o \in PolicyType
        PROVE  /\ Fingerprint(o).direct = o.direct /\ Fingerprint(o).work = o.work
               /\ Fingerprint(o).light = o.light /\ Fingerprint(o).denied = o.denied
               /\ Fingerprint(o).lightAcceptance = o.lightAcceptance
    BY DEF Fingerprint, PolicyType
  <2>2. /\ Fingerprint(p).direct = Fingerprint(q).direct /\ Fingerprint(p).work = Fingerprint(q).work
        /\ Fingerprint(p).light = Fingerprint(q).light /\ Fingerprint(p).denied = Fingerprint(q).denied
        /\ Fingerprint(p).lightAcceptance = Fingerprint(q).lightAcceptance
    OBVIOUS
  <2>3. /\ Fingerprint(p).direct = p.direct /\ Fingerprint(p).work = p.work
        /\ Fingerprint(p).light = p.light /\ Fingerprint(p).denied = p.denied
        /\ Fingerprint(p).lightAcceptance = p.lightAcceptance
    BY <2>1
  <2>4. /\ Fingerprint(q).direct = q.direct /\ Fingerprint(q).work = q.work
        /\ Fingerprint(q).light = q.light /\ Fingerprint(q).denied = q.denied
        /\ Fingerprint(q).lightAcceptance = q.lightAcceptance
    BY <2>1
  <2> QED BY <2>2, <2>3, <2>4, Zenon
<1> QED BY <1>1 DEF EffectiveControlLevel, AcceptanceForControl

\* The mark a new policy leaves is not below the mark it replaces.
LEMMA MergedMarkFacts ==
  ASSUME NEW k \in Task, NEW p \in PolicyType
  PROVE  /\ MergedMark(k, p) \in Mark
         /\ k.mark # None => /\ MergedMark(k, p).level >= k.mark.level
                             /\ MergedMark(k, p).acceptance >= k.mark.acceptance
<1> DEFINE required == EffectiveControlLevel(k.mode, k.requested, p)
           base == IF k.mark = None THEN k.level ELSE k.mark.level
           level == Max2(required, base)
           control == Max2(AcceptanceForControl(required, p), AcceptanceForControl(level, p))
           floor == IF k.mark = None THEN k.acceptance ELSE k.mark.acceptance
<1>1. /\ k.level \in Levels /\ k.acceptance \in Acceptances /\ k.requested \in Levels
      /\ k.mark # None => k.mark.level \in Levels /\ k.mark.acceptance \in Acceptances
  BY DEF Task, Mark
<1>2. required \in Levels
  BY <1>1, EffectiveType
<1>3. base \in Levels /\ floor \in Acceptances
  BY <1>1
<1>4. level \in Levels /\ level >= base
  <2> HIDE DEF required, base
  <2> QED BY SMT, <1>2, <1>3 DEF Max2, Levels, Observe, Sensitive
<1>5. AcceptanceForControl(required, p) \in Acceptances /\ AcceptanceForControl(level, p) \in Acceptances
  BY <1>2, <1>4, AcceptanceType
<1>6. control \in Acceptances
  BY <1>5 DEF Max2, Acceptances, NotRequired, Required
<1>7. Max2(control, floor) \in Acceptances /\ Max2(control, floor) >= floor
  <2> HIDE DEF control, floor
  <2> QED BY SMT, <1>3, <1>6 DEF Max2, Acceptances, NotRequired, Required
<1>8. MergedMark(k, p) = [level |-> level, acceptance |-> Max2(control, floor)]
  BY DEF MergedMark
<1>9. k.mark # None => base = k.mark.level /\ floor = k.mark.acceptance
  OBVIOUS
<1> HIDE DEF level, control, floor, base
<1> QED BY SMT, <1>4, <1>7, <1>8, <1>9 DEF Mark

LEMMA ApplyPolicyKeeps ==
  ASSUME IInv, NEW p \in Policies, ApplyPolicy(p)
  PROVE  IInv' /\ TasksKept
<1> DEFINE changed == Fingerprint(p) # Fingerprint(policy)
           xs == {x \in Tickets :
                    /\ ticket[x] # None /\ ticket[x].status = "active"
                    /\ \/ ticket[x].fingerprint # Fingerprint(p)
                       \/ changed /\ ticket[x].task = activeTask}
<1>1. p \in PolicyType /\ policy \in PolicyType
  BY TaskAuthorityAssumption, PolicyIsTyped DEF IInv
<1>2. policy' = p /\ UNCHANGED <<now, activeTask, userAction, runs, closeEvents>>
  BY DEF ApplyPolicy
<1>3. ticket' = Invalidate(xs) /\ \A x \in xs : ticket[x] # None
  BY DEF ApplyPolicy
<1>4. /\ ticket' \in [Tickets -> Ticket \cup {None}]
      /\ \A x \in Tickets :
           ticket'[x] # None /\ ticket'[x].status = "active" => x \notin xs /\ ticket'[x] = ticket[x]
  <2> HIDE DEF xs
  <2> QED BY <1>3, InvalidateFacts DEF IInv
<1>5. /\ TasksKept /\ task' \in [Tasks -> Task \cup {None}]
      /\ \A u \in Tasks : Exists(u) => task'[u] # None
  <2>1. CASE changed /\ activeTask # None
    <3> DEFINE k == task[activeTask]
               r == [k EXCEPT !.mark = MergedMark(k, p)]
    <3>1. activeTask \in Tasks /\ Exists(activeTask) /\ k \in Task
      BY <2>1 DEF IInv, TypeOK, Pointed, Exists
    <3>2. MergedMark(k, p) \in Mark /\ MergedMark(k, p) # None
      BY <1>1, <3>1, MergedMarkFacts, NoneIsNoRow
    <3>3. r \in Task /\ r.mark = MergedMark(k, p)
      BY <3>1, <3>2 DEF Task
    <3>4. Settled(k, r)
      BY <1>1, <3>1, <3>2, <3>3, MergedMarkFacts DEF Settled
    <3>5. Firm(k, r)
      BY <3>1, <3>3, <3>4, FirmSelf DEF Firm, Task
    <3>6. task' = [task EXCEPT ![activeTask] = r]
      BY <2>1, <3>1 DEF ApplyPolicy, IInv, TypeOK
    <3> HIDE DEF r
    <3> QED BY <3>1, <3>5, <3>6, OneRow DEF IInv, Exists
  <2>2. CASE ~(changed /\ activeTask # None)
    <3>1. task' = task
      BY <2>2 DEF ApplyPolicy
    <3> QED BY <3>1, FirmSelf DEF TasksKept, IInv, TypeOK, Exists
  <2> QED BY <2>1, <2>2
<1>6. TypeOK'
  BY <1>2, <1>4, <1>5 DEF IInv, TypeOK
<1>7. Pointed'
  BY <1>2, <1>5 DEF IInv, TypeOK, Pointed, Exists
<1>8. TicketsFine'
  <2>1. CASE changed
    <3>1. ASSUME NEW x \in Tickets, IsActive(x) PROVE x \in xs
      BY <2>1, <3>1, ActiveTicketsOfActive DEF IInv, IsActive, ActiveTickets
    <3> HIDE DEF xs
    <3> QED BY <1>4, <3>1, NoActiveTickets DEF IsActive
  <2>2. CASE ~changed
    <3>1. task' = task
      BY <2>2 DEF ApplyPolicy
    <3>2. /\ \A mode, l : EffectiveControlLevel(mode, l, p) = EffectiveControlLevel(mode, l, policy)
          /\ \A l : AcceptanceForControl(l, p) = AcceptanceForControl(l, policy)
          /\ p.denied = policy.denied
      BY <1>1, <2>2, FingerprintFields
    <3> SUFFICES ASSUME NEW x \in Tickets, IsActive(x)'
                 PROVE  (Exists(ticket[x].task) /\ TicketFine(ticket[x], task[ticket[x].task]))'
      BY DEF TicketsFine
    <3>3. IsActive(x) /\ ticket'[x] = ticket[x]
      BY <1>4 DEF IsActive
    <3>4. Exists(ticket[x].task) /\ TicketFine(ticket[x], task[ticket[x].task])
      BY <3>3 DEF IInv, TicketsFine
    <3> HIDE DEF xs
    <3> QED BY <1>2, <2>2, <3>1, <3>2, <3>3, <3>4 DEF TicketFine, Exists
  <2> QED BY <2>1, <2>2
<1>9. RowsFine' /\ History'
  BY <1>2, <1>5, <1>6, RowsKept, HistoryKept, ActionsUnchanged DEF IInv
<1> QED BY <1>5, <1>6, <1>7, <1>8, <1>9 DEF IInv

\* A step that leaves Tasks, tickets and closes alone.
LEMMA StillStep ==
  ASSUME IInv, userAction' \in [Actions -> UserAction \cup {None}], ActionsKept,
         now' \in 0 .. MaxTime, UNCHANGED <<policy, activeTask, task, ticket, runs, closeEvents>>
  PROVE  IInv' /\ TasksKept
<1>1. TasksKept
  BY FirmSelf DEF TasksKept, IInv, TypeOK, Exists
<1>2. TypeOK'
  BY DEF IInv, TypeOK
<1>3. Pointed' /\ TicketsFine'
  BY DEF IInv, Pointed, Exists, TicketsFine, TicketFine, IsActive
<1>4. RowsFine' /\ History'
  BY <1>1, <1>2, RowsKept, HistoryKept DEF IInv
<1> QED BY <1>1, <1>2, <1>3, <1>4 DEF IInv

LEMMA RequestUserActionKeeps ==
  ASSUME IInv, NEW a \in Actions, NEW t \in Tasks, NEW kind \in Intents,
         NEW w \in Writes \cup {None}, NEW expires \in 0 .. MaxTime,
         RequestUserAction(a, t, kind, w, expires)
  PROVE  IInv' /\ TasksKept
<1> DEFINE k == task[t]
           rev == IF kind = "acceptance" THEN k.basis.revision ELSE 0
           u == [task |-> t, kind |-> kind, scope |-> k.scope, cu |-> k.cu, revision |-> rev,
                 write |-> w, expires |-> expires, answer |-> "none", basisStatus |-> "current"]
<1>1. k \in Task /\ userAction[a] = None
  BY DEF RequestUserAction, Open, Exists, IInv, TypeOK
<1>2. rev \in 0 .. MaxBasis
  <2>1. kind = "acceptance" => k.basis \in Basis
    BY <1>1 DEF RequestUserAction, Task
  <2> QED BY SMT, <2>1, TaskAuthorityAssumption DEF Basis
<1>3. u \in UserAction
  <2> HIDE DEF rev
  <2>1. k.scope \in 0 .. MaxScope /\ k.cu \in 0 .. MaxScope /\ expires \in Nat
    BY SMT, <1>1, TaskAuthorityAssumption DEF Task
  <2> QED BY <1>2, <2>1 DEF UserAction
<1>4. userAction' = [userAction EXCEPT ![a] = u]
  BY DEF RequestUserAction
<1> HIDE DEF u
<1>5. userAction' \in [Actions -> UserAction \cup {None}] /\ ActionsKept
  BY <1>1, <1>3, <1>4 DEF IInv, TypeOK, ActionsKept, Asked
<1>6. now' \in 0 .. MaxTime /\ UNCHANGED <<policy, activeTask, task, ticket, runs, closeEvents>>
  BY DEF RequestUserAction, IInv, TypeOK
<1> QED BY <1>5, <1>6, StillStep

LEMMA ResolveUserActionKeeps ==
  ASSUME IInv, NEW a \in Actions, NEW answer \in {"accepted", "rejected"},
         ResolveUserAction(a, answer)
  PROVE  IInv' /\ TasksKept
<1> DEFINE u == userAction[a]
           v == [u EXCEPT !.answer = answer]
<1>1. u \in UserAction /\ u.answer = "none"
  BY DEF ResolveUserAction, Pending, IInv, TypeOK
<1>2. v \in UserAction /\ Asked(u, v) /\ v # None
  <2>1. v \in UserAction /\ Asked(u, v)
    BY <1>1 DEF UserAction, Asked
  <2> QED BY <2>1, NoneIsNoRow
<1>3. userAction' = [userAction EXCEPT ![a] = v]
  BY DEF ResolveUserAction, IInv, TypeOK
<1> HIDE DEF v
<1>4. userAction' \in [Actions -> UserAction \cup {None}] /\ ActionsKept
  <2>1. \A b \in Actions : Asked(userAction[b], userAction[b])
    BY DEF Asked
  <2> QED BY <1>2, <1>3, <2>1 DEF IInv, TypeOK, ActionsKept
<1>5. now' \in 0 .. MaxTime /\ UNCHANGED <<policy, activeTask, task, ticket, runs, closeEvents>>
  BY DEF ResolveUserAction, IInv, TypeOK
<1> QED BY <1>4, <1>5, StillStep

LEMMA TickKeeps ==
  ASSUME IInv, Tick
  PROVE  IInv' /\ TasksKept
<1>1. now' \in 0 .. MaxTime /\ UNCHANGED <<policy, activeTask, task, ticket, userAction, runs, closeEvents>>
  BY SMT, TaskAuthorityAssumption DEF Tick, IInv, TypeOK
<1> QED BY <1>1, ActionsTyped, StillStep DEF IInv

-----------------------------------------------------------------------------
(* The invariant is inductive.                                             *)

LEMMA InitIInv == Init => IInv
<1> SUFFICES ASSUME Init PROVE IInv
  OBVIOUS
<1>1. TypeOK
  BY SMT, TaskAuthorityAssumption DEF Init, TypeOK
<1>2. Pointed /\ RowsFine /\ TicketsFine
  BY DEF Init, Pointed, RowsFine, TicketsFine, IsActive, Exists
<1>3. History
  BY HistoryByEvent DEF Init
<1> QED BY <1>1, <1>2, <1>3 DEF IInv

LEMMA NextIInv ==
  ASSUME IInv, [Next]_vars
  PROVE  IInv' /\ TasksKept
<1>1. ASSUME NEW t \in Tasks, NEW mode \in Modes, NEW requested \in Requests,
             NEW acceptance \in Acceptances, NEW supersede \in BOOLEAN,
             IntakeCreate(t, mode, requested, acceptance, supersede)
      PROVE  IInv' /\ TasksKept
  BY <1>1, IntakeCreateKeeps
<1>2. CASE IntakeResume
  BY <1>2, IntakeResumeKeeps
<1>3. ASSUME NEW t \in Tasks, NEW op \in {"keep", "create", "replace"}, NEW s \in BOOLEAN,
             UpdateScope(t, op, s)
      PROVE  IInv' /\ TasksKept
  BY <1>3, UpdateScopeKeeps
<1>4. ASSUME NEW t \in Tasks, UpdateScopeUnchanged(t) \/ RecordShaping(t) \/ FinalizeAdvice(t)
      PROVE  IInv' /\ TasksKept
  BY <1>4, UpdateScopeUnchangedKeeps, RecordShapingKeeps, FinalizeAdviceKeeps
<1>5. ASSUME NEW t \in Tasks, NEW locked \in BOOLEAN, AdvanceTask(t, locked)
      PROVE  IInv' /\ TasksKept
  BY <1>5, AdvanceTaskKeeps
<1>6. ASSUME NEW t \in Tasks, NEW w \in Writes, NEW x \in Tickets, NEW approval \in Actions \cup {None},
             PrepareWriteIssue(t, w, x, approval)
      PROVE  IInv' /\ TasksKept
  BY <1>6, PrepareWriteIssueKeeps
<1>7. ASSUME NEW t \in Tasks, NEW w \in Writes, PrepareWriteDecide(t, w)
      PROVE  IInv' /\ TasksKept
  BY <1>7, PrepareWriteDecideKeeps
<1>8. ASSUME NEW t \in Tasks, NEW w \in Writes, NEW x \in Tickets \cup {None}, NEW assess \in BOOLEAN,
             RecordRun(t, w, x, assess)
      PROVE  IInv' /\ TasksKept
  BY <1>8, RecordRunKeeps
<1>9. ASSUME NEW t \in Tasks, CloseComplete(t) \/ CloseCancel(t)
      PROVE  IInv' /\ TasksKept
  BY <1>9, CloseCompleteKeeps, CloseCancelKeeps
<1>10. ASSUME NEW t \in Tasks, NEW s \in Tasks, CloseSupersede(t, s)
       PROVE  IInv' /\ TasksKept
  BY <1>10, CloseSupersedeKeeps
<1>11. ASSUME NEW p \in Policies, ApplyPolicy(p)
       PROVE  IInv' /\ TasksKept
  BY <1>11, ApplyPolicyKeeps
<1>12. ASSUME NEW a \in Actions, NEW t \in Tasks, NEW kind \in Intents,
              NEW w \in Writes \cup {None}, NEW expires \in 0 .. MaxTime,
              RequestUserAction(a, t, kind, w, expires)
       PROVE  IInv' /\ TasksKept
  BY <1>12, RequestUserActionKeeps
<1>13. ASSUME NEW a \in Actions, NEW answer \in {"accepted", "rejected"}, ResolveUserAction(a, answer)
       PROVE  IInv' /\ TasksKept
  BY <1>13, ResolveUserActionKeeps
<1>14. CASE Tick
  BY <1>14, TickKeeps
<1>15. CASE UNCHANGED vars
  <2>1. UNCHANGED <<policy, now, activeTask, task, ticket, userAction, runs, closeEvents>>
    BY <1>15 DEF vars
  <2>2. now' \in 0 .. MaxTime
    BY <2>1 DEF IInv, TypeOK
  <2> QED BY <2>1, <2>2, ActionsTyped, StillStep DEF IInv
<1> QED
  BY <1>1, <1>2, <1>3, <1>4, <1>5, <1>6, <1>7, <1>8, <1>9, <1>10, <1>11, <1>12, <1>13, <1>14, <1>15
  DEF Next

-----------------------------------------------------------------------------
(* Theorems.                                                               *)

LEMMA Invariance == Spec => []IInv
<1>1. Init => IInv
  BY InitIInv
<1>2. IInv /\ [Next]_vars => IInv'
  BY NextIInv
<1> QED BY <1>1, <1>2, PTL DEF Spec

\* Every row keeps its shape, and revisions and times their bounds.
THEOREM TypeCorrect == Spec => []TypeOK
<1>1. IInv => TypeOK
  BY DEF IInv
<1> QED BY <1>1, Invariance, PTL

\* Whatever Task switches, scope changes, closes and policies come between, a ticket the store
\* still marks active belongs to the open active Task in its implementation phase, at its
\* current Change Unit, scope revision and policy fingerprint.
THEOREM TicketsStayCurrent == Spec => []ActiveTicketsCurrent
<1>1. IInv => ActiveTicketsCurrent
  BY DEF IInv, TicketsFine, TicketFine, IsActive, ActiveTicketsCurrent, Open, Exists
<1> QED BY <1>1, Invariance, PTL

\* No ticket outlives a policy that asks more of its Task than the Task has.
THEOREM TicketControlStaysCurrent == Spec => []TicketControlCurrent
<1>1. IInv => TicketControlCurrent
  BY DEF IInv, TicketsFine, TicketFine, IsActive, TicketControlCurrent
<1> QED BY <1>1, Invariance, PTL

\* A completion under Tracked or Sensitive control, or of an Advisor, rests on the user's
\* acceptance of exactly the basis it closed on, now and ever after.
THEOREM CompletionIsAccepted == Spec => []CompletedIsAccepted
<1>1. IInv => CompletedIsAccepted
  BY DEF IInv, History
<1> QED BY <1>1, Invariance, PTL

\* A completion under Sensitive control rests on approvals of each requirement in its basis.
THEOREM SensitiveCompletionIsApproved == Spec => []SensitiveCompletionApproved
<1>1. IInv => SensitiveCompletionApproved
  BY DEF IInv, History
<1> QED BY <1>1, Invariance, PTL

\* A cancellation rests on the user's authorisation at the scope the Task had.
THEOREM CancellationIsAuthorized == Spec => []CancelledIsAuthorized
<1>1. IInv => CancelledIsAuthorized
  BY DEF IInv, History
<1> QED BY <1>1, Invariance, PTL

\* No step drops a reevaluation mark the Task has not reached, or weakens one.
THEOREM MarksAreSettled == Spec => MarksOnlySettled
<1>1. IInv /\ [Next]_vars =>
        [\A t \in Tasks :
          Exists(t) /\ PendingReevaluation(task[t]) =>
             \/ task'[t].level >= task[t].mark.level /\ task'[t].acceptance >= task[t].mark.acceptance
             \/ /\ task'[t].mark # None
                /\ task'[t].mark.level >= task[t].mark.level
                /\ task'[t].mark.acceptance >= task[t].mark.acceptance]_vars
  <2> SUFFICES ASSUME IInv, [Next]_vars, NEW t \in Tasks, Exists(t), PendingReevaluation(task[t])
               PROVE  \/ /\ task'[t].level >= task[t].mark.level
                         /\ task'[t].acceptance >= task[t].mark.acceptance
                      \/ /\ task'[t].mark # None
                         /\ task'[t].mark.level >= task[t].mark.level
                         /\ task'[t].mark.acceptance >= task[t].mark.acceptance
    OBVIOUS
  <2>1. Firm(task[t], task'[t])
    BY NextIInv DEF TasksKept
  <2> QED BY <2>1 DEF Firm, Settled, PendingReevaluation
<1> QED BY <1>1, Invariance, PTL DEF Spec, MarksOnlySettled

\* A Run on a product file or under Sensitive control consumes, in its own step, the active
\* ticket of its Task for exactly its write; under Sensitive control or on a denied path a
\* current approval of the write exists at that moment.
LEMMA RunStep ==
  ASSUME IInv, NEW t \in Tasks, NEW w \in Writes, NEW x \in Tickets \cup {None}, NEW assess \in BOOLEAN,
         RecordRun(t, w, x, assess), Product(w) \/ task[t].level = Sensitive
  PROVE  /\ x # None /\ ticket[x].task = t /\ ticket[x].write = w
         /\ ticket[x].status = "active" /\ ticket'[x].status = "consumed"
         /\ activeTask = t /\ Open(t)
         /\ task[t].level = Sensitive \/ w.target \in policy.denied \ {NoTarget} =>
               \E a \in Actions : CurrentApproval(a, t, w)
<1>1. task[t] \in Task /\ Open(t)
  BY DEF RecordRun, Open, Exists, IInv, TypeOK
<1>2. TicketRequired(task[t], w)
  <2>1. /\ ResolvedLevel(task[t], policy) \in Levels
        /\ ResolvedLevel(task[t], policy) >= task[t].level
    BY <1>1, ResolvedFacts, PolicyIsTyped DEF IInv, Dominates
  <2> QED BY SMT, <2>1 DEF TicketRequired, Levels, Observe, Sensitive
<1>3. x \in Tickets /\ x # None /\ Admits(x, t, w)
  BY <1>2 DEF RecordRun
<1>4. ticket[x] \in Ticket
  BY <1>3 DEF Admits, IInv, TypeOK
<1>5. ticket'[x].status = "consumed"
  <2>1. ticket'[x] = [ticket[x] EXCEPT !.status = "consumed"]
    BY <1>3 DEF RecordRun, Consume, IInv, TypeOK
  <2> QED BY <1>4, <2>1 DEF Ticket
<1>6. IsActive(x) /\ ticket[x].task = t /\ ticket[x].write = w /\ ApprovalHolds(ticket[x], task[t].level)
  BY <1>3 DEF Admits, IsActive
<1>7. TicketFine(ticket[x], task[t])
  BY <1>3, <1>6 DEF IInv, TicketsFine
<1>8. task[t].level = Sensitive \/ w.target \in policy.denied \ {NoTarget} =>
        \E a \in Actions : CurrentApproval(a, t, w)
  <2> SUFFICES ASSUME task[t].level = Sensitive \/ w.target \in policy.denied \ {NoTarget}
               PROVE  \E a \in Actions : CurrentApproval(a, t, w)
    OBVIOUS
  <2>1. task[t].level = Sensitive
    BY <1>6, <1>7 DEF TicketFine
  <2>2. ticket[x].approval # None /\ CurrentApproval(ticket[x].approval, t, w)
    BY <1>6, <2>1 DEF ApprovalHolds, ApprovalRequired
  <2> QED BY <1>4, <2>2 DEF Ticket
<1> QED BY <1>1, <1>3, <1>5, <1>6, <1>7, <1>8 DEF IsActive, TicketFine

\* The same for every step: only record_run adds Runs.
THEOREM RunsAreAuthorized == Spec => RunsAuthorized
<1> DEFINE Authorized ==
      \A r \in runs' \ runs :
          Product(r.write) \/ task[r.task].level = Sensitive =>
             /\ r.ticket # None
             /\ ticket[r.ticket].task = r.task /\ ticket[r.ticket].write = r.write
             /\ ticket[r.ticket].status = "active" /\ ticket'[r.ticket].status = "consumed"
             /\ activeTask = r.task /\ Open(r.task)
             /\ task[r.task].level = Sensitive \/ r.write.target \in policy.denied \ {NoTarget} =>
                   \E a \in Actions : CurrentApproval(a, r.task, r.write)
<1>1. ASSUME IInv, Next PROVE Authorized
  <2>1. CASE runs' = runs
    BY <2>1
  <2>2. ASSUME NEW t \in Tasks, NEW w \in Writes, NEW x \in Tickets \cup {None}, NEW assess \in BOOLEAN,
               RecordRun(t, w, x, assess)
        PROVE  Authorized
    <3> SUFFICES ASSUME NEW r \in runs' \ runs, Product(r.write) \/ task[r.task].level = Sensitive
                 PROVE  /\ r.ticket # None
                        /\ ticket[r.ticket].task = r.task /\ ticket[r.ticket].write = r.write
                        /\ ticket[r.ticket].status = "active" /\ ticket'[r.ticket].status = "consumed"
                        /\ activeTask = r.task /\ Open(r.task)
                        /\ task[r.task].level = Sensitive \/ r.write.target \in policy.denied \ {NoTarget} =>
                              \E a \in Actions : CurrentApproval(a, r.task, r.write)
      OBVIOUS
    <3>1. r.task = t /\ r.write = w /\ r.ticket = x
      BY SMT, <2>2 DEF RecordRun
    <3> QED BY SMT, <1>1, <2>2, <3>1, RunStep
  <2>3. runs' = runs \/ \E t \in Tasks, w \in Writes, x \in Tickets \cup {None}, assess \in BOOLEAN :
                           RecordRun(t, w, x, assess)
    <3>1. \A t, mode, requested, acceptance, supersede :
            IntakeCreate(t, mode, requested, acceptance, supersede) => runs' = runs
      BY DEF IntakeCreate
    <3>2. IntakeResume \/ Tick => runs' = runs
      BY DEF IntakeResume, Tick
    <3>3. \A t, op, s : UpdateScope(t, op, s) => runs' = runs
      BY DEF UpdateScope
    <3>4. \A t : UpdateScopeUnchanged(t) \/ RecordShaping(t) \/ FinalizeAdvice(t) => runs' = runs
      BY DEF UpdateScopeUnchanged, RecordShaping, FinalizeAdvice
    <3>5. \A t, locked : AdvanceTask(t, locked) => runs' = runs
      BY DEF AdvanceTask
    <3>6. \A t, w, x, a : PrepareWriteIssue(t, w, x, a) \/ PrepareWriteDecide(t, w) => runs' = runs
      BY SMT DEF PrepareWriteIssue, PrepareWriteDecide
    <3>7. \A t, s : CloseComplete(t) \/ CloseCancel(t) \/ CloseSupersede(t, s) => runs' = runs
      BY DEF CloseComplete, CloseCancel, CloseSupersede, CloseAs
    <3>8. \A p : ApplyPolicy(p) => runs' = runs
      BY DEF ApplyPolicy
    <3>9. \A a, t, kind, w, e : RequestUserAction(a, t, kind, w, e) => runs' = runs
      BY DEF RequestUserAction
    <3>10. \A a, answer : ResolveUserAction(a, answer) => runs' = runs
      BY DEF ResolveUserAction
    <3> QED BY <1>1, <3>1, <3>2, <3>3, <3>4, <3>5, <3>6, <3>7, <3>8, <3>9, <3>10 DEF Next
  <2> HIDE DEF Authorized
  <2> QED BY <2>1, <2>2, <2>3
<1>2. IInv /\ [Next]_vars => [Authorized]_vars
  BY <1>1
<1>3. RunsAuthorized <=> [][Authorized]_vars
  BY DEF RunsAuthorized
<1> HIDE DEF Authorized
<1> QED BY <1>2, <1>3, Invariance, PTL DEF Spec

=============================================================================
