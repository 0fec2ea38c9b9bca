---------------------- MODULE BindingAndProvenanceProofs ----------------------
(***************************************************************************)
(* Proofs about two protocols of several steps: how a host session is      *)
(* bound to a runtime (SessionBinding), and how evidence comes to count    *)
(* (EvidenceProvenance).  The two modules share no variable and no         *)
(* constant.                                                               *)
(*                                                                         *)
(* Evidence, for any number of runs, artifacts, user actions, criteria and *)
(* scopes.  Every hop of a chain of reuse is sound by itself (Grounded),   *)
(* and so is a plan for as long as it can be committed: what it rests on   *)
(* changes only with the state version.  That the whole chain leads to a   *)
(* user's resolution is an induction over its length, by the least         *)
(* counterexample.                                                         *)
(*                                                                         *)
(* The four-stage binding is safe for any number of runtimes, projects,    *)
(* host sessions, threads, policies and revisions.  The invariant says, of *)
(* each call in flight, which facts checked by an earlier stage still hold *)
(* when a later one relies on them: a call holds the shared lease, so a    *)
(* project removed under it cannot be added again before the call ends.    *)
(***************************************************************************)
EXTENDS SessionBinding, EvidenceProvenance, WellFoundedInduction, TLAPS

(* Zenon proves most leaves; the ones with arithmetic or large records say SMT. *)
USE Zenon

-----------------------------------------------------------------------------
(* Session binding *)

\* A reservation belongs to a current membership, to the host session its runtime
\* is correlated with, and is the runtime's only one.
Reservations ==
  \A p \in Projects, s \in SessionIds, r \in Runtimes :
    binding[p][s] = r =>
      /\ member[p]
      /\ native[r] # None
      /\ s.host = native[r].host
      /\ \A q \in Projects, o \in SessionIds : binding[q][o] = r => q = p /\ o = s

\* An attached anchor has a thread.
AttachedHasThread ==
  \A p \in Projects, s \in SessionIds :
    anchor[p][s].runtime # None => anchor[p][s].thread # None

Rows == ReplayCompletes /\ Reservations /\ AttachedHasThread

\* What the call of a runtime may rely on.  After stage 1 the anchor is of its
\* thread, it is attached to no other session, and an anchor attached to another
\* runtime is still reserved for that one (or the project is gone).  After stage
\* 2 its reservation stands or the project is gone; so too between the reads of
\* validate_agent_session.
CallFacts(r) ==
  LET p == call[r].project
      s == call[r].session
  IN  /\ call[r].stage \notin {"idle", "begun"} => s.host = native[r].host
      /\ call[r].stage \in {"anchored", "reserved", "attaching"} =>
           /\ anchor[p][s].thread = native[r].thread
           /\ \A o \in SessionIds \ {s} : anchor[p][o].runtime # r
           /\ anchor[p][s].runtime \notin {None, r} =>
                binding[p][s] = anchor[p][s].runtime \/ ~member[p]
      /\ call[r].stage \in {"reserved", "attaching", "checked"} =>
           binding[p][s] = r \/ ~member[p]
      /\ call[r].stage = "checked" => anchor[p][s].runtime = r

IInv ==
  /\ TypeOK
  /\ Rows
  /\ \A r \in Runtimes : CallFacts(r)

USE BindingAssumption

\* Writing one anchor row leaves the other rows, and the types, alone.
LEMMA SetAnchorEffect ==
  ASSUME anchor \in [Projects -> [SessionIds -> Anchors]],
         NEW p \in Projects, NEW s \in SessionIds,
         NEW t \in Threads \cup {None}, NEW r \in Runtimes \cup {None},
         anchor' = SetAnchor(p, s, t, r)
  PROVE  /\ anchor' \in [Projects -> [SessionIds -> Anchors]]
         /\ anchor'[p][s].thread = t /\ anchor'[p][s].runtime = r
         /\ \A q \in Projects, o \in SessionIds :
              q # p \/ o # s => anchor'[q][o] = anchor[q][o]
<1> DEFINE row == [thread |-> t, runtime |-> r]
<1>1. row \in Anchors
  BY DEF Anchors
<1>2. row.thread = t /\ row.runtime = r
  OBVIOUS
<1>3. anchor' = [anchor EXCEPT ![p] = [anchor[p] EXCEPT ![s] = row]]
  BY DEF SetAnchor
<1> HIDE DEF row
<1>4. [anchor[p] EXCEPT ![s] = row] \in [SessionIds -> Anchors]
  BY <1>1
<1>5. /\ anchor' \in [Projects -> [SessionIds -> Anchors]]
      /\ anchor'[p][s] = row
      /\ \A q \in Projects, o \in SessionIds :
           q # p \/ o # s => anchor'[q][o] = anchor[q][o]
  BY <1>3, <1>4
<1> QED
  BY <1>2, <1>5

\* Moving a call to its next stage changes nothing else of it, and no other call.
LEMMA AdvanceTyped ==
  ASSUME CallsTyped, NEW r \in Runtimes, NEW stage \in Stages \ {"begun"},
         call[r].stage \notin {"idle", "begun"}, Advance(r, stage), UNCHANGED native
  PROVE  /\ CallsTyped'
         /\ call'[r].stage = stage
         /\ call'[r].project = call[r].project
         /\ call'[r].session = call[r].session
         /\ \A o \in Runtimes \ {r} : call'[o] = call[o]
<1> DEFINE c == [stage |-> stage, project |-> call[r].project, session |-> call[r].session]
<1>1. call[r] \in Calls /\ call' = [call EXCEPT ![r] = [@ EXCEPT !.stage = stage]]
  BY DEF CallsTyped, Advance
<1>2. [call[r] EXCEPT !.stage = stage] = c
  BY SMT, <1>1 DEF Calls
<1>3. c \in Calls
  BY <1>1 DEF Calls
<1>4. call' = [call EXCEPT ![r] = c]
  BY <1>1, <1>2
<1>5. /\ call'[r] = c
      /\ \A o \in Runtimes \ {r} : call'[o] = call[o]
      /\ call' \in [Runtimes -> Calls]
  BY <1>3, <1>4 DEF CallsTyped
<1>6. \A o \in Runtimes :
        /\ call'[o].stage # "idle" => call'[o].project \in Projects /\ native'[o] # None
        /\ call'[o].stage \notin {"idle", "begun"} => call'[o].session \in SessionIds
  <2> TAKE o \in Runtimes
  <2>1. CASE o = r
    BY SMT, <2>1, <1>5 DEF CallsTyped
  <2>2. CASE o # r
    BY <2>2, <1>5 DEF CallsTyped
  <2> QED BY <2>1, <2>2
<1> QED
  BY SMT, <1>5, <1>6 DEF CallsTyped

\* Every step keeps the types.
LEMMA TypeStep == TypeOK /\ [Next]_vars => TypeOK'
<1> SUFFICES ASSUME TypeOK, [Next]_vars PROVE TypeOK'
  OBVIOUS
<1> USE DEF TypeOK
<1>1. CASE \E p \in Projects : Setup(p)
  BY SMT, <1>1 DEF Setup, CallsTyped, SessionIds, Revisions
<1>2. CASE \E p \in Projects : Remove(p)
  <2>1. PICK p \in Projects : Remove(p)
    BY <1>2
  <2>2. NoBindings \in [SessionIds -> Runtimes \cup {None}]
    BY DEF NoBindings
  <2>a. \/ binding' = [binding EXCEPT ![p] = NoBindings]
        \/ binding' = [q \in Projects |-> NoBindings]
    BY <2>1 DEF Remove
  <2>3. binding' \in [Projects -> [SessionIds -> Runtimes \cup {None}]]
    BY <2>2, <2>a
  <2> QED
    BY SMT, <2>1, <2>3 DEF Remove, CallsTyped
<1>3. CASE ChangeMode
  BY SMT, <1>3 DEF ChangeMode, CallsTyped, SessionIds, Revisions
<1>4. CASE \E p \in Projects, fingerprint \in Policies : SetPolicy(p, fingerprint)
  BY SMT, <1>4 DEF SetPolicy, CallsTyped, SessionIds, Revisions
<1>5. CASE \E r \in Runtimes : Launch(r)
  BY SMT, <1>5 DEF Launch, CallsTyped, SessionIds, Revisions
<1>6. CASE \E r \in Runtimes : Crash(r)
  BY SMT, <1>6 DEF Crash, CallsTyped, Calls, IdleCall, Stages, SessionIds, Correlations, Coordinates, RuntimeIsCurrent, Revisions, At, OwnerState, ProcessState
<1>7. CASE \E r \in Runtimes, p \in Projects, corr \in Correlations : BeginCall(r, p, corr)
  BY SMT, <1>7 DEF BeginCall, CallsTyped, Calls, IdleCall, Stages, SessionIds, Correlations, Coordinates, RuntimeIsCurrent, Revisions, At, OwnerState, ProcessState
<1>8. CASE \E r \in Runtimes : EndCall(r)
  BY SMT, <1>8 DEF EndCall, CallsTyped, Calls, IdleCall, Stages, SessionIds, Correlations, Coordinates, RuntimeIsCurrent, Revisions, At, OwnerState, ProcessState
<1>9. CASE \E r \in Runtimes : ValidateRuntime(r)
  BY SMT, <1>9 DEF ValidateRuntime, CallsTyped, Calls, IdleCall, Stages, SessionIds, Correlations, Coordinates, RuntimeIsCurrent, Revisions, At, OwnerState, ProcessState
<1>10. CASE \E r \in Runtimes : OpenProject(r, "validated", "anchoring")
  <2>1. PICK r \in Runtimes : OpenProject(r, "validated", "anchoring")
    BY <1>10
  <2>2. call[r].stage = "validated" /\ Advance(r, "anchoring") /\ UNCHANGED native
    BY <2>1 DEF OpenProject, At, ProcessState
  <2>3. CallsTyped' /\ call[r].project \in Projects /\ call[r].session \in SessionIds
    BY <2>2, AdvanceTyped DEF Stages, CallsTyped
  <2> QED
    BY <2>1, <2>3 DEF OpenProject, Anchors, Correlations, OwnerState, ProcessState
<1>11. CASE \E r \in Runtimes : Anchor(r)
  <2>1. PICK r \in Runtimes : Anchor(r)
    BY <1>11
  <2> DEFINE p == call[r].project
             s == call[r].session
  <2>2. call[r].stage = "anchoring" /\ Advance(r, "anchored") /\ UNCHANGED native
    BY <2>1 DEF Anchor, At, ProcessState
  <2>3. CallsTyped' /\ p \in Projects /\ s \in SessionIds
    BY <2>2, AdvanceTyped DEF Stages, CallsTyped
  <2>4. native[r].thread \in Threads
    BY <2>2 DEF CallsTyped, Correlations
  <2>5. anchor[p][s].thread \in Threads \cup {None} /\ anchor[p][s].runtime \in Runtimes \cup {None}
    BY SMT, <2>3 DEF Anchors
  <2>6. anchor' \in [Projects -> [SessionIds -> Anchors]]
    BY <2>1, <2>3, <2>4, <2>5, SetAnchorEffect DEF Anchor
  <2> QED
    BY <2>1, <2>3, <2>6 DEF Anchor, OwnerState, ProcessState
<1>12. CASE \E r \in Runtimes : Reserve(r)
  <2>1. PICK r \in Runtimes : Reserve(r)
    BY <1>12
  <2>2. call[r].stage = "anchored" /\ Advance(r, "reserved") /\ UNCHANGED native
    BY <2>1 DEF Reserve, At, ProcessState
  <2>3. CallsTyped' /\ call[r].project \in Projects /\ call[r].session \in SessionIds
    BY <2>2, AdvanceTyped DEF Stages, CallsTyped
  <2> QED
    BY <2>1, <2>3 DEF Reserve, Anchors, Correlations, OwnerState, ProcessState
<1>13. CASE \E r \in Runtimes : OpenProject(r, "reserved", "attaching")
  <2>1. PICK r \in Runtimes : OpenProject(r, "reserved", "attaching")
    BY <1>13
  <2>2. call[r].stage = "reserved" /\ Advance(r, "attaching") /\ UNCHANGED native
    BY <2>1 DEF OpenProject, At, ProcessState
  <2>3. CallsTyped' /\ call[r].project \in Projects /\ call[r].session \in SessionIds
    BY <2>2, AdvanceTyped DEF Stages, CallsTyped
  <2> QED
    BY <2>1, <2>3 DEF OpenProject, Anchors, Correlations, OwnerState, ProcessState
<1>14. CASE \E r \in Runtimes : Attach(r)
  <2>1. PICK r \in Runtimes : Attach(r)
    BY <1>14
  <2> DEFINE p == call[r].project
             s == call[r].session
  <2>2. call[r].stage = "attaching" /\ Advance(r, "attached") /\ UNCHANGED native
    BY <2>1 DEF Attach, At, ProcessState
  <2>3. CallsTyped' /\ p \in Projects /\ s \in SessionIds
    BY <2>2, AdvanceTyped DEF Stages, CallsTyped
  <2>4. native[r].thread \in Threads
    BY <2>2 DEF CallsTyped, Correlations
  <2>5. anchor[p][s].thread \in Threads \cup {None} /\ anchor[p][s].runtime \in Runtimes \cup {None}
    BY SMT, <2>3 DEF Anchors
  <2>6. anchor' \in [Projects -> [SessionIds -> Anchors]]
    BY <2>1, <2>3, <2>4, <2>5, SetAnchorEffect DEF Attach
  <2> QED
    BY <2>1, <2>3, <2>6 DEF Attach, OwnerState, ProcessState
<1>15. CASE \E r \in Runtimes : CheckBinding(r)
  <2>1. PICK r \in Runtimes : CheckBinding(r)
    BY <1>15
  <2>2. call[r].stage = "attached" /\ Advance(r, "checked") /\ UNCHANGED native
    BY <2>1 DEF CheckBinding, At, ProcessState
  <2>3. CallsTyped' /\ call[r].project \in Projects /\ call[r].session \in SessionIds
    BY <2>2, AdvanceTyped DEF Stages, CallsTyped
  <2> QED
    BY <2>1, <2>3 DEF CheckBinding, Anchors, Correlations, OwnerState, ProcessState
<1>16. CASE \E r \in Runtimes : CheckCurrent(r)
  <2>1. PICK r \in Runtimes : CheckCurrent(r)
    BY <1>16
  <2>2. call[r].stage = "checked" /\ Advance(r, "authorized") /\ UNCHANGED native
    BY <2>1 DEF CheckCurrent, At, ProcessState
  <2>3. CallsTyped' /\ call[r].project \in Projects /\ call[r].session \in SessionIds
    BY <2>2, AdvanceTyped DEF Stages, CallsTyped
  <2> QED
    BY <2>1, <2>3 DEF CheckCurrent, Anchors, Correlations, OwnerState, ProcessState
<1>17. CASE UNCHANGED vars
  BY <1>17 DEF vars, CallsTyped
<1> QED
  BY <1>1, <1>2, <1>3, <1>4, <1>5, <1>6, <1>7, <1>8, <1>9, <1>10, <1>11, <1>12, <1>13, <1>14, <1>15, <1>16, <1>17 DEF Next

-----------------------------------------------------------------------------
\* A step that writes neither database can only disturb the call it moves.
LEMMA OnlyCallMoves ==
  ASSUME IInv, TypeOK', NEW r \in Runtimes,
         UNCHANGED <<anchor, binding, member, native>>,
         \A o \in Runtimes \ {r} : call'[o] = call[o],
         CallFacts(r)'
  PROVE  IInv'
<1>1. Rows'
  BY SMT DEF IInv, Rows, ReplayCompletes, Reservations, AttachedHasThread
<1>2. ASSUME NEW o \in Runtimes PROVE CallFacts(o)'
  <2>1. CASE o = r
    BY <2>1
  <2>2. CASE o # r
    <3>1. call'[o] = call[o] /\ CallFacts(o)
      BY <2>2 DEF IInv
    <3> QED
      BY <3>1 DEF CallFacts
  <2> QED BY <2>1, <2>2
<1> QED
  BY <1>1, <1>2 DEF IInv

\* A step of no call that keeps the rows.
LEMMA NothingMoves ==
  ASSUME IInv, TypeOK', UNCHANGED <<anchor, binding, member, native, call>>
  PROVE  IInv'
<1>1. Rows'
  BY SMT DEF IInv, Rows, ReplayCompletes, Reservations, AttachedHasThread
<1>2. ASSUME NEW o \in Runtimes PROVE CallFacts(o)'
  <2>1. call'[o] = call[o] /\ CallFacts(o)
    BY DEF IInv
  <2> QED BY <2>1 DEF CallFacts
<1> QED BY <1>1, <1>2 DEF IInv

\* Setup runs only when no call is in flight, and adds a membership.
LEMMA SetupStep ==
  ASSUME IInv, TypeOK', NEW p \in Projects, Setup(p)
  PROVE  IInv'
<1>1. /\ \A r \in Runtimes : call[r].stage = "idle"
      /\ UNCHANGED <<anchor, binding, native, call>>
      /\ \A q \in Projects : member[q] => member'[q]
  BY DEF Setup, SharedLeaseHeld, At, IInv, TypeOK
<1>2. Rows'
  BY SMT, <1>1 DEF IInv, Rows, ReplayCompletes, Reservations, AttachedHasThread
<1>3. \A r \in Runtimes : CallFacts(r)'
  BY <1>1 DEF CallFacts
<1> QED
  BY <1>2, <1>3 DEF IInv

\* Removal drops the reservations of the project with its membership.
LEMMA RemoveStep ==
  ASSUME IInv, TypeOK', NEW p \in Projects, Remove(p)
  PROVE  IInv'
<1>1. UNCHANGED <<anchor, native, call>>
  BY DEF Remove
<1>2. \A q \in Projects, s \in SessionIds :
        \/ binding'[q][s] = binding[q][s] /\ member'[q] = member[q]
        \/ binding'[q][s] = None /\ ~member'[q]
  <2>1. \A s \in SessionIds : NoBindings[s] = None
    BY DEF NoBindings
  <2>2. ~member'[p]
    BY DEF Remove, IInv, TypeOK
  <2>3. CASE \E q \in Projects \ {p} : member[q]
    <3>1. binding' = [binding EXCEPT ![p] = NoBindings] /\ member' = [member EXCEPT ![p] = FALSE]
      BY <2>3 DEF Remove
    <3> QED
      BY <2>1, <2>2, <3>1 DEF IInv, TypeOK
  <2>4. CASE ~\E q \in Projects \ {p} : member[q]
    <3>1. binding' = [q \in Projects |-> NoBindings] /\ member' = [member EXCEPT ![p] = FALSE]
      BY <2>4 DEF Remove
    <3> QED
      BY <2>1, <2>2, <2>4, <3>1 DEF IInv, TypeOK
  <2> QED BY <2>3, <2>4
<1>3. Rows'
  <2>1. ReplayCompletes'
    BY SMT, <1>1, <1>2 DEF IInv, Rows, ReplayCompletes
  <2>2. Reservations'
    BY SMT, <1>1, <1>2 DEF IInv, Rows, Reservations
  <2> QED
    BY <1>1, <2>1, <2>2 DEF IInv, Rows, AttachedHasThread
<1>4. ASSUME NEW r \in Runtimes PROVE CallFacts(r)'
  <2>1. CallFacts(r) /\ UNCHANGED <<anchor, native, call>>
    BY <1>1 DEF IInv
  <2>2. call[r].stage \notin {"idle", "begun"} =>
          call[r].project \in Projects /\ call[r].session \in SessionIds
    BY DEF IInv, TypeOK, CallsTyped
  <2> QED
    BY <1>2, <2>1, <2>2 DEF CallFacts
<1> QED
  BY <1>3, <1>4 DEF IInv

\* A call begins with the correlation its process already had, or fixes it.
LEMMA BeginCallStep ==
  ASSUME IInv, TypeOK', NEW r \in Runtimes, NEW p \in Projects, NEW corr \in Correlations,
         BeginCall(r, p, corr)
  PROVE  IInv'
<1>1. /\ UNCHANGED <<anchor, binding, member>>
      /\ call'[r].stage = "begun"
      /\ \A o \in Runtimes \ {r} : call'[o] = call[o] /\ native'[o] = native[o]
      /\ native[r] # None => native'[r] = native[r]
      /\ call[r].stage = "idle"
  BY DEF BeginCall, At, IInv, TypeOK, CallsTyped
<1>2. Rows'
  <2>1. \A o \in Runtimes : native[o] # None => native'[o] = native[o]
    BY <1>1
  <2> QED
    BY SMT, <1>1, <2>1 DEF IInv, Rows, ReplayCompletes, Reservations, AttachedHasThread
<1>3. ASSUME NEW o \in Runtimes PROVE CallFacts(o)'
  <2>1. CASE o = r
    BY <1>1, <2>1 DEF CallFacts
  <2>2. CASE o # r
    <3>1. CallFacts(o) /\ call'[o] = call[o] /\ native'[o] = native[o]
      BY <1>1, <2>2 DEF IInv
    <3> QED
      BY <1>1, <3>1 DEF CallFacts
  <2> QED BY <2>1, <2>2
<1> QED
  BY <1>2, <1>3 DEF IInv

\* Ending a call, by a refusal or by a crash, leaves nothing to rely on.
LEMMA IdleStep ==
  ASSUME IInv, TypeOK', NEW r \in Runtimes, Crash(r) \/ EndCall(r)
  PROVE  IInv'
<1>1. /\ UNCHANGED <<anchor, binding, member, native>>
      /\ call' = [call EXCEPT ![r] = IdleCall]
  BY DEF Crash, EndCall, OwnerState, ProcessState
<1>2. call'[r].stage = "idle" /\ \A o \in Runtimes \ {r} : call'[o] = call[o]
  BY <1>1 DEF IInv, TypeOK, CallsTyped, IdleCall
<1>3. CallFacts(r)'
  BY <1>2 DEF CallFacts
<1> QED
  BY <1>1, <1>2, <1>3, OnlyCallMoves

\* Stage 0 derives a session id of the correlated host session.
LEMMA ValidateRuntimeStep ==
  ASSUME IInv, TypeOK', NEW r \in Runtimes, ValidateRuntime(r)
  PROVE  IInv'
<1>1. UNCHANGED <<anchor, binding, member, native>>
  BY DEF ValidateRuntime, OwnerState, ProcessState
<1>2. /\ call'[r].stage = "validated"
      /\ call'[r].session.host = native[r].host
      /\ \A o \in Runtimes \ {r} : call'[o] = call[o]
  BY DEF ValidateRuntime, IInv, TypeOK, CallsTyped, Coordinates
<1>3. CallFacts(r)'
  BY <1>1, <1>2 DEF CallFacts
<1> QED
  BY <1>1, <1>2, <1>3, OnlyCallMoves

\* A call past stage 0 that moves on keeps its project and session.
LEMMA Moved ==
  ASSUME IInv, NEW r \in Runtimes, NEW stage \in Stages \ {"begun"},
         call[r].stage \notin {"idle", "begun"}, Advance(r, stage), UNCHANGED native
  PROVE  /\ call'[r].stage = stage
         /\ call'[r].project = call[r].project
         /\ call'[r].session = call[r].session
         /\ \A o \in Runtimes \ {r} : call'[o] = call[o]
         /\ call[r].project \in Projects
         /\ call[r].session \in SessionIds
         /\ native[r] # None
         /\ native[r].thread \in Threads
         /\ call[r].session.host = native[r].host
         /\ CallFacts(r)
<1>1. CallsTyped /\ CallFacts(r)
  BY DEF IInv, TypeOK
<1>2. native[r] \in Correlations
  BY <1>1 DEF IInv, TypeOK, CallsTyped
<1> QED
  BY <1>1, <1>2, AdvanceTyped DEF CallsTyped, CallFacts, Correlations

\* The reads between the stages write nothing; their guards give the next facts.
LEMMA ReadStep ==
  ASSUME IInv, TypeOK', NEW r \in Runtimes,
         \/ OpenProject(r, "validated", "anchoring")
         \/ OpenProject(r, "reserved", "attaching")
         \/ CheckBinding(r)
         \/ CheckCurrent(r)
  PROVE  IInv'
<1>0. UNCHANGED <<anchor, binding, member, native>>
  BY DEF OpenProject, CheckBinding, CheckCurrent, OwnerState, ProcessState
<1>1. CASE OpenProject(r, "validated", "anchoring")
  <2>1. call[r].stage = "validated" /\ Advance(r, "anchoring")
    BY <1>1 DEF OpenProject, At
  <2>2. /\ call'[r].stage = "anchoring" /\ call'[r].session = call[r].session
        /\ call[r].session.host = native[r].host
        /\ \A o \in Runtimes \ {r} : call'[o] = call[o]
    BY <1>0, <2>1, Moved DEF Stages
  <2>3. CallFacts(r)'
    BY <1>0, <2>2 DEF CallFacts
  <2> QED BY <1>0, <2>2, <2>3, OnlyCallMoves
<1>2. CASE OpenProject(r, "reserved", "attaching")
  <2>1. call[r].stage = "reserved" /\ Advance(r, "attaching")
    BY <1>2 DEF OpenProject, At
  <2>2. /\ call'[r].stage = "attaching" /\ call'[r].session = call[r].session
        /\ call'[r].project = call[r].project /\ CallFacts(r)
        /\ \A o \in Runtimes \ {r} : call'[o] = call[o]
    BY <1>0, <2>1, Moved DEF Stages
  <2>3. CallFacts(r)'
    BY <1>0, <2>1, <2>2 DEF CallFacts
  <2> QED BY <1>0, <2>2, <2>3, OnlyCallMoves
<1>3. CASE CheckBinding(r)
  <2>1. call[r].stage = "attached" /\ Advance(r, "checked")
    BY <1>3 DEF CheckBinding, At
  <2>2. /\ call'[r].stage = "checked" /\ call'[r].session = call[r].session
        /\ call'[r].project = call[r].project /\ CallFacts(r)
        /\ \A o \in Runtimes \ {r} : call'[o] = call[o]
    BY <1>0, <2>1, Moved DEF Stages
  <2>3. CallFacts(r)'
    BY <1>0, <1>3, <2>1, <2>2 DEF CallFacts, CheckBinding
  <2> QED BY <1>0, <2>2, <2>3, OnlyCallMoves
<1>4. CASE CheckCurrent(r)
  <2>1. call[r].stage = "checked" /\ Advance(r, "authorized")
    BY <1>4 DEF CheckCurrent, At
  <2>2. /\ call'[r].stage = "authorized" /\ call'[r].session = call[r].session
        /\ call[r].session.host = native[r].host
        /\ \A o \in Runtimes \ {r} : call'[o] = call[o]
    BY <1>0, <2>1, Moved DEF Stages
  <2>3. CallFacts(r)'
    BY <1>0, <2>2 DEF CallFacts
  <2> QED BY <1>0, <2>2, <2>3, OnlyCallMoves
<1> QED BY <1>1, <1>2, <1>3, <1>4

\* A call keeps what it relies on while another runtime only sets an unset thread,
\* reserves an unreserved session, or attaches itself to an unattached one.
LEMMA OtherCall ==
  ASSUME IInv, NEW o \in Runtimes, call'[o] = call[o], UNCHANGED <<native, member>>,
         \A q \in Projects, x \in SessionIds :
           /\ anchor[q][x].thread # None => anchor'[q][x].thread = anchor[q][x].thread
           /\ binding[q][x] # None => binding'[q][x] = binding[q][x]
           /\ \/ anchor'[q][x].runtime = anchor[q][x].runtime
              \/ /\ anchor[q][x].runtime = None
                 /\ anchor'[q][x].runtime \notin {None, o}
                 /\ binding'[q][x] = anchor'[q][x].runtime \/ ~member[q]
  PROVE  CallFacts(o)'
<1> DEFINE q == call[o].project
           x == call[o].session
<1>1. CASE call[o].stage \in {"idle", "begun"}
  BY <1>1 DEF CallFacts
<1>2. CASE call[o].stage \notin {"idle", "begun"}
  <2>1. /\ q \in Projects /\ x \in SessionIds /\ native[o] # None
        /\ native[o] \in Correlations /\ native[o].thread # None
    BY SMT, <1>2 DEF IInv, TypeOK, CallsTyped, Correlations
  <2>2. /\ x.host = native[o].host
        /\ call[o].stage \in {"anchored", "reserved", "attaching"} =>
             /\ anchor[q][x].thread = native[o].thread
             /\ \A y \in SessionIds \ {x} : anchor[q][y].runtime # o
             /\ anchor[q][x].runtime \notin {None, o} =>
                  binding[q][x] = anchor[q][x].runtime \/ ~member[q]
        /\ call[o].stage \in {"reserved", "attaching", "checked"} =>
             binding[q][x] = o \/ ~member[q]
        /\ call[o].stage = "checked" => anchor[q][x].runtime = o
    BY <1>2 DEF IInv, CallFacts
  <2>3. /\ call'[o].project = q /\ call'[o].session = x
        /\ call'[o].stage = call[o].stage
    OBVIOUS
  <2>0. o # None
    OBVIOUS
  <2> HIDE DEF q, x
  <2>4. call[o].stage \in {"anchored", "reserved", "attaching"} =>
          /\ anchor'[q][x].thread = native[o].thread
          /\ \A y \in SessionIds \ {x} : anchor'[q][y].runtime # o
          /\ anchor'[q][x].runtime \notin {None, o} =>
               binding'[q][x] = anchor'[q][x].runtime \/ ~member[q]
    BY <2>1, <2>2
  <2>5. call[o].stage \in {"reserved", "attaching", "checked"} =>
          binding'[q][x] = o \/ ~member[q]
    BY <2>0, <2>1, <2>2
  <2>6. call[o].stage = "checked" => anchor'[q][x].runtime = o
    BY <2>0, <2>1, <2>2
  <2> QED
    BY <2>2, <2>3, <2>4, <2>5, <2>6 DEF CallFacts
<1> QED BY <1>1, <1>2

\* Stage 1 sets an unset thread at most, and no owner.
LEMMA AnchorStep ==
  ASSUME IInv, TypeOK', NEW r \in Runtimes, Anchor(r)
  PROVE  IInv'
<1> DEFINE p == call[r].project
           s == call[r].session
<1>1. /\ call[r].stage = "anchoring" /\ Advance(r, "anchored")
      /\ UNCHANGED <<binding, member, native>>
      /\ anchor' = SetAnchor(p, s, native[r].thread, anchor[p][s].runtime)
      /\ \A o \in SessionIds \ {s} : anchor[p][o].runtime # r
      /\ anchor[p][s].thread \in {None, native[r].thread}
      /\ anchor[p][s].runtime \in {None, r}
  BY DEF Anchor, At, OwnerState, ProcessState
<1>2. /\ call'[r].stage = "anchored" /\ call'[r].project = p /\ call'[r].session = s
      /\ \A o \in Runtimes \ {r} : call'[o] = call[o]
      /\ p \in Projects /\ s \in SessionIds
      /\ native[r].thread \in Threads /\ s.host = native[r].host
  BY <1>1, Moved DEF Stages
<1>3. anchor[p][s].runtime \in Runtimes \cup {None} /\ anchor \in [Projects -> [SessionIds -> Anchors]]
  BY SMT, <1>2 DEF IInv, TypeOK, Anchors
<1> DEFINE t == native[r].thread
           w == anchor[p][s].runtime
<1>a. anchor' = SetAnchor(p, s, t, w) /\ t \in Threads /\ w \in Runtimes \cup {None}
  BY <1>1, <1>2, <1>3
<1>d. anchor[p][s].thread \in {None, native[r].thread}
  BY <1>1
<1> HIDE DEF p, s, t, w
<1>b. /\ anchor'[p][s].thread = t
      /\ anchor'[p][s].runtime = w
      /\ \A q \in Projects, o \in SessionIds : q # p \/ o # s => anchor'[q][o] = anchor[q][o]
  BY SMT, <1>2, <1>3, <1>a, SetAnchorEffect
<1>4. /\ anchor'[p][s].thread = native[r].thread
      /\ anchor'[p][s].runtime = anchor[p][s].runtime
      /\ \A q \in Projects, o \in SessionIds : q # p \/ o # s => anchor'[q][o] = anchor[q][o]
  BY <1>b DEF t, w
\* Only an unset thread is written; no runtime is.
<1>5. \A q \in Projects, o \in SessionIds :
        /\ anchor'[q][o].runtime = anchor[q][o].runtime
        /\ anchor[q][o].thread # None => anchor'[q][o].thread = anchor[q][o].thread
  <2>1. anchor[p][s].thread # None => anchor'[p][s].thread = anchor[p][s].thread
    BY <1>4, <1>d
  <2> TAKE q \in Projects, o \in SessionIds
  <2>2. CASE q = p /\ o = s
    BY <1>4, <2>1, <2>2
  <2>3. CASE q # p \/ o # s
    BY <1>4, <2>3
  <2> QED BY <2>2, <2>3
<1>6. \A o \in Runtimes : native[o] # None => native[o].thread # None
  BY DEF IInv, TypeOK, Correlations
<1>7. Rows'
  <2>1. ReplayCompletes'
    <3>1. ReplayCompletes /\ binding' = binding /\ native' = native
      BY <1>1 DEF IInv, Rows
    <3>2. ASSUME NEW q \in Projects, NEW x \in SessionIds, NEW o \in Runtimes,
                 binding[q][x] = o
          PROVE  /\ native[o] # None
                 /\ anchor'[q][x].thread = native[o].thread
                 /\ anchor'[q][x].runtime \in {None, o}
                 /\ \A y \in SessionIds \ {x} : anchor'[q][y].runtime # o
      <4>1. /\ native[o] # None
            /\ anchor[q][x].thread = native[o].thread
            /\ anchor[q][x].runtime \in {None, o}
            /\ \A y \in SessionIds \ {x} : anchor[q][y].runtime # o
        BY ZenonT(30), <3>1, <3>2 DEF ReplayCompletes
      <4>2. anchor'[q][x].thread = native[o].thread
        BY <4>1, <1>5, <1>6
      <4> QED BY <4>1, <4>2, <1>5
    <3> QED BY SMT, <3>1, <3>2 DEF ReplayCompletes
  <2>2. Reservations'
    BY SMT, <1>1 DEF IInv, Rows, Reservations
  <2>3. AttachedHasThread'
    BY ZenonT(30), <1>5 DEF IInv, Rows, AttachedHasThread
  <2> QED BY <2>1, <2>2, <2>3 DEF Rows
<1>8. ASSUME NEW o \in Runtimes PROVE CallFacts(o)'
  <2>1. CASE o = r
    <3>1. \A x \in SessionIds \ {s} : anchor'[p][x].runtime # r
      BY SMT, <1>1, <1>2, <1>5
    <3> QED
      BY ZenonT(30), <1>1, <1>2, <1>4, <2>1, <3>1 DEF CallFacts
  <2>2. CASE o # r
    <3>1. call'[o] = call[o] /\ UNCHANGED <<native, member, binding>>
      BY <1>1, <1>2, <2>2
    <3> QED BY <1>5, <3>1, OtherCall
  <2> QED BY <2>1, <2>2
<1> QED
  BY <1>7, <1>8 DEF IInv

\* Stage 2 never takes a reservation from another runtime.
LEMMA ReserveStep ==
  ASSUME IInv, TypeOK', NEW r \in Runtimes, Reserve(r)
  PROVE  IInv'
<1> DEFINE p == call[r].project
           s == call[r].session
<1>1. /\ call[r].stage = "anchored" /\ Advance(r, "reserved")
      /\ UNCHANGED <<anchor, member, native>>
      /\ binding' = [binding EXCEPT ![p][s] = r]
      /\ member[p]
      /\ \/ binding[p][s] = r
         \/ /\ binding[p][s] = None
            /\ \A q \in Projects, o \in SessionIds : binding[q][o] = r => o.host # s.host
  BY DEF Reserve, At, OwnerState, ProcessState
<1>2. /\ call'[r].stage = "reserved" /\ call'[r].project = p /\ call'[r].session = s
      /\ \A o \in Runtimes \ {r} : call'[o] = call[o]
      /\ p \in Projects /\ s \in SessionIds
      /\ native[r] # None /\ s.host = native[r].host /\ CallFacts(r)
  BY SMT, <1>1, Moved DEF Stages
<1>3. /\ binding'[p][s] = r
      /\ \A q \in Projects, o \in SessionIds : q # p \/ o # s => binding'[q][o] = binding[q][o]
  BY <1>1, <1>2 DEF IInv, TypeOK
\* Nobody else owns the anchor: its owner would still hold the reservation.
<1>4. /\ anchor[p][s].thread = native[r].thread
      /\ \A o \in SessionIds \ {s} : anchor[p][o].runtime # r
      /\ anchor[p][s].runtime \in {None, r}
  BY <1>1, <1>2 DEF CallFacts
\* No other row names this runtime.
<1>5. \A q \in Projects, o \in SessionIds : binding'[q][o] = r => q = p /\ o = s
  BY SMTT(30), <1>1, <1>2, <1>3 DEF IInv, Rows, Reservations
<1>e. binding[p][s] \in {None, r}
  BY <1>1
<1> HIDE DEF p, s
<1>6. Rows'
  <2>1. ReplayCompletes'
    BY SMT, <1>1, <1>2, <1>3, <1>4, <1>5 DEF IInv, Rows, ReplayCompletes
  <2>2. Reservations'
    BY SMT, <1>1, <1>2, <1>3, <1>5 DEF IInv, Rows, Reservations
  <2> QED
    BY <1>1, <2>1, <2>2 DEF IInv, Rows, AttachedHasThread
<1>7. ASSUME NEW o \in Runtimes PROVE CallFacts(o)'
  <2>1. CASE o = r
    BY <1>1, <1>2, <1>3, <1>4, <2>1 DEF CallFacts
  <2>2. CASE o # r
    <3>1. call'[o] = call[o] /\ UNCHANGED <<native, member, anchor>>
      BY <1>1, <1>2, <2>2
    <3>2. \A q \in Projects, x \in SessionIds :
            binding[q][x] # None => binding'[q][x] = binding[q][x]
      BY <1>2, <1>3, <1>e
    <3> QED BY <3>1, <3>2, OtherCall
  <2> QED BY <2>1, <2>2
<1> QED
  BY <1>6, <1>7 DEF IInv

\* Stage 3 attaches the holder of the reservation, unless the project is gone.
LEMMA AttachStep ==
  ASSUME IInv, TypeOK', NEW r \in Runtimes, Attach(r)
  PROVE  IInv'
<1> DEFINE p == call[r].project
           s == call[r].session
<1>1. /\ call[r].stage = "attaching" /\ Advance(r, "attached")
      /\ UNCHANGED <<binding, member, native>>
      /\ anchor' = SetAnchor(p, s, anchor[p][s].thread, r)
      /\ anchor[p][s].runtime \in {None, r}
  BY DEF Attach, At, OwnerState, ProcessState
<1>2. /\ call'[r].stage = "attached" /\ call'[r].project = p /\ call'[r].session = s
      /\ \A o \in Runtimes \ {r} : call'[o] = call[o]
      /\ p \in Projects /\ s \in SessionIds
      /\ native[r] # None /\ native[r].thread \in Threads
      /\ s.host = native[r].host /\ CallFacts(r)
  BY ZenonT(30), <1>1, Moved DEF Stages
<1>3. anchor[p][s].thread \in Threads \cup {None} /\ anchor \in [Projects -> [SessionIds -> Anchors]]
  BY SMT, <1>2 DEF IInv, TypeOK, Anchors
<1> DEFINE t == anchor[p][s].thread
<1>a. anchor' = SetAnchor(p, s, t, r) /\ t \in Threads \cup {None}
  BY <1>1, <1>3
<1> HIDE DEF p, s, t
<1>b. /\ anchor'[p][s].thread = t
      /\ anchor'[p][s].runtime = r
      /\ \A q \in Projects, o \in SessionIds : q # p \/ o # s => anchor'[q][o] = anchor[q][o]
  BY SMT, <1>2, <1>3, <1>a, SetAnchorEffect
<1>4. /\ anchor'[p][s].thread = anchor[p][s].thread
      /\ anchor'[p][s].runtime = r
      /\ \A q \in Projects, o \in SessionIds : q # p \/ o # s => anchor'[q][o] = anchor[q][o]
  BY <1>b DEF t
\* What stages 1 and 2 established still holds.
<1>5. /\ anchor[p][s].thread = native[r].thread
      /\ \A o \in SessionIds \ {s} : anchor[p][o].runtime # r
      /\ binding[p][s] = r \/ ~member[p]
  BY <1>1, <1>2 DEF CallFacts, p, s
<1>c. /\ UNCHANGED <<binding, member, native>>
      /\ anchor[p][s].runtime \in {None, r} /\ r # None
      /\ p \in Projects /\ s \in SessionIds
  BY <1>1, <1>2 DEF p, s
<1>6. Rows'
  <2>1. ReplayCompletes'
    <3> SUFFICES ASSUME NEW q \in Projects, NEW x \in SessionIds, NEW o \in Runtimes,
                        binding'[q][x] = o
                 PROVE  /\ native'[o] # None
                        /\ anchor'[q][x].thread = native'[o].thread
                        /\ anchor'[q][x].runtime \in {None, o}
                        /\ \A y \in SessionIds \ {x} : anchor'[q][y].runtime # o
      BY DEF ReplayCompletes
    <3>1. /\ binding[q][x] = o /\ member[q] /\ native[o] # None
          /\ anchor[q][x].thread = native[o].thread
          /\ anchor[q][x].runtime \in {None, o}
          /\ \A y \in SessionIds \ {x} : anchor[q][y].runtime # o
          /\ \A q2 \in Projects, y \in SessionIds : binding[q2][y] = o => q2 = q /\ y = x
      BY SMTT(30), <1>1 DEF IInv, Rows, ReplayCompletes, Reservations
    <3>2. CASE q = p /\ x = s
      BY SMT, <1>1, <1>2, <1>4, <1>5, <3>1, <3>2
    <3>3. CASE q = p /\ x # s
      <4>1. o # r
        BY SMT, <1>2, <1>5, <3>1, <3>3
      <4> QED
        <5>1. anchor'[q][x] = anchor[q][x]
          BY <1>4, <1>c, <3>3
        <5>2. ASSUME NEW y \in SessionIds \ {x} PROVE anchor'[q][y].runtime # o
          BY ZenonT(30), <1>4, <1>c, <3>1, <3>3, <4>1
        <5> QED BY <1>c, <3>1, <5>1, <5>2
    <3>4. CASE q # p
      <4>1. \A y \in SessionIds : anchor'[q][y] = anchor[q][y]
        BY <1>4, <3>4
      <4> QED BY <1>c, <3>1, <4>1
    <3> QED BY <3>2, <3>3, <3>4
  <2>2. Reservations'
    BY SMTT(30), <1>1 DEF IInv, Rows, Reservations
  <2>3. AttachedHasThread'
    BY SMT, <1>1, <1>2, <1>4, <1>5 DEF IInv, Rows, AttachedHasThread
  <2> QED BY <2>1, <2>2, <2>3 DEF Rows
<1>7. ASSUME NEW o \in Runtimes PROVE CallFacts(o)'
  <2>1. CASE o = r
    BY <1>1, <1>2, <2>1 DEF CallFacts
  <2>2. CASE o # r
    <3>1. \A q \in Projects, x \in SessionIds :
            /\ anchor'[q][x].thread = anchor[q][x].thread
            /\ \/ anchor'[q][x].runtime = anchor[q][x].runtime
               \/ /\ anchor[q][x].runtime = None /\ anchor'[q][x].runtime = r
                  /\ binding[q][x] = r \/ ~member[q]
      BY <1>4, <1>5, <1>c
    <3>2. call'[o] = call[o]
      BY <1>2, <2>2
    <3>3. \A q \in Projects, x \in SessionIds :
            /\ anchor[q][x].thread # None => anchor'[q][x].thread = anchor[q][x].thread
            /\ binding[q][x] # None => binding'[q][x] = binding[q][x]
            /\ \/ anchor'[q][x].runtime = anchor[q][x].runtime
               \/ /\ anchor[q][x].runtime = None
                  /\ anchor'[q][x].runtime \notin {None, o}
                  /\ binding'[q][x] = anchor'[q][x].runtime \/ ~member[q]
      BY SMT, <1>c, <2>2, <3>1
    <3> QED
      BY <1>c, <3>2, <3>3, OtherCall
  <2> QED BY <2>1, <2>2
<1> QED
  BY <1>6, <1>7 DEF IInv

-----------------------------------------------------------------------------
\* No row and no call exists initially.
LEMMA InitInv == Init => IInv
<1> SUFFICES ASSUME Init PROVE IInv
  OBVIOUS
<1>1. /\ IdleCall \in Calls /\ IdleCall.stage = "idle"
      /\ NoAnchor \in Anchors /\ NoAnchor.runtime = None
      /\ NoBindings \in [SessionIds -> Runtimes \cup {None}]
      /\ \A s \in SessionIds : NoBindings[s] = None
  BY DEF IdleCall, Calls, NoAnchor, Anchors, NoBindings
<1>2. /\ \A r \in Runtimes : call[r] = IdleCall
      /\ \A p \in Projects, s \in SessionIds : binding[p][s] = None
      /\ \A p \in Projects, s \in SessionIds : anchor[p][s].runtime = None
  BY <1>1 DEF Init
<1>3. TypeOK
  BY SMT, <1>1, <1>2 DEF Init, TypeOK, CallsTyped
<1>4. Rows
  BY <1>2 DEF Rows, ReplayCompletes, Reservations, AttachedHasThread
<1>5. \A r \in Runtimes : CallFacts(r)
  BY <1>1, <1>2 DEF CallFacts
<1> QED
  BY <1>3, <1>4, <1>5 DEF IInv

\* Every step of the specification keeps the invariant.
LEMMA InductiveStep == IInv /\ [Next]_vars => IInv'
<1> SUFFICES ASSUME IInv, [Next]_vars PROVE IInv'
  OBVIOUS
<1>0. TypeOK'
  BY TypeStep DEF IInv
<1>1. CASE \E p \in Projects : Setup(p) \/ Remove(p)
  BY <1>0, <1>1, SetupStep, RemoveStep
<1>2. CASE \/ ChangeMode
           \/ \E p \in Projects, fingerprint \in Policies : SetPolicy(p, fingerprint)
           \/ \E r \in Runtimes : Launch(r)
           \/ UNCHANGED vars
  BY <1>0, <1>2, NothingMoves DEF ChangeMode, SetPolicy, Launch, vars
<1>3. CASE \E r \in Runtimes, p \in Projects, corr \in Correlations : BeginCall(r, p, corr)
  BY <1>0, <1>3, BeginCallStep
<1>4. CASE \E r \in Runtimes : Crash(r) \/ EndCall(r)
  BY <1>0, <1>4, IdleStep
<1>5. CASE \E r \in Runtimes : ValidateRuntime(r)
  BY <1>0, <1>5, ValidateRuntimeStep
<1>6. CASE \E r \in Runtimes : \/ OpenProject(r, "validated", "anchoring")
                               \/ OpenProject(r, "reserved", "attaching")
                               \/ CheckBinding(r)
                               \/ CheckCurrent(r)
  BY <1>0, <1>6, ReadStep
<1>7. CASE \E r \in Runtimes : Anchor(r)
  BY <1>0, <1>7, AnchorStep
<1>8. CASE \E r \in Runtimes : Reserve(r)
  BY <1>0, <1>8, ReserveStep
<1>9. CASE \E r \in Runtimes : Attach(r)
  BY <1>0, <1>9, AttachStep
<1> QED
  BY <1>1, <1>2, <1>3, <1>4, <1>5, <1>6, <1>7, <1>8, <1>9 DEF Next

\* The invariant holds in every reachable state.
LEMMA AlwaysIInv == Spec => []IInv
  BY InitInv, InductiveStep, PTL DEF Spec

\* The rows of both databases and the calls in flight are always well typed.
THEOREM SessionTypeCorrect == Spec => []TypeOK
<1>1. IInv => TypeOK
  BY DEF IInv
<1> QED
  BY <1>1, AlwaysIInv, PTL

\* The Registry and the project never disagree about the owner of a session, and
\* a binding interrupted after any stage can be finished by its own runtime.
THEOREM BindingsComplete == Spec => []ReplayCompletes
<1>1. IInv => ReplayCompletes
  BY DEF IInv, Rows
<1> QED
  BY <1>1, AlwaysIInv, PTL

\* No step changes the owner or the thread of an attached session: the project
\* side of "never rebound".
THEOREM AttachedForGood == Spec => NeverRebound
<1> DEFINE Kept == \A p \in Projects, s \in SessionIds :
                     anchor[p][s].runtime # None => anchor'[p][s] = anchor[p][s]
<1>1. ASSUME IInv, [Next]_vars PROVE Kept
  <2>1. CASE UNCHANGED anchor
    BY <2>1
  <2>2. ASSUME NEW r \in Runtimes, Anchor(r) \/ Attach(r) PROVE Kept
    <3> DEFINE p == call[r].project
               s == call[r].session
    <3>1. /\ p \in Projects /\ s \in SessionIds /\ native[r].thread \in Threads
      BY <1>1, <2>2 DEF Anchor, Attach, At, IInv, TypeOK, CallsTyped, Correlations
    <3>2. anchor \in [Projects -> [SessionIds -> Anchors]] /\ anchor[p][s] \in Anchors
      BY SMT, <1>1, <3>1 DEF IInv, TypeOK
    <3>3. anchor[p][s].runtime # None => anchor[p][s].thread # None
      BY <1>1, <3>1 DEF IInv, Rows, AttachedHasThread
    <3>4. \/ anchor' = SetAnchor(p, s, native[r].thread, anchor[p][s].runtime)
             /\ anchor[p][s].thread \in {None, native[r].thread}
          \/ anchor' = SetAnchor(p, s, anchor[p][s].thread, r)
             /\ anchor[p][s].runtime \in {None, r}
      BY <2>2 DEF Anchor, Attach
    <3> HIDE DEF p, s
    <3> DEFINE t == anchor[p][s].thread
               w == anchor[p][s].runtime
               row == [thread |-> t, runtime |-> w]
    <3>5. t \in Threads \cup {None} /\ w \in Runtimes \cup {None} /\ anchor[p][s] = row
      BY <3>2 DEF Anchors
    <3>6. \E t1 \in Threads \cup {None}, w1 \in Runtimes \cup {None} :
            /\ anchor' = SetAnchor(p, s, t1, w1)
            /\ w # None => t1 = t /\ w1 = w
      BY <3>1, <3>3, <3>4, <3>5
    <3>7. PICK t1 \in Threads \cup {None}, w1 \in Runtimes \cup {None} :
            /\ anchor' = SetAnchor(p, s, t1, w1)
            /\ w # None => t1 = t /\ w1 = w
      BY <3>6
    <3>8. \A q \in Projects, o \in SessionIds : q # p \/ o # s => anchor'[q][o] = anchor[q][o]
      BY <3>1, <3>2, <3>7, SetAnchorEffect
    <3>9. anchor'[p][s] = [thread |-> t1, runtime |-> w1]
      <4> DEFINE new == [thread |-> t1, runtime |-> w1]
      <4>1. anchor' = [anchor EXCEPT ![p][s] = new]
        BY <3>7 DEF SetAnchor
      <4> HIDE DEF new
      <4>2. anchor'[p][s] = new
        BY <3>1, <3>2, <4>1
      <4> QED BY <4>2 DEF new
    <3>10. w # None => anchor'[p][s] = anchor[p][s]
      BY <3>5, <3>7, <3>9
    <3> QED
      BY <3>8, <3>10
  <2> QED
    BY <1>1, <2>1, <2>2 DEF Next, Setup, Remove, ChangeMode, SetPolicy, Launch, Crash,
       BeginCall, EndCall, ValidateRuntime, OpenProject, Reserve, CheckBinding,
       CheckCurrent, vars
<1> QED
  BY <1>1, AlwaysIInv, PTL DEF Spec, NeverRebound

\* validate_agent_session lets Core go on only while the session is attached to
\* the calling runtime and reserved for it, although it reads them first and the
\* membership last, in separate transactions.
THEOREM AuthorizationIsBound == Spec => AuthorizedIsBound
<1> DEFINE Bound == \A r \in Runtimes :
                      call'[r].stage = "authorized" /\ call[r].stage # "authorized" =>
                        /\ anchor[call[r].project][call[r].session].runtime = r
                        /\ binding[call[r].project][call[r].session] = r
<1>1. ASSUME IInv, [Next]_vars PROVE Bound
  <2> SUFFICES ASSUME NEW r \in Runtimes,
                      call'[r].stage = "authorized", call[r].stage # "authorized"
               PROVE  /\ anchor[call[r].project][call[r].session].runtime = r
                      /\ binding[call[r].project][call[r].session] = r
    OBVIOUS
  <2>1. call \in [Runtimes -> Calls]
    BY <1>1 DEF IInv, TypeOK, CallsTyped
  <2>2. ~(\E o \in Runtimes : Crash(o) \/ EndCall(o) \/ ValidateRuntime(o))
    BY SMT, <2>1 DEF Crash, EndCall, ValidateRuntime, IdleCall
  <2>3. ~(\E o \in Runtimes, p \in Projects, corr \in Correlations : BeginCall(o, p, corr))
    BY SMT, <2>1 DEF BeginCall
  <2>4. ~UNCHANGED call
    OBVIOUS
  <2>5. ASSUME NEW o \in Runtimes, NEW stage, stage # "authorized" PROVE ~Advance(o, stage)
    BY <2>1, <2>5 DEF Advance, Calls
  <2>6. \E o \in Runtimes : CheckCurrent(o)
    BY <1>1, <2>2, <2>3, <2>4, <2>5 DEF Next, Setup, Remove, ChangeMode, SetPolicy,
       Launch, OpenProject, Anchor, Reserve, Attach, CheckBinding, vars
  <2>7. CheckCurrent(r)
    BY <2>1, <2>6 DEF CheckCurrent, Advance, Calls
  <2>8. CallFacts(r) /\ call[r].stage = "checked" /\ member[call[r].project]
    BY <1>1, <2>7 DEF IInv, CheckCurrent, At
  <2> QED
    BY <2>8 DEF CallFacts
<1> QED
  BY <1>1, AlwaysIInv, PTL DEF Spec, AuthorizedIsBound

-----------------------------------------------------------------------------
(* Evidence *)

UserActionRow ==
    [scope : Nat, arts : SUBSET Artifacts, target : Maybe(Targets),
     verdict : {"pending", "supported", "contradicted"}]

StoredObservation ==
    [kind : {"report", "user", "capture", "reuse"}, ref : Maybe(Actions \cup Nat),
     target : Maybe(Targets), arts : SUBSET Artifacts,
     relevance : {"unassessed", "supported", "contradicted"}]

StoredRun == [scope : Nat, obs : Maybe(StoredObservation)]

RecordRunPlan ==
    [version : Nat, input : Maybe(Artifacts), obs : Maybe(StoredObservation), close : Maybe(BOOLEAN)]

ProvenanceRows ==
    /\ ProvenanceTypeOK
    /\ action \in [Actions -> Maybe(UserActionRow)]
    /\ runs \in Seq(StoredRun)
    /\ plan \in [Agents -> Maybe(RecordRunPlan)]
    /\ basis # Absent => basis.run \in DOMAIN runs

\* What the user said of exactly these artifacts, in scope s, is final and is what o says.
UserGrounded(o, s) ==
    /\ o.ref \in Actions /\ action[o.ref] # Absent
    /\ action[o.ref].verdict # "pending" /\ action[o.ref].verdict = o.relevance
    /\ action[o.ref].scope = s /\ action[o.ref].target = o.target /\ action[o.ref].arts = o.arts

\* The reused observation is of an earlier run of scope s, for the same target and outputs,
\* is supported, and is neither a report nor a capture.
ReuseHop(o, s, n) ==
    /\ o.ref \in 1 .. n - 1
    /\ Observation(o.ref) # Absent /\ Observation(o.ref).kind \in {"user", "reuse"}
    /\ Observation(o.ref).relevance = "supported" /\ runs[o.ref].scope = s
    /\ Observation(o.ref).target = o.target /\ Observation(o.ref).arts = o.arts

\* Observation o, as run n of scope s holds it or is about to.
Grounded(o, s, n) ==
    /\ o \in Observations(n)
    /\ o.kind = "capture" => o.relevance # "supported"
    /\ o.kind = "user" => UserGrounded(o, s)
    /\ o.kind = "reuse" => ReuseHop(o, s, n)

RunsGrounded ==
    \A n \in DOMAIN runs : Observation(n) # Absent => Grounded(Observation(n), runs[n].scope, n)

\* A plan that can still be committed is as sound as it was when it was made.
PlansGrounded ==
    \A a \in Agents : plan[a] # Absent =>
        /\ plan[a].version <= version
        /\ plan[a].version = version /\ plan[a].obs # Absent =>
              Grounded(plan[a].obs, scope, Len(runs) + 1)

ProvenanceInv == ProvenanceRows /\ RunsGrounded /\ PlansGrounded

\* A set of naturals that is not empty has a least element: the form of induction the
\* library states without an operator parameter.
LEMMA LeastNatural ==
  ASSUME NEW T \in SUBSET Nat, T # {}
  PROVE  \E m \in T : \A k \in T : m <= k
<1>1. PICK R : R = OpToRel(<, Nat)
  OBVIOUS
<1>2. IsWellFoundedOn(R, Nat)
  BY <1>1, NatLessThanWellFounded
<1>3. R = {ss \in Nat \X Nat : ss[1] < ss[2]}
  BY <1>1 DEF OpToRel
<1>4. PICK x \in T : \A y \in T : ~ (<<y, x>> \in R)
  BY <1>2, WFMin
<1>5. ASSUME NEW y \in T
      PROVE  ~(y < x)
  <2>1. <<y, x>> \in Nat \X Nat /\ <<y, x>>[1] = y /\ <<y, x>>[2] = x
    BY SMT
  <2>2. <<y, x>>[1] < <<y, x>>[2] => <<y, x>> \in R
    BY <1>3, <2>1
  <2>3. QED
    BY <1>4, <2>1, <2>2
<1>6. QED
  BY SMT, <1>5

\* Complete induction on the positions of a sequence of length N.
LEMMA CompleteInduction ==
  ASSUME NEW N \in Nat, NEW T, \A n \in 1 .. N : (\A m \in 1 .. n - 1 : m \in T) => n \in T
  PROVE  \A n \in 1 .. N : n \in T
<1>1. PICK bad : bad = {n \in 1 .. N : n \notin T}
  OBVIOUS
<1>2. SUFFICES ASSUME bad # {} PROVE FALSE
  BY <1>1
<1>3. bad \in SUBSET Nat
  BY SMT, <1>1
<1>4. PICK b \in bad : \A k \in bad : b <= k
  BY <1>2, <1>3, LeastNatural
<1>5. b \in 1 .. N /\ b \notin T
  BY <1>1
<1>6. ASSUME NEW m \in 1 .. b - 1
      PROVE  m \in T
  <2>1. m \in 1 .. N /\ ~(b <= m)
    BY SMT, <1>5
  <2>2. QED
    BY <1>1, <1>4, <2>1
<1>7. QED
  BY <1>5, <1>6

\* The same from n to n + 1.
LEMMA StepInduction ==
  ASSUME NEW N \in Nat, NEW T, 0 \in T, \A n \in 0 .. N - 1 : n \in T => n + 1 \in T
  PROVE  N \in T
<1>1. CASE N = 0
  BY <1>1
<1>2. CASE N # 0
  <2>1. ASSUME NEW n \in 1 .. N, \A m \in 1 .. n - 1 : m \in T
        PROVE  n \in T
    <3>1. n - 1 \in 0 .. N - 1 /\ n = (n - 1) + 1 /\ (n - 1 = 0 \/ n - 1 \in 1 .. n - 1)
      BY SMT
    <3>2. n - 1 \in T
      BY <2>1, <3>1
    <3>3. QED
      BY <3>1, <3>2
  <2>2. \A n \in 1 .. N : n \in T
    BY <2>1, CompleteInduction
  <2>3. N \in 1 .. N
    BY SMT, <1>2
  <2>4. QED
    BY <2>2, <2>3
<1>3. QED
  BY <1>1, <1>2

\* An observation reuses one of an earlier run, so a walk along a chain of reuse ends.
LEMMA HopsBack ==
  ASSUME ProvenanceRows, RunsGrounded
  PROVE  /\ Len(runs) \in Nat /\ DOMAIN runs = 1 .. Len(runs)
         /\ \A n \in DOMAIN runs : Observation(n) # Absent /\ Observation(n).kind = "reuse" =>
              Observation(n).ref \in 1 .. n - 1
<1>1. runs \in Seq(StoredRun)
  BY DEF ProvenanceRows
<1>2. Len(runs) \in Nat /\ DOMAIN runs = 1 .. Len(runs)
  BY SMT, <1>1
<1>3. QED
  BY <1>2 DEF RunsGrounded, Grounded, ReuseHop

\* Root is what its definition says: a function with that equation exists.
LEMMA RootUnfolds ==
  ASSUME ProvenanceRows, RunsGrounded
  PROVE  Root = [n \in DOMAIN runs |->
                   IF Observation(n) # Absent /\ Observation(n).kind = "reuse"
                   THEN Root[Observation(n).ref] ELSE n]
<1> DEFINE hop(g, n) == IF Observation(n) # Absent /\ Observation(n).kind = "reuse"
                        THEN g[Observation(n).ref] ELSE n
           upTo(k) == \E g : g = [n \in 1 .. k |-> hop(g, n)]
<1>0. PICK N \in Nat : N = Len(runs) /\ DOMAIN runs = 1 .. N
  BY HopsBack
<1>1. upTo(0)
  <2>1. \A g : [n \in 1 .. 0 |-> hop(g, n)] = [n \in {} |-> n]
    BY SMT
  <2>2. QED
    BY <2>1
<1>2. ASSUME NEW k \in 0 .. N - 1, upTo(k)
      PROVE  upTo(k + 1)
  <2>1. PICK g : g = [n \in 1 .. k |-> hop(g, n)]
    BY <1>2
  <2>2. PICK f : f = [n \in 1 .. k + 1 |-> hop(g, n)]
    OBVIOUS
  <2>3. ASSUME NEW n \in 1 .. k
        PROVE  f[n] = g[n]
    <3>1. n \in 1 .. k + 1
      BY SMT
    <3>2. QED
      BY <2>1, <2>2, <3>1
  <2>4. ASSUME NEW n \in 1 .. k + 1
        PROVE  hop(f, n) = hop(g, n)
    <3>1. n \in 1 .. N /\ \A m \in 1 .. n - 1 : m \in 1 .. k
      BY SMT
    <3>2. Observation(n) # Absent /\ Observation(n).kind = "reuse" => Observation(n).ref \in 1 .. k
      BY <1>0, <3>1, HopsBack
    <3>3. QED
      BY <2>3, <3>2
  <2> HIDE DEF hop
  <2>5. f = [n \in 1 .. k + 1 |-> hop(f, n)]
    BY <2>2, <2>4
  <2>6. QED
    BY <2>5
<1> HIDE DEF upTo
<1>3. upTo(N)
  <2>1. PICK T : T = {k \in 0 .. N : upTo(k)}
    OBVIOUS
  <2>2. 0 \in T
    <3>1. 0 \in 0 .. N
      BY SMT
    <3>2. QED
      BY <1>1, <2>1, <3>1
  <2>3. ASSUME NEW k \in 0 .. N - 1, k \in T
        PROVE  k + 1 \in T
    <3>1. k + 1 \in 0 .. N
      BY SMT
    <3>2. QED
      BY <1>2, <2>1, <2>3, <3>1
  <2>4. N \in T
    BY <2>2, <2>3, StepInduction
  <2>5. QED
    BY <2>1, <2>4
<1>4. \E g : g = [n \in DOMAIN runs |-> hop(g, n)]
  <2> HIDE DEF hop
  <2>1. QED
    BY <1>0, <1>3 DEF upTo
<1>5. QED
  BY <1>4 DEF Root

\* The equation of Anchored, for a function g in its place.
AnchorTest(g, n) ==
    LET o == Observation(n)
    IN  /\ o # Absent
        /\ o.kind # "report"
        /\ MatchesBasis(n)
        /\ ObservationArtifactsCurrent(n)
        /\ o.kind = "capture" => CaptureAuthority(n)
        /\ o.kind = "user" => UserAuthority(o.ref, o.target, o.arts)
        /\ o.kind = "reuse" =>
              /\ Observation(o.ref).target = o.target
              /\ Observation(o.ref).arts = o.arts
              /\ Observation(o.ref).relevance = "supported"
              /\ g[o.ref]

\* The same for the walk that looks for an anchor.
LEMMA AnchoredUnfolds ==
  ASSUME ProvenanceRows, RunsGrounded
  PROVE  Anchored = [n \in DOMAIN runs |-> AnchorTest(Anchored, n)]
<1> DEFINE upTo(k) == \E g : g = [n \in 1 .. k |-> AnchorTest(g, n)]
<1>0. PICK N \in Nat : N = Len(runs) /\ DOMAIN runs = 1 .. N
  BY HopsBack
<1>1. upTo(0)
  <2>1. \A g : [n \in 1 .. 0 |-> AnchorTest(g, n)] = [n \in {} |-> TRUE]
    BY SMT
  <2>2. QED
    BY <2>1
<1>2. ASSUME NEW k \in 0 .. N - 1, upTo(k)
      PROVE  upTo(k + 1)
  <2>1. PICK g : g = [n \in 1 .. k |-> AnchorTest(g, n)]
    BY <1>2
  <2>2. PICK f : f = [n \in 1 .. k + 1 |-> AnchorTest(g, n)]
    OBVIOUS
  <2>3. ASSUME NEW n \in 1 .. k
        PROVE  f[n] = g[n]
    <3>1. n \in 1 .. k + 1
      BY SMT
    <3>2. QED
      BY <2>1, <2>2, <3>1
  <2>4. ASSUME NEW n \in 1 .. k + 1
        PROVE  AnchorTest(f, n) = AnchorTest(g, n)
    <3>1. n \in 1 .. N /\ \A m \in 1 .. n - 1 : m \in 1 .. k
      BY SMT
    <3>2. Observation(n) # Absent /\ Observation(n).kind = "reuse" => Observation(n).ref \in 1 .. k
      BY <1>0, <3>1, HopsBack
    <3>3. Observation(n) # Absent /\ Observation(n).kind = "reuse" =>
            f[Observation(n).ref] = g[Observation(n).ref]
      BY <2>3, <3>2
    <3>4. QED
      BY <3>3 DEF AnchorTest
  <2>5. f = [n \in 1 .. k + 1 |-> AnchorTest(f, n)]
    BY <2>2, <2>4
  <2>6. QED
    BY <2>5
<1> HIDE DEF upTo
<1>3. upTo(N)
  <2>1. PICK T : T = {k \in 0 .. N : upTo(k)}
    OBVIOUS
  <2>2. 0 \in T
    <3>1. 0 \in 0 .. N
      BY SMT
    <3>2. QED
      BY <1>1, <2>1, <3>1
  <2>3. ASSUME NEW k \in 0 .. N - 1, k \in T
        PROVE  k + 1 \in T
    <3>1. k + 1 \in 0 .. N
      BY SMT
    <3>2. QED
      BY <1>2, <2>1, <2>3, <3>1
  <2>4. N \in T
    BY <2>2, <2>3, StepInduction
  <2>5. QED
    BY <2>1, <2>4
<1>4. \E g : g = [n \in DOMAIN runs |-> AnchorTest(g, n)]
  BY <1>0, <1>3 DEF upTo
<1>5. QED
  BY <1>4 DEF Anchored, AnchorTest

\* What ReuseGrounded says of one run.
StartsWithUser(n) ==
    LET first == Observation(Root[n])
    IN  /\ first.kind = "user"
        /\ action[first.ref].verdict = "supported"
        /\ action[first.ref].scope = runs[n].scope
        /\ action[first.ref].target = Observation(n).target
        /\ action[first.ref].arts = Observation(n).arts

\* An observation that is not reused is its own root; any other has that of the one it reuses.
LEMMA RootStep ==
  ASSUME ProvenanceRows, RunsGrounded, NEW n \in DOMAIN runs, Observation(n) # Absent
  PROVE  /\ Observation(n).kind # "reuse" => Root[n] = n
         /\ Observation(n).kind = "reuse" => Root[n] = Root[Observation(n).ref]
BY RootUnfolds

\* Hop by hop to the root: every supported user observation, and everything that reuses one,
\* starts with a user's supported resolution.
LEMMA ChainsStartWithUser ==
  ASSUME ProvenanceRows, RunsGrounded
  PROVE  \A n \in DOMAIN runs :
           /\ Observation(n) # Absent
           /\ \/ Observation(n).kind = "reuse"
              \/ Observation(n).kind = "user" /\ Observation(n).relevance = "supported"
           => StartsWithUser(n)
<1> DEFINE fine(n) ==
      /\ Observation(n) # Absent
      /\ \/ Observation(n).kind = "reuse"
         \/ Observation(n).kind = "user" /\ Observation(n).relevance = "supported"
      => StartsWithUser(n)
<1>0. PICK N \in Nat : N = Len(runs) /\ DOMAIN runs = 1 .. N
  BY HopsBack
<1>1. PICK T : T = {n \in 1 .. N : fine(n)}
  OBVIOUS
<1>2. ASSUME NEW n \in 1 .. N, \A m \in 1 .. n - 1 : m \in T
      PROVE  fine(n)
  <2>1. SUFFICES ASSUME Observation(n) # Absent,
                        \/ Observation(n).kind = "reuse"
                        \/ Observation(n).kind = "user" /\ Observation(n).relevance = "supported"
                 PROVE  StartsWithUser(n)
    OBVIOUS
  <2>2. Grounded(Observation(n), runs[n].scope, n)
    BY <1>0, <2>1 DEF RunsGrounded
  <2>3. CASE Observation(n).kind = "user" /\ Observation(n).relevance = "supported"
    <3>1. Root[n] = n
      BY <1>0, <2>1, <2>3, RootStep
    <3>2. UserGrounded(Observation(n), runs[n].scope)
      BY <2>2, <2>3 DEF Grounded
    <3>3. QED
      BY <2>3, <3>1, <3>2 DEF StartsWithUser, UserGrounded
  <2>4. CASE Observation(n).kind = "reuse"
    <3>1. PICK m : m = Observation(n).ref
      OBVIOUS
    <3>2. ReuseHop(Observation(n), runs[n].scope, n)
      BY <2>2, <2>4 DEF Grounded
    <3>3. m \in 1 .. n - 1 /\ fine(m)
      BY <1>1, <1>2, <3>1, <3>2 DEF ReuseHop
    <3>4. StartsWithUser(m)
      BY <3>1, <3>2, <3>3 DEF ReuseHop
    <3>5. Root[n] = Root[m]
      BY <1>0, <2>1, <2>4, <3>1, RootStep
    <3>6. QED
      BY <3>1, <3>2, <3>4, <3>5 DEF StartsWithUser, ReuseHop
  <2>5. QED
    BY <2>1, <2>3, <2>4
<1>3. \A n \in 1 .. N : n \in T
  <2>1. \A n \in 1 .. N : (\A m \in 1 .. n - 1 : m \in T) => n \in T
    <3> HIDE DEF fine
    <3>1. QED
      BY <1>1, <1>2
  <2>2. QED
    BY <2>1, CompleteInduction
<1>4. QED
  BY <1>0, <1>1, <1>3

\* One step of the walk: what an anchored observation is, by the kind it has.
LEMMA AnchoredFacts ==
  ASSUME ProvenanceRows, RunsGrounded, NEW n \in DOMAIN runs, Anchored[n]
  PROVE  /\ Observation(n) # Absent
         /\ runs[n].scope = scope
         /\ Observation(n).arts # {} /\ VerifiedCurrent(Observation(n).arts)
         /\ Observation(n).kind \in {"user", "capture", "reuse"}
         /\ Observation(n).kind = "capture" => Observation(n).relevance # "supported"
<1>1. AnchorTest(Anchored, n)
  BY AnchoredUnfolds
<1>2. Observation(n) # Absent /\ Observation(n).kind # "report"
  BY <1>1 DEF AnchorTest
<1>3. Grounded(Observation(n), runs[n].scope, n)
  BY <1>2 DEF RunsGrounded
<1>4. Observation(n).kind \in {"report", "user", "capture", "reuse"}
  BY SMT, <1>3 DEF Grounded, Observations
<1>5. QED
  BY <1>1, <1>2, <1>3, <1>4 DEF AnchorTest, MatchesBasis, ObservationArtifactsCurrent, Grounded

\* The close gate, whenever it opens, rests on a user's resolution.
LEMMA GateRestsOnUser ==
  ASSUME ProvenanceInv
  PROVE  GateSound
<1> SUFFICES ASSUME GateSufficient
             PROVE  GateSound
  BY DEF GateSound
<1>1. ProvenanceRows /\ RunsGrounded
  BY DEF ProvenanceInv
<1>2. PICK n : n = basis.run
  OBVIOUS
<1>3. basis # Absent /\ \A c \in Required : StrongSupported(c, n)
  BY <1>2 DEF GateSufficient
<1>4. n = Len(runs)
  BY SMT, <1>1, <1>2, <1>3 DEF ProvenanceRows, ProvenanceTypeOK, Maybe
<1>5. PICK c \in Required : TRUE
  BY ProvenanceAssumption
<1>6. Observation(n).target = c /\ ~RelevanceUnsupported(Observation(n)) /\ Anchored[n]
  BY <1>3 DEF StrongSupported
<1>7. Required = {Observation(n).target}
  BY <1>3, <1>5 DEF StrongSupported
<1>8. n \in DOMAIN runs
  BY <1>1, <1>2, <1>3 DEF ProvenanceRows
<1>9. /\ Observation(n) # Absent /\ runs[n].scope = scope
      /\ Observation(n).arts # {} /\ VerifiedCurrent(Observation(n).arts)
      /\ Observation(n).kind \in {"user", "reuse"}
  BY <1>1, <1>6, <1>8, AnchoredFacts DEF RelevanceUnsupported
<1>10. PICK first, q : first = Observation(Root[n]) /\ q = action[first.ref]
  OBVIOUS
<1>11. first.kind = "user" /\ q.scope = scope /\ q.target = Observation(n).target /\ q.arts = Observation(n).arts
  <2>1. CASE Observation(n).kind = "reuse"
    <3>1. StartsWithUser(n)
      BY <1>1, <1>8, <1>9, <2>1, ChainsStartWithUser
    <3>2. QED
      BY <1>9, <1>10, <3>1 DEF StartsWithUser
  <2>2. CASE Observation(n).kind = "user"
    <3>1. Root[n] = n
      BY <1>1, <1>8, <1>9, <2>2, RootStep
    <3>2. UserGrounded(Observation(n), runs[n].scope)
      BY <1>1, <1>8, <1>9, <2>2 DEF RunsGrounded, Grounded
    <3>3. QED
      BY <1>9, <1>10, <2>2, <3>1, <3>2 DEF UserGrounded
  <2>3. QED
    BY <1>9, <2>1, <2>2
<1>12. QED
  BY <1>2, <1>4, <1>7, <1>9, <1>10, <1>11 DEF GateSound

-----------------------------------------------------------------------------
(* The steps *)

\* A resolution is final.
ResolvedKept ==
    \A q \in Actions : action[q] # Absent /\ action[q].verdict # "pending" => action'[q] = action[q]

\* Runs are appended and never rewritten.
RunsKept ==
    /\ DOMAIN runs \subseteq DOMAIN runs'
    /\ \A n \in DOMAIN runs : runs'[n] = runs[n]

\* An observation stays grounded: what it rests on is final.
LEMMA GroundedStays ==
  ASSUME ProvenanceRows, ResolvedKept, RunsKept, NEW o, NEW s, NEW n \in 1 .. Len(runs) + 1,
         Grounded(o, s, n)
  PROVE  Grounded(o, s, n)'
<1>1. o.kind = "user" => UserGrounded(o, s)'
  <2>1. SUFFICES ASSUME o.kind = "user"
                 PROVE  UserGrounded(o, s)'
    OBVIOUS
  <2>2. UserGrounded(o, s)
    BY <2>1 DEF Grounded
  <2>3. action'[o.ref] = action[o.ref]
    BY <2>2 DEF UserGrounded, ResolvedKept
  <2>4. QED
    BY <2>2, <2>3 DEF UserGrounded
<1>2. o.kind = "reuse" => ReuseHop(o, s, n)'
  <2>1. SUFFICES ASSUME o.kind = "reuse"
                 PROVE  ReuseHop(o, s, n)'
    OBVIOUS
  <2>2. ReuseHop(o, s, n)
    BY <2>1 DEF Grounded
  <2>3. runs \in Seq(StoredRun)
    BY DEF ProvenanceRows
  <2>4. o.ref \in DOMAIN runs
    BY SMT, <2>2, <2>3 DEF ReuseHop
  <2>5. runs'[o.ref] = runs[o.ref]
    BY <2>4 DEF RunsKept
  <2>6. QED
    BY <2>2, <2>5 DEF ReuseHop, Observation
<1>3. QED
  BY <1>1, <1>2 DEF Grounded, Observations, Maybe

\* A step that records no run leaves every recorded observation grounded.
LEMMA RunsStayGrounded ==
  ASSUME ProvenanceRows, RunsGrounded, ResolvedKept, runs' = runs
  PROVE  RunsGrounded'
<1>1. RunsKept
  BY DEF RunsKept
<1>2. SUFFICES ASSUME NEW n \in DOMAIN runs, Observation(n)' # Absent
               PROVE  Grounded(Observation(n), runs[n].scope, n)'
  BY DEF RunsGrounded
<1>3. PICK o, s : o = Observation(n) /\ s = runs[n].scope
  OBVIOUS
<1>4. o = Observation(n)' /\ s = runs'[n].scope
  BY <1>3 DEF Observation
<1>5. n \in 1 .. Len(runs) + 1
  <2>1. runs \in Seq(StoredRun)
    BY DEF ProvenanceRows
  <2>2. QED
    BY SMT, <2>1
<1>6. Grounded(o, s, n)
  BY <1>2, <1>3, <1>4 DEF RunsGrounded
<1>7. Grounded(o, s, n)'
  BY <1>1, <1>5, <1>6, GroundedStays
<1>8. QED
  BY <1>4, <1>7

\* Once the version has moved on, no plan in flight can be committed.
LEMMA PlansOvertaken ==
  ASSUME ProvenanceRows, PlansGrounded, version' = version + 1,
         \A a \in Agents : plan'[a] = plan[a] \/ plan'[a] = Absent
  PROVE  PlansGrounded'
<1>1. SUFFICES ASSUME NEW a \in Agents, plan'[a] # Absent
               PROVE  plan'[a].version <= version' /\ plan'[a].version # version'
  BY DEF PlansGrounded
<1>2. plan'[a] = plan[a] /\ plan[a] # Absent
  BY <1>1
<1>3. plan[a].version \in Nat /\ version \in Nat
  BY SMT, <1>2 DEF ProvenanceRows, ProvenanceTypeOK, Maybe, RecordRunPlan
<1>4. plan[a].version <= version
  BY <1>2 DEF PlansGrounded
<1>5. QED
  BY SMT, <1>2, <1>3, <1>4

\* A plan stays as sound as it was while version, scope, runs and resolutions stand.
LEMMA PlansStayGrounded ==
  ASSUME ProvenanceRows, PlansGrounded, UNCHANGED <<version, scope, action, runs>>,
         NEW a \in Agents, plan'[a] = plan[a], plan'[a] # Absent
  PROVE  /\ plan'[a].version <= version'
         /\ plan'[a].version = version' /\ plan'[a].obs # Absent =>
              Grounded(plan[a].obs, scope, Len(runs) + 1)'
<1>1. ResolvedKept /\ RunsKept
  BY DEF ResolvedKept, RunsKept
<1>2. plan[a].version <= version
  BY DEF PlansGrounded
<1>3. ASSUME plan[a].version = version, plan[a].obs # Absent
      PROVE  Grounded(plan[a].obs, scope, Len(runs) + 1)'
  <2>1. PICK o, s, n : o = plan[a].obs /\ s = scope /\ n = Len(runs) + 1
    OBVIOUS
  <2>2. Grounded(o, s, n)
    BY <1>3, <2>1 DEF PlansGrounded
  <2>3. n \in 1 .. Len(runs) + 1
    <3>1. runs \in Seq(StoredRun)
      BY DEF ProvenanceRows
    <3>2. QED
      BY SMT, <2>1, <3>1
  <2>4. Grounded(o, s, n)'
    BY <1>1, <2>2, <2>3, GroundedStays
  <2>5. QED
    BY <2>1, <2>4
<1>4. QED
  BY <1>2, <1>3

\* A well-formed observation of run n is one that a row can hold.
LEMMA ObservationsStored ==
  ASSUME NEW n \in Nat, NEW o \in Observations(n)
  PROVE  o \in StoredObservation
<1>1. 1 .. n - 1 \subseteq Nat
  BY SMT
<1>2. Maybe(Actions \cup 1 .. n - 1) \subseteq Maybe(Actions \cup Nat)
  BY <1>1 DEF Maybe
<1>3. QED
  BY <1>2 DEF Observations, StoredObservation

\* What record_run derives is grounded, whatever the caller claims: a claim becomes a user's
\* observation only if the user's resolution bears it out, a capture is never supported, and
\* what may be reused is anchored and supported, hence a user's observation or a reuse of one.
LEMMA DerivedIsGrounded ==
  ASSUME ProvenanceInv, NEW h \in Maybe(Artifacts), NEW obs \in Derivable(h), obs # Absent
  PROVE  Grounded(obs, scope, Len(runs) + 1)
<1>1. ProvenanceRows /\ RunsGrounded
  BY DEF ProvenanceInv
<1>2. PICK n : n = Len(runs) + 1
  OBVIOUS
<1>3. n \in Nat /\ DOMAIN runs = 1 .. n - 1
  BY SMT, <1>1, <1>2 DEF ProvenanceRows
<1>4. registered \subseteq Artifacts /\ action \in [Actions -> Maybe(UserActionRow)]
  BY <1>1 DEF ProvenanceRows, ProvenanceTypeOK
<1>5. CASE obs = Report
  <2>1. obs \in Observations(n) /\ obs.kind = "report"
    BY SMT, <1>5 DEF Report, Observations, Maybe
  <2>2. QED
    BY <1>2, <2>1 DEF Grounded
<1>6. ASSUME NEW q \in Actions, NEW c \in Targets, NEW arts \in SUBSET registered,
             obs = DeriveUser(q, c, arts), obs # Report
      PROVE  Grounded(obs, scope, n)
  <2>1. UserAuthority(q, c, arts)
    BY <1>6 DEF DeriveUser
  <2>2. obs = [kind |-> "user", ref |-> q, target |-> c, arts |-> arts, relevance |-> action[q].verdict]
    BY <1>6, <2>1 DEF DeriveUser
  <2>3. action[q] \in UserActionRow /\ action[q].verdict # "pending"
    BY <1>4, <2>1 DEF UserAuthority, Maybe
  <2>4. action[q].verdict \in {"supported", "contradicted"}
    BY SMT, <2>3 DEF UserActionRow
  <2>5. obs \in Observations(n) /\ obs.kind = "user" /\ obs.ref = q /\ obs.target = c
        /\ obs.arts = arts /\ obs.relevance = action[q].verdict
    BY SMT, <1>4, <2>2, <2>4 DEF Observations, Maybe
  <2>6. UserGrounded(obs, scope)
    BY <2>1, <2>5 DEF UserGrounded, UserAuthority
  <2>7. QED
    BY <2>5, <2>6 DEF Grounded
<1>7. ASSUME NEW c \in Targets, NEW matches \in BOOLEAN, h # Absent, obs = DeriveCapture(h, c, matches)
      PROVE  Grounded(obs, scope, n)
  <2>1. h \in Artifacts
    BY <1>7 DEF Maybe
  <2>2. PICK r \in {"unassessed", "contradicted"} :
          obs = [kind |-> "capture", ref |-> Absent, target |-> c, arts |-> {h}, relevance |-> r]
    BY <1>7 DEF DeriveCapture
  <2>3. obs \in Observations(n) /\ obs.kind = "capture" /\ obs.relevance # "supported"
    BY SMT, <2>1, <2>2 DEF Observations, Maybe
  <2>4. QED
    BY <2>3 DEF Grounded
<1>8. ASSUME NEW m \in DOMAIN runs, Reusable(m), obs = DeriveReuse(m)
      PROVE  Grounded(obs, scope, n)
  <2>1. Observation(m) # Absent /\ Anchored[m] /\ Observation(m).relevance = "supported"
    BY <1>8 DEF Reusable
  <2>2. runs[m].scope = scope /\ Observation(m).kind \in {"user", "reuse"}
    BY <1>1, <2>1, AnchoredFacts
  <2>3. Observation(m) \in Observations(m)
    BY <1>1, <2>1 DEF RunsGrounded, Grounded
  <2>4. PICK o : o = Observation(m)
    OBVIOUS
  <2>5. obs = [kind |-> "reuse", ref |-> m, target |-> o.target, arts |-> o.arts, relevance |-> "supported"]
    BY <1>8, <2>4 DEF DeriveReuse
  <2>6. m \in 1 .. n - 1
    BY <1>3
  <2>7. o.target \in Maybe(Targets) /\ o.arts \in SUBSET Artifacts
    BY SMT, <2>3, <2>4 DEF Observations
  <2>8. obs \in Observations(n) /\ obs.kind = "reuse" /\ obs.ref = m /\ obs.target = o.target
        /\ obs.arts = o.arts
    BY SMT, <2>5, <2>6, <2>7 DEF Observations, Maybe
  <2>9. ReuseHop(obs, scope, n)
    BY <2>1, <2>2, <2>4, <2>6, <2>8 DEF ReuseHop
  <2>10. QED
    BY <2>8, <2>9 DEF Grounded
<1>9. \/ obs = Report
      \/ \E q \in Actions, c \in Targets, arts \in SUBSET registered : obs = DeriveUser(q, c, arts)
      \/ h # Absent /\ \E c \in Targets, matches \in BOOLEAN : obs = DeriveCapture(h, c, matches)
      \/ \E m \in DOMAIN runs : Reusable(m) /\ obs = DeriveReuse(m)
  BY SMT DEF Derivable
<1>10. QED
  BY <1>2, <1>5, <1>6, <1>7, <1>8, <1>9

\* request_user_action for an observation.
LEMMA RequestObservationKeeps ==
  ASSUME ProvenanceInv, NEW q \in Actions, NEW arts \in SUBSET Artifacts, RequestObservation(q, arts)
  PROVE  ProvenanceInv'
<1>1. ProvenanceRows /\ RunsGrounded /\ PlansGrounded
  BY DEF ProvenanceInv
<1>2. /\ action[q] = Absent /\ version' = version + 1
      /\ UNCHANGED <<scope, registered, damaged, runs, basis, plan>>
  BY DEF RequestObservation
<1>3. PICK row : row = [scope |-> scope, arts |-> arts, target |-> Absent, verdict |-> "pending"]
  OBVIOUS
<1>4. action' = [action EXCEPT ![q] = row]
  BY <1>3 DEF RequestObservation
<1>5. action \in [Actions -> Maybe(UserActionRow)]
  BY <1>1 DEF ProvenanceRows
<1>6. ResolvedKept
  BY <1>2, <1>4, <1>5 DEF ResolvedKept
<1>7. row \in UserActionRow
  BY SMT, <1>1, <1>3 DEF ProvenanceRows, ProvenanceTypeOK, UserActionRow, Maybe
<1>8. action' \in [Actions -> Maybe(UserActionRow)]
  BY <1>4, <1>5, <1>7 DEF Maybe
<1>9. version' \in Nat
  BY SMT, <1>1, <1>2 DEF ProvenanceRows, ProvenanceTypeOK
<1>10. ProvenanceRows'
  BY <1>1, <1>2, <1>8, <1>9 DEF ProvenanceRows, ProvenanceTypeOK, Observation
<1>11. QED
  BY <1>1, <1>2, <1>6, <1>10, RunsStayGrounded, PlansOvertaken DEF ProvenanceInv

\* resolve_user_action for an observation.
LEMMA ResolveObservationKeeps ==
  ASSUME ProvenanceInv, NEW q \in Actions, NEW c \in Targets, NEW arts \in SUBSET Artifacts,
         NEW verdict \in {"supported", "contradicted"}, ResolveObservation(q, c, arts, verdict)
  PROVE  ProvenanceInv'
<1>1. ProvenanceRows /\ RunsGrounded /\ PlansGrounded
  BY DEF ProvenanceInv
<1>2. /\ action[q].verdict = "pending" /\ version' = version + 1
      /\ UNCHANGED <<scope, registered, damaged, runs, basis, plan>>
  BY DEF ResolveObservation
<1>3. PICK row : row = [scope |-> scope, arts |-> arts, target |-> c, verdict |-> verdict]
  OBVIOUS
<1>4. action' = [action EXCEPT ![q] = row]
  BY <1>3 DEF ResolveObservation
<1>5. action \in [Actions -> Maybe(UserActionRow)]
  BY <1>1 DEF ProvenanceRows
<1>6. ResolvedKept
  BY <1>2, <1>4, <1>5 DEF ResolvedKept
<1>7. row \in UserActionRow
  BY SMT, <1>1, <1>3 DEF ProvenanceRows, ProvenanceTypeOK, UserActionRow, Maybe
<1>8. action' \in [Actions -> Maybe(UserActionRow)]
  BY <1>4, <1>5, <1>7 DEF Maybe
<1>9. version' \in Nat
  BY SMT, <1>1, <1>2 DEF ProvenanceRows, ProvenanceTypeOK
<1>10. ProvenanceRows'
  BY <1>1, <1>2, <1>8, <1>9 DEF ProvenanceRows, ProvenanceTypeOK, Observation
<1>11. QED
  BY <1>1, <1>2, <1>6, <1>10, RunsStayGrounded, PlansOvertaken DEF ProvenanceInv

\* record_run is planned: the plan is grounded in what it has read.
LEMMA PlanRecordRunKeeps ==
  ASSUME ProvenanceInv, NEW a \in Agents, NEW h \in Maybe(Artifacts),
         NEW cover \in BOOLEAN, NEW assess \in BOOLEAN, PlanRecordRun(a, h, cover, assess)
  PROVE  ProvenanceInv'
<1>1. ProvenanceRows /\ RunsGrounded /\ PlansGrounded
  BY DEF ProvenanceInv
<1>2. UNCHANGED <<version, scope, registered, damaged, action, runs, basis>>
  BY DEF PlanRecordRun
<1>3. PICK obs \in Derivable(h) :
        plan' = [plan EXCEPT ![a] = [version |-> version, input |-> h, obs |-> obs,
                                     close |-> IF assess THEN cover ELSE Absent]]
  BY DEF PlanRecordRun
<1>4. PICK close : close = IF assess THEN cover ELSE Absent
  OBVIOUS
<1>5. PICK k : k = [version |-> version, input |-> h, obs |-> obs, close |-> close]
  OBVIOUS
<1>6. plan' = [plan EXCEPT ![a] = k]
  BY <1>3, <1>4, <1>5
<1>7. k.version = version /\ k.obs = obs
  BY <1>5
<1>8. obs # Absent => Grounded(obs, scope, Len(runs) + 1)
  BY DerivedIsGrounded
<1>9. plan \in [Agents -> Maybe(RecordRunPlan)] /\ version \in Nat
  BY <1>1 DEF ProvenanceRows, ProvenanceTypeOK
<1>10. k \in RecordRunPlan
  <2>1. Len(runs) + 1 \in Nat
    BY SMT, <1>1 DEF ProvenanceRows
  <2>2. obs \in Maybe(StoredObservation)
    BY <1>8, <2>1, ObservationsStored DEF Grounded, Maybe
  <2>3. close \in Maybe(BOOLEAN)
    BY <1>4 DEF Maybe
  <2>4. QED
    BY <1>5, <1>9, <2>2, <2>3 DEF RecordRunPlan
<1>11. plan' \in [Agents -> Maybe(RecordRunPlan)]
  BY <1>6, <1>9, <1>10 DEF Maybe
<1>12. ProvenanceRows'
  BY <1>1, <1>2, <1>11 DEF ProvenanceRows, ProvenanceTypeOK, Observation
<1>13. RunsGrounded'
  <2>1. ResolvedKept
    BY <1>2 DEF ResolvedKept
  <2>2. QED
    BY <1>1, <1>2, <2>1, RunsStayGrounded
<1>14. PlansGrounded'
  <2>1. SUFFICES ASSUME NEW b \in Agents, plan'[b] # Absent
                 PROVE  /\ plan'[b].version <= version'
                        /\ plan'[b].version = version' /\ plan'[b].obs # Absent =>
                             Grounded(plan[b].obs, scope, Len(runs) + 1)'
    BY DEF PlansGrounded
  <2>2. CASE b # a
    <3>1. plan'[b] = plan[b]
      BY <1>6, <1>9, <2>2
    <3>2. QED
      BY <1>1, <1>2, <2>1, <3>1, PlansStayGrounded
  <2>3. CASE b = a
    <3>1. plan'[b] = k
      BY <1>6, <1>9, <2>3
    <3>2. version <= version
      BY SMT, <1>9
    <3>3. PICK s, n : s = scope /\ n = Len(runs) + 1
      OBVIOUS
    <3>4. n \in 1 .. Len(runs) + 1
      BY SMT, <1>1, <3>3 DEF ProvenanceRows
    <3>5. ResolvedKept /\ RunsKept
      BY <1>2 DEF ResolvedKept, RunsKept
    <3>6. obs # Absent => Grounded(obs, s, n)'
      BY <1>1, <1>8, <3>3, <3>4, <3>5, GroundedStays
    <3>7. s = scope' /\ n = Len(runs') + 1
      BY <1>2, <3>3
    <3>8. QED
      BY <1>2, <1>7, <3>1, <3>2, <3>6, <3>7
  <2>4. QED
    BY <2>2, <2>3
<1>15. QED
  BY <1>12, <1>13, <1>14 DEF ProvenanceInv

\* A refused commit gives the plan up.
LEMMA RejectRecordRunKeeps ==
  ASSUME ProvenanceInv, NEW a \in Agents, RejectRecordRun(a)
  PROVE  ProvenanceInv'
<1>1. ProvenanceRows /\ RunsGrounded /\ PlansGrounded
  BY DEF ProvenanceInv
<1>2. /\ UNCHANGED <<version, scope, registered, damaged, action, runs, basis>>
      /\ plan' = [plan EXCEPT ![a] = Absent]
  BY DEF RejectRecordRun
<1>3. plan \in [Agents -> Maybe(RecordRunPlan)]
  BY <1>1 DEF ProvenanceRows
<1>4. plan' \in [Agents -> Maybe(RecordRunPlan)] /\ \A b \in Agents : plan'[b] # Absent => plan'[b] = plan[b]
  BY <1>2, <1>3 DEF Maybe
<1>5. ProvenanceRows'
  BY <1>1, <1>2, <1>4 DEF ProvenanceRows, ProvenanceTypeOK, Observation
<1>6. RunsGrounded'
  <2>1. ResolvedKept
    BY <1>2 DEF ResolvedKept
  <2>2. QED
    BY <1>1, <1>2, <2>1, RunsStayGrounded
<1>7. PlansGrounded'
  BY <1>1, <1>2, <1>4, PlansStayGrounded DEF PlansGrounded
<1>8. QED
  BY <1>5, <1>6, <1>7 DEF ProvenanceInv

\* update_scope.
LEMMA UpdateScopeKeeps ==
  ASSUME ProvenanceInv, UpdateScope
  PROVE  ProvenanceInv'
<1>1. ProvenanceRows /\ RunsGrounded /\ PlansGrounded
  BY DEF ProvenanceInv
<1>2. /\ UNCHANGED <<registered, damaged, action, runs, plan>> /\ basis' = Absent
      /\ version' = version + 1 /\ scope' = scope + 1 /\ scope < MaxScope
  BY DEF UpdateScope
<1>3. version \in Nat /\ scope \in 1 .. MaxScope /\ MaxScope \in Nat
  BY <1>1, ProvenanceAssumption DEF ProvenanceRows, ProvenanceTypeOK
<1>4. version' \in Nat /\ scope' \in 1 .. MaxScope
  BY SMT, <1>2, <1>3
<1>5. ASSUME NEW n \in DOMAIN runs
      PROVE  runs'[n].scope <= scope'
  <2>0. runs \in Seq(StoredRun) /\ runs[n].scope <= scope
    BY <1>1 DEF ProvenanceRows, ProvenanceTypeOK
  <2>1. runs[n].scope \in Nat
    <3>1. runs[n] \in StoredRun
      BY SMT, <2>0
    <3>2. QED
      BY <3>1 DEF StoredRun
  <2>2. QED
    BY SMT, <1>2, <1>3, <2>0, <2>1
<1>6. ProvenanceRows'
  BY <1>1, <1>2, <1>4, <1>5 DEF ProvenanceRows, ProvenanceTypeOK, Observation, Maybe
<1>7. ResolvedKept
  BY <1>2 DEF ResolvedKept
<1>8. QED
  BY <1>1, <1>2, <1>6, <1>7, RunsStayGrounded, PlansOvertaken DEF ProvenanceInv

\* Bytes are lost: no row says otherwise than before.
LEMMA LoseBodyKeeps ==
  ASSUME ProvenanceInv, NEW h \in Artifacts, LoseBody(h)
  PROVE  ProvenanceInv'
<1>1. ProvenanceRows /\ RunsGrounded /\ PlansGrounded
  BY DEF ProvenanceInv
<1>2. /\ UNCHANGED <<version, scope, registered, action, runs, basis, plan>>
      /\ damaged' = damaged \cup {h} /\ h \in registered
  BY DEF LoseBody
<1>3. ProvenanceRows'
  BY <1>1, <1>2 DEF ProvenanceRows, ProvenanceTypeOK, Observation
<1>4. ResolvedKept
  BY <1>2 DEF ResolvedKept
<1>5. RunsGrounded'
  BY <1>1, <1>2, <1>4, RunsStayGrounded
<1>6. PlansGrounded'
  BY <1>1, <1>2, PlansStayGrounded DEF PlansGrounded
<1>7. QED
  BY <1>3, <1>5, <1>6 DEF ProvenanceInv

\* One transaction on the planned version: what the plan rests on still stands.
LEMMA CommitRecordRunKeeps ==
  ASSUME ProvenanceInv, NEW a \in Agents, CommitRecordRun(a)
  PROVE  ProvenanceInv'
<1>1. ProvenanceRows /\ RunsGrounded /\ PlansGrounded
  BY DEF ProvenanceInv
<1>2. PICK k : k = plan[a]
  OBVIOUS
<1>3. PICK N : N = Len(runs)
  OBVIOUS
<1>4. PICK row : row = [scope |-> scope, obs |-> k.obs]
  OBVIOUS
<1>5. /\ k # Absent /\ k.version = version
      /\ registered' = registered \cup Input(k)
      /\ runs' = Append(runs, row)
      /\ basis' = CloseBasis(k, N + 1)
      /\ version' = version + 1
      /\ plan' = [plan EXCEPT ![a] = Absent]
      /\ UNCHANGED <<scope, damaged, action>>
  BY <1>2, <1>3, <1>4 DEF CommitRecordRun
<1>6. /\ version \in Nat /\ scope \in 1 .. MaxScope /\ damaged \subseteq registered
      /\ registered \subseteq Artifacts /\ runs \in Seq(StoredRun)
      /\ plan \in [Agents -> Maybe(RecordRunPlan)]
  BY <1>1 DEF ProvenanceRows, ProvenanceTypeOK
<1>7. k \in RecordRunPlan
  BY <1>2, <1>5, <1>6 DEF Maybe
<1>8. k.input \in Maybe(Artifacts) /\ k.obs \in Maybe(StoredObservation) /\ k.close \in Maybe(BOOLEAN)
  BY <1>7 DEF RecordRunPlan
<1>9. Input(k) \subseteq Artifacts
  BY <1>8 DEF Input, Maybe
<1>10. row \in StoredRun /\ row.scope = scope /\ row.obs = k.obs
  <2>1. scope \in Nat
    BY SMT, <1>6
  <2>2. QED
    BY <1>4, <1>8, <2>1 DEF StoredRun
<1>11. /\ N \in Nat /\ DOMAIN runs = 1 .. N
       /\ runs' \in Seq(StoredRun) /\ Len(runs') = N + 1 /\ DOMAIN runs' = 1 .. N + 1
       /\ runs'[N + 1] = row
       /\ \A n \in 1 .. N : n \in 1 .. N + 1 /\ runs'[n] = runs[n]
       /\ \A n \in 1 .. N + 1 : n \in 1 .. N \/ n = N + 1
       /\ N + 1 \in 1 .. N + 1
  BY SMT, <1>3, <1>5, <1>6, <1>10
<1>12. ResolvedKept /\ RunsKept
  BY <1>5, <1>11 DEF ResolvedKept, RunsKept
<1>13. k.obs # Absent => Grounded(k.obs, row.scope, N + 1)
  BY <1>1, <1>2, <1>3, <1>5, <1>10 DEF PlansGrounded
<1>14. ASSUME NEW n \in DOMAIN runs', runs'[n].obs # Absent
       PROVE  Grounded(Observation(n), runs[n].scope, n)'
  <2>1. PICK o, s : o = runs'[n].obs /\ s = runs'[n].scope
    OBVIOUS
  <2>2. Grounded(o, s, n)
    <3>1. CASE n = N + 1
      BY <1>10, <1>11, <1>13, <1>14, <2>1, <3>1
    <3>2. CASE n \in 1 .. N
      BY <1>1, <1>11, <1>14, <2>1, <3>2 DEF RunsGrounded, Observation
    <3>3. QED
      BY <1>11, <1>14, <3>1, <3>2
  <2>3. n \in 1 .. Len(runs) + 1
    BY <1>3, <1>11, <1>14
  <2>4. Grounded(o, s, n)'
    BY <1>1, <1>12, <2>2, <2>3, GroundedStays
  <2>5. o = Observation(n)' /\ s = runs'[n].scope
    BY <2>1 DEF Observation
  <2>6. QED
    BY <2>4, <2>5
<1>15. RunsGrounded'
  BY <1>14 DEF RunsGrounded, Observation
<1>16. PlansGrounded'
  <2>1. \A b \in Agents : plan'[b] = plan[b] \/ plan'[b] = Absent
    BY <1>5, <1>6
  <2>2. QED
    BY <1>1, <1>5, <2>1, PlansOvertaken
<1>17. plan' \in [Agents -> Maybe(RecordRunPlan)] /\ version' \in Nat
  <2>1. version' \in Nat
    BY SMT, <1>5, <1>6
  <2>2. QED
    BY <1>5, <1>6, <2>1 DEF Maybe
<1>18. ASSUME NEW n \in DOMAIN runs'
       PROVE  runs'[n].scope <= scope' /\ Observation(n)' \in Maybe(Observations(n))
  <2>1. CASE n \in 1 .. N
    BY <1>1, <1>5, <1>11, <2>1 DEF ProvenanceRows, ProvenanceTypeOK, Observation
  <2>2. CASE n = N + 1
    <3>1. scope <= scope
      BY SMT, <1>6
    <3>2. k.obs \in Maybe(Observations(n))
      BY <1>13, <2>2 DEF Grounded, Maybe
    <3>3. QED
      BY <1>5, <1>10, <1>11, <2>2, <3>1, <3>2 DEF Observation
  <2>3. QED
    BY <1>11, <1>18, <2>1, <2>2
<1>19. /\ basis' \in Maybe([run : {Len(runs')}, cover : BOOLEAN, support : SUBSET registered'])
       /\ basis' # Absent => basis'.run \in DOMAIN runs'
  <2>1. CASE k.close = Absent
    BY <1>5, <2>1 DEF CloseBasis, Maybe
  <2>2. CASE k.close # Absent
    <3>1. k.close \in BOOLEAN /\ Input(k) \subseteq registered'
      BY <1>5, <1>8, <2>2 DEF Maybe
    <3>2. PICK m, cover, support : m = N + 1 /\ cover = k.close /\ support = Input(k)
      OBVIOUS
    <3>3. basis' = [run |-> m, cover |-> cover, support |-> support]
      BY <1>5, <2>2, <3>2 DEF CloseBasis
    <3>4. m = Len(runs') /\ m \in DOMAIN runs'
      BY <1>11, <3>2
    <3>5. basis'.run = m /\ basis' \in [run : {m}, cover : BOOLEAN, support : SUBSET registered']
      BY <3>1, <3>2, <3>3
    <3>6. QED
      BY <3>4, <3>5 DEF Maybe
  <2>3. QED
    BY <2>1, <2>2
<1>20. damaged' \subseteq registered' /\ registered' \subseteq Artifacts /\ scope' \in 1 .. MaxScope
  BY <1>5, <1>6, <1>9
<1>21. ProvenanceTypeOK'
  BY <1>17, <1>18, <1>19, <1>20 DEF ProvenanceTypeOK
<1>22. action' \in [Actions -> Maybe(UserActionRow)]
  BY <1>1, <1>5 DEF ProvenanceRows
<1>23. ProvenanceRows'
  BY <1>11, <1>17, <1>19, <1>21, <1>22 DEF ProvenanceRows
<1>24. QED
  BY <1>15, <1>16, <1>23 DEF ProvenanceInv

\* Only the actions of the model are steps, and each keeps the invariant.
LEMMA ProvenanceStep ==
  ASSUME ProvenanceInv, [ProvenanceNext]_provenanceVars
  PROVE  ProvenanceInv'
<1>1. CASE UNCHANGED provenanceVars
  <2>1. UNCHANGED <<version, scope, registered, damaged, action, runs, basis, plan>>
    BY <1>1 DEF provenanceVars
  <2>2. ProvenanceRows /\ RunsGrounded /\ PlansGrounded
    BY DEF ProvenanceInv
  <2>3. ProvenanceRows'
    BY <2>1, <2>2 DEF ProvenanceRows, ProvenanceTypeOK, Observation
  <2>4. ResolvedKept
    BY <2>1 DEF ResolvedKept
  <2>5. RunsGrounded'
    BY <2>1, <2>2, <2>4, RunsStayGrounded
  <2>6. PlansGrounded'
    BY <2>1, <2>2, PlansStayGrounded DEF PlansGrounded
  <2>7. QED
    BY <2>3, <2>5, <2>6 DEF ProvenanceInv
<1>2. ASSUME NEW q \in Actions, NEW arts \in SUBSET Artifacts, RequestObservation(q, arts)
      PROVE  ProvenanceInv'
  BY <1>2, RequestObservationKeeps
<1>3. ASSUME NEW q \in Actions, NEW c \in Targets, NEW arts \in SUBSET Artifacts,
             NEW verdict \in {"supported", "contradicted"}, ResolveObservation(q, c, arts, verdict)
      PROVE  ProvenanceInv'
  BY <1>3, ResolveObservationKeeps
<1>4. ASSUME NEW a \in Agents, NEW h \in Artifacts \cup {Absent},
             NEW cover \in BOOLEAN, NEW assess \in BOOLEAN, PlanRecordRun(a, h, cover, assess)
      PROVE  ProvenanceInv'
  <2>1. h \in Maybe(Artifacts)
    BY <1>4 DEF Maybe
  <2>2. QED
    BY <1>4, <2>1, PlanRecordRunKeeps
<1>5. ASSUME NEW a \in Agents, CommitRecordRun(a) \/ RejectRecordRun(a)
      PROVE  ProvenanceInv'
  BY <1>5, CommitRecordRunKeeps, RejectRecordRunKeeps
<1>6. ASSUME UpdateScope
      PROVE  ProvenanceInv'
  BY <1>6, UpdateScopeKeeps
<1>7. ASSUME NEW h \in Artifacts, LoseBody(h)
      PROVE  ProvenanceInv'
  BY <1>7, LoseBodyKeeps
<1>8. QED
  BY <1>1, <1>2, <1>3, <1>4, <1>5, <1>6, <1>7 DEF ProvenanceNext

\* A Task starts without runs, resolutions and plans.
LEMMA ProvenanceStart ==
  ASSUME ProvenanceInit
  PROVE  ProvenanceInv
<1>1. /\ version = 0 /\ scope = 1 /\ registered \in SUBSET Artifacts /\ damaged = {}
      /\ action = [q \in Actions |-> Absent] /\ runs = <<>> /\ basis = Absent
      /\ plan = [a \in Agents |-> Absent]
  BY DEF ProvenanceInit
<1>2. version \in Nat /\ scope \in 1 .. MaxScope
  BY SMT, <1>1, ProvenanceAssumption
<1>3. runs \in Seq(StoredRun) /\ DOMAIN runs = {}
  BY SMT, <1>1
<1>4. action \in [Actions -> Maybe(UserActionRow)] /\ plan \in [Agents -> Maybe(RecordRunPlan)]
  BY <1>1 DEF Maybe
<1>5. ProvenanceTypeOK
  BY <1>1, <1>2, <1>3 DEF ProvenanceTypeOK, Maybe
<1>6. RunsGrounded
  BY <1>3 DEF RunsGrounded
<1>7. PlansGrounded
  BY <1>1 DEF PlansGrounded
<1>8. QED
  BY <1>1, <1>3, <1>4, <1>5, <1>6, <1>7 DEF ProvenanceInv, ProvenanceRows

\* Rows stay well formed: an observation reuses an earlier run only, no run is of a scope the
\* Task has not reached, and a close basis is that of the latest run (core/src/recording).
THEOREM ProvenanceTypeCorrect == ProvenanceSpec => []ProvenanceTypeOK
<1>1. ProvenanceInv => ProvenanceTypeOK
  BY DEF ProvenanceInv, ProvenanceRows
<1>2. QED
  BY <1>1, ProvenanceStart, ProvenanceStep, PTL DEF ProvenanceSpec

\* For chains of reuse of any length: they start with a user's `supported` resolution of the
\* same scope, target and artifacts (core/src/recording/evidence.rs).
THEOREM ChainsAreGrounded == ProvenanceSpec => []ReuseGrounded
<1>1. ProvenanceInv => ReuseGrounded
  <2>1. SUFFICES ASSUME ProvenanceInv, NEW n \in DOMAIN runs,
                        Observation(n) # Absent, Observation(n).kind = "reuse"
                 PROVE  StartsWithUser(n)
    BY DEF ReuseGrounded, StartsWithUser
  <2>2. ProvenanceRows /\ RunsGrounded
    BY <2>1 DEF ProvenanceInv
  <2>3. QED
    BY <2>1, <2>2, ChainsStartWithUser
<1>2. QED
  BY <1>1, ProvenanceStart, ProvenanceStep, PTL DEF ProvenanceSpec

\* For any number of runs, artifacts, criteria and scopes: the gate says sufficient only where
\* a user looked at exactly these artifacts for exactly this criterion in the current scope,
\* and their bytes still verify (core/src/close_readiness/evidence.rs).
THEOREM GateIsSound == ProvenanceSpec => []GateSound
<1>1. ProvenanceInv => GateSound
  BY GateRestsOnUser
<1>2. QED
  BY <1>1, ProvenanceStart, ProvenanceStep, PTL DEF ProvenanceSpec

-----------------------------------------------------------------------------
(* The gate opens by a run only *)

\* The walk along a chain of reuse, as an equation of the state.
AnchoredEquation == Anchored = [n \in DOMAIN runs |-> AnchorTest(Anchored, n)]

\* It holds in every state the invariant allows.
LEMMA AnchoredHolds == ProvenanceInv => AnchoredEquation
BY AnchoredUnfolds DEF ProvenanceInv, AnchoredEquation

\* The same of the next state.
LEMMA AnchoredHoldsNext == ProvenanceInv' => AnchoredEquation'
BY AnchoredHolds, PTL

\* A step that records no run, keeps scope and registered artifacts and only damages bytes
\* anchors nothing that was not anchored: what a recorded observation names is final.
LEMMA NoAnchorGained ==
  ASSUME ProvenanceInv, ProvenanceInv', ResolvedKept, UNCHANGED <<scope, registered, runs>>,
         damaged \subseteq damaged'
  PROVE  \A n \in DOMAIN runs : Anchored'[n] => Anchored[n]
<1>1. ProvenanceRows /\ RunsGrounded
  BY DEF ProvenanceInv
<1>2. PICK N \in Nat : N = Len(runs) /\ DOMAIN runs = 1 .. N
  BY <1>1, HopsBack
<1>3. PICK T : T = {n \in 1 .. N : Anchored'[n] => Anchored[n]}
  OBVIOUS
<1>4. ASSUME NEW n \in 1 .. N, \A m \in 1 .. n - 1 : m \in T, Anchored'[n]
      PROVE  Anchored[n]
  <2>1. AnchorTest(Anchored, n)'
    BY <1>2, <1>4, AnchoredHoldsNext DEF AnchoredEquation
  <2>2. PICK o : o = Observation(n)
    OBVIOUS
  <2>3. o = Observation(n)' /\ \A m : Observation(m)' = Observation(m)
    BY <2>2 DEF Observation
  <2>4. /\ o # Absent /\ o.kind # "report"
        /\ MatchesBasis(n)' /\ ObservationArtifactsCurrent(n)'
        /\ o.kind = "capture" => CaptureAuthority(n)'
        /\ o.kind = "user" => UserAuthority(o.ref, o.target, o.arts)'
        /\ o.kind = "reuse" =>
              /\ Observation(o.ref).target = o.target /\ Observation(o.ref).arts = o.arts
              /\ Observation(o.ref).relevance = "supported" /\ Anchored'[o.ref]
    BY <2>1, <2>3 DEF AnchorTest
  <2>5. Grounded(o, runs[n].scope, n)
    BY <1>1, <1>2, <2>2, <2>4 DEF RunsGrounded
  <2>6. MatchesBasis(n) /\ ObservationArtifactsCurrent(n) /\ (o.kind = "capture" => CaptureAuthority(n))
    BY <2>3, <2>4 DEF MatchesBasis, ObservationArtifactsCurrent, CaptureAuthority, VerifiedCurrent
  <2>7. o.kind = "user" => UserAuthority(o.ref, o.target, o.arts)
    BY <2>4, <2>5 DEF Grounded, UserGrounded, ResolvedKept, UserAuthority
  <2>8. o.kind = "reuse" => Anchored[o.ref]
    BY <1>3, <1>4, <2>4, <2>5 DEF Grounded, ReuseHop
  <2>9. AnchorTest(Anchored, n)
    BY <2>2, <2>4, <2>6, <2>7, <2>8 DEF AnchorTest
  <2>10. QED
    BY <1>2, <2>9, AnchoredHolds DEF AnchoredEquation
<1>5. \A n \in 1 .. N : (\A m \in 1 .. n - 1 : m \in T) => n \in T
  BY <1>3, <1>4
<1>6. \A n \in 1 .. N : n \in T
  BY <1>5, CompleteInduction
<1>7. QED
  BY <1>2, <1>3, <1>6

\* So a gate that such a step leaves open was open before.
LEMMA NoGateOpened ==
  ASSUME ProvenanceInv, ProvenanceInv', ResolvedKept, UNCHANGED <<scope, registered, runs, basis>>,
         damaged \subseteq damaged', GateSufficient'
  PROVE  GateSufficient
<1>1. PICK n : n = basis.run
  OBVIOUS
<1>2. basis # Absent /\ SummarySupports' /\ \A c \in Required : StrongSupported(c, n)'
  BY <1>1 DEF GateSufficient
<1>3. n \in DOMAIN runs
  BY <1>1, <1>2 DEF ProvenanceInv, ProvenanceRows
<1>4. SummarySupports
  BY <1>2 DEF SummarySupports, VerifiedCurrent
<1>5. ASSUME NEW c \in Required
      PROVE  StrongSupported(c, n)
  <2>1. Anchored'[n] /\ Observation(n)'.target = c /\ ~RelevanceUnsupported(Observation(n))'
    BY <1>2, <1>5 DEF StrongSupported
  <2>2. Observation(n)' = Observation(n)
    BY DEF Observation
  <2>3. Anchored[n]
    BY <1>3, <2>1, NoAnchorGained
  <2>4. QED
    BY <2>1, <2>2, <2>3 DEF StrongSupported, RelevanceUnsupported
<1>6. QED
  BY <1>1, <1>2, <1>4, <1>5 DEF GateSufficient

\* The gate opens by a commit of record_run or not at all.
LEMMA GateOpeningStep ==
  ASSUME ProvenanceInv, ProvenanceInv', ProvenanceNext, ~GateSufficient, GateSufficient'
  PROVE  Len(runs') = Len(runs) + 1
<1>1. action \in [Actions -> Maybe(UserActionRow)] /\ runs \in Seq(StoredRun)
  BY DEF ProvenanceInv, ProvenanceRows
<1>2. ASSUME NEW q \in Actions, NEW arts \in SUBSET Artifacts, RequestObservation(q, arts)
      PROVE  FALSE
  <2>1. ResolvedKept
    BY <1>1, <1>2 DEF ResolvedKept, RequestObservation
  <2>2. UNCHANGED <<scope, registered, damaged, runs, basis>>
    BY <1>2 DEF RequestObservation
  <2>3. QED
    BY <2>1, <2>2, NoGateOpened
<1>3. ASSUME NEW q \in Actions, NEW c \in Targets, NEW arts \in SUBSET Artifacts,
             NEW verdict \in {"supported", "contradicted"}, ResolveObservation(q, c, arts, verdict)
      PROVE  FALSE
  <2>1. ResolvedKept
    BY <1>1, <1>3 DEF ResolvedKept, ResolveObservation
  <2>2. UNCHANGED <<scope, registered, damaged, runs, basis>>
    BY <1>3 DEF ResolveObservation
  <2>3. QED
    BY <2>1, <2>2, NoGateOpened
<1>4. ASSUME UNCHANGED <<scope, registered, action, runs, basis>>, damaged \subseteq damaged'
      PROVE  FALSE
  <2>1. ResolvedKept
    BY <1>4 DEF ResolvedKept
  <2>2. QED
    BY <1>4, <2>1, NoGateOpened
<1>5. ASSUME NEW a \in Agents, NEW h \in Artifacts \cup {Absent}, NEW cover \in BOOLEAN,
             NEW assess \in BOOLEAN, PlanRecordRun(a, h, cover, assess)
      PROVE  FALSE
  BY <1>4, <1>5 DEF PlanRecordRun
<1>6. ASSUME NEW a \in Agents, RejectRecordRun(a)
      PROVE  FALSE
  BY <1>4, <1>6 DEF RejectRecordRun
<1>7. ASSUME NEW h \in Artifacts, LoseBody(h)
      PROVE  FALSE
  BY <1>4, <1>7 DEF LoseBody
<1>8. ASSUME UpdateScope
      PROVE  FALSE
  BY <1>8 DEF UpdateScope, GateSufficient
<1>9. ASSUME NEW a \in Agents, CommitRecordRun(a)
      PROVE  Len(runs') = Len(runs) + 1
  <2>1. PICK row : runs' = Append(runs, row)
    BY <1>9 DEF CommitRecordRun
  <2>2. QED
    BY SMT, <1>1, <2>1
<1>10. QED
  BY <1>2, <1>3, <1>5, <1>6, <1>7, <1>8, <1>9 DEF ProvenanceNext

\* Evidence becomes sufficient only by recording a run: a resolution that comes after the run
\* that claimed it lends that run nothing (core/src/recording/evidence.rs).
THEOREM GateOpensByRecording == ProvenanceSpec => GateOpensByRun
<1>1. ASSUME ProvenanceInv, ProvenanceInv', [ProvenanceNext]_provenanceVars
      PROVE  [~GateSufficient /\ GateSufficient' => Len(runs') = Len(runs) + 1]_provenanceVars
  BY <1>1, GateOpeningStep
<1>2. QED
  BY <1>1, ProvenanceStart, ProvenanceStep, PTL DEF ProvenanceSpec, GateOpensByRun

=============================================================================
