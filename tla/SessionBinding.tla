---------------------------- MODULE SessionBinding ----------------------------
(***************************************************************************)
(* How a managed MCP runtime becomes the owner of a project Agent Session. *)
(* The Registry and the project's state live in two SQLite databases, so   *)
(* bind_agent_session_runtime goes through four stages, each its own       *)
(* transaction: validate the runtime (no write), establish the project's   *)
(* anchor row (project), reserve the binding (Registry), attach the        *)
(* runtime to the anchor (project).  Between any two of them other         *)
(* servers, a policy change, a mode change or the removal of the project   *)
(* may run, the call may fail, and the process may die.                    *)
(*                                                                         *)
(* Every mutation holds the Runtime Home mutation lease.  Tool calls, and  *)
(* the policy, mode and remove commands, take it shared; setup, the only   *)
(* command that adds a project, takes it exclusively.  A runtime holds the *)
(* shared lease exactly while its call is not idle.                        *)
(*                                                                         *)
(* One Agent Connection is modelled.  Its integration revision is a digest *)
(* over its instance and generation, so each (re)creation and each mode    *)
(* change yields a revision never seen before; a project's revision is a   *)
(* digest over that and the policy in force, which may come back.          *)
(***************************************************************************)
EXTENDS Naturals

CONSTANTS
  Runtimes,      \* runtime sessions, one per launch of an MCP server
  Projects,
  Hosts,         \* host-native session ids
  Threads,       \* host-native thread ids
  Policies,      \* policy fingerprints
  MaxRevision,   \* bound: connection revisions ever issued
  None

ASSUME BindingAssumption ==
  /\ MaxRevision \in Nat
  /\ None \notin Runtimes \cup Threads \cup [host : Hosts, thread : Threads]

VARIABLES
  lastRevision,  \* connection revisions issued so far
  revision,      \* revision of the current Connection, 0 when there is none
  member,        \* connection_projects
  policy,        \* project_workflow_policies fingerprint of each project
  process,       \* state of each MCP server process
  runtimeRow,    \* mcp_runtime_sessions: the revision recorded, 0 when no row
  native,        \* the host session and thread a server is correlated with
  anchor,        \* managed_mcp_sessions of each project
  binding,       \* mcp_runtime_project_session_bindings
  call           \* the tool call a server is executing

vars == <<lastRevision, revision, member, policy, process, runtimeRow, native,
          anchor, binding, call>>

Revisions == 1..MaxRevision

\* project_agent_session_id: a digest of these coordinates.
SessionIds == [revision : Revisions, policy : Policies, host : Hosts]

Anchors == [thread : Threads \cup {None}, runtime : Runtimes \cup {None}]

NoAnchor == [thread |-> None, runtime |-> None]

NoBindings == [s \in SessionIds |-> None]

Correlations == [host : Hosts, thread : Threads]

Stages == {"begun", "validated", "anchoring", "anchored", "reserved", "attaching",
           "attached", "checked", "authorized"}

IdleCall == [stage |-> "idle", project |-> None, session |-> None]

Calls == [stage : Stages \cup {"idle"}, project : Projects \cup {None},
          session : SessionIds \cup {None}]

-----------------------------------------------------------------------------
\* current_project_agent_session_coordinates for a host session.
Coordinates(p, h) == [revision |-> revision, policy |-> policy[p], host |-> h]

\* current_managed_mcp_runtime_session_for_connection: the row exists and carries
\* the revision of the Connection as it is now.
RuntimeIsCurrent(r) == revision # 0 /\ runtimeRow[r] = revision

At(r, stage) == call[r].stage = stage

SharedLeaseHeld == \E r \in Runtimes : ~At(r, "idle")

Advance(r, stage) == call' = [call EXCEPT ![r].stage = stage]

\* The project's rows with the row of session s written.
SetAnchor(p, s, thread, runtime) ==
  [anchor EXCEPT ![p][s] = [thread |-> thread, runtime |-> runtime]]

OwnerState == <<lastRevision, revision, member, policy>>

ProcessState == <<process, runtimeRow, native>>

Init ==
  /\ lastRevision = 0
  /\ revision = 0
  /\ member = [p \in Projects |-> FALSE]
  /\ policy \in [Projects -> Policies]
  /\ process = [r \in Runtimes |-> "unborn"]
  /\ runtimeRow = [r \in Runtimes |-> 0]
  /\ native = [r \in Runtimes |-> None]
  /\ anchor = [p \in Projects |-> [s \in SessionIds |-> NoAnchor]]
  /\ binding = [p \in Projects |-> NoBindings]
  /\ call = [r \in Runtimes |-> IdleCall]

-----------------------------------------------------------------------------
\* Mutant: setup does not wait for calls in flight.
Setup_SharedLease(p) ==
  /\ ~member[p]
  /\ IF revision = 0
     THEN /\ lastRevision < MaxRevision
          /\ lastRevision' = lastRevision + 1
          /\ revision' = lastRevision + 1
     ELSE UNCHANGED <<lastRevision, revision>>
  /\ member' = [member EXCEPT ![p] = TRUE]
  /\ UNCHANGED <<policy, process, runtimeRow, native, anchor, binding, call>>

\* Setup registers the Connection if there is none and adds the project, under
\* the exclusive lease.
Setup(p) ==
  /\ ~SharedLeaseHeld
  /\ ~member[p]
  /\ IF revision = 0
     THEN /\ lastRevision < MaxRevision
          /\ lastRevision' = lastRevision + 1
          /\ revision' = lastRevision + 1
     ELSE UNCHANGED <<lastRevision, revision>>
  /\ member' = [member EXCEPT ![p] = TRUE]
  /\ UNCHANGED <<policy, process, runtimeRow, native, anchor, binding, call>>

\* remove_connection_project: the bindings of the project go with the membership,
\* and with the last membership the Connection and its runtime rows.  Rows in the
\* project's own database stay.
Remove(p) ==
  /\ member[p]
  /\ member' = [member EXCEPT ![p] = FALSE]
  /\ IF \E q \in Projects \ {p} : member[q]
     THEN /\ binding' = [binding EXCEPT ![p] = NoBindings]
          /\ UNCHANGED <<revision, runtimeRow>>
     ELSE /\ binding' = [q \in Projects |-> NoBindings]
          /\ runtimeRow' = [r \in Runtimes |-> 0]
          /\ revision' = 0
  /\ UNCHANGED <<lastRevision, policy, process, native, anchor, call>>

\* transition_connection_mode.
ChangeMode ==
  /\ revision # 0
  /\ lastRevision < MaxRevision
  /\ lastRevision' = lastRevision + 1
  /\ revision' = lastRevision + 1
  /\ UNCHANGED <<member, policy, process, runtimeRow, native, anchor, binding, call>>

\* The policy commands; a project may come back to an earlier policy.
SetPolicy(p, fingerprint) ==
  /\ policy' = [policy EXCEPT ![p] = fingerprint]
  /\ UNCHANGED <<lastRevision, revision, member, process, runtimeRow, native, anchor,
                 binding, call>>

-----------------------------------------------------------------------------
\* A managed launch: the runtime row is inserted with the current revision.
Launch(r) ==
  /\ process[r] = "unborn"
  /\ revision # 0
  /\ process' = [process EXCEPT ![r] = "live"]
  /\ runtimeRow' = [runtimeRow EXCEPT ![r] = revision]
  /\ UNCHANGED <<lastRevision, revision, member, policy, native, anchor, binding, call>>

\* A crash leaves the runtime row, and whatever rows the call had written.
Crash(r) ==
  /\ process[r] = "live"
  /\ process' = [process EXCEPT ![r] = "dead"]
  /\ call' = [call EXCEPT ![r] = IdleCall]
  /\ UNCHANGED <<lastRevision, revision, member, policy, runtimeRow, native, anchor,
                 binding>>

\* bind_codex_managed_tool_call: the first call that finds the Connection fixes the
\* host session and thread for the life of the process, later ones repeat them.
BeginCall(r, p, corr) ==
  /\ process[r] = "live"
  /\ At(r, "idle")
  /\ native[r] = corr \/ (native[r] = None /\ revision # 0)
  /\ native' = [native EXCEPT ![r] = corr]
  /\ call' = [call EXCEPT ![r] = [stage |-> "begun", project |-> p, session |-> None]]
  /\ UNCHANGED <<lastRevision, revision, member, policy, process, runtimeRow, anchor,
                 binding>>

\* A stage that refuses (a conflict, a lost membership) or meets a database error
\* ends the call; nothing written by earlier stages is taken back.
EndCall(r) ==
  /\ ~At(r, "idle")
  /\ call' = [call EXCEPT ![r] = IdleCall]
  /\ UNCHANGED <<OwnerState, ProcessState, anchor, binding>>

\* Stage 0: the runtime is current; the coordinates are derived once, here.
ValidateRuntime(r) ==
  /\ At(r, "begun")
  /\ RuntimeIsCurrent(r)
  /\ member[call[r].project]
  /\ call' = [call EXCEPT ![r] = [stage |-> "validated", project |-> call[r].project,
                                  session |-> Coordinates(call[r].project, native[r].host)]]
  /\ UNCHANGED <<OwnerState, ProcessState, anchor, binding>>

\* open_guard_project: the membership is read before the project transaction
\* begins, not inside it.
OpenProject(r, from, to) ==
  /\ At(r, from)
  /\ member[call[r].project]
  /\ Advance(r, to)
  /\ UNCHANGED <<OwnerState, ProcessState, anchor, binding>>

\* Mutant: the attached runtimes are not looked at.
Anchor_AnyOwner(r) ==
  LET p == call[r].project
      s == call[r].session
  IN  /\ At(r, "anchoring")
      /\ anchor[p][s].thread \in {None, native[r].thread}
      /\ anchor' = SetAnchor(p, s, native[r].thread, anchor[p][s].runtime)
      /\ Advance(r, "anchored")
      /\ UNCHANGED <<OwnerState, ProcessState, binding>>

\* Stage 1, establish_agent_session_anchor.
Anchor(r) ==
  LET p == call[r].project
      s == call[r].session
  IN  /\ At(r, "anchoring")
      /\ \A other \in SessionIds \ {s} : anchor[p][other].runtime # r
      /\ anchor[p][s].thread \in {None, native[r].thread}
      /\ anchor[p][s].runtime \in {None, r}
      /\ anchor' = SetAnchor(p, s, native[r].thread, anchor[p][s].runtime)
      /\ Advance(r, "anchored")
      /\ UNCHANGED <<OwnerState, ProcessState, binding>>

\* Stage 2, reserve_mcp_runtime_project_session: one Registry transaction that
\* revalidates everything and reuses an exact earlier reservation.
Reserve(r) ==
  LET p == call[r].project
      s == call[r].session
  IN  /\ At(r, "anchored")
      /\ RuntimeIsCurrent(r)
      /\ member[p]
      /\ s = Coordinates(p, native[r].host)
      /\ \/ binding[p][s] = r
         \/ /\ binding[p][s] = None
            /\ \A q \in Projects, other \in SessionIds :
                 binding[q][other] = r => other.host # s.host
      /\ binding' = [binding EXCEPT ![p][s] = r]
      /\ Advance(r, "reserved")
      /\ UNCHANGED <<OwnerState, ProcessState, anchor>>

\* Stage 3, attach_agent_session_runtime.  A runtime is attached to at most one
\* session of a project: a partial unique index.
Attach(r) ==
  LET p == call[r].project
      s == call[r].session
  IN  /\ At(r, "attaching")
      /\ anchor[p][s].thread = native[r].thread
      /\ anchor[p][s].runtime \in {None, r}
      /\ \A other \in SessionIds \ {s} : anchor[p][other].runtime # r
      /\ anchor' = SetAnchor(p, s, anchor[p][s].thread, r)
      /\ Advance(r, "attached")
      /\ UNCHANGED <<OwnerState, ProcessState, binding>>

-----------------------------------------------------------------------------
\* validate_agent_session reads the Connection, the runtime row, the anchor and
\* the binding first, and derives the current coordinates last; each read opens
\* its own connection.
CheckBinding(r) ==
  LET p == call[r].project
      s == call[r].session
  IN  /\ At(r, "attached")
      /\ RuntimeIsCurrent(r)
      /\ member[p]
      /\ anchor[p][s].runtime = r
      /\ binding[p][s] = r
      /\ Advance(r, "checked")
      /\ UNCHANGED <<OwnerState, ProcessState, anchor, binding>>

\* agent_session_matches_current_integration, and Core goes on with the method.
CheckCurrent(r) ==
  LET p == call[r].project
  IN  /\ At(r, "checked")
      /\ RuntimeIsCurrent(r)
      /\ member[p]
      /\ call[r].session = Coordinates(p, native[r].host)
      /\ Advance(r, "authorized")
      /\ UNCHANGED <<OwnerState, ProcessState, anchor, binding>>

Next ==
  \/ \E p \in Projects : Setup(p)
  \/ \E p \in Projects : Remove(p)
  \/ ChangeMode
  \/ \E p \in Projects, fingerprint \in Policies : SetPolicy(p, fingerprint)
  \/ \E r \in Runtimes : Launch(r)
  \/ \E r \in Runtimes : Crash(r)
  \/ \E r \in Runtimes, p \in Projects, corr \in Correlations : BeginCall(r, p, corr)
  \/ \E r \in Runtimes : EndCall(r)
  \/ \E r \in Runtimes : ValidateRuntime(r)
  \/ \E r \in Runtimes : OpenProject(r, "validated", "anchoring")
  \/ \E r \in Runtimes : Anchor(r)
  \/ \E r \in Runtimes : Reserve(r)
  \/ \E r \in Runtimes : OpenProject(r, "reserved", "attaching")
  \/ \E r \in Runtimes : Attach(r)
  \/ \E r \in Runtimes : CheckBinding(r)
  \/ \E r \in Runtimes : CheckCurrent(r)

Spec == Init /\ [][Next]_vars

-----------------------------------------------------------------------------
\* A call that has begun has a project and a native correlation, one past stage 0
\* a session.
CallsTyped ==
  /\ call \in [Runtimes -> Calls]
  /\ \A r \in Runtimes :
       /\ call[r].stage # "idle" => call[r].project \in Projects /\ native[r] # None
       /\ call[r].stage \notin {"idle", "begun"} => call[r].session \in SessionIds

\* Type correctness of both databases and of the calls in flight.
TypeOK ==
  /\ lastRevision \in 0..MaxRevision
  /\ revision \in 0..lastRevision
  /\ member \in [Projects -> BOOLEAN]
  /\ policy \in [Projects -> Policies]
  /\ process \in [Runtimes -> {"unborn", "live", "dead"}]
  /\ runtimeRow \in [Runtimes -> 0..MaxRevision]
  /\ native \in [Runtimes -> Correlations \cup {None}]
  /\ anchor \in [Projects -> [SessionIds -> Anchors]]
  /\ binding \in [Projects -> [SessionIds -> Runtimes \cup {None}]]
  /\ CallsTyped

\* The two databases never name different owners of one Agent Session, and an
\* interrupted binding can be finished: whoever holds a reservation in the
\* Registry finds in the project an anchor of its own thread, attached to nobody
\* else, and is itself attached to no other session of the project.  Otherwise
\* neither owner could be authorized, and neither could repair it:
\* reserve_mcp_runtime_project_session and establish_agent_session_anchor would
\* both refuse.
ReplayCompletes ==
  \A p \in Projects, s \in SessionIds, r \in Runtimes :
    binding[p][s] = r =>
      /\ native[r] # None
      /\ anchor[p][s].thread = native[r].thread
      /\ anchor[p][s].runtime \in {None, r}
      /\ \A other \in SessionIds \ {s} : anchor[p][other].runtime # r

\* Core goes on only while the session's binding stands: a removal that lands
\* between the reads of validate_agent_session is noticed by a later read.
AuthorizedIsBound ==
  [][\A r \in Runtimes :
       call'[r].stage = "authorized" /\ call[r].stage # "authorized" =>
         /\ anchor[call[r].project][call[r].session].runtime = r
         /\ binding[call[r].project][call[r].session] = r]_vars

\* An attached session is never rebound: neither its runtime nor its thread ever
\* changes, whatever happens to the Connection or the membership.
NeverRebound ==
  [][\A p \in Projects, s \in SessionIds :
       anchor[p][s].runtime # None => anchor'[p][s] = anchor[p][s]]_vars

=============================================================================
