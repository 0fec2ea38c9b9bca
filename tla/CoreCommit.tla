------------------------------ MODULE CoreCommit ------------------------------
(***************************************************************************)
(* The Core request pipeline over one project-state database.              *)
(*                                                                         *)
(* A caller's request is prepared outside any transaction (header read,    *)
(* replay preflight, freshness check, clock sample, planning) and then     *)
(* committed in one immediate SQLite transaction.  Several processes, each *)
(* with its own Store handle, interleave between those steps.  Three other *)
(* writers share the database: artifact staging, which only moves the UTC  *)
(* clock floor, the administrative policy apply, which commits without a   *)
(* replay key, and the policy observation that precedes it.                *)
(*                                                                         *)
(*   prepare_request, execute_prepared_request   volicord-core pipeline.rs *)
(*   commit_with                        volicord-store core_pipeline/commit *)
(*   current_timestamp, advance_project_utc_floor_tx           .../clock.rs *)
(*   matches_verified_replay_context                          .../replay.rs *)
(*   apply_project_workflow_policy_authority_inner      workflow_records.rs *)
(***************************************************************************)
EXTENDS Integers, Sequences, FiniteSets

CONSTANTS Handles,          \* processes holding a Store handle
          Keys,             \* (tool_name, idempotency_key) pairs
          Bodies,           \* request contents apart from the envelope version
          Contexts,         \* verified replay contexts (actor, category, basis, git)
          Policies,         \* workflow-policy fingerprints
          MaxStateVersion,  \* the largest state_version SQLite can hold (i64::MAX)
          MaxTime,          \* largest instant of the model
          None

ASSUME CoreCommitAssumption ==
  /\ MaxStateVersion \in Nat
  /\ MaxTime \in Nat
  /\ None \notin Keys \cup Contexts \cup Policies \cup Int
  /\ "policy_apply" \notin Keys

VARIABLES
  stateVersion,     \* project_state.state_version
  clockFloor,       \* project_state.updated_at
  authorityEvents,  \* authority_events in event_seq order
  toolInvocations,  \* replay rows by key
  policy,           \* project_workflow_policies: version 0 while there is no row
  wallClock,        \* what the machine's clock shows; it may be set back
  pc,               \* per handle: the next step of its request
  req,              \* per handle: the request it serves
  seenVersion,      \* per handle: state_version of the header it read
  lastSample,       \* per handle: last_clock_sample, 0 before the first
  planVersion,      \* per handle: state_version at which planning read the owner rows
  reply             \* per handle: the answer it produced

dbVars == <<stateVersion, clockFloor, authorityEvents, toolInvocations, policy>>
handleVars == <<pc, req, seenVersion, lastSample, planVersion, reply>>
vars == <<dbVars, wallClock, handleVars>>

Versions == 0..MaxStateVersion
Times == 0..MaxTime

Max2(a, b) == IF a >= b THEN a ELSE b

(***************************************************************************)
(* A request.  The request hash covers the whole request, its              *)
(* expected_state_version included; expected = None is the request of a    *)
(* method whose policy pins the current state (current_state_default).     *)
(***************************************************************************)
ToolRequest == [kind : {"tool"}, key : Keys, body : Bodies,
                expected : Versions \cup {None}, ctx : Contexts]

StageRequest == [kind : {"stage"}, expected : Versions \cup {None}]

PolicyRequest == [kind : {"policy"}, next : Policies, prior : Policies \cup {None},
                  version : 1..MaxStateVersion]

NoRequest == [kind |-> "none"]

RequestHash(r) == <<r.body, r.expected>>

(***************************************************************************)
(* A replay row and the answers a request can get.  The stored response    *)
(* is identified by the versions it reports.                               *)
(***************************************************************************)
Row == [hash : Bodies \X (Versions \cup {None}), ctx : Contexts,
        basis : Versions, committed : Versions]

ASSUME NoneIsNoRow == None \notin Row

Success == [kind : {"committed", "replayed"}, basis : Versions, committed : Versions]

Refusal == [kind : {"none", "context_mismatch", "idempotency_conflict", "stale",
                    "rejected", "failed", "staged", "policy_applied", "policy_same"}]

Refuse(kind) == [kind |-> kind]

(* replay_preflight_response, and the same three tests inside the commit   *)
(* transaction: the context is compared before the request hash.           *)
ReplayVerdict(row, r) ==
  IF row.ctx # r.ctx THEN Refuse("context_mismatch")
  ELSE IF row.hash = RequestHash(r)
    THEN [kind |-> "replayed", basis |-> row.basis, committed |-> row.committed]
    ELSE Refuse("idempotency_conflict")

(* An authority event: the version it belongs to, its instant, the replay  *)
(* key of the request, and the version its plan had been computed from.    *)
Event == [version : Versions, at : Times, key : Keys \cup {"policy_apply"},
          planned : Versions]

-----------------------------------------------------------------------------

Init ==
  /\ stateVersion = 0
  /\ clockFloor = 0
  /\ authorityEvents = <<>>
  /\ toolInvocations = [k \in Keys |-> None]
  /\ policy = [version |-> 0, fingerprint |-> None]
  /\ wallClock = 0
  /\ pc = [h \in Handles |-> "idle"]
  /\ req = [h \in Handles |-> NoRequest]
  /\ seenVersion = [h \in Handles |-> 0]
  /\ lastSample = [h \in Handles |-> 0]
  /\ planVersion = [h \in Handles |-> 0]
  /\ reply = [h \in Handles |-> Refuse("none")]

Goto(h, label) == pc' = [pc EXCEPT ![h] = label]

Answer(h, r) == Goto(h, "done") /\ reply' = [reply EXCEPT ![h] = r]

(* The clock floor a handle works with: current_timestamp takes the largest *)
(* of SQLite's clock, the persisted floor and the handle's last sample.     *)
CurrentTimestamp(h) == Max2(wallClock, Max2(clockFloor, lastSample[h]))

-----------------------------------------------------------------------------
(* The pipeline of one request *)

(* open_store_for_policy and store.project_state(): a fresh handle reads   *)
(* the header.  A version a caller names is one the project has had.       *)
Open(h, r) ==
  /\ pc[h] = "idle"
  /\ r.expected # None => r.expected <= stateVersion
  /\ Goto(h, IF r.kind = "tool" THEN "replay_preflight" ELSE "freshness")
  /\ req' = [req EXCEPT ![h] = r]
  /\ seenVersion' = [seenVersion EXCEPT ![h] = stateVersion]
  /\ UNCHANGED <<dbVars, wallClock, lastSample, planVersion, reply>>

ReplayPreflight(h) ==
  /\ pc[h] = "replay_preflight"
  /\ IF toolInvocations[req[h].key] = None
       THEN Goto(h, "freshness") /\ UNCHANGED reply
       ELSE Answer(h, ReplayVerdict(toolInvocations[req[h].key], req[h]))
  /\ UNCHANGED <<dbVars, wallClock, req, seenVersion, lastSample, planVersion>>

(* freshness_preflight_response against the header read at Open. *)
FreshnessStale(h) ==
  /\ pc[h] = "freshness"
  /\ req[h].expected \notin {None, seenVersion[h]}
  /\ Answer(h, Refuse("stale"))
  /\ UNCHANGED <<dbVars, wallClock, req, seenVersion, lastSample, planVersion>>

(* The envelope is fresh, or is pinned to the version just read, and the    *)
(* operation's instant is sampled.                                          *)
SampleClock(h) ==
  /\ pc[h] = "freshness"
  /\ req[h].expected \in {None, seenVersion[h]}
  /\ lastSample' = [lastSample EXCEPT ![h] = CurrentTimestamp(h)]
  /\ Goto(h, "plan")
  /\ UNCHANGED <<dbVars, wallClock, req, seenVersion, planVersion, reply>>

(* Admission and method planning read the owner rows, some time after the  *)
(* header; the plan is a mutation, or a result or rejection without effect. *)
Plan(h) ==
  /\ pc[h] = "plan"
  /\ req[h].kind = "tool"
  /\ planVersion' = [planVersion EXCEPT ![h] = stateVersion]
  /\ \/ Goto(h, "commit") /\ UNCHANGED reply
     \/ Answer(h, Refuse("rejected"))
  /\ UNCHANGED <<dbVars, wallClock, req, seenVersion, lastSample>>

(* Mutant: the sample overwrites the floor. *)
StageArtifact_Overwrites(h) ==
  /\ pc[h] = "plan"
  /\ req[h].kind = "stage"
  /\ clockFloor' = lastSample[h]
  /\ Answer(h, Refuse("staged"))
  /\ UNCHANGED <<stateVersion, authorityEvents, toolInvocations, policy, wallClock,
                 req, seenVersion, lastSample, planVersion>>

(* create_artifact_staging: the floor moves, and nothing else. *)
StageArtifact(h) ==
  /\ pc[h] = "plan"
  /\ req[h].kind = "stage"
  /\ clockFloor' = Max2(clockFloor, lastSample[h])
  /\ lastSample' = [lastSample EXCEPT ![h] = Max2(clockFloor, lastSample[h])]
  /\ Answer(h, Refuse("staged"))
  /\ UNCHANGED <<stateVersion, authorityEvents, toolInvocations, policy, wallClock,
                 req, seenVersion, planVersion>>

(* Mutant: a request without a version is compared with the current one. *)
PinnedVersion_Unpinned(h) == IF req[h].expected = None THEN stateVersion ELSE req[h].expected

(* The version the transaction compares with: the caller's, or the pinned. *)
PinnedVersion(h) == IF req[h].expected = None THEN seenVersion[h] ELSE req[h].expected

(* The effect of a successful commit transaction. *)
AppendAuthority(h, key, planned) ==
  /\ stateVersion' = stateVersion + 1
  /\ clockFloor' = CurrentTimestamp(h)
  /\ lastSample' = [lastSample EXCEPT ![h] = CurrentTimestamp(h)]
  /\ authorityEvents' = Append(authorityEvents,
       [version |-> stateVersion + 1, at |-> CurrentTimestamp(h),
        key |-> key, planned |-> planned])

(* Mutant: a row found inside the transaction is always a conflict. *)
CommitReplayed_Conflicts(h) ==
  /\ toolInvocations[req[h].key] # None
  /\ Answer(h, Refuse("idempotency_conflict"))
  /\ UNCHANGED <<dbVars, lastSample>>

(* commit_with, one alternative per outcome of the immediate transaction:   *)
(* the replay row is looked up again, then the version compared, then the   *)
(* next version allocated; any failure rolls everything back.               *)
CommitReplayed(h) ==
  /\ toolInvocations[req[h].key] # None
  /\ Answer(h, ReplayVerdict(toolInvocations[req[h].key], req[h]))
  /\ UNCHANGED <<dbVars, lastSample>>

(* Mutant: only a version from the future is refused. *)
CommitStale_FutureOnly(h) ==
  /\ toolInvocations[req[h].key] = None
  /\ PinnedVersion(h) > stateVersion
  /\ Answer(h, Refuse("stale"))
  /\ UNCHANGED <<dbVars, lastSample>>

CommitStale(h) ==
  /\ toolInvocations[req[h].key] = None
  /\ PinnedVersion(h) # stateVersion
  /\ Answer(h, Refuse("stale"))
  /\ UNCHANGED <<dbVars, lastSample>>

CommitApplied(h) ==
  /\ toolInvocations[req[h].key] = None
  /\ PinnedVersion(h) = stateVersion
  /\ stateVersion < MaxStateVersion
  /\ AppendAuthority(h, req[h].key, planVersion[h])
  /\ toolInvocations' = [toolInvocations EXCEPT ![req[h].key] =
       [hash |-> RequestHash(req[h]), ctx |-> req[h].ctx,
        basis |-> stateVersion, committed |-> stateVersion + 1]]
  /\ Answer(h, [kind |-> "committed", basis |-> stateVersion,
                committed |-> stateVersion + 1])
  /\ UNCHANGED policy

(* The version is exhausted, or a mutation or the result-state check failed. *)
CommitFailed(h) ==
  /\ toolInvocations[req[h].key] = None
  /\ PinnedVersion(h) = stateVersion
  /\ Answer(h, Refuse("failed"))
  /\ UNCHANGED <<dbVars, lastSample>>

Commit(h) ==
  /\ pc[h] = "commit"
  /\ \/ CommitReplayed(h)
     \/ CommitStale(h)
     \/ CommitApplied(h)
     \/ CommitFailed(h)
  /\ UNCHANGED <<wallClock, req, seenVersion, planVersion>>

-----------------------------------------------------------------------------
(* The administrative policy apply *)

(* validate_policy_replacement_basis: the prior fingerprint is the current   *)
(* one and the new version is exactly the next.                             *)
ReplacementBasisHolds(r) ==
  /\ policy.fingerprint = r.prior
  /\ r.version = policy.version + 1

(* workflow_policy_apply_observation: one transaction of its own, then the  *)
(* exact-fingerprint no-op or the check of the replacement basis.           *)
ObservePolicy(h, r) ==
  /\ pc[h] = "idle"
  /\ req' = [req EXCEPT ![h] = r]
  /\ \/ /\ policy.fingerprint = r.next
        /\ Answer(h, Refuse("policy_same"))
     \/ /\ policy.fingerprint # r.next
        /\ ~ReplacementBasisHolds(r)
        /\ Answer(h, Refuse("failed"))
     \/ /\ policy.fingerprint # r.next
        /\ ReplacementBasisHolds(r)
        /\ Goto(h, "policy_commit")
        /\ UNCHANGED reply
  /\ UNCHANGED <<dbVars, wallClock, seenVersion, lastSample, planVersion>>

(* Mutant: the transaction trusts the earlier observation. *)
PolicyApplied_NoRecheck(h) ==
  /\ stateVersion < MaxStateVersion
  /\ AppendAuthority(h, "policy_apply", stateVersion)
  /\ policy' = [version |-> req[h].version, fingerprint |-> req[h].next]
  /\ Answer(h, Refuse("policy_applied"))
  /\ UNCHANGED toolInvocations

PolicyApplied(h) ==
  /\ ReplacementBasisHolds(req[h])
  /\ stateVersion < MaxStateVersion
  /\ AppendAuthority(h, "policy_apply", stateVersion)
  /\ policy' = [version |-> req[h].version, fingerprint |-> req[h].next]
  /\ Answer(h, Refuse("policy_applied"))
  /\ UNCHANGED toolInvocations

PolicyFailed(h) ==
  /\ ~ReplacementBasisHolds(req[h]) \/ stateVersion = MaxStateVersion
  /\ Answer(h, Refuse("failed"))
  /\ UNCHANGED <<dbVars, lastSample>>

(* The commit carries no expected version; the mutation checks the          *)
(* replacement basis again inside the transaction.                          *)
CommitPolicy(h) ==
  /\ pc[h] = "policy_commit"
  /\ PolicyApplied(h) \/ PolicyFailed(h)
  /\ UNCHANGED <<wallClock, req, seenVersion, planVersion>>

-----------------------------------------------------------------------------
(* The environment *)

(* The handle is closed and what it remembered is gone. *)
Close(h) ==
  /\ Goto(h, "idle")
  /\ req' = [req EXCEPT ![h] = NoRequest]
  /\ seenVersion' = [seenVersion EXCEPT ![h] = 0]
  /\ lastSample' = [lastSample EXCEPT ![h] = 0]
  /\ planVersion' = [planVersion EXCEPT ![h] = 0]
  /\ reply' = [reply EXCEPT ![h] = Refuse("none")]
  /\ UNCHANGED <<dbVars, wallClock>>

(* The response reaches the caller. *)
Deliver(h) == pc[h] = "done" /\ Close(h)

(* The process dies between two of its steps: an open transaction rolls     *)
(* back, a committed one stays, and a response not yet delivered is lost.   *)
Crash(h) == pc[h] # "idle" /\ Close(h)

SetWallClock(t) ==
  /\ wallClock' = t
  /\ UNCHANGED <<dbVars, handleVars>>

Step(h) ==
  \/ ReplayPreflight(h)
  \/ FreshnessStale(h)
  \/ SampleClock(h)
  \/ Plan(h)
  \/ StageArtifact(h)
  \/ Commit(h)
  \/ CommitPolicy(h)

Next ==
  \/ \E h \in Handles :
       \/ Step(h)
       \/ \E r \in ToolRequest \cup StageRequest : Open(h, r)
       \/ \E r \in PolicyRequest : ObservePolicy(h, r)
       \/ Deliver(h)
       \/ Crash(h)
  \/ \E t \in Times : SetWallClock(t)

Spec == Init /\ [][Next]_vars

(* A process that is scheduled runs its request to an answer. *)
FairSpec == Spec /\ \A h \in Handles : WF_vars(Step(h))

-----------------------------------------------------------------------------
(* Properties *)

Labels == {"idle", "replay_preflight", "freshness", "plan", "commit",
           "policy_commit", "done"}

(* The types of the durable rows, the clock and what each process remembers. *)
TypeOK ==
  /\ stateVersion \in Versions
  /\ clockFloor \in Times
  /\ authorityEvents \in Seq(Event)
  /\ toolInvocations \in [Keys -> Row \cup {None}]
  /\ policy \in [version : Versions, fingerprint : Policies \cup {None}]
  /\ wallClock \in Times
  /\ pc \in [Handles -> Labels]
  /\ req \in [Handles -> ToolRequest \cup StageRequest \cup PolicyRequest \cup {NoRequest}]
  /\ seenVersion \in [Handles -> Versions]
  /\ lastSample \in [Handles -> Times]
  /\ planVersion \in [Handles -> Versions]
  /\ reply \in [Handles -> Success \cup Refusal]

(* The authority log and the version counter advance together: the i-th    *)
(* event of the project is the one that produced state_version i.          *)
LedgerMatchesVersion ==
  /\ stateVersion = Len(authorityEvents)
  /\ \A i \in 1..Len(authorityEvents) : authorityEvents[i].version = i

(* An idempotency key takes effect at most once, however often and by      *)
(* however many processes the request is repeated: an event of a key is    *)
(* the one its replay row reports.                                         *)
OneCommitPerKey ==
  \A i \in 1..Len(authorityEvents) : authorityEvents[i].key \in Keys =>
    /\ toolInvocations[authorityEvents[i].key] # None
    /\ toolInvocations[authorityEvents[i].key].committed = i

(* A replay row reports a commit that really happened, on the basis it     *)
(* names (the row and the event are written by one transaction).           *)
ReplayRowsAreCommits ==
  \A k \in Keys : toolInvocations[k] # None =>
    LET row == toolInvocations[k] IN
    /\ row.committed \in 1..Len(authorityEvents)
    /\ authorityEvents[row.committed].key = k
    /\ row.basis = row.committed - 1

(* No lost update: a plan that commits was computed from exactly the       *)
(* state it replaces, although planning reads outside the transaction.     *)
PlannedOnBasis ==
  \A i \in 1..Len(authorityEvents) : authorityEvents[i].planned = i - 1

(* The instants of the log never run backwards, even when the machine's    *)
(* clock is set back between two processes' commits.                       *)
EventTimesOrdered ==
  \A i \in 1..Len(authorityEvents) :
    /\ authorityEvents[i].at <= clockFloor
    /\ \A j \in 1..i : authorityEvents[j].at <= authorityEvents[i].at

(* Every applied policy counts once: two administrators who observed the   *)
(* same policy never both replace it.                                      *)
PolicyVersionsCounted ==
  policy.version = Cardinality({i \in 1..Len(authorityEvents) :
                                 authorityEvents[i].key = "policy_apply"})

(* A request that was opened is answered unless its process dies.          *)
EveryRequestAnswered ==
  \A h \in Handles : pc[h] \notin {"idle", "done"} ~> pc[h] \in {"idle", "done"}

=============================================================================
