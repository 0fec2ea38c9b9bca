-------------------------- MODULE EvidenceProvenance --------------------------
(***************************************************************************)
(* What recorded evidence is worth: the observations record_run derives    *)
(* from what a caller claims, the user's own observations of artifacts,    *)
(* the reuse of an earlier observation by a later run, and the close gate, *)
(* which reads all of it again, bytes included.                            *)
(*                                                                         *)
(* One Task.  How bytes become an artifact and how a capture is finalised  *)
(* is in EvidenceCapture; here a run registers an artifact in one step.  A *)
(* run makes at most one observation, which is named by the run; its       *)
(* artifact links are written with it and never deleted.  Change Unit and  *)
(* baseline move with the scope revision.  Expiry of a pending request     *)
(* only takes behaviours away and is left out.                             *)
(***************************************************************************)
EXTENDS Integers, FiniteSets, Sequences

CONSTANTS Agents,       \* connections, one record_run in flight each
          Artifacts,    \* artifact ids
          Actions,      \* evidence_observation user actions
          Targets,      \* acceptance criteria
          Required,     \* those whose evidence_requirement is required
          MaxScope, MaxRuns, MaxDamaged,
          Absent        \* None and SQL NULL

ASSUME ProvenanceAssumption ==
    /\ Required \subseteq Targets /\ Required # {}
    /\ MaxScope \in Nat \ {0} /\ MaxRuns \in Nat /\ MaxDamaged \in Nat

VARIABLES version,    \* project_state.state_version
          scope,      \* tasks.scope_revision
          registered, \* artifacts rows
          damaged,    \* registered artifacts whose bytes no longer verify
          action,     \* user actions of kind evidence_observation
          runs,       \* runs, each with its observation
          basis,      \* tasks.close_basis_json: source run and the summary it names
          plan        \* record_run between planning and commit

provenanceVars == <<version, scope, registered, damaged, action, runs, basis, plan>>

\* Earlier runs, which made no observation, may have registered artifacts.
ProvenanceInit ==
    /\ version = 0 /\ scope = 1
    /\ registered \in SUBSET Artifacts /\ damaged = {}
    /\ action = [q \in Actions |-> Absent]
    /\ runs = <<>> /\ basis = Absent
    /\ plan = [a \in Agents |-> Absent]

-----------------------------------------------------------------------------
(* Artifacts and the user's observations of them *)

\* verify_persistent_artifact_body: the row's bytes are there and are the recorded ones.
VerifiedCurrent(arts) == arts \subseteq registered \ damaged

\* canonical_user_action_artifacts: the candidates' bytes verify now.
RequestObservation(q, arts) ==
    /\ action[q] = Absent
    /\ VerifiedCurrent(arts)
    /\ action' = [action EXCEPT ![q] = [scope |-> scope, arts |-> arts, target |-> Absent,
                                        verdict |-> "pending"]]
    /\ version' = version + 1
    /\ UNCHANGED <<scope, registered, damaged, runs, basis, plan>>

\* construct_user_action_resolution, for a pending request on the current basis: the
\* selected candidates are read again.
ResolveObservation(q, c, arts, verdict) ==
    /\ action[q] # Absent
    /\ action[q].verdict = "pending"
    /\ action[q].scope = scope
    /\ arts \subseteq action[q].arts
    /\ VerifiedCurrent(arts)
    /\ action' = [action EXCEPT ![q] = [scope |-> scope, arts |-> arts, target |-> c,
                                        verdict |-> verdict]]
    /\ version' = version + 1
    /\ UNCHANGED <<scope, registered, damaged, runs, basis, plan>>

-----------------------------------------------------------------------------
(* Provenance of an observation, read again whenever it is used *)

Observation(n) == runs[n].obs

(* Mutant: the artifact rows are read, their bytes are not. *)
ObservationArtifactsCurrent_Rows(n) ==
    Observation(n).arts # {} /\ Observation(n).arts \subseteq registered

\* stored_observation_artifacts_are_current
ObservationArtifactsCurrent(n) ==
    Observation(n).arts # {} /\ VerifiedCurrent(Observation(n).arts)

\* user_action_observation_resolution_authority
UserAuthority(q, c, arts) ==
    /\ action[q] # Absent
    /\ action[q].verdict # "pending"
    /\ action[q].scope = scope
    /\ action[q].target = c
    /\ arts # {} /\ arts = action[q].arts

\* stored_capture_authority_is_current.  Intent, receipt, claim and producer were written
\* with the run or before it and never change; what can go stale is the scope they name.
CaptureAuthority(n) == runs[n].scope = scope

\* stored_evidence_observation_matches_basis
MatchesBasis(n) == runs[n].scope = scope

\* stored_evidence_observation_anchored_assurance: a chain of reuse must lead to a user's
\* resolution or to a capture, every hop on the current basis, for the same target, with
\* the same outputs and supported relevance.
Anchored[n \in DOMAIN runs] ==
    LET o == Observation(n)
    IN  /\ o # Absent
        /\ o.kind # "report"
        /\ MatchesBasis(n)
        /\ ObservationArtifactsCurrent(n)
        /\ o.kind = "capture" => CaptureAuthority(n)
        /\ o.kind = "user" => UserAuthority(o.ref, o.target, o.arts)
        /\ o.kind = "reuse" =>
              /\ Observation(o.ref).target = o.target
              /\ Observation(o.ref).arts = o.arts
              /\ Observation(o.ref).relevance = "supported"
              /\ Anchored[o.ref]

-----------------------------------------------------------------------------
(* record_run: core/src/recording/evidence.rs *)

\* Every claim that no stored record bears out becomes the agent's report, whatever it
\* said of its source, target and outputs.
Report == [kind |-> "report", ref |-> Absent, target |-> Absent, arts |-> {}, relevance |-> "unassessed"]

(* Mutant: the caller's word that a user has observed is kept. *)
DeriveUser_Claimed(q, c, arts) ==
    [kind |-> "user", ref |-> q, target |-> c, arts |-> arts, relevance |-> "supported"]

\* derive_user_observation_authority
DeriveUser(q, c, arts) ==
    IF UserAuthority(q, c, arts) /\ VerifiedCurrent(arts)
    THEN [kind |-> "user", ref |-> q, target |-> c, arts |-> arts, relevance |-> action[q].verdict]
    ELSE Report

\* A capture's receipt is an artifact of this run; an outcome that matches leaves the
\* relevance unassessed, one that does not is contradicted.
DeriveCapture(h, c, matches) ==
    [kind |-> "capture", ref |-> Absent, target |-> c, arts |-> {h},
     relevance |-> IF matches THEN "unassessed" ELSE "contradicted"]

DeriveReuse(m) ==
    [kind |-> "reuse", ref |-> m, target |-> Observation(m).target, arts |-> Observation(m).arts,
     relevance |-> "supported"]

(* Mutant: reuse asks for provenance and not for relevance. *)
Reusable_AnyRelevance(m) == Observation(m) # Absent /\ Anchored[m]

\* validate_evidence_update_observation_refs
Reusable(m) ==
    /\ Observation(m) # Absent
    /\ Anchored[m]
    /\ Observation(m).relevance = "supported"

\* plan_record_run_observation, for a run with artifact input h
Derivable(h) ==
    {Absent, Report}
    \cup {DeriveUser(q, c, arts) : q \in Actions, c \in Targets, arts \in SUBSET registered}
    \cup (IF h = Absent \/ h \in registered THEN {}
          ELSE {DeriveCapture(h, c, matches) : c \in Targets, matches \in BOOLEAN})
    \cup {DeriveReuse(m) : m \in {n \in DOMAIN runs : Reusable(n)}}

\* `cover`: an evidence update marks the observation's target supported; reuse happens in
\* no other way.  `assess`: the request has a close assessment; without one no close basis
\* names the summary, and nothing reads it.
PlanRecordRun(a, h, cover, assess) ==
    /\ plan[a] = Absent
    /\ Len(runs) < MaxRuns
    /\ h # Absent => h \notin damaged
    /\ \E obs \in Derivable(h) :
          /\ cover => obs # Absent
          /\ obs # Absent => (obs.kind = "reuse" => cover)
          /\ plan' = [plan EXCEPT ![a] = [version |-> version, input |-> h, obs |-> obs,
                                          close |-> IF assess THEN cover ELSE Absent]]
    /\ UNCHANGED <<version, scope, registered, damaged, action, runs, basis>>

Input(k) == IF k.input = Absent THEN {} ELSE {k.input}

\* build_record_run_close_basis and the summary it names, for run n
CloseBasis(k, n) ==
    IF k.close = Absent THEN Absent ELSE [run |-> n, cover |-> k.close, support |-> Input(k)]

\* One transaction on the planned version: artifact, observation, summary and close basis.
CommitRecordRun(a) ==
    LET k == plan[a]
    IN  /\ k # Absent
        /\ k.version = version
        /\ registered' = registered \cup Input(k)
        /\ runs' = Append(runs, [scope |-> scope, obs |-> k.obs])
        /\ basis' = CloseBasis(k, Len(runs) + 1)
        /\ version' = version + 1
        /\ plan' = [plan EXCEPT ![a] = Absent]
        /\ UNCHANGED <<scope, damaged, action>>

RejectRecordRun(a) ==
    /\ plan[a] # Absent
    /\ plan[a].version # version
    /\ plan' = [plan EXCEPT ![a] = Absent]
    /\ UNCHANGED <<version, scope, registered, damaged, action, runs, basis>>

-----------------------------------------------------------------------------
(* The rest of the world *)

\* update_scope withdraws the close basis; pending requests lose theirs with the scope.
UpdateScope ==
    /\ scope < MaxScope
    /\ scope' = scope + 1
    /\ basis' = Absent
    /\ version' = version + 1
    /\ UNCHANGED <<registered, damaged, action, runs, plan>>

\* Something other than the program deletes or changes a file of the artifact store.
LoseBody(h) ==
    /\ h \in registered \ damaged
    /\ Cardinality(damaged) < MaxDamaged
    /\ damaged' = damaged \cup {h}
    /\ UNCHANGED <<version, scope, registered, action, runs, basis, plan>>

ProvenanceNext ==
    \/ \E q \in Actions, arts \in SUBSET Artifacts : RequestObservation(q, arts)
    \/ \E q \in Actions, c \in Targets, arts \in SUBSET Artifacts,
          verdict \in {"supported", "contradicted"} : ResolveObservation(q, c, arts, verdict)
    \/ \E a \in Agents, h \in Artifacts \cup {Absent}, cover, assess \in BOOLEAN :
          PlanRecordRun(a, h, cover, assess)
    \/ \E a \in Agents : CommitRecordRun(a) \/ RejectRecordRun(a)
    \/ UpdateScope
    \/ \E h \in Artifacts : LoseBody(h)

ProvenanceSpec == ProvenanceInit /\ [][ProvenanceNext]_provenanceVars

-----------------------------------------------------------------------------
(* The close gate: core/src/close_readiness/evidence.rs *)

\* capture_relevance_is_unsupported: relevance is asked of a capture only.
RelevanceUnsupported(o) == o.kind = "capture" /\ o.relevance # "supported"

\* close_evidence_issue_for_item: the observation is of the basis run and for criterion c.
StrongSupported(c, n) ==
    LET o == Observation(n)
    IN  /\ o.target = c
        /\ ~RelevanceUnsupported(o)
        /\ Anchored[n]

\* project_close_evidence_summary: support counts only from a run of the current scope, and
\* while the bytes it names verify.
SummarySupports ==
    /\ basis.cover
    /\ runs[basis.run].scope = scope
    /\ VerifiedCurrent(basis.support)

\* evaluate_evidence_gate says sufficient, on the summary the close basis names.
GateSufficient ==
    /\ basis # Absent
    /\ SummarySupports
    /\ \A c \in Required : StrongSupported(c, basis.run)

-----------------------------------------------------------------------------
(* Properties *)

Maybe(S) == S \cup {Absent}

Observations(n) ==
    [kind : {"report", "user", "capture", "reuse"}, ref : Maybe(Actions \cup 1 .. n - 1),
     target : Maybe(Targets), arts : SUBSET Artifacts,
     relevance : {"unassessed", "supported", "contradicted"}]

\* Rows are well formed: an observation reuses an earlier run only, no run is of a scope
\* the Task has not reached, and a close basis is always that of the latest run.
ProvenanceTypeOK ==
    /\ version \in Nat /\ scope \in 1 .. MaxScope
    /\ damaged \subseteq registered /\ registered \subseteq Artifacts
    /\ \A n \in DOMAIN runs :
          /\ runs[n].scope <= scope
          /\ Observation(n) \in Maybe(Observations(n))
    /\ basis \in Maybe([run : {Len(runs)}, cover : BOOLEAN, support : SUBSET registered])

\* The observation that a chain of reuse starts from.
Root[n \in DOMAIN runs] ==
    IF Observation(n) # Absent /\ Observation(n).kind = "reuse"
    THEN Root[Observation(n).ref] ELSE n

\* Reuse never makes evidence better than it was: the chain of a reused observation starts
\* with a user's `supported` resolution of the same scope, target and artifacts, however
\* many runs pass it on (core/src/recording/evidence.rs).
ReuseGrounded ==
    \A n \in DOMAIN runs :
        Observation(n) # Absent /\ Observation(n).kind = "reuse" =>
            LET first == Observation(Root[n])
            IN  /\ first.kind = "user"
                /\ action[first.ref].verdict = "supported"
                /\ action[first.ref].scope = runs[n].scope
                /\ action[first.ref].target = Observation(n).target
                /\ action[first.ref].arts = Observation(n).arts

\* The close gate calls evidence sufficient only for the latest run, and only where a local
\* user looked at exactly these artifacts for exactly this criterion in the current scope
\* and their bytes are still those: agent reports and captures never reach it, whatever
\* was planned, damaged or rescoped in between (core/src/close_readiness/evidence.rs).
GateSound ==
    GateSufficient =>
        LET o == Observation(basis.run)
            first == Observation(Root[basis.run])
            q == action[first.ref]
        IN  /\ basis.run = Len(runs)
            /\ first.kind = "user"
            /\ q.scope = scope /\ Required = {q.target}
            /\ q.arts = o.arts /\ o.arts # {}
            /\ VerifiedCurrent(o.arts)

\* Evidence becomes sufficient only by recording a run: no later word of the user lends
\* authority to an observation that was recorded without it.
GateOpensByRun ==
    [][~GateSufficient /\ GateSufficient' => Len(runs') = Len(runs) + 1]_provenanceVars

\* Does not hold (EvidenceContradicted.cfg). What docs/en/reference/api/method-record-run.md
\* says of a contradicted observation: it "cannot establish supported coverage or evidence
\* sufficiency"; the Run that records it is not asked for supported relevance.
ContradictionNotSufficient ==
    GateSufficient => Observation(basis.run).relevance = "supported"

=============================================================================
