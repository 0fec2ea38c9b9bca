--------------------------- MODULE EvidenceCapture ---------------------------
(***************************************************************************)
(* From bytes to a finalised producer: staging of artifacts, capture       *)
(* intents, the capture command that fulfils an intent with a receipt, its *)
(* staged bytes and an exclusive claim on the observed source, and the     *)
(* part of record_run that promotes staged bytes and finalises producers.  *)
(* What a recorded observation is then worth is in EvidenceProvenance.     *)
(*                                                                         *)
(* One Task.  An artifact keeps the name of the staging handle it was      *)
(* promoted from: the promoted body stays in the same file.  Change Unit,  *)
(* baseline, workspace and target of an intent move with the scope here.   *)
(***************************************************************************)
EXTENDS Integers, FiniteSets, Sequences

CONSTANTS Agents,       \* registered connections, one record_run in flight each
          Captures,     \* processes of the evidence capture command
          Intents,      \* capture intent ids
          Handles,      \* staging handle ids
          ToolCalls,    \* host tool invocations seen by the guard
          IntentTtl,    \* 15 minutes
          StagingTtl,   \* 24 hours
          MaxTime,      \* the clock's bound; rows are made only if they expire by then
          MaxScope, MaxRuns, MaxLost,
          None

ASSUME CaptureAssumption ==
    /\ IntentTtl \in Nat \ {0} /\ StagingTtl \in Nat /\ IntentTtl <= StagingTtl
    /\ MaxTime \in Nat /\ MaxScope \in Nat \ {0} /\ MaxRuns \in Nat /\ MaxLost \in Nat

VARIABLES now,        \* the project clock
          version,    \* project_state.state_version
          scope,      \* tasks.scope_revision
          intent,     \* evidence_capture_intents
          receipt,    \* evidence_capture_receipts, by intent
          claim,      \* evidence_capture_source_claims, by source
          staging,    \* artifact_staging
          body,       \* the file of a handle under artifacts/tmp
          artifact,   \* artifacts, by source staging handle
          producer,   \* evidence_producers, by intent: the recording run
          runs,       \* the scope of each recorded run
          plan,       \* record_run between planning and commit
          capture,    \* the capture command between observation and persistence
          lost        \* handles whose body something outside the program damaged

vars == <<now, version, scope, intent, receipt, claim, staging, body, artifact, producer,
          runs, plan, capture, lost>>

rows == <<intent, receipt, claim, staging, body, artifact, producer>>

Sources == Intents \cup ToolCalls

Times == 0 .. MaxTime

Maybe(S) == S \cup {None}

IntentRows == [by : Agents, kind : {"command", "tool"}, scope : 1 .. MaxScope,
               created : Times, expires : Times]

Receipts == [handle : Handles, source : Sources]

StagingRows == [status : {"staged", "consumed"}, by : Agents, expires : Times]

ArtifactRows == [run : Nat, by : Agents, at : Times]

Plans == [version : Nat, input : Maybe(Handles), intent : Maybe(Intents)]

Observed == [intent : Intents, source : Sources, observed : Times]

ASSUME NoneIsNoRow ==
    /\ None \notin Nat /\ None \notin Intents /\ None \notin Handles
    /\ None \notin IntentRows /\ None \notin Receipts /\ None \notin StagingRows
    /\ None \notin ArtifactRows /\ None \notin Plans /\ None \notin Observed

Init ==
    /\ now = 0 /\ version = 0 /\ scope = 1
    /\ intent = [i \in Intents |-> None]
    /\ receipt = [i \in Intents |-> None]
    /\ claim = [s \in Sources |-> None]
    /\ staging = [h \in Handles |-> None]
    /\ body = [h \in Handles |-> "absent"]
    /\ artifact = [h \in Handles |-> None]
    /\ producer = [i \in Intents |-> None]
    /\ runs = <<>>
    /\ plan = [a \in Agents |-> None]
    /\ capture = [p \in Captures |-> None]
    /\ lost = {}

-----------------------------------------------------------------------------
(* Staging: store/src/artifacts.rs *)

NewHandle(h) == staging[h] = None /\ body[h] = "absent"

StagedRow(a, expires) == [status |-> "staged", by |-> a, expires |-> expires]

\* The store writes the file and inserts the row in one immediate transaction.
\* `outcome`: committed, failed (the error path removes the file), or the process died
\* before the commit and left the file behind.
StageBody(h, row, outcome) ==
    /\ NewHandle(h)
    /\ staging' = IF outcome = "committed" THEN [staging EXCEPT ![h] = row] ELSE staging
    /\ body' = IF outcome = "failed" THEN body ELSE [body EXCEPT ![h] = "intact"]

StageArtifact(a, h, outcome) ==
    /\ now + StagingTtl <= MaxTime
    /\ StageBody(h, StagedRow(a, now + StagingTtl), outcome)
    /\ UNCHANGED <<now, version, scope, intent, receipt, claim, artifact, producer, runs,
                   plan, capture, lost>>

\* verify_staged_artifact_body and verify_persistent_artifact_body read the bytes again.
Verified(h) == body[h] = "intact"

-----------------------------------------------------------------------------
(* Capture intents and the capture command *)

\* insert_evidence_capture_intent
IntentRow(a, kind) ==
    [by |-> a, kind |-> kind, scope |-> scope, created |-> now, expires |-> now + IntentTtl]

PrepareEvidenceCapture(a, i, kind) ==
    /\ intent[i] = None
    /\ now + IntentTtl <= MaxTime
    /\ intent' = [intent EXCEPT ![i] = IntentRow(a, kind)]
    /\ version' = version + 1
    /\ UNCHANGED <<now, scope, receipt, claim, staging, body, artifact, producer, runs,
                   plan, capture, lost>>

InWindow(i, t) == intent[i].created <= t /\ t < intent[i].expires

\* validate_current_basis
OnCurrentBasis(i) == intent[i].scope = scope

\* load_and_validate_intent: neither fulfilled nor consumed, on the current basis, in time.
Open(i) ==
    /\ intent[i] # None
    /\ receipt[i] = None /\ producer[i] = None
    /\ OnCurrentBasis(i)
    /\ InWindow(i, now)

\* fulfill_command, fulfill_tool: a command's invocation id names its intent; the stored
\* guard events of a tool call may be offered to any intent.
SourcesFor(i) == IF intent[i].kind = "command" THEN {i} ELSE ToolCalls

\* run_evidence_command, up to the observed facts
CaptureObserve(p, i, s) ==
    /\ capture[p] = None
    /\ Open(i)
    /\ s \in SourcesFor(i)
    /\ capture' = [capture EXCEPT ![p] = [intent |-> i, source |-> s, observed |-> now]]
    /\ UNCHANGED <<now, version, scope, rows, runs, plan, lost>>

(* Mutant: the claim has no key of its own. *)
Fulfillable_NoClaim(k) == InWindow(k.intent, now) /\ receipt[k.intent] = None

\* fulfill_evidence_capture_source: the receipt's times, then the staging row, the receipt
\* (one per intent) and the claim (one per source) in one transaction.
Fulfillable(k) ==
    /\ InWindow(k.intent, k.observed) /\ InWindow(k.intent, now)
    /\ receipt[k.intent] = None
    /\ claim[k.source] = None

CapturePersist(p, h, outcome) ==
    LET k == capture[p]
        done == outcome = "committed" /\ Fulfillable(k)
    IN  /\ k # None
        /\ StageBody(h, StagedRow(intent[k.intent].by, intent[k.intent].expires),
                     IF outcome = "committed" /\ ~Fulfillable(k) THEN "failed" ELSE outcome)
        /\ receipt' = IF ~done THEN receipt
                      ELSE [receipt EXCEPT ![k.intent] = [handle |-> h, source |-> k.source]]
        /\ claim' = IF ~done THEN claim ELSE [claim EXCEPT ![k.source] = k.intent]
        /\ capture' = [capture EXCEPT ![p] = None]
        /\ UNCHANGED <<now, version, scope, intent, artifact, producer, runs, plan, lost>>

-----------------------------------------------------------------------------
(* record_run: core/src/recording, store/src/core_pipeline *)

\* validate_staged_artifact_record and the read of the staged bytes
StagedFor(a, h) ==
    /\ staging[h] # None
    /\ staging[h].status = "staged"
    /\ staging[h].by = a
    /\ now < staging[h].expires
    /\ Verified(h)

\* An artifact input names a staged handle, or an artifact that is already registered.
ArtifactInput(a, h) == h # None => StagedFor(a, h) \/ (artifact[h] # None /\ Verified(h))

(* Mutant: the intent's scope is not read again. *)
IntentCurrent_AnyScope(a, i) == intent[i].by = a

\* validate_capture_intent_current
IntentCurrent(a, i) == intent[i].by = a /\ intent[i].scope = scope

\* validate_evidence_capture_source_claims_for_receipt
HoldsItsClaim(i) == claim[receipt[i].source] = i

\* plan_record_run_capture_authority
CaptureReady(a, i) ==
    /\ intent[i] # None /\ receipt[i] # None /\ producer[i] = None
    /\ IntentCurrent(a, i)
    /\ HoldsItsClaim(i)
    /\ now < intent[i].expires
    /\ StagedFor(a, receipt[i].handle)

\* One artifact input and one capture at most, planned from rows read before the commit.
PlanRecordRun(a, h, i) ==
    /\ plan[a] = None
    /\ Len(runs) < MaxRuns
    /\ h # None \/ i # None
    /\ ArtifactInput(a, h)
    /\ i # None => CaptureReady(a, i)
    /\ plan' = [plan EXCEPT ![a] = [version |-> version, input |-> h, intent |-> i]]
    /\ UNCHANGED <<now, version, scope, rows, runs, capture, lost>>

\* The handles the planned mutations promote.
Promotions(k) ==
    {h \in Handles : \/ h = k.input /\ artifact[h] = None
                     \/ k.intent # None /\ h = receipt[k.intent].handle}

\* The mutations apply in one transaction on the planned version; promote_staged_artifact
\* reads row, time and bytes again.  A handle named twice is no longer staged the second
\* time.  Any failure undoes everything.
Applicable(a, k) ==
    /\ k.version = version
    /\ \A h \in Promotions(k) : StagedFor(a, h) /\ artifact[h] = None
    /\ k.intent # None => k.input # receipt[k.intent].handle

\* insert_evidence_producer, by run n
WithProducer(k, n) == IF k.intent = None THEN producer ELSE [producer EXCEPT ![k.intent] = n]

\* assemble_record_run_mutation_plan: artifacts, Run and producers, in one commit
CommitRecordRun(a) ==
    LET k == plan[a]
        n == Len(runs) + 1
        promoted == Promotions(k)
    IN  /\ k # None
        /\ Applicable(a, k)
        /\ artifact' = [h \in Handles |-> IF h \in promoted THEN [run |-> n, by |-> a, at |-> now]
                                          ELSE artifact[h]]
        /\ staging' = [h \in Handles |-> IF h \in promoted THEN [staging[h] EXCEPT !.status = "consumed"]
                                         ELSE staging[h]]
        /\ producer' = WithProducer(k, n)
        /\ runs' = Append(runs, scope)
        /\ version' = version + 1
        /\ plan' = [plan EXCEPT ![a] = None]
        /\ UNCHANGED <<now, scope, intent, receipt, claim, body, capture, lost>>

RejectRecordRun(a) ==
    /\ plan[a] # None
    /\ ~Applicable(a, plan[a])
    /\ plan' = [plan EXCEPT ![a] = None]
    /\ UNCHANGED <<now, version, scope, rows, runs, capture, lost>>

-----------------------------------------------------------------------------
(* The rest of the world *)

RaiseScope ==
    /\ scope < MaxScope
    /\ scope' = scope + 1
    /\ version' = version + 1
    /\ UNCHANGED <<now, rows, runs, plan, capture, lost>>

\* Something other than the program deletes or changes a file of the artifact store.
LoseBody(h) ==
    /\ staging[h] # None
    /\ body[h] = "intact"
    /\ Cardinality(lost) < MaxLost
    /\ body' = [body EXCEPT ![h] = "damaged"]
    /\ lost' = lost \cup {h}
    /\ UNCHANGED <<now, version, scope, intent, receipt, claim, staging, artifact, producer,
                   runs, plan, capture>>

Tick ==
    /\ now < MaxTime
    /\ now' = now + 1
    /\ UNCHANGED <<version, scope, rows, runs, plan, capture, lost>>

Outcomes == {"committed", "failed", "crashed"}

Next ==
    \/ \E a \in Agents, h \in Handles, outcome \in Outcomes : StageArtifact(a, h, outcome)
    \/ \E a \in Agents, i \in Intents, kind \in {"command", "tool"} :
          PrepareEvidenceCapture(a, i, kind)
    \/ \E p \in Captures, i \in Intents, s \in Sources : CaptureObserve(p, i, s)
    \/ \E p \in Captures, h \in Handles, outcome \in Outcomes : CapturePersist(p, h, outcome)
    \/ \E a \in Agents, h \in Handles \cup {None}, i \in Intents \cup {None} :
          PlanRecordRun(a, h, i)
    \/ \E a \in Agents : CommitRecordRun(a) \/ RejectRecordRun(a)
    \/ RaiseScope
    \/ \E h \in Handles : LoseBody(h)
    \/ Tick

Spec == Init /\ [][Next]_vars

-----------------------------------------------------------------------------
(* Properties *)

\* Every row is well formed, and no row is of a time or scope the Task has not reached.
TypeOK ==
    /\ now \in Times /\ version \in Nat /\ scope \in 1 .. MaxScope
    /\ intent \in [Intents -> Maybe(IntentRows)]
    /\ receipt \in [Intents -> Maybe(Receipts)]
    /\ claim \in [Sources -> Maybe(Intents)]
    /\ staging \in [Handles -> Maybe(StagingRows)]
    /\ body \in [Handles -> {"absent", "intact", "damaged"}]
    /\ artifact \in [Handles -> Maybe(ArtifactRows)]
    /\ producer \in [Intents -> Maybe(Nat)]
    /\ runs \in Seq(1 .. MaxScope)
    /\ plan \in [Agents -> Maybe(Plans)]
    /\ capture \in [Captures -> Maybe(Observed)]
    /\ lost \subseteq Handles
    /\ \A i \in Intents : intent[i] # None => intent[i].scope <= scope /\ intent[i].created <= now
    /\ \A h \in Handles : artifact[h] # None => artifact[h].run \in DOMAIN runs /\ artifact[h].at <= now
    /\ \A i \in Intents : producer[i] # None => producer[i] \in DOMAIN runs

\* A row of artifact_staging or artifacts has its bytes, unless something outside damaged
\* them: no failed transaction takes a file from a committed row, and no commit precedes
\* its file (store/src/artifacts.rs).
RowsHaveBodies ==
    \A h \in Handles : staging[h] # None /\ h \notin lost => Verified(h)

\* A source fact serves one intent, whichever processes raced to use it: the receipts of
\* two intents never rest on the same invocation, and each receipt holds its claim.
OneSourceOneIntent ==
    \A i \in Intents :
        receipt[i] # None =>
            /\ HoldsItsClaim(i)
            /\ \A j \in Intents \ {i} : receipt[j] # None => receipt[j].source # receipt[i].source

\* A finalised producer is whole: its intent was of the scope the run was recorded in, and
\* its receipt's own staging handle was promoted by that run, by the intent's connection,
\* before the intent expired.
ProducersGrounded ==
    \A i \in Intents :
        producer[i] # None =>
            LET h == receipt[i].handle
            IN  /\ receipt[i] # None
                /\ runs[producer[i]] = intent[i].scope
                /\ staging[h].status = "consumed"
                /\ artifact[h].run = producer[i]
                /\ artifact[h].by = intent[i].by
                /\ artifact[h].at < intent[i].expires

\* An artifact is promoted only from a row that is still staged, unexpired and of the same
\* actor, with intact bytes, whatever happened since the run was planned.
PromotionChecked ==
    [][\A h \in Handles :
          artifact[h] = None /\ artifact'[h] # None =>
              /\ staging[h].status = "staged"
              /\ now < staging[h].expires
              /\ artifact'[h].by = staging[h].by
              /\ Verified(h)]_vars

=============================================================================
