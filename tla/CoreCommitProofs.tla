--------------------------- MODULE CoreCommitProofs ---------------------------
(***************************************************************************)
(* Proofs about CoreCommit, for every set of handles, keys, bodies,        *)
(* contexts and policies and every bound: its own invariants, then that it *)
(* implements AuthorityLedger.                                             *)
(***************************************************************************)
EXTENDS LedgerRefinement, FiniteSetTheorems, TLAPS

(* Zenon proves most leaves; the ones with arithmetic or large records say SMT. *)
USE Zenon

(* What a handle between two of its steps still knows: its request has the *)
(* kind its step serves, the version it read is not in the future, a fresh *)
(* request names that version, and its plan was read after the header.     *)
HandleOnBasis(h) ==
  /\ pc[h] \in {"replay_preflight", "commit"} => req[h] \in ToolRequest
  /\ pc[h] \in {"freshness", "plan"} => req[h] \in ToolRequest \cup StageRequest
  /\ pc[h] = "policy_commit" => req[h] \in PolicyRequest
  /\ seenVersion[h] <= stateVersion
  /\ pc[h] \in {"plan", "commit"} => req[h].expected \in {None, seenVersion[h]}
  /\ pc[h] = "commit" => planVersion[h] \in seenVersion[h]..stateVersion
  /\ pc[h] # "done" => reply[h].kind = "none"
  /\ reply[h].kind \in {"committed", "replayed"} => req[h] \in ToolRequest

HandlesOnBasis == \A h \in Handles : HandleOnBasis(h)

TypeInv == TypeOK /\ HandlesOnBasis

LEMMA InitTypeInv == Init => TypeInv
  BY SMT, CoreCommitAssumption
  DEF Init, TypeInv, TypeOK, HandlesOnBasis, HandleOnBasis, Versions, Times, Labels,
      NoRequest, Refuse, Refusal, Success, Row, Event

LEMMA CurrentTimestampType ==
  ASSUME TypeOK, NEW h \in Handles
  PROVE  CurrentTimestamp(h) \in Times
  BY CoreCommitAssumption DEF TypeOK, CurrentTimestamp, Max2, Times

LEMMA ReplayVerdictType ==
  ASSUME NEW row \in Row, NEW r \in ToolRequest
  PROVE  /\ ReplayVerdict(row, r) \in Success \cup Refusal
         /\ ReplayVerdict(row, r).kind \in {"context_mismatch", "replayed", "idempotency_conflict"}
  BY DEF ReplayVerdict, Refuse, Row, Success, Refusal

LEMMA CloseType ==
  ASSUME TypeInv, NEW h \in Handles, Close(h)
  PROVE  TypeInv'
  BY SMT, CoreCommitAssumption
  DEF Close, Goto, TypeInv, TypeOK, HandlesOnBasis, HandleOnBasis, Versions, Times,
      Labels, NoRequest, Refuse, Refusal, dbVars, ToolRequest, StageRequest, PolicyRequest

LEMMA OpenType ==
  ASSUME TypeInv, NEW h \in Handles, NEW r \in ToolRequest \cup StageRequest, Open(h, r)
  PROVE  TypeInv'
<1> USE CoreCommitAssumption
<1>1. TypeOK'
  BY DEF Open, Goto, TypeInv, TypeOK, dbVars, Labels
<1>2. HandlesOnBasis'
  <2> SUFFICES ASSUME NEW g \in Handles PROVE HandleOnBasis(g)'
    BY DEF HandlesOnBasis
  <2>1. HandleOnBasis(g)
    BY DEF TypeInv, HandlesOnBasis
  <2> QED
    BY SMT, <2>1 DEF Open, Goto, TypeInv, TypeOK, HandleOnBasis, dbVars, Labels, Versions,
        ToolRequest, StageRequest
<1> QED BY <1>1, <1>2 DEF TypeInv

LEMMA CommitType ==
  ASSUME TypeInv, NEW h \in Handles, Commit(h)
  PROVE  TypeInv'
<1> USE CoreCommitAssumption
<1>1. req[h] \in ToolRequest
  BY DEF Commit, TypeInv, HandlesOnBasis, HandleOnBasis
<1>2. ASSUME NEW a \in Success \cup Refusal, Answer(h, a), a.kind # "none",
             UNCHANGED <<dbVars, lastSample>>
      PROVE  TypeInv'
  BY <1>1, <1>2 DEF Commit, Answer, Goto, TypeInv, TypeOK, HandlesOnBasis, HandleOnBasis,
     dbVars, Labels
<1>3. CASE CommitReplayed(h)
  <2>1. toolInvocations[req[h].key] \in Row
    BY <1>1, <1>3 DEF CommitReplayed, TypeInv, TypeOK, ToolRequest
  <2> QED BY <1>1, <1>2, <1>3, <2>1, ReplayVerdictType DEF CommitReplayed
<1>4. CASE CommitStale(h) \/ CommitFailed(h)
  BY <1>2, <1>4 DEF CommitStale, CommitFailed, Refuse, Refusal
<1>5. CASE CommitApplied(h)
  <2>1. CurrentTimestamp(h) \in Times
    BY CurrentTimestampType DEF TypeInv
  <2>2. stateVersion + 1 \in Versions
    BY SMT, <1>5 DEF CommitApplied, TypeInv, TypeOK, Versions
  <2>3. authorityEvents' \in Seq(Event)
    <3>1. [version |-> stateVersion + 1, at |-> CurrentTimestamp(h), key |-> req[h].key,
           planned |-> planVersion[h]] \in Event
      BY <1>1, <2>1, <2>2 DEF Event, ToolRequest, TypeInv, TypeOK
    <3> QED BY SMT, <1>5, <3>1 DEF CommitApplied, AppendAuthority, TypeInv, TypeOK
  <2>4. toolInvocations' \in [Keys -> Row \cup {None}]
    <3>1. [hash |-> RequestHash(req[h]), ctx |-> req[h].ctx,
           basis |-> stateVersion, committed |-> stateVersion + 1] \in Row
      BY <1>1, <2>2 DEF Row, RequestHash, ToolRequest, TypeInv, TypeOK
    <3> QED BY <1>5, <3>1 DEF CommitApplied, TypeInv, TypeOK
  <2>5. TypeOK'
    BY <1>5, <2>1, <2>2, <2>3, <2>4 DEF Commit, CommitApplied, AppendAuthority, Answer, Goto,
       TypeInv, TypeOK, Labels, Success
  <2>6. HandlesOnBasis'
    BY SMT, <1>1, <1>5, <2>2 DEF Commit, CommitApplied, AppendAuthority, Answer, Goto, TypeInv,
       TypeOK, HandlesOnBasis, HandleOnBasis, Labels, Versions
  <2> QED BY <2>5, <2>6 DEF TypeInv
<1> QED BY <1>3, <1>4, <1>5 DEF Commit

LEMMA CommitPolicyType ==
  ASSUME TypeInv, NEW h \in Handles, CommitPolicy(h)
  PROVE  TypeInv'
<1> USE CoreCommitAssumption
<1>1. req[h] \in PolicyRequest
  BY DEF CommitPolicy, TypeInv, HandlesOnBasis, HandleOnBasis
<1>2. CASE PolicyFailed(h)
  BY <1>2 DEF CommitPolicy, PolicyFailed, Answer, Goto, TypeInv, TypeOK, HandlesOnBasis,
     HandleOnBasis, dbVars, Labels, Refuse, Refusal
<1>3. CASE PolicyApplied(h)
  <2>1. CurrentTimestamp(h) \in Times
    BY CurrentTimestampType DEF TypeInv
  <2>2. stateVersion + 1 \in Versions
    BY SMT, <1>3 DEF PolicyApplied, TypeInv, TypeOK, Versions
  <2>3. authorityEvents' \in Seq(Event)
    <3>1. [version |-> stateVersion + 1, at |-> CurrentTimestamp(h), key |-> "policy_apply",
           planned |-> stateVersion] \in Event
      BY <2>1, <2>2 DEF Event, TypeInv, TypeOK
    <3> QED BY SMT, <1>3, <3>1 DEF PolicyApplied, AppendAuthority, TypeInv, TypeOK
  <2>4. policy' \in [version : Versions, fingerprint : Policies \cup {None}]
    BY SMT, <1>1, <1>3 DEF PolicyApplied, PolicyRequest, Versions
  <2>5. TypeOK'
    BY <1>3, <2>1, <2>2, <2>3, <2>4 DEF CommitPolicy, PolicyApplied, AppendAuthority, Answer,
       Goto, TypeInv, TypeOK, Labels, Refuse, Refusal
  <2>6. HandlesOnBasis'
    BY SMT, <1>3, <2>2 DEF CommitPolicy, PolicyApplied, AppendAuthority, Answer, Goto, TypeInv,
       TypeOK, HandlesOnBasis, HandleOnBasis, Labels, Versions, Refuse
  <2> QED BY <2>5, <2>6 DEF TypeInv
<1> QED BY <1>2, <1>3 DEF CommitPolicy

LEMMA StepType ==
  ASSUME TypeInv, NEW h \in Handles, Step(h)
  PROVE  TypeInv'
<1> USE CoreCommitAssumption
<1>0. CurrentTimestamp(h) \in Times
  BY CurrentTimestampType DEF TypeInv
<1>a. HandleOnBasis(h)
  BY DEF TypeInv, HandlesOnBasis
<1>1. CASE ReplayPreflight(h)
  <2>1. req[h] \in ToolRequest
    BY <1>1, <1>a DEF ReplayPreflight, HandleOnBasis
  <2>0. toolInvocations[req[h].key] # None => toolInvocations[req[h].key] \in Row
    BY <2>1 DEF TypeInv, TypeOK, ToolRequest
  <2>2. reply' \in [Handles -> Success \cup Refusal]
    BY SMT, <1>1, <2>0, <2>1, ReplayVerdictType DEF ReplayPreflight, Answer, TypeInv, TypeOK
  <2>3. TypeOK'
    BY <1>1, <2>2 DEF ReplayPreflight, Answer, Goto, TypeInv, TypeOK, dbVars, Labels
  <2>4. HandlesOnBasis'
    BY SMT, <1>1, <2>1 DEF ReplayPreflight, Answer, Goto, TypeInv, TypeOK, HandlesOnBasis,
          HandleOnBasis, dbVars, ReplayVerdict, Refuse, Labels
  <2> QED BY <2>3, <2>4 DEF TypeInv
<1>2. CASE FreshnessStale(h)
  BY <1>2, <1>a DEF FreshnessStale, Answer, Goto, TypeInv, TypeOK, HandlesOnBasis,
          HandleOnBasis, dbVars, Refuse, Refusal, Labels
<1>3. CASE SampleClock(h)
  BY <1>3, <1>0, <1>a DEF SampleClock, Goto, TypeInv, TypeOK, HandlesOnBasis,
          HandleOnBasis, dbVars, Labels
<1>4. CASE Plan(h)
  <2>1. TypeOK'
    BY SMT, <1>4 DEF Plan, Answer, Goto, TypeInv, TypeOK, dbVars, Refuse, Refusal, Labels
  <2>2. req[h] \in ToolRequest
    BY <1>4, <1>a DEF Plan, HandleOnBasis, StageRequest
  <2>3. HandlesOnBasis'
    BY SMT, <1>4, <2>2 DEF Plan, Answer, Goto, TypeInv, TypeOK, HandlesOnBasis,
          HandleOnBasis, dbVars, Refuse, Labels, Versions
  <2> QED BY <2>1, <2>3 DEF TypeInv
<1>5. CASE StageArtifact(h)
  BY <1>5, <1>a DEF StageArtifact, Answer, Goto, TypeInv, TypeOK, HandlesOnBasis,
          HandleOnBasis, dbVars, Refuse, Refusal, Labels, Max2, Times
<1>6. CASE Commit(h)
  BY <1>6, CommitType
<1>7. CASE CommitPolicy(h)
  BY <1>7, CommitPolicyType
<1> QED BY <1>1, <1>2, <1>3, <1>4, <1>5, <1>6, <1>7 DEF Step

LEMMA ObservePolicyType ==
  ASSUME TypeInv, NEW h \in Handles, NEW r \in PolicyRequest, ObservePolicy(h, r)
  PROVE  TypeInv'
  BY SMT, CoreCommitAssumption
  DEF ObservePolicy, Answer, Goto, TypeInv, TypeOK, HandlesOnBasis, HandleOnBasis, dbVars,
      Labels, Refuse, Refusal

(* Every step of the pipeline, of the administrator and of the environment *)
(* keeps the state well typed and every open handle on its basis.          *)
LEMMA NextTypeInv == TypeInv /\ [Next]_vars => TypeInv'
<1> SUFFICES ASSUME TypeInv, [Next]_vars PROVE TypeInv'
  OBVIOUS
<1>1. ASSUME NEW h \in Handles, Step(h) PROVE TypeInv'
  BY <1>1, StepType
<1>2. ASSUME NEW h \in Handles, NEW r \in ToolRequest \cup StageRequest, Open(h, r)
      PROVE  TypeInv'
  BY <1>2, OpenType
<1>3. ASSUME NEW h \in Handles, NEW r \in PolicyRequest, ObservePolicy(h, r)
      PROVE  TypeInv'
  BY <1>3, ObservePolicyType
<1>4. ASSUME NEW h \in Handles, Deliver(h) \/ Crash(h) PROVE TypeInv'
  BY <1>4, CloseType DEF Deliver, Crash
<1>5. ASSUME NEW t \in Times, SetWallClock(t) PROVE TypeInv'
  BY <1>5 DEF SetWallClock, dbVars, handleVars, TypeInv, TypeOK, HandlesOnBasis, HandleOnBasis
<1>6. CASE UNCHANGED vars
  BY <1>6 DEF vars, dbVars, handleVars, TypeInv, TypeOK, HandlesOnBasis, HandleOnBasis
<1> QED BY <1>1, <1>2, <1>3, <1>4, <1>5, <1>6 DEF Next

(* Type correctness of the pipeline (states reachable by any interleaving  *)
(* of preflights, commits, policy applies, crashes and clock changes).     *)
THEOREM TypeCorrect == Spec => []TypeOK
<1>1. Init => TypeInv
  BY InitTypeInv
<1>2. TypeInv /\ [Next]_vars => TypeInv'
  BY NextTypeInv
<1>3. TypeInv => TypeOK
  BY DEF TypeInv
<1> QED BY <1>1, <1>2, <1>3, PTL DEF Spec

-----------------------------------------------------------------------------
(* The ledger *)

Ledger ==
  /\ LedgerMatchesVersion
  /\ OneCommitPerKey
  /\ ReplayRowsAreCommits
  /\ PlannedOnBasis
  /\ EventTimesOrdered

(* Only a successful commit transaction touches the log, the rows and the  *)
(* policy.                                                                 *)
Quiet ==
  /\ UNCHANGED <<stateVersion, authorityEvents, toolInvocations, policy>>
  /\ clockFloor' >= clockFloor

LEMMA QuietKeepsLedger ==
  ASSUME TypeOK, TypeOK', Ledger, Quiet
  PROVE  Ledger'
<1>1. EventTimesOrdered'
  <2>1. \A i \in 1..Len(authorityEvents) :
          authorityEvents[i].at \in Times /\ authorityEvents[i].at <= clockFloor
    <3>1. \A i \in 1..Len(authorityEvents) : authorityEvents[i] \in Event
      BY SMT DEF TypeOK
    <3> QED BY <3>1 DEF Ledger, EventTimesOrdered, Event
  <2>2. /\ authorityEvents' = authorityEvents
        /\ clockFloor' >= clockFloor
        /\ clockFloor \in Times /\ clockFloor' \in Times
    BY DEF TypeOK, Quiet
  <2>3. \A i \in 1..Len(authorityEvents) : authorityEvents[i].at <= clockFloor'
    BY SMT, <2>1, <2>2, CoreCommitAssumption DEF Times
  <2> QED BY <2>2, <2>3 DEF Ledger, EventTimesOrdered
<1>2. LedgerMatchesVersion' /\ PlannedOnBasis'
  BY DEF Ledger, LedgerMatchesVersion, PlannedOnBasis, Quiet
<1>3. OneCommitPerKey' /\ ReplayRowsAreCommits'
  BY DEF Ledger, OneCommitPerKey, ReplayRowsAreCommits, Quiet
<1> QED BY <1>1, <1>2, <1>3 DEF Ledger

LEMMA StepQuietOrCommit ==
  ASSUME TypeInv, [Next]_vars
  PROVE  \/ Quiet
         \/ \E h \in Handles : Commit(h) /\ CommitApplied(h)
         \/ \E h \in Handles : CommitPolicy(h) /\ PolicyApplied(h)
<1> USE CoreCommitAssumption
<1>0. UNCHANGED dbVars => Quiet
  BY SMT DEF dbVars, Quiet, TypeInv, TypeOK, Times
<1>1. ASSUME NEW h \in Handles, Step(h)
      PROVE  \/ Quiet
             \/ Commit(h) /\ CommitApplied(h)
             \/ CommitPolicy(h) /\ PolicyApplied(h)
  <2>1. CASE ReplayPreflight(h) \/ FreshnessStale(h) \/ SampleClock(h) \/ Plan(h)
    BY <1>0, <2>1 DEF ReplayPreflight, FreshnessStale, SampleClock, Plan
  <2>2. CASE StageArtifact(h)
    BY SMT, <2>2 DEF StageArtifact, Quiet, Max2, TypeInv, TypeOK, Times
  <2>3. CASE Commit(h)
    BY <1>0, <2>3 DEF Commit, CommitReplayed, CommitStale, CommitFailed
  <2>4. CASE CommitPolicy(h)
    BY <1>0, <2>4 DEF CommitPolicy, PolicyFailed
  <2> QED BY <1>1, <2>1, <2>2, <2>3, <2>4 DEF Step
<1>2. ASSUME NEW h \in Handles, NEW r \in ToolRequest \cup StageRequest, Open(h, r)
      PROVE  Quiet
  BY <1>0, <1>2 DEF Open
<1>3. ASSUME NEW h \in Handles, NEW r \in PolicyRequest, ObservePolicy(h, r)
      PROVE  Quiet
  BY <1>0, <1>3 DEF ObservePolicy
<1>4. ASSUME NEW h \in Handles, Deliver(h) \/ Crash(h) PROVE Quiet
  BY <1>0, <1>4 DEF Deliver, Crash, Close
<1>5. ASSUME NEW t \in Times, SetWallClock(t) PROVE Quiet
  BY <1>0, <1>5 DEF SetWallClock
<1>6. CASE UNCHANGED vars
  BY <1>0, <1>6 DEF vars
<1> QED BY <1>1, <1>2, <1>3, <1>4, <1>5, <1>6 DEF Next

(* What both commit transactions add to the log. *)
LEMMA AppendKeepsOrder ==
  ASSUME TypeOK, Ledger, NEW h \in Handles, NEW key \in Keys \cup {"policy_apply"},
         AppendAuthority(h, key, stateVersion)
  PROVE  /\ LedgerMatchesVersion'
         /\ PlannedOnBasis'
         /\ EventTimesOrdered'
         /\ Len(authorityEvents') = Len(authorityEvents) + 1
         /\ authorityEvents'[Len(authorityEvents) + 1].key = key
         /\ \A i \in 1..Len(authorityEvents) : authorityEvents'[i] = authorityEvents[i]
<1> USE CoreCommitAssumption
<1> DEFINE e == [version |-> stateVersion + 1, at |-> CurrentTimestamp(h),
                 key |-> key, planned |-> stateVersion]
           n == Len(authorityEvents)
<1>1. /\ authorityEvents' = Append(authorityEvents, e)
      /\ stateVersion' = stateVersion + 1
      /\ clockFloor' = CurrentTimestamp(h)
      /\ e.version = stateVersion + 1 /\ e.at = CurrentTimestamp(h)
      /\ e.key = key /\ e.planned = stateVersion
  BY DEF AppendAuthority
<1>2. /\ authorityEvents \in Seq(Event)
      /\ n \in Nat
      /\ stateVersion = n
  BY SMT DEF TypeOK, Ledger, LedgerMatchesVersion
<1>3. CurrentTimestamp(h) >= clockFloor /\ CurrentTimestamp(h) \in Times
  BY SMT, CurrentTimestampType DEF CurrentTimestamp, Max2, TypeOK, Times
<1> HIDE DEF e
<1>4. /\ Len(authorityEvents') = n + 1
      /\ authorityEvents'[n + 1] = e
      /\ \A i \in 1..n : authorityEvents'[i] = authorityEvents[i]
  BY SMT, <1>1, <1>2
<1>5. LedgerMatchesVersion'
  BY SMT, <1>1, <1>2, <1>4 DEF Ledger, LedgerMatchesVersion
<1>6. PlannedOnBasis'
  BY SMT, <1>1, <1>2, <1>4 DEF Ledger, PlannedOnBasis
<1>7. EventTimesOrdered'
  <2>1. \A i \in 1..n : authorityEvents[i].at \in Times /\ authorityEvents[i].at <= clockFloor
    <3>1. \A i \in 1..n : authorityEvents[i] \in Event
      BY SMT, <1>2
    <3> QED BY <3>1 DEF Ledger, EventTimesOrdered, Event
  <2>2. clockFloor \in Times
    BY DEF TypeOK
  <2> SUFFICES ASSUME NEW i \in 1..(n + 1)
               PROVE  /\ authorityEvents'[i].at <= clockFloor'
                      /\ \A j \in 1..i : authorityEvents'[j].at <= authorityEvents'[i].at
    BY <1>4 DEF EventTimesOrdered
  <2>3. CASE i = n + 1
    BY SMT, <1>1, <1>2, <1>3, <1>4, <2>1, <2>2, <2>3 DEF Times
  <2>4. CASE i \in 1..n
    <3>1. \A j \in 1..i : j \in 1..n /\ authorityEvents[j].at <= authorityEvents[i].at
      BY SMT, <1>2, <2>4 DEF Ledger, EventTimesOrdered
    <3>2. authorityEvents'[i].at <= clockFloor'
      BY SMT, <1>1, <1>3, <1>4, <2>1, <2>2, <2>4 DEF Times
    <3> QED BY <1>4, <2>4, <3>1, <3>2
  <2> QED BY SMT, <1>2, <2>3, <2>4
<1> QED BY <1>1, <1>4, <1>5, <1>6, <1>7

LEMMA CommitKeepsLedger ==
  ASSUME TypeInv, Ledger, NEW h \in Handles, Commit(h), CommitApplied(h)
  PROVE  Ledger'
<1> USE CoreCommitAssumption
<1> DEFINE n == Len(authorityEvents)
           k == req[h].key
<1>1. req[h] \in ToolRequest /\ k \in Keys
  BY DEF Commit, TypeInv, HandlesOnBasis, HandleOnBasis, ToolRequest
<1>2. planVersion[h] = stateVersion
  BY SMT DEF Commit, CommitApplied, PinnedVersion, TypeInv, TypeOK, HandlesOnBasis, HandleOnBasis,
     Versions
<1>3. AppendAuthority(h, k, stateVersion)
  BY <1>2 DEF CommitApplied
<1>4. /\ LedgerMatchesVersion' /\ PlannedOnBasis' /\ EventTimesOrdered'
      /\ Len(authorityEvents') = n + 1
      /\ authorityEvents'[n + 1].key = k
      /\ \A i \in 1..n : authorityEvents'[i] = authorityEvents[i]
  BY <1>1, <1>3, AppendKeepsOrder DEF TypeInv
<1>5. n \in Nat /\ stateVersion = n
  BY SMT DEF TypeInv, TypeOK, Ledger, LedgerMatchesVersion
<1>6. /\ toolInvocations'[k] # None
      /\ toolInvocations'[k].committed = n + 1 /\ toolInvocations'[k].basis = n
      /\ \A j \in Keys \ {k} : toolInvocations'[j] = toolInvocations[j]
  <2>1. toolInvocations' = [toolInvocations EXCEPT ![k] =
           [hash |-> RequestHash(req[h]), ctx |-> req[h].ctx,
            basis |-> stateVersion, committed |-> stateVersion + 1]]
    BY DEF CommitApplied
  <2>2. toolInvocations'[k] \in Row
    <3>1. stateVersion + 1 \in Versions
      BY SMT DEF CommitApplied, TypeInv, TypeOK, Versions
    <3> QED BY <1>1, <2>1, <3>1 DEF Row, RequestHash, ToolRequest, TypeInv, TypeOK
  <2> QED BY <1>1, <1>5, <2>1, <2>2, NoneIsNoRow DEF TypeInv, TypeOK
<1>7. toolInvocations[k] = None
  BY DEF CommitApplied
<1>8. OneCommitPerKey'
  BY SMT, <1>1, <1>4, <1>5, <1>6, <1>7 DEF Ledger, OneCommitPerKey
<1>9. ReplayRowsAreCommits'
  BY SMT, <1>1, <1>4, <1>5, <1>6, <1>7 DEF Ledger, ReplayRowsAreCommits
<1> QED BY <1>4, <1>8, <1>9 DEF Ledger

LEMMA PolicyKeepsLedger ==
  ASSUME TypeInv, Ledger, NEW h \in Handles, CommitPolicy(h), PolicyApplied(h)
  PROVE  Ledger'
<1> USE CoreCommitAssumption
<1> DEFINE n == Len(authorityEvents)
<1>1. AppendAuthority(h, "policy_apply", stateVersion) /\ UNCHANGED toolInvocations
  BY DEF PolicyApplied
<1>2. /\ LedgerMatchesVersion' /\ PlannedOnBasis' /\ EventTimesOrdered'
      /\ Len(authorityEvents') = n + 1
      /\ authorityEvents'[n + 1].key = "policy_apply"
      /\ \A i \in 1..n : authorityEvents'[i] = authorityEvents[i]
  BY <1>1, AppendKeepsOrder DEF TypeInv
<1>3. n \in Nat
  BY SMT DEF TypeInv, TypeOK
<1>4. OneCommitPerKey' /\ ReplayRowsAreCommits'
  BY SMT, <1>1, <1>2, <1>3 DEF Ledger, OneCommitPerKey, ReplayRowsAreCommits
<1> QED BY <1>2, <1>4 DEF Ledger

LEMMA InitLedger == Init => Ledger
  BY SMT, CoreCommitAssumption DEF Init, Ledger, LedgerMatchesVersion, OneCommitPerKey,
     ReplayRowsAreCommits, PlannedOnBasis, EventTimesOrdered

LEMMA LedgerInductive == TypeInv /\ Ledger /\ [Next]_vars => Ledger'
<1> SUFFICES ASSUME TypeInv, Ledger, [Next]_vars PROVE Ledger'
  OBVIOUS
<1>1. TypeOK /\ TypeOK'
  BY NextTypeInv DEF TypeInv
<1>2. CASE Quiet
  BY <1>1, <1>2, QuietKeepsLedger
<1>3. ASSUME NEW h \in Handles, Commit(h), CommitApplied(h) PROVE Ledger'
  BY <1>3, CommitKeepsLedger
<1>4. ASSUME NEW h \in Handles, CommitPolicy(h), PolicyApplied(h) PROVE Ledger'
  BY <1>4, PolicyKeepsLedger
<1> QED BY <1>2, <1>3, <1>4, StepQuietOrCommit

(* The authority log is the history of the versions, each key takes effect *)
(* at most once and each plan commits on the state it was computed from.   *)
THEOREM LedgerCorrect ==
  Spec => [](LedgerMatchesVersion /\ OneCommitPerKey /\ ReplayRowsAreCommits
             /\ PlannedOnBasis /\ EventTimesOrdered)
<1>1. Init => TypeInv /\ Ledger
  BY InitTypeInv, InitLedger
<1>2. TypeInv /\ Ledger /\ [Next]_vars => (TypeInv /\ Ledger)'
  BY NextTypeInv, LedgerInductive
<1> QED BY <1>1, <1>2, PTL DEF Spec, Ledger

(* However the machine's clock is set back between the commits of any      *)
(* number of processes, the instants allocated for authority events never  *)
(* run backwards, and the floor a later commit starts from is past all of  *)
(* them.                                                                   *)
THEOREM EventsAreOrdered == Spec => []EventTimesOrdered
  BY LedgerCorrect, PTL

-----------------------------------------------------------------------------
(* The policy counter.                                                     *)

PolicyEvents == {i \in 1..Len(authorityEvents) : authorityEvents[i].key = "policy_apply"}

(* A policy row is dated by the policy commits of the log, and a log is     *)
(* finite.                                                                 *)
LEMMA PolicyEventsFinite ==
  ASSUME TypeOK
  PROVE  IsFiniteSet(PolicyEvents)
<1>1. Len(authorityEvents) \in Int
  BY SMT DEF TypeOK
<1>2. IsFiniteSet(1..Len(authorityEvents))
  BY SMT, <1>1, FS_Interval
<1>3. PolicyEvents \in SUBSET (1..Len(authorityEvents))
  BY DEF PolicyEvents
<1> QED BY <1>2, <1>3, FS_Subset

LEMMA CommitKeepsPolicy ==
  ASSUME TypeInv, Ledger, PolicyVersionsCounted, NEW h \in Handles, Commit(h), CommitApplied(h)
  PROVE  PolicyVersionsCounted'
<1> USE CoreCommitAssumption
<1>1. req[h].key \in Keys /\ planVersion[h] = stateVersion
  <2>1. req[h] \in ToolRequest
    BY DEF Commit, TypeInv, HandlesOnBasis, HandleOnBasis
  <2>2. planVersion[h] = stateVersion
    BY SMT DEF Commit, CommitApplied, PinnedVersion, TypeInv, TypeOK, HandlesOnBasis,
       HandleOnBasis, Versions
  <2> QED BY <2>1, <2>2 DEF ToolRequest
<1>2. AppendAuthority(h, req[h].key, stateVersion) /\ UNCHANGED policy
  BY <1>1 DEF CommitApplied
<1>3. /\ Len(authorityEvents') = Len(authorityEvents) + 1
      /\ authorityEvents'[Len(authorityEvents) + 1].key = req[h].key
      /\ \A i \in 1..Len(authorityEvents) : authorityEvents'[i] = authorityEvents[i]
  BY <1>1, <1>2, AppendKeepsOrder DEF TypeInv
<1>4. Len(authorityEvents) \in Nat
  BY SMT DEF TypeInv, TypeOK
<1>5. PolicyEvents' = PolicyEvents
  BY SMT, <1>1, <1>3, <1>4 DEF PolicyEvents
<1> QED BY <1>2, <1>5 DEF PolicyVersionsCounted, PolicyEvents

LEMMA PolicyKeepsPolicy ==
  ASSUME TypeInv, Ledger, PolicyVersionsCounted, NEW h \in Handles, CommitPolicy(h), PolicyApplied(h)
  PROVE  PolicyVersionsCounted'
<1> USE CoreCommitAssumption
<1>1. /\ AppendAuthority(h, "policy_apply", stateVersion)
      /\ policy'.version = policy.version + 1
  BY DEF PolicyApplied, ReplacementBasisHolds
<1>2. /\ Len(authorityEvents') = Len(authorityEvents) + 1
      /\ authorityEvents'[Len(authorityEvents) + 1].key = "policy_apply"
      /\ \A i \in 1..Len(authorityEvents) : authorityEvents'[i] = authorityEvents[i]
  BY <1>1, AppendKeepsOrder DEF TypeInv
<1>3. Len(authorityEvents) \in Nat
  BY SMT DEF TypeInv, TypeOK
<1>4. /\ PolicyEvents' = PolicyEvents \cup {Len(authorityEvents) + 1}
      /\ Len(authorityEvents) + 1 \notin PolicyEvents
  BY SMT, <1>2, <1>3 DEF PolicyEvents
<1>5. Cardinality(PolicyEvents') = Cardinality(PolicyEvents) + 1
  BY <1>4, PolicyEventsFinite, FS_AddElement DEF TypeInv
<1> QED BY <1>1, <1>5 DEF PolicyVersionsCounted, PolicyEvents

(* However many administrators observe and apply policies, and whatever     *)
(* commits between the two transactions of an apply, every applied policy   *)
(* raises the version by one: no observed policy is replaced twice.         *)
THEOREM PoliciesAreCounted == Spec => []PolicyVersionsCounted
<1> DEFINE I == TypeInv /\ Ledger /\ PolicyVersionsCounted
<1>1. Init => I
  <2> SUFFICES ASSUME Init PROVE PolicyVersionsCounted
    BY InitTypeInv, InitLedger
  <2>1. PolicyEvents = {} /\ policy.version = 0
    BY SMT DEF Init, PolicyEvents
  <2> QED BY <2>1, FS_EmptySet DEF PolicyVersionsCounted, PolicyEvents
<1>2. I /\ [Next]_vars => I'
  <2> SUFFICES ASSUME I, [Next]_vars PROVE PolicyVersionsCounted'
    BY NextTypeInv, LedgerInductive
  <2>1. CASE Quiet
    BY <2>1 DEF Quiet, PolicyVersionsCounted
  <2> QED BY <2>1, StepQuietOrCommit, CommitKeepsPolicy, PolicyKeepsPolicy
<1> QED BY <1>1, <1>2, PTL DEF Spec

-----------------------------------------------------------------------------
(* The ledger.                                                             *)

(* What makes a stale answer of the preflight true: versions only grow, so *)
(* a request that names an older version than the header its handle read   *)
(* cannot be committed by anyone after its replay lookup found nothing.    *)
StaleForGood(h) ==
  /\ pc[h] \in {"replay_preflight", "freshness"} =>
       req[h].expected = None \/ req[h].expected <= seenVersion[h]
  /\ pc[h] = "freshness" /\ req[h].kind = "tool" /\ req[h].expected \notin {None, seenVersion[h]} =>
       \/ toolInvocations[req[h].key] = None
       \/ toolInvocations[req[h].key].hash # RequestHash(req[h])

(* A handle that serves nobody holds no request, so that a new one is asked *)
(* by a caller who was not waiting.                                         *)
IdleIsEmpty(h) == pc[h] = "idle" => req[h] = NoRequest

RefInv == TypeInv /\ Ledger /\ \A h \in Handles : StaleForGood(h) /\ IdleIsEmpty(h)

LEMMA InitRefInv == Init => RefInv
  BY InitTypeInv, InitLedger DEF Init, RefInv, StaleForGood, IdleIsEmpty

LEMMA StaleForGoodKept ==
  ASSUME RefInv, [Next]_vars, NEW h \in Handles
  PROVE  StaleForGood(h)'
<1> USE CoreCommitAssumption
<1>0. TypeInv /\ TypeOK /\ HandleOnBasis(h) /\ StaleForGood(h)
  BY DEF RefInv, TypeInv, HandlesOnBasis
<1>1. CASE UNCHANGED <<toolInvocations, pc[h], req[h], seenVersion[h]>>
  BY <1>0, <1>1 DEF StaleForGood
<1>2. CASE UNCHANGED toolInvocations /\ pc'[h] \notin {"replay_preflight", "freshness"}
  BY <1>2 DEF StaleForGood
<1>3. ASSUME NEW g \in Handles, Commit(g), CommitApplied(g)
      PROVE  StaleForGood(h)'
  <2>1. CASE g = h
    BY <1>0, <1>3, <2>1 DEF StaleForGood, Commit, CommitApplied, Answer, Goto, TypeOK
  <2>2. CASE g # h
    <3>1. /\ UNCHANGED <<pc[h], req[h], seenVersion[h]>>
          /\ toolInvocations' = [toolInvocations EXCEPT ![req[g].key] =
                [hash |-> RequestHash(req[g]), ctx |-> req[g].ctx,
                 basis |-> stateVersion, committed |-> stateVersion + 1]]
          /\ req[g] \in ToolRequest
          /\ PinnedVersion(g) = stateVersion
      BY <1>0, <1>3, <2>2 DEF Commit, CommitApplied, AppendAuthority, Answer, Goto, TypeOK,
         TypeInv, HandlesOnBasis, HandleOnBasis
    <3>2. ASSUME pc[h] = "freshness", req[h].kind = "tool",
                 req[h].expected \notin {None, seenVersion[h]}
          PROVE  \/ toolInvocations'[req[h].key] = None
                 \/ toolInvocations'[req[h].key].hash # RequestHash(req[h])
      <4>1. req[h] \in ToolRequest
        BY <1>0, <3>2 DEF HandleOnBasis, StageRequest
      <4>2. req[h].key \in Keys /\ req[g].key \in Keys
        BY <3>1, <4>1 DEF ToolRequest
      <4>3. CASE req[h].key # req[g].key
        BY <1>0, <3>1, <3>2, <4>2, <4>3 DEF StaleForGood, TypeOK
      <4>4. CASE req[h].key = req[g].key
        <5>1. toolInvocations'[req[h].key].hash = RequestHash(req[g])
          BY <1>0, <3>1, <4>2, <4>4 DEF TypeOK
        <5>2. req[h].expected \in Versions /\ req[h].expected < seenVersion[h]
              /\ seenVersion[h] <= stateVersion /\ seenVersion[h] \in Versions
              /\ stateVersion \in Versions
          BY SMT, <1>0, <3>2, <4>1 DEF StaleForGood, HandleOnBasis, ToolRequest, TypeOK, Versions
        <5>3. req[g].expected # req[h].expected
          BY SMT, <3>1, <3>2, <5>2 DEF PinnedVersion, Versions
        <5> QED BY SMT, <5>1, <5>3 DEF RequestHash
      <4> QED BY <4>3, <4>4
    <3> QED BY <1>0, <3>1, <3>2 DEF StaleForGood
  <2> QED BY <2>1, <2>2
<1>4. ASSUME NEW g \in Handles, Step(g), ~(Commit(g) /\ CommitApplied(g))
      PROVE  StaleForGood(h)'
  <2>1. UNCHANGED toolInvocations
    BY <1>4 DEF Step, ReplayPreflight, FreshnessStale, SampleClock, Plan, StageArtifact, Commit,
       CommitReplayed, CommitStale, CommitFailed, CommitPolicy, PolicyApplied, PolicyFailed, dbVars
  <2>2. UNCHANGED <<req, seenVersion>> /\ (g # h => UNCHANGED pc[h])
    BY <1>0, <1>4 DEF Step, ReplayPreflight, FreshnessStale, SampleClock, Plan, StageArtifact,
       Commit, CommitReplayed, CommitStale, CommitApplied, CommitFailed, CommitPolicy,
       PolicyApplied, PolicyFailed, Answer, Goto, TypeOK
  <2>3. CASE g # h
    BY <1>1, <2>1, <2>2, <2>3
  <2>4. CASE g = h /\ ReplayPreflight(h)
    <3>1. \/ pc'[h] = "done"
          \/ pc'[h] = "freshness" /\ toolInvocations[req[h].key] = None
      BY <1>0, <2>4 DEF ReplayPreflight, Answer, Goto, TypeOK
    <3> QED BY <1>0, <2>1, <2>2, <2>4, <3>1 DEF StaleForGood, ReplayPreflight
  <2>5. CASE g = h /\ ~ReplayPreflight(h)
    <3>1. pc'[h] \in {"plan", "commit", "done"}
      BY <1>0, <1>4, <2>5 DEF Step, FreshnessStale, SampleClock, Plan, StageArtifact,
       Commit, CommitReplayed, CommitStale, CommitApplied, CommitFailed, CommitPolicy,
       PolicyApplied, PolicyFailed, Answer, Goto, TypeOK
    <3> QED BY <1>2, <2>1, <3>1
  <2> QED BY <2>3, <2>4, <2>5
<1>5. ASSUME NEW g \in Handles, NEW r \in ToolRequest \cup StageRequest, Open(g, r)
      PROVE  StaleForGood(h)'
  <2>1. CASE g # h
    BY <1>0, <1>1, <1>5, <2>1 DEF Open, Goto, dbVars, TypeOK
  <2>2. CASE g = h
    <3>1. /\ req'[h] = r /\ seenVersion'[h] = stateVersion
          /\ pc'[h] = (IF r.kind = "tool" THEN "replay_preflight" ELSE "freshness")
          /\ r.expected = None \/ r.expected <= stateVersion
      BY <1>0, <1>5, <2>2 DEF Open, Goto, TypeOK
    <3> QED BY <3>1 DEF StaleForGood
  <2> QED BY <2>1, <2>2
<1>6. ASSUME NEW g \in Handles, NEW r \in PolicyRequest, ObservePolicy(g, r)
      PROVE  StaleForGood(h)'
  <2>1. UNCHANGED toolInvocations /\ (g # h => UNCHANGED <<pc[h], req[h], seenVersion[h]>>)
        /\ (g = h => pc'[h] \in {"done", "policy_commit"})
    BY <1>0, <1>6 DEF ObservePolicy, Answer, Goto, dbVars, TypeOK
  <2> QED BY <1>1, <1>2, <2>1
<1>7. ASSUME NEW g \in Handles, Deliver(g) \/ Crash(g)
      PROVE  StaleForGood(h)'
  <2>1. UNCHANGED toolInvocations /\ (g # h => UNCHANGED <<pc[h], req[h], seenVersion[h]>>)
        /\ (g = h => pc'[h] = "idle")
    BY <1>0, <1>7 DEF Deliver, Crash, Close, Goto, dbVars, TypeOK
  <2> QED BY <1>1, <1>2, <2>1
<1>8. CASE UNCHANGED vars \/ \E t \in Times : SetWallClock(t)
  BY <1>1, <1>8 DEF vars, dbVars, handleVars, SetWallClock
<1> QED BY <1>3, <1>4, <1>5, <1>6, <1>7, <1>8 DEF Next

LEMMA IdleIsEmptyKept ==
  ASSUME RefInv, [Next]_vars, NEW h \in Handles
  PROVE  IdleIsEmpty(h)'
<1>0. TypeOK /\ IdleIsEmpty(h)
  BY DEF RefInv, TypeInv
<1>1. ASSUME NEW g \in Handles, Step(g)
      PROVE  IdleIsEmpty(h)'
  BY <1>0, <1>1 DEF IdleIsEmpty, Step, ReplayPreflight, FreshnessStale, SampleClock, Plan,
     StageArtifact, Commit, CommitReplayed, CommitStale, CommitApplied, CommitFailed,
     CommitPolicy, PolicyApplied, PolicyFailed, Answer, Goto, TypeOK
<1>2. ASSUME NEW g \in Handles, NEW r \in ToolRequest \cup StageRequest, Open(g, r)
      PROVE  IdleIsEmpty(h)'
  BY <1>0, <1>2 DEF IdleIsEmpty, Open, Goto, TypeOK
<1>3. ASSUME NEW g \in Handles, NEW r \in PolicyRequest, ObservePolicy(g, r)
      PROVE  IdleIsEmpty(h)'
  BY <1>0, <1>3 DEF IdleIsEmpty, ObservePolicy, Answer, Goto, TypeOK
<1>4. ASSUME NEW g \in Handles, Deliver(g) \/ Crash(g)
      PROVE  IdleIsEmpty(h)'
  BY <1>0, <1>4 DEF IdleIsEmpty, Deliver, Crash, Close, Goto, TypeOK
<1>5. CASE UNCHANGED vars \/ \E t \in Times : SetWallClock(t)
  BY <1>0, <1>5 DEF IdleIsEmpty, vars, handleVars, SetWallClock
<1> QED BY <1>1, <1>2, <1>3, <1>4, <1>5 DEF Next

LEMMA NextRefInv == RefInv /\ [Next]_vars => RefInv'
  BY NextTypeInv, LedgerInductive, StaleForGoodKept, IdleIsEmptyKept DEF RefInv

-----------------------------------------------------------------------------
(* The views of a step *)

ToolView(h) == [key |-> req[h].key, digest |-> RequestHash(req[h]), ctx |-> req[h].ctx]

(* A handle with an open tool request and no reply is a waiting caller. *)
LEMMA OpenHandleWaits ==
  ASSUME TypeOK, NEW h \in Handles, req[h] \in ToolRequest, reply[h].kind = "none"
  PROVE  /\ Atomic!Waiting(h)
         /\ AskedView(req[h]) = ToolView(h)
         /\ ToolView(h).key = req[h].key
         /\ ToolView(h).digest = RequestHash(req[h])
         /\ ToolView(h).ctx = req[h].ctx
<1>1. ToolView(h) \in [key : Keys, digest : Bodies \X (Versions \cup {None}), ctx : Contexts]
  BY DEF ToolView, RequestHash, ToolRequest
<1>2. AskedView(req[h]) = ToolView(h)
  BY DEF AskedView, ToolView, ToolRequest
<1>3. AnswerView(req[h], reply[h]) = None
  BY DEF AnswerView
<1> QED BY <1>1, <1>2, <1>3, NoneIsNoView DEF Atomic!Waiting, ToolView

(* A reply that touches no durable state is the abstract answer. *)
LEMMA ReplyView ==
  ASSUME TypeOK, NEW h \in Handles, NEW a, UNCHANGED <<req, authorityEvents, toolInvocations>>,
         reply' = [reply EXCEPT ![h] = a]
  PROVE  /\ Atomic!Tell(h, AnswerView(req[h], a))
         /\ UNCHANGED LedgerView
         /\ UNCHANGED [k \in Keys |-> RecordView(toolInvocations[k])]
         /\ UNCHANGED [g \in Handles |-> AskedView(req[g])]
  BY DEF Atomic!Tell, LedgerView, RecordView, AskedView, TypeOK

LEMMA VerdictRefines ==
  ASSUME TypeInv, NEW h \in Handles, req[h] \in ToolRequest, reply[h].kind = "none",
         toolInvocations[req[h].key] # None,
         UNCHANGED <<req, authorityEvents, toolInvocations>>,
         reply' = [reply EXCEPT ![h] = ReplayVerdict(toolInvocations[req[h].key], req[h])]
  PROVE  Atomic!Repeat(h)
<1> DEFINE row == toolInvocations[req[h].key]
           a == ReplayVerdict(row, req[h])
<1>1. row \in Row /\ req[h].key \in Keys
  BY DEF TypeInv, TypeOK, ToolRequest
<1>a. RecordView(row) = [digest |-> row.hash, ctx |-> row.ctx, at |-> row.committed]
  BY DEF RecordView
<1>b. [digest |-> row.hash, ctx |-> row.ctx, at |-> row.committed]
        \in [digest : Bodies \X (Versions \cup {None}), ctx : Contexts, at : Versions]
  BY <1>1 DEF Row
<1>2. /\ RecordView(row) # None /\ RecordView(row).digest = row.hash
      /\ RecordView(row).ctx = row.ctx /\ RecordView(row).at = row.committed
  BY SMT, <1>a, <1>b, NoneIsNoView
<1>3. AnswerView(req[h], a) =
        (IF row.hash = RequestHash(req[h]) /\ row.ctx = req[h].ctx
           THEN [kind |-> "recorded", at |-> row.committed] ELSE [kind |-> "conflict"])
  BY <1>1 DEF AnswerView, ReplayVerdict, Refuse, ToolRequest
<1>4. TypeOK
  BY DEF TypeInv
<1>5. /\ Atomic!Waiting(h)
      /\ AskedView(req[h]) = ToolView(h)
      /\ ToolView(h).key = req[h].key
      /\ ToolView(h).digest = RequestHash(req[h])
      /\ ToolView(h).ctx = req[h].ctx
  BY <1>4, OpenHandleWaits
<1>6. /\ Atomic!Tell(h, AnswerView(req[h], a))
      /\ UNCHANGED LedgerView
      /\ UNCHANGED [k \in Keys |-> RecordView(toolInvocations[k])]
      /\ UNCHANGED [g \in Handles |-> AskedView(req[g])]
  BY <1>4, ReplyView
<1> DEFINE records == [k \in Keys |-> RecordView(toolInvocations[k])]
           views == [g \in Handles |-> AskedView(req[g])]
<1>7. views[h] = ToolView(h)
  BY <1>5
<1>8. records[views[h].key] = RecordView(row)
  BY <1>1, <1>5, <1>7
<1>9. Atomic!Tell(h, IF RecordView(row).digest = ToolView(h).digest /\ RecordView(row).ctx = ToolView(h).ctx
                       THEN [kind |-> "recorded", at |-> RecordView(row).at] ELSE [kind |-> "conflict"])
  <2> HIDE DEF row, a
  <2> QED BY <1>2, <1>3, <1>5, <1>6
<1>10. UNCHANGED <<records, views>>
  BY <1>6
<1> HIDE DEF row, a, records, views
<1>11. /\ Atomic!Waiting(h) /\ records[views[h].key] # None
       /\ Atomic!Tell(h, IF records[views[h].key].digest = views[h].digest
                            /\ records[views[h].key].ctx = views[h].ctx
                       THEN [kind |-> "recorded", at |-> records[views[h].key].at] ELSE [kind |-> "conflict"])
       /\ UNCHANGED <<LedgerView, records, views>>
  BY <1>2, <1>5, <1>6, <1>7, <1>8, <1>9, <1>10
<1> QED BY <1>11 DEF Atomic!Repeat, records, views

LEMMA RefusalRefines ==
  ASSUME TypeOK, NEW h \in Handles, req[h] \in ToolRequest, reply[h].kind = "none",
         NEW kind \in {"rejected", "failed"},
         UNCHANGED <<req, authorityEvents, toolInvocations>>,
         reply' = [reply EXCEPT ![h] = Refuse(kind)]
  PROVE  Atomic!Decline(h)
<1>1. AnswerView(req[h], Refuse(kind)) = [kind |-> "refused"]
  BY DEF AnswerView, Refuse, ToolRequest
<1> QED BY <1>1, OpenHandleWaits, ReplyView DEF Atomic!Decline

LEMMA StaleRefines ==
  ASSUME TypeOK, NEW h \in Handles, req[h] \in ToolRequest, reply[h].kind = "none",
         \/ toolInvocations[req[h].key] = None
         \/ toolInvocations[req[h].key].hash # RequestHash(req[h]),
         UNCHANGED <<req, authorityEvents, toolInvocations>>,
         reply' = [reply EXCEPT ![h] = Refuse("stale")]
  PROVE  Atomic!OutOfDate(h)
<1> DEFINE row == toolInvocations[req[h].key]
<1>1. AnswerView(req[h], Refuse("stale")) = [kind |-> "stale"]
  BY DEF AnswerView, Refuse, ToolRequest
<1>2. req[h].key \in Keys
  BY DEF ToolRequest
<1>3. RecordView(row) = None \/ RecordView(row).digest # RequestHash(req[h])
  BY DEF RecordView
<1>4. AskedView(req[h]) = ToolView(h) /\ ToolView(h).key = req[h].key
      /\ ToolView(h).digest = RequestHash(req[h]) /\ Atomic!Waiting(h)
  BY OpenHandleWaits
<1>5. /\ Atomic!Tell(h, AnswerView(req[h], Refuse("stale")))
      /\ UNCHANGED LedgerView
      /\ UNCHANGED [k \in Keys |-> RecordView(toolInvocations[k])]
      /\ UNCHANGED [g \in Handles |-> AskedView(req[g])]
  BY ReplyView
<1> HIDE DEF row
<1> QED BY <1>1, <1>2, <1>3, <1>4, <1>5 DEF Atomic!OutOfDate, row

LEMMA AppendView ==
  ASSUME TypeOK, NEW e, authorityEvents' = Append(authorityEvents, e)
  PROVE  /\ LedgerView' = Append(LedgerView, e.key)
         /\ Len(LedgerView) = Len(authorityEvents)
<1>1. authorityEvents \in Seq(Event)
  BY DEF TypeOK
<1>2. LedgerView \in Seq({authorityEvents[i].key : i \in 1..Len(authorityEvents)})
      /\ Len(LedgerView) = Len(authorityEvents)
  BY SMT, <1>1 DEF LedgerView
<1>3. Len(authorityEvents') = Len(authorityEvents) + 1
      /\ authorityEvents'[Len(authorityEvents) + 1] = e
      /\ \A i \in 1..Len(authorityEvents) : authorityEvents'[i] = authorityEvents[i]
  BY SMT, <1>1
<1>4. LedgerView' = [i \in 1..(Len(authorityEvents) + 1) |->
         IF i = Len(authorityEvents) + 1 THEN e.key ELSE authorityEvents[i].key]
  BY SMT, <1>1, <1>3 DEF LedgerView
<1> QED BY SMT, <1>1, <1>2, <1>4 DEF LedgerView

LEMMA CommitRefines ==
  ASSUME TypeInv, Ledger, NEW h \in Handles, Commit(h), CommitApplied(h)
  PROVE  Atomic!Enter(h)
<1> DEFINE n == Len(authorityEvents)
           k == req[h].key
           row == [hash |-> RequestHash(req[h]), ctx |-> req[h].ctx,
                   basis |-> stateVersion, committed |-> stateVersion + 1]
           a == [kind |-> "committed", basis |-> stateVersion, committed |-> stateVersion + 1]
           e == [version |-> stateVersion + 1, at |-> CurrentTimestamp(h),
                 key |-> k, planned |-> planVersion[h]]
<1>1. TypeOK /\ req[h] \in ToolRequest /\ k \in Keys /\ reply[h].kind = "none"
  BY DEF Commit, TypeInv, HandlesOnBasis, HandleOnBasis, ToolRequest
<1>2. n \in Nat /\ stateVersion = n
  BY SMT, <1>1 DEF TypeOK, Ledger, LedgerMatchesVersion
<1>3. /\ toolInvocations[k] = None
      /\ toolInvocations' = [toolInvocations EXCEPT ![k] = row]
      /\ reply' = [reply EXCEPT ![h] = a]
      /\ authorityEvents' = Append(authorityEvents, e)
      /\ req' = req
  BY DEF Commit, CommitApplied, AppendAuthority, Answer
<1>4. /\ LedgerView' = Append(LedgerView, k)
      /\ Len(LedgerView) = n
  BY SMT, <1>1, <1>3, AppendView
<1>5. RecordView(row) = [digest |-> RequestHash(req[h]), ctx |-> req[h].ctx, at |-> n + 1]
  <2>1. row \in Row
    <3>1. stateVersion \in Versions /\ stateVersion + 1 \in Versions
      BY SMT, <1>1, CoreCommitAssumption DEF CommitApplied, TypeOK, Versions
    <3> QED BY <1>1, <3>1 DEF Row, RequestHash, ToolRequest
  <2> QED BY <1>2, <2>1, NoneIsNoRow DEF RecordView
<1>6. RecordView(toolInvocations[k]) = None
  BY <1>3 DEF RecordView
<1>7. [j \in Keys |-> RecordView(toolInvocations[j])]' =
        [[j \in Keys |-> RecordView(toolInvocations[j])] EXCEPT ![k] = RecordView(row)]
  <2>1. \A j \in Keys : toolInvocations'[j] = IF j = k THEN row ELSE toolInvocations[j]
    BY <1>1, <1>3 DEF TypeOK
  <2> HIDE DEF row, k
  <2> QED BY <1>1, <2>1 DEF RecordView
<1>8. AnswerView(req[h], a) = [kind |-> "recorded", at |-> n + 1]
  BY <1>1, <1>2 DEF AnswerView, ToolRequest
<1>9. Atomic!Tell(h, AnswerView(req[h], a))
  BY <1>1, <1>3 DEF Atomic!Tell, TypeOK
<1>10. UNCHANGED [g \in Handles |-> AskedView(req[g])]
  BY <1>3
<1>11. /\ Atomic!Waiting(h)
       /\ AskedView(req[h]) = ToolView(h)
       /\ ToolView(h).key = k
       /\ ToolView(h).digest = RequestHash(req[h])
       /\ ToolView(h).ctx = req[h].ctx
  BY <1>1, OpenHandleWaits
<1> HIDE DEF row, a, e, n, k
<1> QED BY <1>1, <1>4, <1>5, <1>6, <1>7, <1>8, <1>9, <1>10, <1>11 DEF Atomic!Enter

LEMMA PolicyRefines ==
  ASSUME TypeInv, Ledger, NEW h \in Handles, CommitPolicy(h), PolicyApplied(h)
  PROVE  Atomic!Administer
<1> DEFINE e == [version |-> stateVersion + 1, at |-> CurrentTimestamp(h),
                 key |-> "policy_apply", planned |-> stateVersion]
<1>1. /\ TypeOK /\ req[h] \in PolicyRequest
      /\ authorityEvents' = Append(authorityEvents, e)
      /\ UNCHANGED <<toolInvocations, req>>
      /\ reply' = [reply EXCEPT ![h] = Refuse("policy_applied")]
  BY DEF CommitPolicy, PolicyApplied, AppendAuthority, Answer, TypeInv, HandlesOnBasis,
     HandleOnBasis
<1>2. LedgerView' = Append(LedgerView, "policy_apply")
  BY SMT, <1>1, AppendView
<1>3. UNCHANGED [g \in Handles |-> AnswerView(req[g], reply[g])]
  <2>1. \A g \in Handles : AnswerView(req'[g], reply'[g]) = AnswerView(req[g], reply[g])
    BY <1>1 DEF AnswerView, PolicyRequest, TypeOK
  <2> QED BY <2>1
<1> QED BY <1>1, <1>2, <1>3 DEF Atomic!Administer

(* A step that changes neither the log, the rows nor any tool request or    *)
(* its reply is invisible.                                                  *)
LEMMA Invisible ==
  ASSUME TypeOK, UNCHANGED <<authorityEvents, toolInvocations>>,
         \A h \in Handles : /\ AskedView(req'[h]) = AskedView(req[h])
                            /\ AnswerView(req'[h], reply'[h]) = AnswerView(req[h], reply[h])
  PROVE  UNCHANGED Atomic!vars
<1>1. UNCHANGED [h \in Handles |-> AskedView(req[h])]
  OBVIOUS
<1>2. UNCHANGED [h \in Handles |-> AnswerView(req[h], reply[h])]
  OBVIOUS
<1>3. UNCHANGED LedgerView /\ UNCHANGED [k \in Keys |-> RecordView(toolInvocations[k])]
  BY DEF LedgerView
<1> QED BY <1>1, <1>2, <1>3 DEF Atomic!vars

LEMMA StepRefines ==
  ASSUME RefInv, NEW h \in Handles, Step(h)
  PROVE  Atomic!Next \/ UNCHANGED Atomic!vars
<1>0. TypeInv /\ TypeOK /\ Ledger /\ HandleOnBasis(h) /\ StaleForGood(h)
  BY DEF RefInv, TypeInv, HandlesOnBasis
<1>n. \A g \in Handles : Atomic!Enter(g) \/ Atomic!Repeat(g) \/ Atomic!OutOfDate(g)
         \/ Atomic!Decline(g) => Atomic!Next
  BY DEF Atomic!Next
<1>a. ASSUME pc[h] # "done" PROVE reply[h].kind = "none"
  BY <1>0, <1>a DEF HandleOnBasis
<1>1. CASE ReplayPreflight(h)
  <2>1. req[h] \in ToolRequest /\ reply[h].kind = "none"
    BY <1>0, <1>1 DEF ReplayPreflight, HandleOnBasis
  <2>2. UNCHANGED <<req, authorityEvents, toolInvocations>>
    BY <1>1 DEF ReplayPreflight, dbVars
  <2>3. CASE toolInvocations[req[h].key] = None
    <3>1. UNCHANGED reply
      BY <1>1, <2>3 DEF ReplayPreflight
    <3> QED BY <1>0, <2>2, <3>1, Invisible
  <2>4. CASE toolInvocations[req[h].key] # None
    <3>1. reply' = [reply EXCEPT ![h] = ReplayVerdict(toolInvocations[req[h].key], req[h])]
      BY <1>1, <2>4 DEF ReplayPreflight, Answer
    <3>2. Atomic!Repeat(h)
      BY <1>0, <2>1, <2>2, <2>4, <3>1, VerdictRefines
    <3> QED BY <1>n, <3>2
  <2> QED BY <2>3, <2>4
<1>2. CASE FreshnessStale(h)
  <2>1. /\ req[h] \in ToolRequest \cup StageRequest /\ reply[h].kind = "none"
        /\ UNCHANGED <<req, authorityEvents, toolInvocations>>
        /\ reply' = [reply EXCEPT ![h] = Refuse("stale")]
        /\ pc[h] = "freshness" /\ req[h].expected \notin {None, seenVersion[h]}
    BY <1>0, <1>2 DEF FreshnessStale, HandleOnBasis, Answer, dbVars
  <2>2. CASE req[h] \in ToolRequest
    <3>1. \/ toolInvocations[req[h].key] = None
          \/ toolInvocations[req[h].key].hash # RequestHash(req[h])
      BY <1>0, <2>1, <2>2 DEF StaleForGood, ToolRequest
    <3>2. Atomic!OutOfDate(h)
      BY <1>0, <2>1, <2>2, <3>1, StaleRefines
    <3> QED BY <1>n, <3>2
  <2>3. CASE req[h] \in StageRequest
    <3>1. \A g \in Handles : AnswerView(req'[g], reply'[g]) = AnswerView(req[g], reply[g])
      BY <1>0, <2>1, <2>3 DEF AnswerView, StageRequest, TypeOK
    <3> QED BY <1>0, <2>1, <3>1, Invisible
  <2> QED BY <2>1, <2>2, <2>3
<1>3. CASE SampleClock(h)
  <2>1. UNCHANGED <<req, reply, authorityEvents, toolInvocations>>
    BY <1>3 DEF SampleClock, dbVars
  <2> QED BY <1>0, <2>1, Invisible
<1>4. CASE Plan(h)
  <2>1. /\ req[h] \in ToolRequest /\ reply[h].kind = "none"
        /\ UNCHANGED <<req, authorityEvents, toolInvocations>>
    BY <1>0, <1>4 DEF Plan, HandleOnBasis, StageRequest, dbVars
  <2>2. UNCHANGED reply \/ reply' = [reply EXCEPT ![h] = Refuse("rejected")]
    BY <1>4 DEF Plan, Answer
  <2>3. CASE UNCHANGED reply
    BY <1>0, <2>1, <2>3, Invisible
  <2>4. CASE reply' = [reply EXCEPT ![h] = Refuse("rejected")]
    <3>1. Atomic!Decline(h)
      BY <1>0, <2>1, <2>4, RefusalRefines
    <3> QED BY <1>n, <3>1
  <2> QED BY <2>2, <2>3, <2>4
<1>5. CASE StageArtifact(h)
  <2>1. /\ UNCHANGED <<req, authorityEvents, toolInvocations>>
        /\ reply' = [reply EXCEPT ![h] = Refuse("staged")]
        /\ req[h].kind = "stage"
    BY <1>5 DEF StageArtifact, Answer
  <2>2. \A g \in Handles : AnswerView(req'[g], reply'[g]) = AnswerView(req[g], reply[g])
    BY <1>0, <2>1 DEF AnswerView, TypeOK
  <2> QED BY <1>0, <2>1, <2>2, Invisible
<1>6. CASE Commit(h)
  <2>1. req[h] \in ToolRequest /\ reply[h].kind = "none" /\ UNCHANGED req
    BY <1>0, <1>6 DEF Commit, HandleOnBasis
  <2>2. CASE CommitReplayed(h)
    <3>1. Atomic!Repeat(h)
      BY <1>0, <2>1, <2>2, VerdictRefines DEF CommitReplayed, Answer, dbVars
    <3> QED BY <1>n, <3>1
  <2>3. CASE CommitStale(h)
    <3>1. Atomic!OutOfDate(h)
      BY <1>0, <2>1, <2>3, StaleRefines DEF CommitStale, Answer, dbVars
    <3> QED BY <1>n, <3>1
  <2>4. CASE CommitFailed(h)
    <3>1. Atomic!Decline(h)
      BY <1>0, <2>1, <2>4, RefusalRefines DEF CommitFailed, Answer, dbVars
    <3> QED BY <1>n, <3>1
  <2>5. CASE CommitApplied(h)
    BY <1>0, <1>6, <1>n, <2>5, CommitRefines
  <2> QED BY <1>6, <2>2, <2>3, <2>4, <2>5 DEF Commit
<1>7. CASE CommitPolicy(h)
  <2>1. CASE PolicyApplied(h)
    BY <1>0, <1>7, <2>1, PolicyRefines DEF Atomic!Next
  <2>2. CASE PolicyFailed(h)
    <3>1. /\ req[h] \in PolicyRequest
          /\ UNCHANGED <<req, authorityEvents, toolInvocations>>
          /\ reply' = [reply EXCEPT ![h] = Refuse("failed")]
      BY <1>0, <1>7, <2>2 DEF CommitPolicy, PolicyFailed, HandleOnBasis, Answer, dbVars
    <3>2. \A g \in Handles : AnswerView(req'[g], reply'[g]) = AnswerView(req[g], reply[g])
      BY <1>0, <3>1 DEF AnswerView, PolicyRequest, TypeOK
    <3> QED BY <1>0, <3>1, <3>2, Invisible
  <2> QED BY <1>7, <2>1, <2>2 DEF CommitPolicy
<1> QED BY <1>1, <1>2, <1>3, <1>4, <1>5, <1>6, <1>7 DEF Step

(* Opening a tool request asks; opening any other request is invisible. *)
LEMMA OpenRefines ==
  ASSUME RefInv, NEW h \in Handles, NEW r \in ToolRequest \cup StageRequest, Open(h, r)
  PROVE  Atomic!Next \/ UNCHANGED Atomic!vars
<1>0. TypeOK /\ HandleOnBasis(h) /\ IdleIsEmpty(h)
  BY DEF RefInv, TypeInv, HandlesOnBasis
<1>1. /\ req[h] = NoRequest /\ req' = [req EXCEPT ![h] = r]
      /\ UNCHANGED <<authorityEvents, toolInvocations, reply>> /\ reply[h].kind = "none"
  BY <1>0 DEF Open, IdleIsEmpty, HandleOnBasis, dbVars
<1>2. \A g \in Handles : AnswerView(req'[g], reply'[g]) = AnswerView(req[g], reply[g])
  BY <1>0, <1>1 DEF AnswerView, TypeOK
<1>3. AskedView(req[h]) = None
  BY SMT, <1>1 DEF AskedView, NoRequest
<1>4. CASE r \in ToolRequest
  <2> DEFINE q == [key |-> r.key, digest |-> RequestHash(r), ctx |-> r.ctx]
  <2>1. q \in Atomic!Request
    BY <1>4 DEF Atomic!Request, RequestHash, ToolRequest
  <2>2. AskedView(r) = q
    BY <1>4 DEF AskedView, ToolRequest
  <2>3. [g \in Handles |-> AskedView(req[g])]' =
          [[g \in Handles |-> AskedView(req[g])] EXCEPT ![h] = q]
    BY <1>0, <1>1, <2>2 DEF TypeOK
  <2>4. UNCHANGED LedgerView /\ UNCHANGED [k \in Keys |-> RecordView(toolInvocations[k])]
        /\ UNCHANGED [g \in Handles |-> AnswerView(req[g], reply[g])]
    BY <1>1, <1>2 DEF LedgerView
  <2>5. Atomic!Ask(h, q)
    BY <1>3, <2>3, <2>4 DEF Atomic!Ask
  <2> QED BY <2>1, <2>5 DEF Atomic!Next
<1>5. CASE r \in StageRequest
  <2>0. AskedView(r) = None
    BY <1>5 DEF AskedView, StageRequest
  <2>a. req'[h] = r /\ \A g \in Handles \ {h} : req'[g] = req[g]
    BY <1>0, <1>1 DEF TypeOK
  <2>1. \A g \in Handles : AskedView(req'[g]) = AskedView(req[g])
    BY <1>3, <2>0, <2>a
  <2> QED BY <1>0, <1>1, <1>2, <2>1, Invisible
<1> QED BY <1>4, <1>5

LEMMA CloseRefines ==
  ASSUME TypeOK, NEW h \in Handles, Close(h)
  PROVE  Atomic!Next
<1>1. /\ req' = [req EXCEPT ![h] = NoRequest] /\ reply' = [reply EXCEPT ![h] = Refuse("none")]
      /\ UNCHANGED <<authorityEvents, toolInvocations>>
  BY DEF Close, dbVars
<1>2. AskedView(NoRequest) = None /\ AnswerView(NoRequest, Refuse("none")) = None
  BY DEF AskedView, AnswerView, NoRequest
<1>3. [g \in Handles |-> AskedView(req[g])]' =
        [[g \in Handles |-> AskedView(req[g])] EXCEPT ![h] = None]
  BY <1>1, <1>2 DEF TypeOK
<1>4. [g \in Handles |-> AnswerView(req[g], reply[g])]' =
        [[g \in Handles |-> AnswerView(req[g], reply[g])] EXCEPT ![h] = None]
  BY <1>1, <1>2 DEF TypeOK
<1>5. UNCHANGED LedgerView /\ UNCHANGED [k \in Keys |-> RecordView(toolInvocations[k])]
  BY <1>1 DEF LedgerView
<1>6. Atomic!Leave(h)
  BY <1>3, <1>4, <1>5 DEF Atomic!Leave
<1> QED BY <1>6 DEF Atomic!Next

LEMMA NextRefines == RefInv /\ [Next]_vars => [Atomic!Next]_(Atomic!vars)
<1> SUFFICES ASSUME RefInv, [Next]_vars
             PROVE  Atomic!Next \/ UNCHANGED Atomic!vars
  OBVIOUS
<1>0. TypeOK /\ \A h \in Handles : IdleIsEmpty(h)
  BY DEF RefInv, TypeInv
<1>1. ASSUME NEW h \in Handles, NEW r \in PolicyRequest, ObservePolicy(h, r)
      PROVE  Atomic!Next \/ UNCHANGED Atomic!vars
  <2>1. /\ req[h] = NoRequest /\ req' = [req EXCEPT ![h] = r]
        /\ UNCHANGED <<authorityEvents, toolInvocations>>
        /\ \A g \in Handles \ {h} : reply'[g] = reply[g]
    BY <1>0, <1>1 DEF ObservePolicy, IdleIsEmpty, Answer, dbVars, TypeOK
  <2>2. \A g \in Handles : /\ AskedView(req'[g]) = AskedView(req[g])
                           /\ AnswerView(req'[g], reply'[g]) = AnswerView(req[g], reply[g])
    BY SMT, <1>0, <2>1 DEF AskedView, AnswerView, NoRequest, PolicyRequest, TypeOK
  <2> QED BY <1>0, <2>1, <2>2, Invisible
<1>2. CASE UNCHANGED vars \/ \E t \in Times : SetWallClock(t)
  <2>1. UNCHANGED <<req, reply, authorityEvents, toolInvocations>>
    BY <1>2 DEF vars, dbVars, handleVars, SetWallClock
  <2> QED BY <1>0, <2>1, Invisible
<1> QED BY <1>0, <1>1, <1>2, StepRefines, OpenRefines, CloseRefines DEF Next, Deliver, Crash

LEMMA InitRefines == Init => Atomic!Init
  BY SMT DEF Init, Atomic!Init, LedgerView, RecordView, AskedView, AnswerView, NoRequest, Refuse

(* The pipeline implements the atomic ledger.  prepare_request looks the     *)
(* replay row and the version up outside any transaction, and commit_with    *)
(* looks both up again inside; whatever interleaves between the two, every   *)
(* caller is told what one atomic ledger would have told it.                 *)
THEOREM PipelineImplementsLedger == Spec => LedgerRefined
<1>1. Spec => []RefInv
  BY InitRefInv, NextRefInv, PTL DEF Spec
<1> QED BY <1>1, InitRefines, NextRefines, PTL DEF Spec, LedgerRefined, Atomic!Spec

=============================================================================
