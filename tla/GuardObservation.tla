--------------------------- MODULE GuardObservation ---------------------------
(***************************************************************************)
(* What the guard hooks record of the Product Repository around the tool   *)
(* invocations of one project's sessions, and which changes of a tool it   *)
(* finds that nobody announced.                                            *)
(*                                                                         *)
(* The host starts a hook process before and after each tool invocation    *)
(* and at each prompt.  A hook reads what it needs, scans the repository,  *)
(* and only then opens its one immediate transaction, so two hooks, the    *)
(* end of the MCP runtime and the edits of the user interleave between     *)
(* its reads and its commit.  The host may deliver an event again.  A hook *)
(* holds the shared mutation lease; while setup holds it exclusively a     *)
(* hook records nothing and the host goes on.                              *)
(*                                                                         *)
(* A path holds the name of its last writer, which is all that snapshots   *)
(* and deltas need.  The host, its tools and the user are external.        *)
(***************************************************************************)
EXTENDS Naturals, FiniteSets

CONSTANTS
  Invocations,       \* tool invocations, by exact host coordinates
  Sessions,          \* project Agent Sessions, one host session each
  Turns,             \* host turns
  SessionOf,         \* the session of an invocation
  TurnOf,            \* the turn of an invocation
  EffectOf,          \* what the tool contract says an invocation may do
  TargetsOf,         \* the exact target paths, {} when they are unavailable
  Paths,             \* Product Repository paths
  UserPaths,         \* bound: the paths the user edits by hand
  Tickets,           \* write tickets of the active Task
  ScopeOf,           \* the paths a ticket covers
  Hooks,             \* bound: the hook processes the host starts
  TerminalizationLimit,  \* REPOSITORY_OBSERVATION_TERMINALIZATION_LIMIT
  MaxTime,           \* bound: readings of the clock
  ClockMayStepBack,  \* whether the wall clock may be set back
  SetupMayRun,       \* whether setup runs beside the hooks
  None

Effects == {"no_product_write", "may_write_product", "unknown_product_effect"}

ASSUME GuardAssumption ==
  /\ MaxTime \in Nat
  /\ TerminalizationLimit \in Nat
  /\ ClockMayStepBack \in BOOLEAN
  /\ SetupMayRun \in BOOLEAN
  /\ SessionOf \in [Invocations -> Sessions]
  /\ TurnOf \in [Invocations -> Turns]
  /\ EffectOf \in [Invocations -> Effects]
  /\ TargetsOf \in [Invocations -> SUBSET Paths]
  /\ UserPaths \subseteq Paths
  /\ ScopeOf \in [Tickets -> SUBSET Paths]

VARIABLES
  clock,     \* the wall clock
  setup,     \* whether setup holds the mutation lease exclusively
  repo,      \* the last writer of each path
  tickets,   \* state of each write ticket
  host,      \* what the host does with each invocation
  row,       \* repository_observations with its events and expected write
  captured,  \* prompt_captures: when the prompt of a turn was captured
  ended,     \* when the managed runtime of a session ended
  hook       \* the hook processes

vars == <<clock, setup, repo, tickets, host, row, captured, ended, hook>>

Times == 0..MaxTime

Writers == Invocations \cup {"original", "user"}

Snapshots == [Paths -> Writers]

\* The reasons whose handling differs; the observer's own failures are one.
Reasons == {"snapshot_unavailable", "invocation_denied", "missing_open_observation",
            "post_tool_not_observed", "managed_session_terminated"}

\* None and the two writers that are no invocation are told apart from the rest.
ASSUME GuardDistinct ==
  /\ None \notin Times
  /\ None \notin Reasons
  /\ None \notin Snapshots
  /\ {"original", "user"} \cap Invocations = {}

HostStates == {"new", "asked", "allowed", "unguarded", "denied", "ran", "ran_unguarded"}

\* One row: the observation, the times of its two guard events and the decision
\* of the first, its expected write and the paths matched and left unmatched.
Rows == [state : {"absent", "open", "complete", "unavailable"},
         reason : Reasons \cup {None}, pre : Times \cup {None}, denied : BOOLEAN,
         post : Times \cup {None}, baseline : Snapshots \cup {None},
         outcome : Snapshots \cup {None}, started : Times,
         completed : Times \cup {None}, expected : SUBSET Paths,
         matched : SUBSET Paths, unrecorded : SUBSET Paths]

NoRow == [state |-> "absent", reason |-> None, pre |-> None, denied |-> FALSE,
          post |-> None, baseline |-> None, outcome |-> None, started |-> 0,
          completed |-> None, expected |-> {}, matched |-> {}, unrecorded |-> {}]

\* The CHECK constraint of the table.
FitsSchema(r) ==
  /\ r.state = "open" =>
       /\ r.pre # None /\ r.baseline # None
       /\ r.post = None /\ r.outcome = None /\ r.reason = None /\ r.completed = None
  /\ r.state = "complete" =>
       /\ r.pre # None /\ r.baseline # None /\ r.post # None /\ r.outcome # None
       /\ r.reason = None /\ r.completed # None
  /\ r.state = "unavailable" =>
       /\ r.baseline # None => r.pre # None
       /\ r.outcome = None /\ r.reason # None /\ r.completed # None

\* What a hook has worked out before its transaction.
Plans == [reason : Reasons \cup {None}, denied : BOOLEAN,
          snapshot : Snapshots \cup {None}, expected : SUBSET Paths]

NoPlan == [reason |-> None, denied |-> FALSE, snapshot |-> None, expected |-> {}]

NoHook == [phase |-> "new", of |-> None, at |-> 0, plan |-> NoPlan]

Init ==
  /\ clock = 0
  /\ setup = FALSE
  /\ repo = [p \in Paths |-> "original"]
  /\ tickets = [k \in Tickets |-> "none"]
  /\ host = [i \in Invocations |-> "new"]
  /\ row = [i \in Invocations |-> NoRow]
  /\ captured = [s \in Sessions |-> [t \in Turns |-> None]]
  /\ ended = [s \in Sessions |-> None]
  /\ hook = [h \in Hooks |-> NoHook]

-----------------------------------------------------------------------------
\* repository_observation_from_conn: what every read of a row insists on.
Decodes(r) ==
  /\ r.completed # None => r.completed >= r.started
  /\ r.pre # None /\ r.post # None => r.post >= r.pre
  /\ IF r.reason = "missing_open_observation"
     THEN r.pre = None /\ r.post # None
     ELSE r.state # "absent" => r.pre # None

Unused(h) == hook[h].phase = "new"

Active(h) == hook[h].phase \notin {"new", "done"}

\* A hook takes the time of its event and reads what it plans on.
Start(h, phase, of, plan) ==
  /\ Unused(h)
  /\ ~setup
  /\ hook' = [hook EXCEPT ![h] = [phase |-> phase, of |-> of, at |-> clock, plan |-> plan]]

Finish(h) == hook' = [hook EXCEPT ![h] = [NoHook EXCEPT !.phase = "done"]]

\* The host takes the first answer it gets for an invocation.
Answer(i, reply) ==
  host' = IF host[i] = "asked" THEN [host EXCEPT ![i] = reply] ELSE host

\* A hook that has its decision leaves its transaction and has yet to answer.
Decided(h, denied) ==
  hook' = [hook EXCEPT ![h] =
             [@ EXCEPT !.phase = "answer", !.plan = [NoPlan EXCEPT !.denied = denied]]]

Changed(before, after) == {p \in Paths : before[p] # after[p]}

-----------------------------------------------------------------------------
\* write_ticket_coverage: the current tickets that cover every target path.
Coverage(i) ==
  {k \in Tickets : /\ tickets[k] = "active"
                   /\ TargetsOf[i] # {}
                   /\ TargetsOf[i] \subseteq ScopeOf[k]}

\* Mutant: a write with a ticket is allowed although the scan failed.
Denied_TicketSuffices(i, snapshot) ==
  EffectOf[i] = "may_write_product" /\ Coverage(i) = {}

\* pre_tool_decision.  Without an active Task there are no current tickets.
Denied(i, snapshot) ==
  \/ EffectOf[i] = "may_write_product" /\ Coverage(i) = {}
  \/ EffectOf[i] # "no_product_write" /\ snapshot = None

\* expected_write_candidate: only a write backed by exactly one ticket.
ExpectedPaths(i, denied) ==
  IF EffectOf[i] = "may_write_product" /\ ~denied /\ Cardinality(Coverage(i)) = 1
  THEN TargetsOf[i] ELSE {}

\* handle_pre_tool over the snapshot the observer returned, None when it failed.
PrePlan(i, snapshot) ==
  LET denied == Denied(i, snapshot)
  IN [reason |-> IF snapshot = None THEN "snapshot_unavailable"
                 ELSE IF denied THEN "invocation_denied" ELSE None,
      denied |-> denied,
      snapshot |-> snapshot,
      expected |-> ExpectedPaths(i, denied)]

\* handle_pre_tool up to its transaction.  The host asks about an invocation, or
\* delivers its PreToolUse event again; once the event is stored a delivery only
\* reads the stored result back.
PreToolPlan(h, i) ==
  /\ host[i] \in {"new", "asked", "denied", "unguarded"}
  /\ row[i].pre = None
  /\ \E snapshot \in {repo, None} : Start(h, "pre", i, PrePlan(i, snapshot))
  /\ host' = [host EXCEPT ![i] = IF @ = "new" THEN "asked" ELSE @]
  /\ UNCHANGED <<clock, setup, repo, tickets, row, captured, ended>>

\* While setup runs the hook answers without a decision and records nothing.
PreToolDuringSetup(i) ==
  /\ setup
  /\ host[i] = "new"
  /\ host' = [host EXCEPT ![i] = "unguarded"]
  /\ UNCHANGED <<clock, setup, repo, tickets, row, captured, ended, hook>>

\* pre_tool_replay_matches: the same event with the same findings.
PreReplayMatches(r, at, plan) ==
  /\ r.pre = at
  /\ r.denied = plan.denied
  /\ r.baseline = plan.snapshot
  /\ plan.reason # None => r.reason = plan.reason
  /\ r.expected = plan.expected

\* The row PreToolUse inserts: open over its baseline, or unavailable at once.
PreRow(i, at, plan) ==
  [NoRow EXCEPT !.state = IF plan.reason = None THEN "open" ELSE "unavailable",
                !.reason = plan.reason, !.pre = at, !.denied = plan.denied,
                !.baseline = plan.snapshot, !.started = at,
                !.completed = IF plan.reason = None THEN None ELSE at,
                !.expected = plan.expected]

\* Mutant: a hook that finds the row of another answers with its own decision.
PreAnswer_Own(r, at, plan) == plan.denied

\* What a hook answers over the row it finds: the stored decision to an exact
\* replay, a denial to anything else.
PreAnswer(r, at, plan) ==
  ~(Decodes(r) /\ r.pre # None /\ PreReplayMatches(r, at, plan)) \/ r.denied

\* record_pre_tool_repository_observation: one transaction inserts the event, the
\* observation and the expected write, or finds them.  A conflict denies.
PreToolPersist(h) ==
  LET i == hook[h].of
      at == hook[h].at
      plan == hook[h].plan
  IN /\ hook[h].phase = "pre"
     /\ IF row[i].state = "absent"
        THEN row' = [row EXCEPT ![i] = PreRow(i, at, plan)] /\ Decided(h, plan.denied)
        ELSE Decided(h, PreAnswer(row[i], at, plan)) /\ UNCHANGED row
     /\ UNCHANGED <<clock, setup, repo, tickets, host, captured, ended>>

\* Any failure of the transaction: nothing is stored and the invocation is denied.
PreToolFails(h) ==
  /\ hook[h].phase = "pre"
  /\ Decided(h, TRUE)
  /\ UNCHANGED <<clock, setup, repo, tickets, host, row, captured, ended>>

\* The probe bookkeeping after the commit, whose failure denies whatever was
\* decided, and the answer to the host.
PreToolAnswer(h) ==
  /\ hook[h].phase = "answer"
  /\ \E reply \in {IF hook[h].plan.denied THEN "denied" ELSE "allowed", "denied"} :
       Answer(hook[h].of, reply)
  /\ Finish(h)
  /\ UNCHANGED <<clock, setup, repo, tickets, row, captured, ended>>

-----------------------------------------------------------------------------
\* The tool runs and writes whatever it writes.
RunTool(i) ==
  /\ host[i] \in {"allowed", "unguarded"}
  /\ \E written \in SUBSET Paths :
       repo' = [p \in Paths |-> IF p \in written THEN i ELSE repo[p]]
  /\ host' = [host EXCEPT ![i] = IF @ = "allowed" THEN "ran" ELSE "ran_unguarded"]
  /\ UNCHANGED <<clock, setup, tickets, row, captured, ended, hook>>

UserEdits(p) ==
  /\ repo[p] # "user"
  /\ repo' = [repo EXCEPT ![p] = "user"]
  /\ UNCHANGED <<clock, setup, tickets, host, row, captured, ended, hook>>

\* handle_post_tool over the row it read, outside any transaction: an open row is
\* compared with a new snapshot, or the snapshot fails; an unavailable row passes
\* its reason on; no row is a reason of its own.
PostPlans(i) ==
  CASE row[i].state = "open" ->
         {[NoPlan EXCEPT !.snapshot = repo], [NoPlan EXCEPT !.reason = "snapshot_unavailable"]}
    [] row[i].state = "unavailable" -> {[NoPlan EXCEPT !.reason = row[i].reason]}
    [] row[i].state = "absent" -> {[NoPlan EXCEPT !.reason = "missing_open_observation"]}
    [] OTHER -> {}

PostToolPlan(h, i) ==
  /\ host[i] \in {"ran", "ran_unguarded"}
  /\ row[i].post = None
  /\ Decodes(row[i])
  /\ \E plan \in PostPlans(i) : Start(h, "post", i, plan)
  /\ UNCHANGED <<clock, setup, repo, tickets, host, row, captured, ended>>

\* The part of the delta the expected write announced.
Covered(r, delta) == r.expected \cap delta

\* Mutant: paths outside the expected write are dropped when some path matched.
CompleteRow_MatchEndsIt(r, at, after) ==
  LET delta == Changed(r.baseline, after)
  IN [r EXCEPT !.state = "complete", !.post = at, !.completed = at, !.outcome = after,
               !.matched = Covered(r, delta),
               !.unrecorded = IF Covered(r, delta) = {} THEN delta ELSE {}]

\* terminal_result_in_transaction: of the net delta the covered paths match the
\* expected write and the rest becomes the observation's one unrecorded change.
CompleteRow(r, at, after) ==
  LET delta == Changed(r.baseline, after)
  IN [r EXCEPT !.state = "complete", !.post = at, !.completed = at, !.outcome = after,
               !.matched = Covered(r, delta),
               !.unrecorded = delta \ Covered(r, delta)]

UnavailableRow(r, at, reason) ==
  [r EXCEPT !.state = "unavailable", !.reason = reason, !.post = at, !.completed = at,
            !.started = IF r.state = "absent" THEN at ELSE r.started]

\* Which rows a PostToolUse transaction may close: the open one; the one already
\* unavailable for the very reason it reports; none, if it found none.
PostAccepted(r, plan) ==
  /\ r.post = None
  /\ Decodes(r)
  /\ \/ r.state = "open"
     \/ r.state = "unavailable" /\ r.reason = plan.reason
     \/ r.state = "absent" /\ plan.reason = "missing_open_observation"

\* record_post_tool_repository_observation.
PostToolPersist(h) ==
  LET i == hook[h].of
      at == hook[h].at
      plan == hook[h].plan
  IN /\ hook[h].phase = "post"
     /\ IF PostAccepted(row[i], plan)
        THEN row' = [row EXCEPT ![i] =
                       IF plan.reason = None
                       THEN CompleteRow(row[i], at, plan.snapshot)
                       ELSE UnavailableRow(row[i], at, plan.reason)]
        ELSE UNCHANGED row
     /\ Finish(h)
     /\ UNCHANGED <<clock, setup, repo, tickets, host, captured, ended>>

\* A hook dies, or a later hook gives up on an error before its transaction.  A tool it was
\* asked about goes on without a decision.
HookDies(h) ==
  /\ Active(h)
  /\ IF hook[h].phase \in {"pre", "answer"}
     THEN Answer(hook[h].of, "unguarded") ELSE UNCHANGED host
  /\ Finish(h)
  /\ UNCHANGED <<clock, setup, repo, tickets, row, captured, ended>>

-----------------------------------------------------------------------------
OpenIn(s) == {i \in Invocations : SessionOf[i] = s /\ row[i].state = "open"}

\* terminalize_open_repository_observations_in_transaction: all the rows selected
\* close, or none does.
Closable(selected, at) ==
  /\ Cardinality(selected) <= TerminalizationLimit
  /\ \A i \in selected : Decodes(row[i]) /\ row[i].started <= at

Closed(selected, reason, at) ==
  [i \in Invocations |->
     IF i \in selected
     THEN [row[i] EXCEPT !.state = "unavailable", !.reason = reason, !.completed = at]
     ELSE row[i]]

\* UserPromptSubmit.  The session and turn are established on the way in.
PromptStart(h, s, t) ==
  /\ Start(h, "prompt", <<s, t>>, NoPlan)
  /\ UNCHANGED <<clock, setup, repo, tickets, host, row, captured, ended>>

\* Mutant: the prompt closes the rows of its own turn too.
EarlierTurns_AllTurns(s, t) == OpenIn(s)

\* The rows of every other turn: turns are told apart, never ordered.
EarlierTurns(s, t) == {i \in OpenIn(s) : TurnOf[i] # t}

\* insert_prompt_capture_and_terminalize_prior_turn_observations: one transaction
\* stores the capture, or finds the same one, and closes the rows.
PromptCapture(h) ==
  LET s == hook[h].of[1]
      t == hook[h].of[2]
      at == hook[h].at
  IN /\ hook[h].phase = "prompt"
     /\ captured[s][t] \in {None, at}
     /\ Closable(EarlierTurns(s, t), at)
     /\ captured' = [captured EXCEPT ![s][t] = at]
     /\ row' = Closed(EarlierTurns(s, t), "post_tool_not_observed", at)
     /\ Finish(h)
     /\ UNCHANGED <<clock, setup, repo, tickets, host, ended>>

\* The terminal fact of the session's managed runtime, written by its MCP server.
RuntimeEnds(s) ==
  /\ ended[s] = None
  /\ ended' = [ended EXCEPT ![s] = clock]
  /\ UNCHANGED <<clock, setup, repo, tickets, host, row, captured, hook>>

\* The server that ended, or the recovery of a later one, closes what is open.
CloseManagedSession(s) ==
  /\ ended[s] # None
  /\ OpenIn(s) # {}
  /\ Closable(OpenIn(s), ended[s])
  /\ row' = Closed(OpenIn(s), "managed_session_terminated", ended[s])
  /\ UNCHANGED <<clock, setup, repo, tickets, host, captured, ended, hook>>

-----------------------------------------------------------------------------
\* A write ticket is issued, or stops being current (see TaskAuthority).
TicketChanges(k) ==
  /\ ~setup
  /\ tickets[k] # "stale"
  /\ tickets' = [tickets EXCEPT ![k] = IF @ = "none" THEN "active" ELSE "stale"]
  /\ UNCHANGED <<clock, setup, repo, host, row, captured, ended, hook>>

\* Setup takes the exclusive lease when no hook holds the shared one.
Setup ==
  /\ SetupMayRun
  /\ \A h \in Hooks : ~Active(h)
  /\ setup' = ~setup
  /\ UNCHANGED <<clock, repo, tickets, host, row, captured, ended, hook>>

ClockMoves ==
  /\ clock' \in Times
  /\ clock' # clock
  /\ ClockMayStepBack \/ clock' = clock + 1
  /\ UNCHANGED <<setup, repo, tickets, host, row, captured, ended, hook>>

Next ==
  \/ \E h \in Hooks, i \in Invocations : PreToolPlan(h, i) \/ PostToolPlan(h, i)
  \/ \E h \in Hooks, s \in Sessions, t \in Turns : PromptStart(h, s, t)
  \/ \E h \in Hooks :
       \/ PreToolPersist(h)
       \/ PreToolFails(h)
       \/ PreToolAnswer(h)
       \/ PostToolPersist(h)
       \/ PromptCapture(h)
       \/ HookDies(h)
  \/ \E i \in Invocations : PreToolDuringSetup(i) \/ RunTool(i)
  \/ \E p \in UserPaths : UserEdits(p)
  \/ \E s \in Sessions : RuntimeEnds(s) \/ CloseManagedSession(s)
  \/ \E k \in Tickets : TicketChanges(k)
  \/ Setup
  \/ ClockMoves

Spec == Init /\ [][Next]_vars

-----------------------------------------------------------------------------
\* The hooks in flight are well typed, and no transaction of theirs leaves a row
\* that the table's CHECK constraint would refuse.
TypeOK ==
  /\ clock \in Times
  /\ setup \in BOOLEAN
  /\ repo \in Snapshots
  /\ tickets \in [Tickets -> {"none", "active", "stale"}]
  /\ host \in [Invocations -> HostStates]
  /\ row \in [Invocations -> Rows]
  /\ \A i \in Invocations : FitsSchema(row[i])
  /\ captured \in [Sessions -> [Turns -> Times \cup {None}]]
  /\ ended \in [Sessions -> Times \cup {None}]
  /\ hook \in [Hooks -> [phase : {"new", "pre", "answer", "post", "prompt", "done"},
                         of : Invocations \cup (Sessions \X Turns) \cup {None},
                         at : Times, plan : Plans]]

\* An invocation that may write and that a hook allowed ran over a baseline that
\* was committed, and taken, before the tool wrote anything.
BaselineBeforeRun ==
  \A i \in Invocations :
    host[i] \in {"allowed", "ran"} /\ EffectOf[i] # "no_product_write" =>
      /\ row[i].baseline # None
      /\ \A p \in Paths : row[i].baseline[p] # i

\* However hooks overlap, the decision the host acted on is the stored one: a tool
\* runs on an allowance only if the event on record is not a denial.
DecisionStands ==
  \A i \in Invocations : host[i] \in {"allowed", "ran"} => row[i].pre # None /\ ~row[i].denied

\* Every path that still carries the tool's write when a complete observation of a
\* guarded run is taken is either matched by the expected write or on the
\* observation's unrecorded change, never both, and nothing that did not change
\* is on either.
WritesAccounted ==
  \A i \in Invocations :
    row[i].state = "complete" =>
      /\ host[i] = "ran" =>
           \A p \in Paths : row[i].outcome[p] = i => p \in row[i].matched \cup row[i].unrecorded
      /\ row[i].matched \cup row[i].unrecorded = Changed(row[i].baseline, row[i].outcome)
      /\ row[i].matched \cap row[i].unrecorded = {}

\* A row closed without its PostToolUse was closed by the boundary its reason
\* names, and that boundary does not lie before the row's start: a prompt of
\* another turn of the session, or the end of the session's runtime.
ClosedByItsBoundary ==
  \A i \in Invocations :
    LET s == SessionOf[i]
    IN /\ row[i].reason = "post_tool_not_observed" =>
            \E t \in Turns \ {TurnOf[i]} :
              captured[s][t] # None /\ captured[s][t] >= row[i].started
       /\ row[i].reason = "managed_session_terminated" =>
            ended[s] # None /\ ended[s] >= row[i].started

\* Every committed row can be read back, as the replay of its events needs
\* (docs/en/reference/repository-observation.md).  Does not hold: a post event may be dated
\* before its row's start, and may close an open row as missing_open_observation
\* (GuardDecode.cfg).
CommittedRowsDecode == \A i \in Invocations : Decodes(row[i])

=============================================================================
