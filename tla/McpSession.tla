------------------------------ MODULE McpSession ------------------------------
(***************************************************************************)
(* The managed MCP servers of one Connection: the launch lease with which  *)
(* a host's launcher starts a server in its own process, the recovery that *)
(* every server performs before it starts, the lifecycle its client drives *)
(* over stdio, the session row it keeps in the Registry, and how it ends.  *)
(*                                                                         *)
(* Each message is handled in a few Registry transactions, which nobody    *)
(* else's row is part of; the transactions a crash or another process can  *)
(* come between in a way that matters are steps of their own: the end of a *)
(* session in the Registry, and the closing of its open repository         *)
(* observations in the project database.  The guard hooks that open those  *)
(* observations are processes of the host and know nothing of the server.  *)
(***************************************************************************)
EXTENDS Naturals, FiniteSets

CONSTANTS
  Servers,        \* server processes; each makes one runtime session
  Driven,         \* bound: the servers whose client talks, whose transport may break, whose host runs hooks
  RecoveryLimit,  \* MAX_TERMINAL_RUNTIME_RECOVERY_SESSIONS
  LeaseTtl,       \* LAUNCH_LEASE_TTL
  MaxRevision,    \* bound: integration revisions of the Connection
  MaxTime,        \* bound: readings of the clock
  None

ASSUME McpAssumption ==
  /\ Driven \subseteq Servers
  /\ RecoveryLimit \in Nat
  /\ LeaseTtl \in Nat \ {0}
  /\ MaxRevision \in Nat \ {0}
  /\ MaxTime \in Nat

VARIABLES
  clock,       \* the wall clock, which may be set back
  connection,  \* agent_connections: the current revision, and whether enabled
  lease,       \* managed_mcp_launch_leases, one for each launch
  row,         \* mcp_runtime_sessions, None before the runtime exists
  bound,       \* mcp_runtime_project_session_bindings: the servers with one
  obs,         \* the repository observation of a server's project session
  proc         \* the server processes

vars == <<clock, connection, lease, row, bound, obs, proc>>

Times == 0..MaxTime
Revisions == 1..MaxRevision
MaybeTime == Times \cup {None}

Findings == {"failure", "termination"}

\* A lease that ended is refused alike before and after its row is deleted.
LeaseRows == [state : {"none", "issued", "consumed", "expired", "cancelled"},
              revision : Revisions, expires : Nat]

SessionRows ==
  [revision : Revisions, started : Times, last : Times,
   attempted : BOOLEAN, completed : MaybeTime, initialized : MaybeTime,
   listed : MaybeTime, validated : MaybeTime, verified : MaybeTime,
   terminal : Findings \cup {None}, closed : MaybeTime]

ASSUME McpDistinct ==
  /\ None \notin Times
  /\ None \notin Findings
  /\ None \notin SessionRows

\* "closed" by the hooks of its own host, "terminated" with its runtime.
Observations == [state : {"none", "open", "closed", "terminated"}, started : Times]

\* SessionState, with the two phases of a start and the ways to stop.
Phases == {"new", "issued", "recovering", "await_initialize", "await_initialized", "ready",
           "terminating", "exited", "not_started", "recovery_failed", "done", "dead"}

Serving == {"await_initialize", "await_initialized", "ready"}

\* todo: the runtimes whose observations the process is about to close.
\* failed: terminal_finding_recorded.  owed: ended runtimes with an open
\* observation when the process began its recovery, kept for the properties.
Processes == [pc : Phases, floor : Times, failed : BOOLEAN,
              todo : SUBSET Servers, exiting : BOOLEAN, owed : SUBSET Servers]

NewProcess == [pc |-> "new", floor |-> 0, failed |-> FALSE,
               todo |-> {}, exiting |-> FALSE, owed |-> {}]

\* A process that stopped has no memory.
Stopped(pc) == [NewProcess EXCEPT !.pc = pc]

Init ==
  /\ clock = 0
  /\ connection = [revision |-> 1, enabled |-> TRUE]
  /\ lease = [s \in Servers |-> [state |-> "none", revision |-> 1, expires |-> 0]]
  /\ row = [s \in Servers |-> None]
  /\ bound = {}
  /\ obs = [s \in Servers |-> [state |-> "none", started |-> 0]]
  /\ proc = [s \in Servers |-> NewProcess]

-----------------------------------------------------------------------------
NotBefore(later, earlier) == later # None => earlier # None /\ later >= earlier

\* McpSessionMilestones::try_from_record and validate_runtime_session.
Coherent(r) ==
  /\ r.completed # None => r.attempted
  /\ NotBefore(r.last, r.started)
  /\ NotBefore(r.completed, r.started)
  /\ NotBefore(r.initialized, r.completed)
  /\ NotBefore(r.listed, r.completed)
  /\ NotBefore(r.validated, r.listed)
  /\ NotBefore(r.verified, r.validated)
  /\ NotBefore(r.verified, r.initialized)
  /\ ~(r.terminal # None /\ r.closed # None)

Ended(s) == row[s] # None /\ (row[s].terminal # None \/ row[s].closed # None)

\* When the observations of an ended runtime are taken to have ended.
EndOf(r) == IF r.closed # None THEN r.closed ELSE r.last

-----------------------------------------------------------------------------
EndLease(l, state) == [state |-> state, revision |-> l.revision, expires |-> 0]

\* cleanup_leases: expire what is due.
CleanLeases ==
  [s \in Servers |-> IF lease[s].state = "issued" /\ lease[s].expires <= clock
                     THEN EndLease(lease[s], "expired") ELSE lease[s]]

\* issue_managed_mcp_launch_lease: the launcher has just read the Connection.
IssueLease(s) ==
  /\ proc[s].pc = "new"
  /\ connection.enabled
  /\ lease' = [CleanLeases EXCEPT
                 ![s] = [state |-> "issued", revision |-> connection.revision,
                         expires |-> clock + LeaseTtl]]
  /\ proc' = [proc EXCEPT ![s].pc = "issued"]
  /\ UNCHANGED <<clock, connection, row, bound, obs>>

\* Mutant: the lease is cancelled whatever became of it.
Cancelled_Any(l) == EndLease(l, "cancelled")

\* Only a lease that is still unused.
Cancelled(l) == IF l.state = "issued" THEN EndLease(l, "cancelled") ELSE l

\* The launcher gives back its lease when the server has returned.
CancelLease(s) ==
  /\ proc[s].pc \in {"exited", "not_started", "recovery_failed"}
  /\ lease' = [CleanLeases EXCEPT ![s] = Cancelled(@)]
  /\ proc' = [proc EXCEPT ![s].pc = "done"]
  /\ UNCHANGED <<clock, connection, row, bound, obs>>

\* The consuming transaction's checks.
Consumable(l) ==
  /\ l.state = "issued"
  /\ connection.enabled
  /\ l.revision = connection.revision

-----------------------------------------------------------------------------
\* Mutant: recovery takes a runtime nobody has heard the end of for ended.
EndedRuntimes_All == {s \in Servers : row[s] # None}

\* Mutant: recovery looks for sessions that failed and forgets the closed ones.
EndedRuntimes_FailedOnly == {s \in Servers : row[s] # None /\ row[s].terminal # None}

EndedRuntimes == {s \in Servers : Ended(s)}

LeftOpen == {s \in Servers : Ended(s) /\ s \in bound /\ obs[s].state = "open"}

\* A process starts and lists the ended runtimes it is going to recover.
Launch(s) ==
  /\ proc[s].pc = "issued"
  /\ proc' = [proc EXCEPT
       ![s] = IF Cardinality(EndedRuntimes) > RecoveryLimit
              THEN [Stopped("recovery_failed") EXCEPT !.owed = LeftOpen]
              ELSE [NewProcess EXCEPT !.pc = "recovering", !.floor = clock,
                                      !.todo = EndedRuntimes, !.owed = LeftOpen]]
  /\ UNCHANGED <<clock, connection, lease, row, bound, obs>>

\* One project transaction refuses an observation that began after its end.
Closable(r) ==
  r \in bound /\ obs[r].state = "open" => obs[r].started <= EndOf(row[r])

Busy(s) == proc[s].todo # {}

\* terminalize_repository_observations_for_terminal_managed_runtime for one of
\* the runtimes, by the process that ended it or by one that is starting.
CloseObservations(s, r) ==
  /\ r \in proc[s].todo
  /\ Closable(r)
  /\ obs' = IF r \in bound /\ obs[r].state = "open"
            THEN [obs EXCEPT ![r].state = "terminated"] ELSE obs
  /\ proc' = [proc EXCEPT
       ![s] = IF proc[s].exiting THEN Stopped("exited")
              ELSE [proc[s] EXCEPT !.todo = @ \ {r}, !.failed = @ \/ s = r]]
  /\ UNCHANGED <<clock, connection, lease, row, bound>>

\* The first error ends the recovery and the start, or the session.
CloseObservationsFails(s, r) ==
  /\ r \in proc[s].todo
  /\ ~Closable(r)
  /\ proc' = [proc EXCEPT
       ![s] = IF @.pc = "recovering" THEN [Stopped("recovery_failed") EXCEPT !.owed = proc[s].owed]
              ELSE IF @.exiting THEN Stopped("exited")
              ELSE [@ EXCEPT !.todo = {}, !.pc = "terminating"]]
  /\ UNCHANGED <<clock, connection, lease, row, bound, obs>>

NewRow(s) ==
  [revision |-> connection.revision,
   started |-> proc[s].floor, last |-> proc[s].floor,
   attempted |-> FALSE, completed |-> None, initialized |-> None, listed |-> None,
   validated |-> None, verified |-> None, terminal |-> None, closed |-> None]

\* consume_managed_mcp_launch_lease_and_start_runtime: the lease and the row are
\* one transaction, and a refusal rolls back the cleaning of the leases too.
ConsumeLease(s) ==
  /\ proc[s].pc = "recovering" /\ ~Busy(s)
  /\ IF Consumable(CleanLeases[s])
     THEN /\ lease' = [CleanLeases EXCEPT ![s] = EndLease(@, "consumed")]
          /\ row' = [row EXCEPT ![s] = NewRow(s)]
          /\ proc' = [proc EXCEPT ![s].pc = "await_initialize"]
     ELSE /\ proc' = [proc EXCEPT ![s] = Stopped("not_started")]
          /\ UNCHANGED <<lease, row>>
  /\ UNCHANGED <<clock, connection, bound, obs>>

-----------------------------------------------------------------------------
\* next_observation_timestamp: never before what the process already recorded.
Observed(s) == IF clock > proc[s].floor THEN clock ELSE proc[s].floor

\* Mutant: update_session commits without reading the row back.
Commits_Unread(r) == TRUE

\* update_session reads the row back and rolls back if it is not coherent.
Commits(r) == Coherent(r)

\* The checks of require_observation_time and of reading the row back.
Recordable(s, r) == Observed(s) >= row[s].last /\ Commits(r)

\* The process after a step that took an observation time.
Moved(s, pc) == [proc[s] EXCEPT !.floor = Observed(s), !.pc = pc]

\* The process that has recorded the end of its session.
Ending(s, exiting) ==
  [proc[s] EXCEPT !.floor = Observed(s), !.todo = {s}, !.exiting = exiting]

\* One message that records a milestone: the row and the phase it leads to, or
\* an error that ends the transport.
Record(s, r, pc) ==
  IF Recordable(s, r)
  THEN /\ row' = [row EXCEPT ![s] = r]
       /\ proc' = [proc EXCEPT ![s] = Moved(s, pc)]
  ELSE /\ proc' = [proc EXCEPT ![s] = Moved(s, "terminating")]
       /\ UNCHANGED row

Handles(s, phases) == proc[s].pc \in phases /\ ~Busy(s)

Quiet == UNCHANGED <<clock, connection, lease, bound, obs>>

\* A valid initialize request: its attempt and its completion.
Initialize(s) ==
  /\ Handles(s, {"await_initialize"})
  /\ IF row[s].attempted
     THEN proc' = [proc EXCEPT ![s] = Moved(s, "terminating")] /\ UNCHANGED row
     ELSE Record(s, [row[s] EXCEPT !.attempted = TRUE, !.completed = Observed(s),
                                   !.last = Observed(s)], "await_initialized")
  /\ Quiet

InitializedNotification(s) ==
  /\ Handles(s, {"await_initialized"})
  /\ Record(s, [row[s] EXCEPT !.initialized = IF @ = None THEN Observed(s) ELSE @,
                              !.last = Observed(s)], "ready")
  /\ Quiet

\* link_terminal_occurrence_in_tx: one finding, and none after a graceful close.
Linkable(r) == r.closed = None /\ r.terminal = None

\* A terminal finding over row r: its transaction, after which the process still
\* has to close the observations.  A process that recorded one records no other.
Fail(s, r, finding, exiting) ==
  IF proc[s].failed \/ ~Linkable(r) \/ Observed(s) < r.last
  THEN /\ row' = [row EXCEPT ![s] = r]
       /\ proc' = [proc EXCEPT
            ![s] = IF exiting THEN Stopped("exited")
                   ELSE Moved(s, IF proc[s].failed THEN proc[s].pc ELSE "terminating")]
  ELSE /\ row' = [row EXCEPT ![s] = [r EXCEPT !.terminal = finding, !.last = Observed(s)]]
       /\ proc' = [proc EXCEPT ![s] = Ending(s, exiting)]

\* A tools/list request.  A list without the required tools is a terminal
\* finding; a list that would undo the order of the milestones is an error.
ListTools(s, present) ==
  LET at == Observed(s)
      listed == [row[s] EXCEPT !.listed = at, !.validated = IF present THEN at ELSE None,
                               !.last = at]
  IN /\ Handles(s, {"await_initialized", "ready"})
     /\ IF present \/ ~Recordable(s, listed)
        THEN Record(s, listed, proc[s].pc)
        ELSE Fail(s, listed, "failure", FALSE)
     /\ Quiet

\* The checks of record_mcp_verification_tool_observation.
Verifiable(r) ==
  /\ r.initialized # None
  /\ r.validated # None
  /\ r.terminal = None
  /\ connection.enabled /\ r.revision = connection.revision

\* A successful call of the verification tool, which also binds the session.
CallVerificationTool(s) ==
  /\ Handles(s, {"ready"})
  /\ bound' = bound \cup {s}
  /\ IF Verifiable(row[s])
     THEN Record(s, [row[s] EXCEPT !.verified = Observed(s), !.last = Observed(s)], "ready")
     ELSE proc' = [proc EXCEPT ![s] = Moved(s, "terminating")] /\ UNCHANGED row
  /\ UNCHANGED <<clock, connection, lease, obs>>

\* Any other call of a tool.  It binds the session unless the host sends no
\* usable coordinates; a read-only tool that fails in a bound session is a
\* terminal finding.
CallTool(s, fails) ==
  /\ Handles(s, {"ready"})
  /\ bound' \in {bound, bound \cup {s}}
  /\ IF fails /\ s \in bound' THEN Fail(s, row[s], "failure", FALSE) ELSE UNCHANGED <<row, proc>>
  /\ UNCHANGED <<clock, connection, lease, obs>>

\* A request that does not fit: an initialize that is invalid or comes twice, or
\* a tools/list that is malformed or comes too early.
BadRequest(s, attempted) ==
  /\ Handles(s, Serving)
  /\ IF attempted /\ proc[s].pc = "await_initialize"
     THEN LET tried == [row[s] EXCEPT !.attempted = TRUE, !.last = Observed(s)]
          IN IF row[s].attempted \/ ~Recordable(s, tried)
             THEN proc' = [proc EXCEPT ![s].pc = "terminating"] /\ UNCHANGED row
             ELSE Fail(s, tried, "failure", FALSE)
     ELSE Fail(s, row[s], "failure", FALSE)
  /\ Quiet

ClosesGracefully(s) == ~proc[s].failed /\ proc[s].pc = "ready"

\* close_session at the end of input: a ready session closes gracefully, one
\* that never got ready ends with a finding.
Eof(s) ==
  /\ Handles(s, Serving)
  /\ IF ClosesGracefully(s)
     THEN /\ row[s].terminal = None /\ Observed(s) >= row[s].last
          /\ row' = [row EXCEPT ![s] = [@ EXCEPT !.closed = Observed(s), !.last = Observed(s)]]
          /\ proc' = [proc EXCEPT ![s] = Ending(s, TRUE)]
     ELSE Fail(s, row[s], "failure", TRUE)
  /\ Quiet

\* Anything else that is refused is a finding that ends nothing.
MinorFinding(s) ==
  /\ Handles(s, Serving)
  /\ proc' = [proc EXCEPT ![s].floor = Observed(s)]
  /\ UNCHANGED row
  /\ Quiet

\* A read or write of the transport fails.
TransportFails(s) ==
  /\ Handles(s, Serving)
  /\ proc' = [proc EXCEPT ![s].pc = "terminating"]
  /\ UNCHANGED row
  /\ Quiet

\* terminate_session: a last finding, if it can still be recorded.
Terminate(s) ==
  /\ Handles(s, {"terminating"})
  /\ Fail(s, row[s], "termination", TRUE)
  /\ Quiet

Crash(s) ==
  /\ proc[s].pc \notin {"new", "done", "dead"}
  /\ proc' = [proc EXCEPT ![s] = Stopped("dead")]
  /\ UNCHANGED row
  /\ Quiet

-----------------------------------------------------------------------------
\* A PreToolUse hook of the host session commits an open observation.
HookOpens(s) ==
  /\ obs[s].state = "none"
  /\ obs' = [obs EXCEPT ![s] = [state |-> "open", started |-> clock]]
  /\ UNCHANGED <<clock, connection, lease, row, bound, proc>>

\* Its PostToolUse, or a prompt, closes it.
HookCloses(s) ==
  /\ obs[s].state = "open"
  /\ obs' = [obs EXCEPT ![s] = [state |-> "closed", started |-> 0]]
  /\ UNCHANGED <<clock, connection, lease, row, bound, proc>>

\* Setup changes the configuration of the Connection, or it is disabled.
ChangeConnection ==
  /\ connection.enabled /\ connection.revision < MaxRevision
  /\ \/ connection' = [connection EXCEPT !.revision = @ + 1]
     \/ connection' = [connection EXCEPT !.enabled = FALSE]
  /\ UNCHANGED <<clock, lease, row, bound, obs, proc>>

ClockMoves ==
  /\ clock' \in Times \ {clock}
  /\ UNCHANGED <<connection, lease, row, bound, obs, proc>>

Next ==
  \/ \E s \in Servers :
       \/ IssueLease(s)
       \/ CancelLease(s)
       \/ Launch(s)
       \/ \E r \in Servers : CloseObservations(s, r) \/ CloseObservationsFails(s, r)
       \/ ConsumeLease(s)
       \/ Eof(s)
       \/ Terminate(s)
       \/ Crash(s)
  \/ \E s \in Driven :
       \/ Initialize(s)
       \/ InitializedNotification(s)
       \/ \E present \in BOOLEAN : ListTools(s, present)
       \/ CallVerificationTool(s)
       \/ \E fails \in BOOLEAN : CallTool(s, fails)
       \/ \E attempted \in BOOLEAN : BadRequest(s, attempted)
       \/ MinorFinding(s)
       \/ TransportFails(s)
       \/ HookOpens(s)
       \/ HookCloses(s)
  \/ ChangeConnection
  \/ ClockMoves

Spec == Init /\ [][Next]_vars

-----------------------------------------------------------------------------
\* The types of the rows, the processes and the clock.
TypeOK ==
  /\ clock \in Times
  /\ connection \in [revision : Revisions, enabled : BOOLEAN]
  /\ lease \in [Servers -> LeaseRows]
  /\ row \in [Servers -> SessionRows \cup {None}]
  /\ bound \subseteq Servers
  /\ obs \in [Servers -> Observations]
  /\ proc \in [Servers -> Processes]

\* The variables stay in their types and every committed row reads back: no
\* order of the client's messages and no movement of the clock leaves milestones
\* that try_from_record or validate_runtime_session would call corrupt, which
\* would make the row unreadable for recovery and diagnostics ever after.  A
\* serving process's observation floor is never behind its row, so that a clock
\* set back does not make require_observation_time refuse what it records next.
RowsCoherent ==
  /\ TypeOK
  /\ \A s \in Servers : row[s] # None => Coherent(row[s])
  /\ \A s \in Servers :
       proc[s].pc \in Serving => row[s] # None /\ proc[s].floor >= row[s].last

\* A lease is spent exactly when its runtime exists, for the revision it was
\* issued for, and a launcher that returned leaves no lease that could still
\* start a server: neither a slow recovery nor a change of the Connection
\* between issue and use gets around the lease.
LeaseMatchesRuntime ==
  \A s \in Servers :
    /\ row[s] # None <=> lease[s].state = "consumed"
    /\ row[s] # None => row[s].revision = lease[s].revision
    /\ proc[s].pc = "done" => lease[s].state # "issued"

\* An observation is terminated with its runtime only if the Registry says that
\* the runtime has ended, and not before the observation began: recovery infers
\* nothing from a process that is silent or gone.
TerminatedByItsEnd ==
  \A s \in Servers : obs[s].state = "terminated" =>
    Ended(s) /\ obs[s].started <= EndOf(row[s])

\* A server serves only after every observation that an ended runtime had left
\* open when the server started is closed, whoever crashed between ending the
\* session and closing its observations.
RecoveredBeforeServing ==
  \A s \in Servers : proc[s].pc \in Serving =>
    \A r \in proc[s].owed : obs[r].state # "open"

\* Recovery repeats a cleanup "idempotently": it does not keep a server from
\* starting when no ended runtime has an open observation left.  Does not hold:
\* recovery counts every ended runtime against its limit (McpRecovery.cfg).
RecoveryIdempotent ==
  \A s \in Servers : proc[s].pc = "recovery_failed" => proc[s].owed # {}

=============================================================================
