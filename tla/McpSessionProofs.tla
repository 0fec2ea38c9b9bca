--------------------------- MODULE McpSessionProofs ---------------------------
(***************************************************************************)
(* Proofs about McpSession, for any number of servers, any limit of the    *)
(* recovery, any lifetime of a lease and any movement of the clock.        *)
(*                                                                         *)
(* A session row only grows: its end, once recorded, stays, and the time   *)
(* its observations are taken to have ended never goes back (Grown).       *)
(* So the runtimes a process is about to recover are ended when it comes   *)
(* to them, whoever else recovers them in between (ProcFine).              *)
(***************************************************************************)
EXTENDS McpSession, TLAPS

(* Zenon proves most leaves; the ones with arithmetic or large records say SMT. *)
USE Zenon

\* A runtime has spent its lease, its row reads back, and it was not closed after
\* its last recorded activity.
RowFine(s) ==
  /\ row[s] # None <=> lease[s].state = "consumed"
  /\ row[s] # None =>
       /\ Coherent(row[s])
       /\ row[s].closed # None => row[s].closed <= row[s].last
       /\ row[s].revision = lease[s].revision

\* What a process knows between two of its steps.
ProcFine(s) ==
  /\ proc[s].pc = "new" => lease[s].state = "none"
  /\ proc[s].pc = "done" => lease[s].state # "issued"
  /\ proc[s].pc \in Serving \cup {"terminating"} => row[s] # None
  /\ proc[s].pc \in Serving => proc[s].floor >= row[s].last
  /\ proc[s].todo # {} => proc[s].pc \in Serving \cup {"recovering", "terminating"}
  /\ \A r \in proc[s].todo : Ended(r)
  /\ \A r \in proc[s].owed : r \in bound /\ obs[r].state # "none"
  /\ proc[s].pc \in Serving \cup {"recovering"} =>
       \A r \in proc[s].owed : obs[r].state # "open" \/ (proc[s].pc = "recovering" /\ r \in proc[s].todo)

IInv ==
  /\ TypeOK
  /\ \A s \in Servers : RowFine(s) /\ ProcFine(s)
  /\ TerminatedByItsEnd

-----------------------------------------------------------------------------
(* Session rows.                                                           *)

LEMMA NoneApart ==
  /\ \A t \in Times : t # None
  /\ \A f \in Findings : f # None
  /\ \A r \in SessionRows : r # None
  BY McpDistinct

LEMMA TimesAreNat == Times \subseteq Nat /\ 0 \in Times
  BY SMT, McpAssumption DEF Times

\* A row that reads back, without the lease.
Sound(r) ==
  /\ r \in SessionRows
  /\ Coherent(r)
  /\ r.closed # None => r.closed <= r.last

\* What a step may make of a row: an end stays, and the time of the end does not
\* go back.
Grown(q, r) ==
  /\ Sound(r)
  /\ r.revision = q.revision
  /\ q.terminal # None \/ q.closed # None => r.terminal # None \/ r.closed # None
  /\ EndOf(q) <= EndOf(r)

LEMMA EndOfFacts ==
  ASSUME NEW r, Sound(r)
  PROVE  /\ r.last \in Times /\ r.started \in Times /\ EndOf(r) \in Times
         /\ r.started <= r.last /\ EndOf(r) <= r.last
         /\ r.closed \in MaybeTime
<1>1. /\ r.last \in Times /\ r.started \in Times /\ r.closed \in MaybeTime
  BY DEF Sound, SessionRows
<1>2. r.last # None
  BY <1>1, NoneApart
<1>3. r.last >= r.started
  BY <1>2 DEF Sound, Coherent, NotBefore
<1>4. r.last \in Nat /\ r.started \in Nat
  BY <1>1, TimesAreNat
<1>5. r.started <= r.last
  BY SMT, <1>3, <1>4
<1>6. EndOf(r) \in Times
  BY <1>1 DEF EndOf, MaybeTime
<1>7. EndOf(r) <= r.last
  <2>1. CASE r.closed # None
    BY <2>1 DEF Sound, EndOf
  <2>2. CASE r.closed = None
    BY SMT, <1>4, <2>2 DEF EndOf
  <2> QED BY <2>1, <2>2
<1> QED BY <1>1, <1>5, <1>6, <1>7

LEMMA GrownSame ==
  ASSUME NEW q, Sound(q)
  PROVE  Grown(q, q)
<1>1. EndOf(q) \in Nat
  BY EndOfFacts, TimesAreNat
<1>2. EndOf(q) <= EndOf(q)
  BY SMT, <1>1
<1> QED BY <1>2 DEF Grown

\* A milestone is recorded: only its times and the last activity move.
LEMMA GrownMilestone ==
  ASSUME NEW q, Sound(q), NEW r \in SessionRows, Coherent(r), r.revision = q.revision,
         r.closed = q.closed, r.terminal = q.terminal, q.last <= r.last
  PROVE  Grown(q, r)
<1>1. /\ q.last \in Nat /\ r.last \in Nat /\ EndOf(q) \in Nat
      /\ q.closed # None => q.closed \in Nat
  <2>1. q.closed \in MaybeTime /\ q.last \in Times /\ EndOf(q) \in Times
    BY EndOfFacts
  <2>2. r.last \in Times
    BY DEF SessionRows
  <2> QED BY <2>1, <2>2, TimesAreNat DEF MaybeTime
<1>2. r.closed # None => r.closed <= r.last
  BY SMT, <1>1 DEF Sound
<1>3. EndOf(q) <= EndOf(r)
  BY SMT, <1>1 DEF EndOf
<1> QED BY <1>2, <1>3 DEF Grown, Sound

\* A terminal finding is linked.
FailedRow(r, finding, at) == [r EXCEPT !.terminal = finding, !.last = at]

LEMMA FailedRowFacts ==
  ASSUME NEW r \in SessionRows, NEW finding \in Findings, NEW at \in Times
  PROVE  LET f == FailedRow(r, finding, at)
         IN /\ f \in SessionRows
            /\ f.terminal = finding /\ f.last = at /\ f.revision = r.revision
            /\ f.started = r.started /\ f.attempted = r.attempted
            /\ f.completed = r.completed /\ f.initialized = r.initialized
            /\ f.listed = r.listed /\ f.validated = r.validated
            /\ f.verified = r.verified /\ f.closed = r.closed
<1>1. PICK f : f = [r EXCEPT !.terminal = finding, !.last = at]
  OBVIOUS
<1>2. f = [revision |-> r.revision, started |-> r.started, last |-> at,
           attempted |-> r.attempted, completed |-> r.completed,
           initialized |-> r.initialized, listed |-> r.listed, validated |-> r.validated,
           verified |-> r.verified, terminal |-> finding, closed |-> r.closed]
  BY <1>1 DEF SessionRows
<1>3. f \in SessionRows
  BY SMT, <1>2 DEF SessionRows
<1>4. /\ f.terminal = finding /\ f.last = at /\ f.revision = r.revision
      /\ f.started = r.started /\ f.attempted = r.attempted
      /\ f.completed = r.completed /\ f.initialized = r.initialized
      /\ f.listed = r.listed /\ f.validated = r.validated
      /\ f.verified = r.verified /\ f.closed = r.closed
  BY SMT, <1>2
<1>5. f = FailedRow(r, finding, at)
  BY <1>1 DEF FailedRow
<1> QED BY <1>3, <1>4, <1>5

LEMMA GrownFailed ==
  ASSUME NEW q, Sound(q), NEW r, Grown(q, r), Linkable(r),
         NEW finding \in Findings, NEW at \in Times, r.last <= at
  PROVE  /\ Grown(q, FailedRow(r, finding, at))
         /\ FailedRow(r, finding, at).terminal # None
         /\ FailedRow(r, finding, at).last = at
<1>1. r \in SessionRows /\ Sound(r)
  BY DEF Grown, Sound
<1>2. PICK f : f = FailedRow(r, finding, at)
  OBVIOUS
<1>3. /\ f \in SessionRows
      /\ f.terminal = finding /\ f.last = at /\ f.revision = r.revision
      /\ f.started = r.started /\ f.attempted = r.attempted
      /\ f.completed = r.completed /\ f.initialized = r.initialized
      /\ f.listed = r.listed /\ f.validated = r.validated
      /\ f.verified = r.verified /\ f.closed = r.closed
  BY <1>1, <1>2, FailedRowFacts
<1>4. /\ at \in Nat /\ r.last \in Nat /\ r.started \in Nat /\ EndOf(r) \in Nat /\ EndOf(q) \in Nat
      /\ r.started <= r.last /\ EndOf(r) <= r.last
  BY <1>1, EndOfFacts, TimesAreNat
<1>5. at >= r.started /\ EndOf(r) <= at
  BY SMT, <1>4
<1>6. f.closed = None /\ f.terminal # None
  BY <1>3, NoneApart DEF Linkable
<1>7. Coherent(f)
  BY <1>1, <1>3, <1>5, <1>6, NoneApart, EndOfFacts DEF Sound, Coherent, NotBefore
<1>8. EndOf(f) = at
  BY <1>3, <1>6 DEF EndOf
<1>9. EndOf(q) <= EndOf(f)
  BY SMT, <1>4, <1>5, <1>8 DEF Grown
<1> QED BY <1>2, <1>3, <1>6, <1>7, <1>9 DEF Grown, Sound

\* A session closes.
ClosedRow(r, at) == [r EXCEPT !.closed = at, !.last = at]

LEMMA GrownClosed ==
  ASSUME NEW q, Sound(q), q.terminal = None, NEW at \in Times, q.last <= at
  PROVE  /\ Grown(q, ClosedRow(q, at))
         /\ ClosedRow(q, at).closed # None
         /\ ClosedRow(q, at).last = at
<1>1. q \in SessionRows
  BY DEF Sound
<1>2. PICK f : f = [q EXCEPT !.closed = at, !.last = at]
  OBVIOUS
<1>3. f = [revision |-> q.revision, started |-> q.started, last |-> at,
           attempted |-> q.attempted, completed |-> q.completed,
           initialized |-> q.initialized, listed |-> q.listed, validated |-> q.validated,
           verified |-> q.verified, terminal |-> q.terminal, closed |-> at]
  BY <1>1, <1>2 DEF SessionRows
<1>4. f \in SessionRows
  BY SMT, <1>1, <1>3 DEF SessionRows, MaybeTime
<1>5. /\ f.terminal = q.terminal /\ f.last = at /\ f.revision = q.revision
      /\ f.started = q.started /\ f.attempted = q.attempted
      /\ f.completed = q.completed /\ f.initialized = q.initialized
      /\ f.listed = q.listed /\ f.validated = q.validated
      /\ f.verified = q.verified /\ f.closed = at
  BY SMT, <1>3
<1>6. /\ at \in Nat /\ q.last \in Nat /\ q.started \in Nat /\ EndOf(q) \in Nat
      /\ q.started <= q.last /\ EndOf(q) <= q.last
  BY EndOfFacts, TimesAreNat
<1>7. at >= q.started /\ EndOf(q) <= at /\ at <= at
  BY SMT, <1>6
<1>8. at # None
  BY NoneApart
<1>9. Coherent(f)
  BY <1>5, <1>7, <1>8, NoneApart, EndOfFacts DEF Sound, Coherent, NotBefore
<1>10. EndOf(f) = at
  BY <1>5, <1>8 DEF EndOf
<1>11. f = ClosedRow(q, at)
  BY <1>2 DEF ClosedRow
<1> QED BY <1>4, <1>5, <1>7, <1>8, <1>9, <1>10, <1>11 DEF Grown, Sound

\* A row with another last activity and the same end.
SameEnd(q, at, r) ==
  /\ r \in SessionRows /\ r.revision = q.revision
  /\ r.closed = q.closed /\ r.terminal = q.terminal /\ r.last = at

\* The rows the messages of the client record.
LEMMA MilestoneRows ==
  ASSUME NEW q \in SessionRows, NEW at \in Times, NEW present \in BOOLEAN
  PROVE  /\ SameEnd(q, at, [q EXCEPT !.attempted = TRUE, !.completed = at, !.last = at])
         /\ SameEnd(q, at, [q EXCEPT !.initialized = IF @ = None THEN at ELSE @, !.last = at])
         /\ SameEnd(q, at, [q EXCEPT !.listed = at, !.validated = IF present THEN at ELSE None, !.last = at])
         /\ SameEnd(q, at, [q EXCEPT !.verified = at, !.last = at])
         /\ SameEnd(q, at, [q EXCEPT !.attempted = TRUE, !.last = at])
<1>a. ASSUME NEW attempted \in BOOLEAN, NEW completed \in MaybeTime, NEW initialized \in MaybeTime,
             NEW listed \in MaybeTime, NEW validated \in MaybeTime, NEW verified \in MaybeTime
      PROVE  SameEnd(q, at, [revision |-> q.revision, started |-> q.started, last |-> at,
                   attempted |-> attempted, completed |-> completed,
                   initialized |-> initialized, listed |-> listed, validated |-> validated,
                   verified |-> verified, terminal |-> q.terminal, closed |-> q.closed])
  BY SMT DEF SessionRows, SameEnd
<1>b. /\ q.attempted \in BOOLEAN /\ q.completed \in MaybeTime /\ q.initialized \in MaybeTime
      /\ q.listed \in MaybeTime /\ q.validated \in MaybeTime /\ q.verified \in MaybeTime
      /\ at \in MaybeTime /\ None \in MaybeTime
  BY DEF SessionRows, MaybeTime
<1>1. SameEnd(q, at, [q EXCEPT !.attempted = TRUE, !.completed = at, !.last = at])
  <2>1. PICK v : v = [q EXCEPT !.attempted = TRUE, !.completed = at, !.last = at]
    OBVIOUS
  <2>2. v = [revision |-> q.revision, started |-> q.started, last |-> at,
             attempted |-> TRUE, completed |-> at,
             initialized |-> q.initialized, listed |-> q.listed, validated |-> q.validated,
             verified |-> q.verified, terminal |-> q.terminal, closed |-> q.closed]
    BY <2>1 DEF SessionRows
  <2>3. SameEnd(q, at, v)
    BY <1>a, <1>b, <2>2
  <2> QED BY <2>1, <2>3
<1>2. SameEnd(q, at, [q EXCEPT !.initialized = IF @ = None THEN at ELSE @, !.last = at])
  <2>0. PICK i \in MaybeTime : i = IF q.initialized = None THEN at ELSE q.initialized
    BY <1>b
  <2>1. PICK v : v = [q EXCEPT !.initialized = i, !.last = at]
    OBVIOUS
  <2>2. v = [revision |-> q.revision, started |-> q.started, last |-> at,
             attempted |-> q.attempted, completed |-> q.completed,
             initialized |-> i, listed |-> q.listed, validated |-> q.validated,
             verified |-> q.verified, terminal |-> q.terminal, closed |-> q.closed]
    BY <2>1 DEF SessionRows
  <2>3. SameEnd(q, at, v)
    BY <1>a, <1>b, <2>2
  <2> QED BY <2>0, <2>1, <2>3
<1>3. SameEnd(q, at, [q EXCEPT !.listed = at, !.validated = IF present THEN at ELSE None, !.last = at])
  <2>0. PICK d \in MaybeTime : d = IF present THEN at ELSE None
    BY <1>b
  <2>1. PICK v : v = [q EXCEPT !.listed = at, !.validated = d, !.last = at]
    OBVIOUS
  <2>2. v = [revision |-> q.revision, started |-> q.started, last |-> at,
             attempted |-> q.attempted, completed |-> q.completed,
             initialized |-> q.initialized, listed |-> at, validated |-> d,
             verified |-> q.verified, terminal |-> q.terminal, closed |-> q.closed]
    BY <2>1 DEF SessionRows
  <2>3. SameEnd(q, at, v)
    BY <1>a, <1>b, <2>2
  <2> QED BY <2>0, <2>1, <2>3
<1>4. SameEnd(q, at, [q EXCEPT !.verified = at, !.last = at])
  <2>1. PICK v : v = [q EXCEPT !.verified = at, !.last = at]
    OBVIOUS
  <2>2. v = [revision |-> q.revision, started |-> q.started, last |-> at,
             attempted |-> q.attempted, completed |-> q.completed,
             initialized |-> q.initialized, listed |-> q.listed, validated |-> q.validated,
             verified |-> at, terminal |-> q.terminal, closed |-> q.closed]
    BY <2>1 DEF SessionRows
  <2>3. SameEnd(q, at, v)
    BY <1>a, <1>b, <2>2
  <2> QED BY <2>1, <2>3
<1>5. SameEnd(q, at, [q EXCEPT !.attempted = TRUE, !.last = at])
  <2>1. PICK v : v = [q EXCEPT !.attempted = TRUE, !.last = at]
    OBVIOUS
  <2>2. v = [revision |-> q.revision, started |-> q.started, last |-> at,
             attempted |-> TRUE, completed |-> q.completed,
             initialized |-> q.initialized, listed |-> q.listed, validated |-> q.validated,
             verified |-> q.verified, terminal |-> q.terminal, closed |-> q.closed]
    BY <2>1 DEF SessionRows
  <2>3. SameEnd(q, at, v)
    BY <1>a, <1>b, <2>2
  <2> QED BY <2>1, <2>3
<1> QED BY <1>1, <1>2, <1>3, <1>4, <1>5

-----------------------------------------------------------------------------
(* Processes.                                                              *)

LEMMA Typed ==
  ASSUME IInv, NEW s \in Servers
  PROVE  /\ proc[s] \in Processes /\ lease[s] \in LeaseRows /\ obs[s] \in Observations
         /\ RowFine(s) /\ ProcFine(s)
         /\ row[s] # None => Sound(row[s])
         /\ proc[s].pc \in Phases /\ proc[s].floor \in Times /\ proc[s].failed \in BOOLEAN
         /\ proc[s].todo \in SUBSET Servers /\ proc[s].exiting \in BOOLEAN
         /\ proc[s].owed \in SUBSET Servers
<1>1. /\ proc[s] \in Processes /\ lease[s] \in LeaseRows /\ obs[s] \in Observations
      /\ row[s] \in SessionRows \cup {None} /\ RowFine(s) /\ ProcFine(s)
  BY DEF IInv, TypeOK
<1> QED BY <1>1 DEF RowFine, Sound, Processes

LEMMA ObservedFacts ==
  ASSUME IInv, NEW s \in Servers
  PROVE  /\ Observed(s) \in Times
         /\ proc[s].pc \in Serving => row[s].last <= Observed(s)
<1>1. /\ clock \in Times /\ proc[s].floor \in Times
      /\ proc[s].pc \in Serving => row[s] # None /\ proc[s].floor >= row[s].last
  BY Typed DEF IInv, TypeOK, ProcFine
<1>2. Observed(s) \in Times /\ clock \in Nat /\ proc[s].floor \in Nat
  BY <1>1, TimesAreNat DEF Observed
<1>3. ASSUME proc[s].pc \in Serving PROVE row[s].last <= Observed(s)
  <2>1. row[s].last \in Nat /\ proc[s].floor >= row[s].last
    BY <1>1, <1>3, Typed, EndOfFacts, TimesAreNat
  <2> QED BY SMT, <1>2, <2>1 DEF Observed
<1> QED BY <1>2, <1>3

LEMMA MovedFacts ==
  ASSUME IInv, NEW s \in Servers, NEW pc \in Phases
  PROVE  LET p == Moved(s, pc)
         IN /\ p \in Processes /\ p.pc = pc /\ p.floor = Observed(s)
            /\ p.todo = proc[s].todo /\ p.owed = proc[s].owed
<1>1. PICK q \in Processes : q = proc[s]
  BY Typed
<1>2. PICK o \in Times : o = Observed(s)
  BY ObservedFacts
<1>3. PICK p : p = [q EXCEPT !.floor = o, !.pc = pc]
  OBVIOUS
<1>4. p = [pc |-> pc, floor |-> o, failed |-> q.failed, todo |-> q.todo,
           exiting |-> q.exiting, owed |-> q.owed]
  BY <1>3 DEF Processes
<1>5. p \in Processes /\ p.pc = pc /\ p.floor = o /\ p.todo = q.todo /\ p.owed = q.owed
  BY SMT, <1>4 DEF Processes
<1>6. p = Moved(s, pc)
  BY <1>1, <1>2, <1>3 DEF Moved
<1> QED BY <1>1, <1>2, <1>5, <1>6

LEMMA EndingFacts ==
  ASSUME IInv, NEW s \in Servers, NEW exiting \in BOOLEAN
  PROVE  LET p == Ending(s, exiting)
         IN /\ p \in Processes /\ p.pc = proc[s].pc /\ p.floor = Observed(s)
            /\ p.todo = {s} /\ p.owed = proc[s].owed
<1>1. PICK q \in Processes : q = proc[s]
  BY Typed
<1>2. PICK o \in Times : o = Observed(s)
  BY ObservedFacts
<1>3. PICK p : p = [q EXCEPT !.floor = o, !.todo = {s}, !.exiting = exiting]
  OBVIOUS
<1>4. p = [pc |-> q.pc, floor |-> o, failed |-> q.failed, todo |-> {s},
           exiting |-> exiting, owed |-> q.owed]
  BY <1>3 DEF Processes
<1>5. p \in Processes /\ p.pc = q.pc /\ p.floor = o /\ p.todo = {s} /\ p.owed = q.owed
  BY SMT, <1>4 DEF Processes
<1>6. p = Ending(s, exiting)
  BY <1>1, <1>2, <1>3 DEF Ending
<1> QED BY <1>1, <1>2, <1>5, <1>6

LEMMA NewProcessType == NewProcess \in Processes
  BY SMT, TimesAreNat DEF NewProcess, Processes, Phases

LEMMA StoppedFacts ==
  ASSUME NEW pc \in Phases
  PROVE  /\ Stopped(pc) \in Processes /\ Stopped(pc).pc = pc
         /\ Stopped(pc).todo = {} /\ Stopped(pc).owed = {}
<1>1. PICK p : p = [NewProcess EXCEPT !.pc = pc]
  OBVIOUS
<1>2. p = [pc |-> pc, floor |-> 0, failed |-> FALSE, todo |-> {}, exiting |-> FALSE, owed |-> {}]
  BY <1>1 DEF NewProcess
<1>3. p \in Processes /\ p.pc = pc /\ p.todo = {} /\ p.owed = {}
  BY SMT, <1>2, TimesAreNat DEF Processes
<1> QED BY <1>1, <1>3 DEF Stopped

\* What one process or hook does that others rely on.
Kept ==
  /\ \A r \in Servers : Ended(r) => Ended(r)'
  /\ bound \subseteq bound'
  /\ \A r \in Servers : obs[r].state # "none" =>
       /\ obs'[r].state # "none"
       /\ obs[r].state # "open" => obs'[r].state # "open"

LeaseKept(t) ==
  /\ lease[t].state = "none" => lease'[t].state = "none"
  /\ lease[t].state # "issued" => lease'[t].state # "issued"

LEMMA ProcKept ==
  ASSUME IInv, NEW t \in Servers, proc'[t] = proc[t], row'[t] = row[t], LeaseKept(t), Kept
  PROVE  ProcFine(t)'
<1>1. ProcFine(t) /\ proc[t].todo \in SUBSET Servers /\ proc[t].owed \in SUBSET Servers
  BY Typed
<1>2. \A r \in proc[t].todo : Ended(r)'
  BY <1>1 DEF ProcFine, Kept
<1>3. \A r \in proc[t].owed :
        /\ r \in bound' /\ obs'[r].state # "none"
        /\ obs[r].state # "open" => obs'[r].state # "open"
  BY <1>1 DEF ProcFine, Kept
<1> QED BY <1>1, <1>2, <1>3 DEF ProcFine, LeaseKept, Ended

\* The step of one process, put together.
LEMMA ProcStep ==
  ASSUME IInv, NEW s \in Servers, NEW p \in Processes, proc' = [proc EXCEPT ![s] = p],
         ProcFine(s)', Kept,
         \A t \in Servers \ {s} : row'[t] = row[t] /\ LeaseKept(t),
         \A t \in Servers : RowFine(t)', TerminatedByItsEnd',
         UNCHANGED <<clock, connection>>,
         lease' \in [Servers -> LeaseRows], row' \in [Servers -> SessionRows \cup {None}],
         bound' \in SUBSET Servers, obs' \in [Servers -> Observations]
  PROVE  IInv'
<1>1. /\ proc' \in [Servers -> Processes]
      /\ \A t \in Servers \ {s} : proc'[t] = proc[t]
  BY DEF IInv, TypeOK
<1>2. \A t \in Servers : ProcFine(t)'
  BY <1>1, ProcKept
<1>3. TypeOK'
  BY <1>1 DEF IInv, TypeOK
<1> QED BY <1>2, <1>3 DEF IInv

-----------------------------------------------------------------------------
(* Steps that record something in the row of the process's session.        *)

LEMMA RowWrite ==
  ASSUME IInv, NEW s \in Servers, row[s] # None, NEW r, Grown(row[s], r),
         row' = [row EXCEPT ![s] = r],
         UNCHANGED <<clock, connection, lease, obs>>, bound' \in {bound, bound \cup {s}},
         NEW p \in Processes, proc' = [proc EXCEPT ![s] = p], ProcFine(s)'
  PROVE  IInv'
<1>1. row \in [Servers -> SessionRows \cup {None}] /\ r \in SessionRows /\ r # None
  BY NoneApart DEF IInv, TypeOK, Grown, Sound
<1>2. /\ row' \in [Servers -> SessionRows \cup {None}] /\ row'[s] = r
      /\ \A t \in Servers \ {s} : row'[t] = row[t]
  BY <1>1
<1>3. \A t \in Servers : RowFine(t)'
  <2>1. RowFine(s)'
    <3>1. RowFine(s)
      BY Typed
    <3> QED BY <1>1, <1>2, <3>1 DEF RowFine, Grown, Sound
  <2>2. ASSUME NEW t \in Servers \ {s} PROVE RowFine(t)'
    <3>1. RowFine(t) /\ row'[t] = row[t]
      BY <1>2, Typed
    <3> QED BY <3>1 DEF RowFine
  <2> QED BY <2>1, <2>2
<1>4. \A t \in Servers : Ended(t) => Ended(t)'
  BY <1>1, <1>2 DEF Ended, Grown
<1>5. Kept
  BY <1>4 DEF Kept
<1>6. TerminatedByItsEnd'
  <2> SUFFICES ASSUME NEW t \in Servers, obs[t].state = "terminated"
               PROVE  Ended(t)' /\ obs[t].started <= EndOf(row'[t])
    BY DEF TerminatedByItsEnd, EndOf
  <2>1. Ended(t) /\ obs[t].started <= EndOf(row[t])
    BY DEF IInv, TerminatedByItsEnd
  <2>2. CASE t = s
    <3>1. /\ obs[t].started \in Nat /\ EndOf(row[t]) \in Nat /\ EndOf(r) \in Nat
          /\ EndOf(row[t]) <= EndOf(r)
      BY <2>2, Typed, EndOfFacts, TimesAreNat DEF Grown, Observations
    <3>2. obs[t].started <= EndOf(r)
      BY SMT, <2>1, <3>1
    <3> QED BY <1>2, <1>4, <2>1, <2>2, <3>2
  <2>3. CASE t # s
    BY <1>2, <1>4, <2>1, <2>3
  <2> QED BY <2>2, <2>3
<1>7. /\ lease' \in [Servers -> LeaseRows] /\ bound' \in SUBSET Servers
      /\ obs' \in [Servers -> Observations]
  BY DEF IInv, TypeOK
<1>8. \A t \in Servers \ {s} : row'[t] = row[t] /\ LeaseKept(t)
  BY <1>2 DEF LeaseKept
<1> QED BY <1>2, <1>3, <1>5, <1>6, <1>7, <1>8, ProcStep

\* The same for a step that records nothing.
LEMMA RowSame ==
  ASSUME IInv, NEW s \in Servers, row[s] # None, UNCHANGED row,
         UNCHANGED <<clock, connection, lease, obs>>, bound' \in {bound, bound \cup {s}},
         NEW p \in Processes, proc' = [proc EXCEPT ![s] = p], ProcFine(s)'
  PROVE  IInv'
<1>1. row' = [row EXCEPT ![s] = row[s]]
  BY DEF IInv, TypeOK
<1>2. Grown(row[s], row[s])
  BY Typed, GrownSame
<1> QED BY <1>1, <1>2, RowWrite

LEMMA MovedFine ==
  ASSUME IInv, NEW s \in Servers, proc[s].pc \in Serving \cup {"terminating"},
         proc[s].todo = {}, NEW pc \in Serving \cup {"terminating"},
         pc \in Serving => proc[s].pc \in Serving /\ row'[s].last <= Observed(s),
         row'[s] # None, row'[s].last \in Times, NEW p, p = Moved(s, pc), proc'[s] = p,
         UNCHANGED obs, bound \subseteq bound'
  PROVE  ProcFine(s)'
<1>1. ProcFine(s) /\ pc \in Phases
  BY Typed DEF Serving, Phases
<1>2. /\ p.pc = pc /\ p.floor = Observed(s) /\ p.todo = {} /\ p.owed = proc[s].owed
  <2>1. /\ Moved(s, pc).pc = pc /\ Moved(s, pc).floor = Observed(s)
        /\ Moved(s, pc).todo = proc[s].todo /\ Moved(s, pc).owed = proc[s].owed
    BY <1>1, MovedFacts
  <2> QED BY <2>1
<1>3. pc \in Serving => Observed(s) >= row'[s].last
  <2>1. Observed(s) \in Nat /\ row'[s].last \in Nat
    BY ObservedFacts, TimesAreNat
  <2> QED BY SMT, <2>1
<1>4. pc \notin {"new", "done", "recovering"}
  BY DEF Serving
<1>5. \A r \in proc[s].owed :
        /\ r \in bound' /\ obs'[r].state # "none"
        /\ pc \in Serving => obs'[r].state # "open"
  BY <1>1 DEF ProcFine, Serving
<1> QED BY <1>2, <1>3, <1>4, <1>5 DEF ProcFine

LEMMA EndingFine ==
  ASSUME IInv, NEW s \in Servers, proc[s].pc \in Serving \cup {"terminating"},
         row'[s] # None, row'[s].last = Observed(s), Ended(s)',
         NEW exiting \in BOOLEAN, NEW p, p = Ending(s, exiting), proc'[s] = p,
         UNCHANGED obs, bound \subseteq bound'
  PROVE  ProcFine(s)'
<1>1. ProcFine(s)
  BY Typed
<1>2. /\ p.pc = proc[s].pc /\ p.floor = Observed(s) /\ p.todo = {s} /\ p.owed = proc[s].owed
  BY EndingFacts
<1>3. Observed(s) >= row'[s].last
  <2>1. Observed(s) \in Nat
    BY ObservedFacts, TimesAreNat
  <2> QED BY SMT, <2>1
<1>4. proc[s].pc \notin {"new", "done", "recovering"}
  BY DEF Serving
<1>5. \A r \in proc[s].owed :
        /\ r \in bound' /\ obs'[r].state # "none"
        /\ proc[s].pc \in Serving => obs'[r].state # "open"
  BY <1>1 DEF ProcFine, Serving
<1> QED BY <1>2, <1>3, <1>4, <1>5 DEF ProcFine

LEMMA StoppedFine ==
  ASSUME IInv, NEW s \in Servers, NEW pc \in {"exited", "not_started", "recovery_failed", "dead"},
         proc'[s] = Stopped(pc)
  PROVE  ProcFine(s)'
<1>1. pc \in Phases /\ pc \notin Serving \cup {"new", "done", "recovering", "terminating"}
  BY DEF Phases, Serving
<1>2. proc'[s].pc = pc /\ proc'[s].todo = {} /\ proc'[s].owed = {}
  BY <1>1, StoppedFacts
<1> QED BY <1>1, <1>2 DEF ProcFine

LEMMA RecordKeeps ==
  ASSUME IInv, NEW s \in Servers, proc[s].pc \in Serving, proc[s].todo = {},
         NEW r, SameEnd(row[s], Observed(s), r), NEW pc \in Serving, Record(s, r, pc),
         UNCHANGED <<clock, connection, lease, obs>>, bound' \in {bound, bound \cup {s}}
  PROVE  IInv'
<1>1. row[s] # None /\ Sound(row[s])
  BY Typed DEF ProcFine
<1>2. Observed(s) \in Times /\ row[s].last <= Observed(s)
  BY ObservedFacts
<1>3. CASE Recordable(s, r)
  <2>1. /\ row' = [row EXCEPT ![s] = r] /\ proc' = [proc EXCEPT ![s] = Moved(s, pc)]
    BY <1>3 DEF Record
  <2>2. Grown(row[s], r)
    BY <1>1, <1>2, <1>3, GrownMilestone DEF SameEnd, Recordable, Commits
  <2>3. row'[s] = r /\ r # None /\ r.last = Observed(s)
    BY <2>1, NoneApart DEF IInv, TypeOK, SameEnd
  <2>4. pc \in Phases
    BY DEF Serving, Phases
  <2>5. PICK p \in Processes : p = Moved(s, pc)
    BY <2>4, MovedFacts
  <2>6. proc' = [proc EXCEPT ![s] = p] /\ proc'[s] = p
    BY <2>1, <2>5 DEF IInv, TypeOK
  <2>7. row'[s].last <= Observed(s)
    <3>1. Observed(s) \in Nat
      BY <1>2, TimesAreNat
    <3>2. Observed(s) <= Observed(s)
      BY SMT, <3>1
    <3> QED BY <2>3, <3>2
  <2>8. ProcFine(s)'
    BY <1>2, <2>3, <2>5, <2>6, <2>7, MovedFine
  <2> QED BY <1>1, <2>1, <2>2, <2>6, <2>8, RowWrite
<1>4. CASE ~Recordable(s, r)
  <2>1. UNCHANGED row /\ proc' = [proc EXCEPT ![s] = Moved(s, "terminating")]
    BY <1>4 DEF Record
  <2>2. PICK p \in Processes : p = Moved(s, "terminating")
    BY MovedFacts DEF Phases
  <2>3. proc' = [proc EXCEPT ![s] = p] /\ proc'[s] = p
    BY <2>1, <2>2 DEF IInv, TypeOK
  <2>4. "terminating" \notin Serving
    BY DEF Serving
  <2>5. ProcFine(s)'
    BY <1>1, <2>1, <2>2, <2>3, <2>4, EndOfFacts, MovedFine
  <2> QED BY <1>1, <2>1, <2>3, <2>5, RowSame
<1> QED BY <1>3, <1>4

\* An error that ends the transport, or is only noted.
LEMMA MoveKeeps ==
  ASSUME IInv, NEW s \in Servers, proc[s].pc \in Serving, proc[s].todo = {},
         NEW pc \in Serving \cup {"terminating"}, proc' = [proc EXCEPT ![s] = Moved(s, pc)],
         UNCHANGED <<clock, connection, lease, obs, row>>, bound' \in {bound, bound \cup {s}}
  PROVE  IInv'
<1>1. row[s] # None /\ Sound(row[s])
  BY Typed DEF ProcFine
<1>2. pc \in Phases
  BY DEF Serving, Phases
<1>3. PICK p \in Processes : p = Moved(s, pc)
  BY <1>2, MovedFacts
<1>4. proc' = [proc EXCEPT ![s] = p] /\ proc'[s] = p
  BY <1>3 DEF IInv, TypeOK
<1>5. row'[s].last <= Observed(s) /\ row'[s].last \in Times
  BY <1>1, ObservedFacts, EndOfFacts
<1>6. ProcFine(s)'
  BY <1>1, <1>3, <1>4, <1>5, MovedFine
<1> QED BY <1>1, <1>4, <1>6, RowSame

LEMMA FailKeeps ==
  ASSUME IInv, NEW s \in Servers, proc[s].pc \in Serving \cup {"terminating"}, proc[s].todo = {},
         NEW r, Grown(row[s], r), proc[s].pc \in Serving => r.last <= Observed(s),
         NEW finding \in Findings, NEW exiting \in BOOLEAN, Fail(s, r, finding, exiting),
         UNCHANGED <<clock, connection, lease, obs>>, bound' \in {bound, bound \cup {s}}
  PROVE  IInv'
<1>1. row[s] # None /\ Sound(row[s])
  BY Typed DEF ProcFine
<1>2. Observed(s) \in Times
  BY ObservedFacts
<1>3. r \in SessionRows /\ r # None /\ r.last \in Times
  BY NoneApart, EndOfFacts DEF Grown, Sound
<1>4. row \in [Servers -> SessionRows \cup {None}] /\ proc \in [Servers -> Processes]
  BY DEF IInv, TypeOK
<1>5. CASE proc[s].failed \/ ~Linkable(r) \/ Observed(s) < r.last
  <2>1. row' = [row EXCEPT ![s] = r] /\ row'[s] = r
    BY <1>4, <1>5 DEF Fail
  <2>2. CASE exiting
    <3>1. proc' = [proc EXCEPT ![s] = Stopped("exited")]
      BY <1>5, <2>2 DEF Fail
    <3>2. Stopped("exited") \in Processes
      BY StoppedFacts DEF Phases
    <3>3. ProcFine(s)'
      BY <1>4, <3>1, StoppedFine
    <3> QED BY <1>1, <2>1, <3>1, <3>2, <3>3, RowWrite
  <2>3. CASE ~exiting
    <3>1. PICK pc \in Serving \cup {"terminating"} :
            /\ pc = IF proc[s].failed THEN proc[s].pc ELSE "terminating"
            /\ pc \in Serving => proc[s].pc \in Serving
      BY DEF Serving
    <3>2. proc' = [proc EXCEPT ![s] = Moved(s, pc)]
      BY <1>5, <2>3, <3>1 DEF Fail
    <3>3. pc \in Phases
      BY DEF Serving, Phases
    <3>4. PICK p \in Processes : p = Moved(s, pc)
      BY <3>3, MovedFacts
    <3>5. proc' = [proc EXCEPT ![s] = p] /\ proc'[s] = p
      BY <1>4, <3>2, <3>4
    <3>6. ProcFine(s)'
      BY <1>3, <2>1, <3>1, <3>4, <3>5, MovedFine
    <3> QED BY <1>1, <2>1, <3>5, <3>6, RowWrite
  <2> QED BY <2>2, <2>3
<1>6. CASE ~proc[s].failed /\ Linkable(r) /\ ~(Observed(s) < r.last)
  <2>1. r.last <= Observed(s)
    <3>1. r.last \in Nat /\ Observed(s) \in Nat
      BY <1>2, <1>3, TimesAreNat
    <3> QED BY SMT, <1>6, <3>1
  <2>2. PICK f : f = FailedRow(r, finding, Observed(s))
    OBVIOUS
  <2>3. Grown(row[s], f) /\ f.terminal # None /\ f.last = Observed(s)
    <3>0. PICK at \in Times : at = Observed(s)
      BY <1>2
    <3>1. PICK q : q = row[s]
      OBVIOUS
    <3>a. Sound(q) /\ Grown(q, r) /\ Linkable(r) /\ r.last <= at
      BY <1>1, <1>6, <2>1, <3>0, <3>1
    <3>2. /\ Grown(q, FailedRow(r, finding, at))
          /\ FailedRow(r, finding, at).terminal # None
          /\ FailedRow(r, finding, at).last = at
      BY SMT, <3>a, GrownFailed
    <3> QED BY <2>2, <3>0, <3>1, <3>2
  <2>4. f # None
    BY <2>3, NoneApart DEF Grown, Sound
  <2>5. row' = [row EXCEPT ![s] = f] /\ proc' = [proc EXCEPT ![s] = Ending(s, exiting)]
    BY <1>6, <2>2 DEF Fail, FailedRow
  <2>6. PICK p \in Processes : p = Ending(s, exiting)
    BY EndingFacts
  <2>7. row'[s] = f /\ proc' = [proc EXCEPT ![s] = p] /\ proc'[s] = p
    BY <1>4, <2>5, <2>6
  <2>8. Ended(s)'
    BY <2>3, <2>4, <2>7 DEF Ended
  <2>9. ProcFine(s)'
    BY <2>3, <2>4, <2>6, <2>7, <2>8, EndingFine
  <2> QED BY <1>1, <2>3, <2>5, <2>7, <2>9, RowWrite
<1> QED BY <1>5, <1>6

-----------------------------------------------------------------------------
(* The messages of the client, and the ends of a session.                  *)

LEMMA HandlesFacts ==
  ASSUME IInv, NEW s \in Servers, NEW phases \in SUBSET (Serving \cup {"terminating"}),
         Handles(s, phases)
  PROVE  /\ proc[s].pc \in phases /\ proc[s].todo = {}
         /\ row[s] # None /\ Sound(row[s]) /\ row[s] \in SessionRows
         /\ Observed(s) \in Times
<1>1. proc[s].pc \in phases /\ proc[s].todo = {}
  BY DEF Handles, Busy
<1>2. row[s] # None /\ Sound(row[s])
  BY <1>1, Typed DEF ProcFine
<1> QED BY <1>1, <1>2, ObservedFacts DEF Sound

\* A process that only changes its phase.
PcSet(s, pc) == [proc[s] EXCEPT !.pc = pc]

LEMMA PcSetFacts ==
  ASSUME IInv, NEW s \in Servers, NEW pc \in Phases
  PROVE  LET p == PcSet(s, pc)
         IN /\ p \in Processes /\ p.pc = pc /\ p.floor = proc[s].floor
            /\ p.todo = proc[s].todo /\ p.owed = proc[s].owed
<1>1. PICK q \in Processes : q = proc[s]
  BY Typed
<1>2. PICK p : p = [q EXCEPT !.pc = pc]
  OBVIOUS
<1>3. p = [pc |-> pc, floor |-> q.floor, failed |-> q.failed, todo |-> q.todo,
           exiting |-> q.exiting, owed |-> q.owed]
  BY <1>2 DEF Processes
<1>4. p \in Processes /\ p.pc = pc /\ p.floor = q.floor /\ p.todo = q.todo /\ p.owed = q.owed
  BY SMT, <1>3 DEF Processes
<1>5. p = PcSet(s, pc)
  BY <1>1, <1>2 DEF PcSet
<1> QED BY <1>1, <1>4, <1>5

\* The transport has failed.
LEMMA BreakKeeps ==
  ASSUME IInv, NEW s \in Servers, Handles(s, Serving),
         proc' = [proc EXCEPT ![s].pc = "terminating"], UNCHANGED row, Quiet
  PROVE  IInv'
<1>1. proc[s].pc \in Serving /\ proc[s].todo = {} /\ row[s] # None
  BY HandlesFacts
<1>2. PICK p \in Processes : p = PcSet(s, "terminating")
  BY PcSetFacts DEF Phases
<1>3. p.pc = "terminating" /\ p.todo = {} /\ p.owed = proc[s].owed
  BY <1>1, <1>2, PcSetFacts DEF Phases
<1>4. proc' = [proc EXCEPT ![s] = p] /\ proc'[s] = p
  BY <1>2 DEF PcSet, IInv, TypeOK
<1>5. ProcFine(s)'
  <2>1. \A r \in proc[s].owed : r \in bound' /\ obs'[r].state # "none"
    BY Typed DEF ProcFine, Quiet
  <2>2. "terminating" \notin Serving
    BY DEF Serving
  <2> QED BY <1>1, <1>3, <1>4, <2>1, <2>2 DEF ProcFine
<1> QED BY <1>1, <1>4, <1>5, RowSame DEF Quiet

LEMMA InitializeKeeps ==
  ASSUME IInv, NEW s \in Servers, Initialize(s)
  PROVE  IInv'
<1>1. Handles(s, {"await_initialize"}) /\ Quiet
  BY DEF Initialize
<1>2. proc[s].pc \in Serving /\ proc[s].todo = {} /\ row[s] \in SessionRows /\ Observed(s) \in Times
  BY <1>1, HandlesFacts DEF Serving
<1>3. CASE row[s].attempted
  BY <1>1, <1>2, <1>3, MoveKeeps DEF Initialize, Quiet
<1>4. CASE ~row[s].attempted
  <2>1. PICK r : r = [row[s] EXCEPT !.attempted = TRUE, !.completed = Observed(s),
                                    !.last = Observed(s)]
    OBVIOUS
  <2>2. SameEnd(row[s], Observed(s), r)
    BY <1>2, <2>1, MilestoneRows
  <2>3. Record(s, r, "await_initialized")
    BY <1>4, <2>1 DEF Initialize
  <2> QED BY <1>1, <1>2, <2>2, <2>3, RecordKeeps DEF Quiet, Serving
<1> QED BY <1>3, <1>4

LEMMA InitializedKeeps ==
  ASSUME IInv, NEW s \in Servers, InitializedNotification(s)
  PROVE  IInv'
<1>1. Handles(s, {"await_initialized"}) /\ Quiet
  BY DEF InitializedNotification
<1>2. proc[s].pc \in Serving /\ proc[s].todo = {} /\ row[s] \in SessionRows /\ Observed(s) \in Times
  BY <1>1, HandlesFacts DEF Serving
<1>3. PICK r : r = [row[s] EXCEPT !.initialized = IF @ = None THEN Observed(s) ELSE @,
                                  !.last = Observed(s)]
  OBVIOUS
<1>4. SameEnd(row[s], Observed(s), r)
  BY <1>2, <1>3, MilestoneRows
<1>5. Record(s, r, "ready")
  BY <1>3 DEF InitializedNotification
<1> QED BY <1>1, <1>2, <1>4, <1>5, RecordKeeps DEF Quiet, Serving

LEMMA ListToolsKeeps ==
  ASSUME IInv, NEW s \in Servers, NEW present \in BOOLEAN, ListTools(s, present)
  PROVE  IInv'
<1>1. Handles(s, {"await_initialized", "ready"}) /\ Quiet
  BY DEF ListTools
<1>2. /\ proc[s].pc \in Serving /\ proc[s].todo = {} /\ row[s] \in SessionRows
      /\ Observed(s) \in Times /\ Sound(row[s])
  BY <1>1, HandlesFacts DEF Serving
<1>3. PICK r : r = [row[s] EXCEPT !.listed = Observed(s),
                                  !.validated = IF present THEN Observed(s) ELSE None,
                                  !.last = Observed(s)]
  OBVIOUS
<1>4. SameEnd(row[s], Observed(s), r)
  BY <1>2, <1>3, MilestoneRows
<1>5. CASE present \/ ~Recordable(s, r)
  <2>1. Record(s, r, proc[s].pc)
    BY <1>3, <1>5 DEF ListTools
  <2> QED BY <1>1, <1>2, <1>4, <2>1, RecordKeeps DEF Quiet
<1>6. CASE ~present /\ Recordable(s, r)
  <2>1. Fail(s, r, "failure", FALSE)
    BY <1>3, <1>6 DEF ListTools
  <2>2. row[s].last <= Observed(s)
    BY <1>2, ObservedFacts
  <2>3. Grown(row[s], r)
    BY <1>2, <1>4, <1>6, <2>2, GrownMilestone DEF SameEnd, Recordable, Commits
  <2>4. r.last <= Observed(s)
    <3>1. Observed(s) \in Nat /\ r.last = Observed(s)
      BY <1>2, <1>4, TimesAreNat DEF SameEnd
    <3> QED BY SMT, <3>1
  <2>5. "failure" \in Findings
    BY DEF Findings
  <2> QED BY <1>1, <1>2, <2>1, <2>3, <2>4, <2>5, FailKeeps DEF Quiet
<1> QED BY <1>5, <1>6

LEMMA CallVerificationToolKeeps ==
  ASSUME IInv, NEW s \in Servers, CallVerificationTool(s)
  PROVE  IInv'
<1>1. /\ Handles(s, {"ready"}) /\ bound' \in {bound, bound \cup {s}}
      /\ UNCHANGED <<clock, connection, lease, obs>>
  BY DEF CallVerificationTool
<1>2. proc[s].pc \in Serving /\ proc[s].todo = {} /\ row[s] \in SessionRows /\ Observed(s) \in Times
  BY <1>1, HandlesFacts DEF Serving
<1>3. CASE Verifiable(row[s])
  <2>1. PICK r : r = [row[s] EXCEPT !.verified = Observed(s), !.last = Observed(s)]
    OBVIOUS
  <2>2. SameEnd(row[s], Observed(s), r)
    BY <1>2, <2>1, MilestoneRows
  <2>3. Record(s, r, "ready")
    BY <1>3, <2>1 DEF CallVerificationTool
  <2> QED BY <1>1, <1>2, <2>2, <2>3, RecordKeeps DEF Serving
<1>4. CASE ~Verifiable(row[s])
  BY <1>1, <1>2, <1>4, MoveKeeps DEF CallVerificationTool
<1> QED BY <1>3, <1>4

\* A finding over the row as it is.
LEMMA FailSame ==
  ASSUME IInv, NEW s \in Servers, Handles(s, Serving \cup {"terminating"}),
         NEW finding \in Findings, NEW exiting \in BOOLEAN, Fail(s, row[s], finding, exiting),
         UNCHANGED <<clock, connection, lease, obs>>, bound' \in {bound, bound \cup {s}}
  PROVE  IInv'
<1>1. proc[s].pc \in Serving \cup {"terminating"} /\ proc[s].todo = {} /\ Sound(row[s])
  BY HandlesFacts
<1>2. Grown(row[s], row[s])
  BY <1>1, GrownSame
<1>3. proc[s].pc \in Serving => row[s].last <= Observed(s)
  BY ObservedFacts
<1>4. PICK r : r = row[s]
  OBVIOUS
<1> QED BY <1>1, <1>2, <1>3, <1>4, FailKeeps

LEMMA CallToolKeeps ==
  ASSUME IInv, NEW s \in Servers, NEW fails \in BOOLEAN, CallTool(s, fails)
  PROVE  IInv'
<1>1. /\ Handles(s, {"ready"}) /\ bound' \in {bound, bound \cup {s}}
      /\ UNCHANGED <<clock, connection, lease, obs>>
  BY DEF CallTool
<1>2. Handles(s, Serving \cup {"terminating"}) /\ row[s] # None
  BY <1>1, HandlesFacts DEF Serving, Handles
<1>3. CASE fails /\ s \in bound'
  <2>1. Fail(s, row[s], "failure", FALSE) /\ "failure" \in Findings
    BY <1>3 DEF CallTool, Findings
  <2> QED BY <1>1, <1>2, <2>1, FailSame
<1>4. CASE ~(fails /\ s \in bound')
  <2>1. UNCHANGED <<row, proc>>
    BY <1>4 DEF CallTool
  <2>2. PICK p \in Processes : p = proc[s]
    BY Typed
  <2>3. proc' = [proc EXCEPT ![s] = p]
    BY <2>1, <2>2 DEF IInv, TypeOK
  <2>4. Kept /\ LeaseKept(s)
    BY <1>1, <2>1 DEF Kept, LeaseKept, Ended
  <2>5. ProcFine(s)'
    BY <2>1, <2>4, ProcKept
  <2> QED BY <1>1, <1>2, <2>1, <2>3, <2>5, RowSame
<1> QED BY <1>3, <1>4

LEMMA BadRequestKeeps ==
  ASSUME IInv, NEW s \in Servers, NEW attempted \in BOOLEAN, BadRequest(s, attempted)
  PROVE  IInv'
<1>1. Handles(s, Serving) /\ Quiet
  BY DEF BadRequest
<1>2. /\ proc[s].pc \in Serving /\ proc[s].todo = {} /\ row[s] \in SessionRows
      /\ Observed(s) \in Times /\ Sound(row[s])
  BY <1>1, HandlesFacts
<1>3. "failure" \in Findings
  BY DEF Findings
<1>4. PICK r : r = [row[s] EXCEPT !.attempted = TRUE, !.last = Observed(s)]
  OBVIOUS
<1>5. CASE ~(attempted /\ proc[s].pc = "await_initialize")
  <2>1. Fail(s, row[s], "failure", FALSE)
    BY <1>5 DEF BadRequest
  <2>2. Handles(s, Serving \cup {"terminating"})
    BY <1>1 DEF Handles
  <2> QED BY <1>1, <1>3, <2>1, <2>2, FailSame DEF Quiet
<1>6. CASE attempted /\ proc[s].pc = "await_initialize" /\ (row[s].attempted \/ ~Recordable(s, r))
  <2>1. proc' = [proc EXCEPT ![s].pc = "terminating"] /\ UNCHANGED row
    BY <1>4, <1>6 DEF BadRequest
  <2> QED BY <1>1, <2>1, BreakKeeps
<1>7. CASE attempted /\ proc[s].pc = "await_initialize" /\ ~(row[s].attempted \/ ~Recordable(s, r))
  <2>1. Fail(s, r, "failure", FALSE)
    BY <1>4, <1>7 DEF BadRequest
  <2>2. row[s].last <= Observed(s)
    BY <1>2, ObservedFacts
  <2>3. SameEnd(row[s], Observed(s), r)
    BY <1>2, <1>4, MilestoneRows
  <2>4. Grown(row[s], r)
    BY <1>2, <1>7, <2>2, <2>3, GrownMilestone DEF SameEnd, Recordable, Commits
  <2>5. r.last <= Observed(s)
    <3>1. Observed(s) \in Nat /\ r.last = Observed(s)
      BY <1>2, <2>3, TimesAreNat DEF SameEnd
    <3> QED BY SMT, <3>1
  <2> QED BY <1>1, <1>2, <1>3, <2>1, <2>4, <2>5, FailKeeps DEF Quiet
<1> QED BY <1>5, <1>6, <1>7

LEMMA EofKeeps ==
  ASSUME IInv, NEW s \in Servers, Eof(s)
  PROVE  IInv'
<1>1. Handles(s, Serving) /\ Quiet
  BY DEF Eof
<1>2. /\ proc[s].pc \in Serving /\ proc[s].todo = {} /\ row[s] \in SessionRows
      /\ Observed(s) \in Times /\ Sound(row[s]) /\ row[s] # None
  BY <1>1, HandlesFacts
<1>3. CASE ~ClosesGracefully(s)
  <2>1. Fail(s, row[s], "failure", TRUE) /\ "failure" \in Findings
    BY <1>3 DEF Eof, Findings
  <2>2. Handles(s, Serving \cup {"terminating"})
    BY <1>1 DEF Handles
  <2> QED BY <1>1, <2>1, <2>2, FailSame DEF Quiet
<1>4. CASE ClosesGracefully(s)
  <2>1. PICK r : r = ClosedRow(row[s], Observed(s))
    OBVIOUS
  <2>2. PICK p \in Processes : p = Ending(s, TRUE)
    BY EndingFacts
  <2>3. row' = [row EXCEPT ![s] = r] /\ proc' = [proc EXCEPT ![s] = p] /\ row[s].terminal = None
    BY <1>4, <2>1, <2>2 DEF Eof, ClosedRow
  <2>4. row[s].last <= Observed(s)
    BY <1>2, ObservedFacts
  <2>5. Grown(row[s], r) /\ r.last = Observed(s) /\ r.closed # None /\ r # None
    BY <1>2, <2>1, <2>3, <2>4, GrownClosed, NoneApart DEF Grown, Sound
  <2>6. row'[s] = r /\ proc'[s] = p
    BY <2>3 DEF IInv, TypeOK
  <2>7. Ended(s)'
    BY <2>5, <2>6 DEF Ended
  <2>8. ProcFine(s)'
    BY <1>1, <1>2, <2>2, <2>5, <2>6, <2>7, EndingFine DEF Quiet
  <2> QED BY <1>1, <1>2, <2>3, <2>5, <2>8, RowWrite DEF Quiet
<1> QED BY <1>3, <1>4

LEMMA MinorFindingKeeps ==
  ASSUME IInv, NEW s \in Servers, MinorFinding(s)
  PROVE  IInv'
<1>1. Handles(s, Serving) /\ Quiet /\ UNCHANGED row /\ proc' = [proc EXCEPT ![s].floor = Observed(s)]
  BY DEF MinorFinding
<1>2. proc[s].pc \in Serving /\ proc[s].todo = {} /\ Observed(s) \in Times
  BY <1>1, HandlesFacts
<1>3. PICK q \in Processes : q = proc[s]
  BY Typed
<1>4. PICK p : p = [q EXCEPT !.floor = Observed(s)]
  OBVIOUS
<1>5. PICK m : m = [q EXCEPT !.floor = Observed(s), !.pc = q.pc]
  OBVIOUS
<1>6. p = [pc |-> q.pc, floor |-> Observed(s), failed |-> q.failed, todo |-> q.todo,
           exiting |-> q.exiting, owed |-> q.owed]
  BY <1>4 DEF Processes
<1>7. m = [pc |-> q.pc, floor |-> Observed(s), failed |-> q.failed, todo |-> q.todo,
           exiting |-> q.exiting, owed |-> q.owed]
  BY <1>5 DEF Processes
<1>8. proc' = [proc EXCEPT ![s] = Moved(s, proc[s].pc)]
  BY <1>1, <1>3, <1>4, <1>5, <1>6, <1>7 DEF Moved
<1>9. PICK pc \in Serving : pc = proc[s].pc
  BY <1>2
<1> QED BY <1>1, <1>2, <1>8, <1>9, MoveKeeps DEF Quiet

LEMMA TransportFailsKeeps ==
  ASSUME IInv, NEW s \in Servers, TransportFails(s)
  PROVE  IInv'
  BY BreakKeeps DEF TransportFails

LEMMA TerminateKeeps ==
  ASSUME IInv, NEW s \in Servers, Terminate(s)
  PROVE  IInv'
<1>1. Handles(s, Serving \cup {"terminating"}) /\ Quiet
  BY DEF Terminate, Handles
<1>2. Fail(s, row[s], "termination", TRUE) /\ "termination" \in Findings
  BY DEF Terminate, Findings
<1> QED BY <1>1, <1>2, FailSame DEF Quiet

-----------------------------------------------------------------------------
(* Starting, recovering and stopping a process.                            *)

\* The rows are as they were, and so is what was consumed.
LEMMA RowsByLease ==
  ASSUME IInv, UNCHANGED row,
         \A t \in Servers :
           /\ lease'[t].state = "consumed" <=> lease[t].state = "consumed"
           /\ lease[t].state = "consumed" => lease'[t].revision = lease[t].revision
  PROVE  \A t \in Servers : RowFine(t)'
<1> SUFFICES ASSUME NEW t \in Servers PROVE RowFine(t)'
  OBVIOUS
<1>1. RowFine(t)
  BY Typed
<1> QED BY <1>1 DEF RowFine

\* A step of a process that leaves rows and observations alone.
LEMMA QuietStep ==
  ASSUME IInv, NEW s \in Servers, NEW p \in Processes, proc' = [proc EXCEPT ![s] = p],
         ProcFine(s)', UNCHANGED <<clock, connection, row, bound, obs>>,
         lease' \in [Servers -> LeaseRows],
         \A t \in Servers :
           /\ lease'[t].state = "consumed" <=> lease[t].state = "consumed"
           /\ lease[t].state = "consumed" => lease'[t].revision = lease[t].revision,
         \A t \in Servers \ {s} : LeaseKept(t)
  PROVE  IInv'
<1>1. Kept
  BY DEF Kept, Ended
<1>2. \A t \in Servers : RowFine(t)'
  BY RowsByLease
<1>3. TerminatedByItsEnd'
  BY DEF IInv, TerminatedByItsEnd, Ended
<1>4. /\ row' \in [Servers -> SessionRows \cup {None}] /\ bound' \in SUBSET Servers
      /\ obs' \in [Servers -> Observations]
  BY DEF IInv, TypeOK
<1> QED BY <1>1, <1>2, <1>3, <1>4, ProcStep

LEMMA EndLeaseFacts ==
  ASSUME NEW l \in LeaseRows, NEW state \in {"consumed", "expired", "cancelled"}
  PROVE  /\ EndLease(l, state) \in LeaseRows
         /\ EndLease(l, state).state = state /\ EndLease(l, state).revision = l.revision
  BY SMT DEF EndLease, LeaseRows

LEMMA CleanFacts ==
  ASSUME IInv
  PROVE  /\ CleanLeases \in [Servers -> LeaseRows]
         /\ \A t \in Servers :
              /\ CleanLeases[t].revision = lease[t].revision
              /\ CleanLeases[t].state = "none" <=> lease[t].state = "none"
              /\ CleanLeases[t].state = "consumed" <=> lease[t].state = "consumed"
              /\ lease[t].state # "issued" => CleanLeases[t].state # "issued"
<1>1. \A t \in Servers :
        /\ CleanLeases[t] \in LeaseRows
        /\ CleanLeases[t].revision = lease[t].revision
        /\ CleanLeases[t].state = "none" <=> lease[t].state = "none"
        /\ CleanLeases[t].state = "consumed" <=> lease[t].state = "consumed"
        /\ lease[t].state # "issued" => CleanLeases[t].state # "issued"
  <2> SUFFICES ASSUME NEW t \in Servers
               PROVE  /\ CleanLeases[t] \in LeaseRows
                      /\ CleanLeases[t].revision = lease[t].revision
                      /\ CleanLeases[t].state = "none" <=> lease[t].state = "none"
                      /\ CleanLeases[t].state = "consumed" <=> lease[t].state = "consumed"
                      /\ lease[t].state # "issued" => CleanLeases[t].state # "issued"
    OBVIOUS
  <2>1. lease[t] \in LeaseRows
    BY Typed
  <2>2. CASE lease[t].state = "issued" /\ lease[t].expires <= clock
    <3>1. CleanLeases[t] = EndLease(lease[t], "expired")
      BY <2>2 DEF CleanLeases
    <3>2. PICK l \in LeaseRows : l = lease[t]
      BY <2>1
    <3>3. /\ EndLease(l, "expired") \in LeaseRows /\ EndLease(l, "expired").state = "expired"
          /\ EndLease(l, "expired").revision = l.revision
      BY EndLeaseFacts
    <3> QED BY <2>2, <3>1, <3>2, <3>3
  <2>3. CASE ~(lease[t].state = "issued" /\ lease[t].expires <= clock)
    <3>1. CleanLeases[t] = lease[t]
      BY <2>3 DEF CleanLeases
    <3> QED BY <2>1, <3>1
  <2> QED BY <2>2, <2>3
<1>2. CleanLeases \in [Servers -> LeaseRows]
  BY <1>1 DEF CleanLeases
<1> QED BY <1>1, <1>2

LEMMA CleanKept ==
  ASSUME IInv, NEW s \in Servers, NEW l \in LeaseRows, lease' = [CleanLeases EXCEPT ![s] = l]
  PROVE  /\ lease' \in [Servers -> LeaseRows] /\ lease'[s] = l
         /\ \A t \in Servers \ {s} :
              /\ LeaseKept(t)
              /\ lease'[t].state = "consumed" <=> lease[t].state = "consumed"
              /\ lease'[t].revision = lease[t].revision
<1>1. /\ lease' \in [Servers -> LeaseRows] /\ lease'[s] = l
      /\ \A t \in Servers \ {s} : lease'[t] = CleanLeases[t]
  BY CleanFacts
<1> QED BY <1>1, CleanFacts DEF LeaseKept

LEMMA IssueLeaseKeeps ==
  ASSUME IInv, NEW s \in Servers, IssueLease(s)
  PROVE  IInv'
<1>1. PICK l : l = [state |-> "issued", revision |-> connection.revision, expires |-> clock + LeaseTtl]
  OBVIOUS
<1>2. l \in LeaseRows /\ l.state = "issued"
  <2>1. connection.revision \in Revisions /\ clock \in Nat
    BY TimesAreNat DEF IInv, TypeOK
  <2> QED BY SMT, <1>1, <2>1, McpAssumption DEF LeaseRows
<1>3. lease' = [CleanLeases EXCEPT ![s] = l]
  BY <1>1 DEF IssueLease
<1>4. proc[s].pc = "new" /\ lease[s].state = "none"
  BY Typed DEF IssueLease, ProcFine
<1>5. PICK p \in Processes : p = PcSet(s, "issued")
  BY PcSetFacts DEF Phases
<1>6. p.pc = "issued" /\ p.todo = proc[s].todo /\ p.owed = proc[s].owed
  BY <1>5, PcSetFacts DEF Phases
<1>7. proc' = [proc EXCEPT ![s] = p] /\ proc'[s] = p
  BY <1>5 DEF PcSet, IssueLease, IInv, TypeOK
<1>8. ProcFine(s)'
  <2>1. proc[s].todo = {}
    BY <1>4, Typed DEF ProcFine, Serving
  <2>2. \A r \in proc[s].owed : r \in bound' /\ obs'[r].state # "none"
    BY Typed DEF ProcFine, IssueLease
  <2>3. "issued" \notin Serving
    BY DEF Serving
  <2> QED BY <1>6, <1>7, <2>1, <2>2, <2>3 DEF ProcFine
<1>9. /\ lease' \in [Servers -> LeaseRows] /\ lease'[s] = l
      /\ \A t \in Servers \ {s} :
           /\ LeaseKept(t)
           /\ lease'[t].state = "consumed" <=> lease[t].state = "consumed"
           /\ lease'[t].revision = lease[t].revision
  BY <1>2, <1>3, CleanKept
<1>10. /\ lease'[s].state = "consumed" <=> lease[s].state = "consumed"
       /\ lease[s].state = "consumed" => lease'[s].revision = lease[s].revision
  BY <1>2, <1>4, <1>9
<1>11. \A t \in Servers :
         /\ lease'[t].state = "consumed" <=> lease[t].state = "consumed"
         /\ lease[t].state = "consumed" => lease'[t].revision = lease[t].revision
  BY <1>9, <1>10
<1> QED BY <1>7, <1>8, <1>9, <1>11, QuietStep DEF IssueLease

LEMMA CancelLeaseKeeps ==
  ASSUME IInv, NEW s \in Servers, CancelLease(s)
  PROVE  IInv'
<1>1. PICK l : l = Cancelled(CleanLeases[s])
  OBVIOUS
<1>2. CleanLeases[s] \in LeaseRows
  BY CleanFacts
<1>3. /\ l \in LeaseRows /\ l.state # "issued" /\ l.revision = CleanLeases[s].revision
      /\ l.state = "consumed" <=> CleanLeases[s].state = "consumed"
  BY <1>1, <1>2, EndLeaseFacts DEF Cancelled
<1>4. lease' = [CleanLeases EXCEPT ![s] = l]
  BY <1>1, CleanFacts DEF CancelLease
<1>5. PICK p \in Processes : p = PcSet(s, "done")
  BY PcSetFacts DEF Phases
<1>6. p.pc = "done" /\ p.todo = proc[s].todo /\ p.owed = proc[s].owed
  BY <1>5, PcSetFacts DEF Phases
<1>7. proc' = [proc EXCEPT ![s] = p] /\ proc'[s] = p
  BY <1>5 DEF PcSet, CancelLease, IInv, TypeOK
<1>8. ProcFine(s)'
  <2>1. proc[s].todo = {}
    BY Typed DEF ProcFine, Serving, CancelLease
  <2>2. \A r \in proc[s].owed : r \in bound' /\ obs'[r].state # "none"
    BY Typed DEF ProcFine, CancelLease
  <2>3. "done" \notin Serving
    BY DEF Serving
  <2>4. lease'[s].state # "issued"
    BY <1>3, <1>4, CleanKept
  <2> QED BY <1>6, <1>7, <2>1, <2>2, <2>3, <2>4 DEF ProcFine
<1>9. /\ lease' \in [Servers -> LeaseRows] /\ lease'[s] = l
      /\ \A t \in Servers \ {s} :
           /\ LeaseKept(t)
           /\ lease'[t].state = "consumed" <=> lease[t].state = "consumed"
           /\ lease'[t].revision = lease[t].revision
  BY <1>3, <1>4, CleanKept
<1>10. /\ lease'[s].state = "consumed" <=> lease[s].state = "consumed"
       /\ lease[s].state = "consumed" => lease'[s].revision = lease[s].revision
  BY <1>3, <1>9, CleanFacts
<1>11. \A t \in Servers :
         /\ lease'[t].state = "consumed" <=> lease[t].state = "consumed"
         /\ lease[t].state = "consumed" => lease'[t].revision = lease[t].revision
  BY <1>9, <1>10
<1> QED BY <1>7, <1>8, <1>9, <1>11, QuietStep DEF CancelLease

\* A step of a process that changes nothing else.
LEMMA SameLeases ==
  ASSUME IInv, NEW s \in Servers, NEW p \in Processes, proc' = [proc EXCEPT ![s] = p],
         ProcFine(s)', UNCHANGED <<clock, connection, lease, row, bound, obs>>
  PROVE  IInv'
<1>1. lease' \in [Servers -> LeaseRows] /\ \A t \in Servers : LeaseKept(t)
  BY DEF IInv, TypeOK, LeaseKept
<1> QED BY <1>1, QuietStep

LEMMA StopStep ==
  ASSUME IInv, NEW s \in Servers, NEW pc \in {"exited", "not_started", "recovery_failed", "dead"},
         proc' = [proc EXCEPT ![s] = Stopped(pc)],
         UNCHANGED <<clock, connection, lease, row, bound, obs>>
  PROVE  IInv'
<1>1. pc \in Phases
  BY DEF Phases
<1>2. Stopped(pc) \in Processes /\ proc'[s] = Stopped(pc)
  BY <1>1, StoppedFacts DEF IInv, TypeOK
<1> QED BY <1>2, StoppedFine, SameLeases

LEMMA FailedStartFields ==
  ASSUME NEW owed \in SUBSET Servers,
         NEW p, p = [pc |-> "recovery_failed", floor |-> 0, failed |-> FALSE, todo |-> {},
                     exiting |-> FALSE, owed |-> owed]
  PROVE  p \in Processes /\ p.pc = "recovery_failed" /\ p.todo = {} /\ p.owed = owed
  BY SMT, TimesAreNat DEF Processes, Phases

\* A start that failed keeps what it owed.
LEMMA FailedStart ==
  ASSUME NEW owed \in SUBSET Servers, NEW p, p = [Stopped("recovery_failed") EXCEPT !.owed = owed]
  PROVE  p \in Processes /\ p.pc = "recovery_failed" /\ p.todo = {} /\ p.owed = owed
<1>1. PICK q : q = [NewProcess EXCEPT !.pc = "recovery_failed"]
  OBVIOUS
<1>2. q = [pc |-> "recovery_failed", floor |-> 0, failed |-> FALSE, todo |-> {},
           exiting |-> FALSE, owed |-> {}]
  BY <1>1 DEF NewProcess
<1>3. p = [q EXCEPT !.owed = owed]
  BY <1>1 DEF Stopped
<1>4. p = [pc |-> "recovery_failed", floor |-> 0, failed |-> FALSE, todo |-> {},
           exiting |-> FALSE, owed |-> owed]
  BY <1>2, <1>3
<1> QED BY <1>4, FailedStartFields

\* The observations of r are closed and s goes on, or exits.
LEMMA ObservationsClosed ==
  ASSUME IInv, NEW s \in Servers, NEW r \in Servers,
         obs' \in [Servers -> Observations], TerminatedByItsEnd',
         \A t \in Servers : obs[t].state # "none" =>
           /\ obs'[t].state # "none"
           /\ obs[t].state # "open" => obs'[t].state # "open",
         r \in bound => obs'[r].state # "open",
         proc' = [proc EXCEPT
           ![s] = IF proc[s].exiting THEN Stopped("exited")
                  ELSE [proc[s] EXCEPT !.todo = @ \ {r}, !.failed = @ \/ s = r]],
         UNCHANGED <<clock, connection, lease, row, bound>>
  PROVE  IInv'
<1>1. Kept
  BY DEF Kept, Ended
<1>2. \A t \in Servers : RowFine(t)' /\ LeaseKept(t)
  BY RowsByLease DEF LeaseKept
<1>3. /\ lease' \in [Servers -> LeaseRows] /\ row' \in [Servers -> SessionRows \cup {None}]
      /\ bound' \in SUBSET Servers
  BY DEF IInv, TypeOK
<1>4. ASSUME NEW p \in Processes, proc' = [proc EXCEPT ![s] = p], ProcFine(s)'
      PROVE  IInv'
  BY <1>1, <1>2, <1>3, <1>4, ProcStep
<1>5. CASE proc[s].exiting
  <2>1. PICK p : p = Stopped("exited")
    OBVIOUS
  <2>2. p \in Processes /\ proc' = [proc EXCEPT ![s] = p] /\ proc'[s] = p
    BY <1>5, <2>1, StoppedFacts DEF Phases, IInv, TypeOK
  <2> QED BY <1>4, <2>1, <2>2, StoppedFine
<1>6. CASE ~proc[s].exiting
  <2>1. PICK q \in Processes : q = proc[s]
    BY Typed
  <2>2. PICK p : p = [q EXCEPT !.todo = q.todo \ {r}, !.failed = q.failed \/ s = r]
    OBVIOUS
  <2>3. p = [pc |-> q.pc, floor |-> q.floor, failed |-> q.failed \/ s = r, todo |-> q.todo \ {r},
             exiting |-> q.exiting, owed |-> q.owed]
    BY <2>2 DEF Processes
  <2>4. p.pc = q.pc /\ p.floor = q.floor /\ p.todo = q.todo \ {r} /\ p.owed = q.owed
    BY SMT, <2>3
  <2>5. p \in Processes
    <3>1. (q.failed \/ s = r) \in BOOLEAN
      OBVIOUS
    <3> QED BY SMT, <2>1, <2>3, <3>1 DEF Processes
  <2>6. proc' = [proc EXCEPT ![s] = p] /\ proc'[s] = p
    <3>1. proc' = [proc EXCEPT ![s] = [proc[s] EXCEPT !.todo = proc[s].todo \ {r},
                                                      !.failed = proc[s].failed \/ s = r]]
      BY <1>6
    <3> QED BY <2>1, <2>2, <3>1 DEF IInv, TypeOK
  <2>7. ProcFine(s)'
    <3>1. ProcFine(s) /\ q.todo \in SUBSET Servers /\ q.owed \in SUBSET Servers
      BY <2>1, Typed
    <3>2. \A t \in q.todo : Ended(t)'
      BY <2>1, <3>1 DEF ProcFine, Ended
    <3>3. \A t \in q.owed :
            /\ t \in bound' /\ obs'[t].state # "none"
            /\ obs[t].state # "open" => obs'[t].state # "open"
            /\ t = r => obs'[t].state # "open"
      BY <2>1, <3>1 DEF ProcFine
    <3>4. p.pc \in Serving \cup {"recovering"} =>
            \A t \in p.owed : obs'[t].state # "open" \/ (p.pc = "recovering" /\ t \in p.todo)
      BY <2>1, <2>4, <3>1, <3>3 DEF ProcFine
    <3> QED BY <2>1, <2>4, <2>6, <3>1, <3>2, <3>3, <3>4 DEF ProcFine
  <2> QED BY <1>4, <2>5, <2>6, <2>7
<1> QED BY <1>5, <1>6

LEMMA LaunchKeeps ==
  ASSUME IInv, NEW s \in Servers, Launch(s)
  PROVE  IInv'
<1>1. /\ LeftOpen \in SUBSET Servers /\ EndedRuntimes \in SUBSET Servers
      /\ LeftOpen \subseteq EndedRuntimes
      /\ \A r \in LeftOpen : r \in bound /\ obs[r].state = "open"
      /\ \A r \in EndedRuntimes : Ended(r)
  BY DEF LeftOpen, EndedRuntimes
<1>2. clock \in Times
  BY DEF IInv, TypeOK
<1>3. PICK q : q = [Stopped("recovery_failed") EXCEPT !.owed = LeftOpen]
  OBVIOUS
<1>4. PICK r : r = [NewProcess EXCEPT !.pc = "recovering", !.floor = clock,
                                      !.todo = EndedRuntimes, !.owed = LeftOpen]
  OBVIOUS
<1>5. q \in Processes /\ q.pc = "recovery_failed" /\ q.todo = {} /\ q.owed = LeftOpen
  BY <1>1, <1>3, FailedStart
<1>6. /\ r \in Processes /\ r.pc = "recovering" /\ r.todo = EndedRuntimes /\ r.owed = LeftOpen
  <2>1. r = [pc |-> "recovering", floor |-> clock, failed |-> FALSE,
             todo |-> EndedRuntimes, exiting |-> FALSE, owed |-> LeftOpen]
    BY <1>4 DEF NewProcess
  <2> QED BY SMT, <1>1, <1>2, <2>1 DEF Processes, Phases
<1>7. PICK p \in {q, r} : proc' = [proc EXCEPT ![s] = p]
  BY <1>3, <1>4 DEF Launch
<1>8. p \in Processes /\ proc'[s] = p
  BY <1>5, <1>6, <1>7 DEF IInv, TypeOK
<1>9. UNCHANGED <<clock, connection, lease, row, bound, obs>>
  BY DEF Launch
<1>10. ProcFine(s)'
  <2>1. {"recovery_failed", "recovering"} \cap Serving = {}
    BY DEF Serving
  <2>2. \A t \in EndedRuntimes : Ended(t)'
    BY <1>1, <1>9 DEF Ended
  <2>3. CASE p = q
    BY <1>1, <1>5, <1>8, <1>9, <2>1, <2>3 DEF ProcFine
  <2>4. CASE p = r
    BY <1>1, <1>6, <1>8, <1>9, <2>1, <2>2, <2>4 DEF ProcFine
  <2> QED BY <1>7, <2>3, <2>4
<1> QED BY <1>7, <1>8, <1>9, <1>10, SameLeases

\* One observation is closed because its runtime has ended.
LEMMA CloseObservationsKeeps ==
  ASSUME IInv, NEW s \in Servers, NEW r \in Servers, CloseObservations(s, r)
  PROVE  IInv'
<1>1. /\ r \in proc[s].todo /\ Closable(r) /\ Ended(r)
      /\ UNCHANGED <<clock, connection, lease, row, bound>>
  BY Typed DEF CloseObservations, ProcFine
<1>2. PICK q \in Observations : q = obs[r]
  BY Typed
<1>3. PICK o : o = [q EXCEPT !.state = "terminated"]
  OBVIOUS
<1>4. o = [state |-> "terminated", started |-> q.started]
  BY <1>3 DEF Observations
<1>5. o \in Observations /\ o.state = "terminated" /\ o.started = obs[r].started
  BY SMT, <1>2, <1>4 DEF Observations
<1>6. CASE r \in bound /\ obs[r].state = "open"
  <2>1. obs' = [obs EXCEPT ![r] = o]
    BY <1>2, <1>3, <1>6 DEF CloseObservations
  <2>2. obs' \in [Servers -> Observations] /\ obs'[r] = o /\ \A t \in Servers \ {r} : obs'[t] = obs[t]
    BY <1>5, <2>1 DEF IInv, TypeOK
  <2>3. obs[r].started <= EndOf(row[r])
    BY <1>1, <1>6 DEF Closable
  <2>4. TerminatedByItsEnd'
    BY <1>1, <2>2, <1>5, <2>3 DEF IInv, TerminatedByItsEnd, Ended, EndOf
  <2>5. \A t \in Servers : obs[t].state # "none" =>
          /\ obs'[t].state # "none"
          /\ obs[t].state # "open" => obs'[t].state # "open"
    BY <2>2, <1>5
  <2>6. obs'[r].state # "open"
    BY <2>2, <1>5
  <2> QED BY <1>1, <2>2, <2>4, <2>5, <2>6, ObservationsClosed DEF CloseObservations
<1>7. CASE ~(r \in bound /\ obs[r].state = "open")
  <2>1. obs' = obs
    BY <1>7 DEF CloseObservations
  <2>2. TerminatedByItsEnd' /\ obs' \in [Servers -> Observations]
    BY <1>1, <2>1 DEF IInv, TerminatedByItsEnd, Ended, TypeOK
  <2> QED BY <1>1, <1>7, <2>1, <2>2, ObservationsClosed DEF CloseObservations
<1> QED BY <1>6, <1>7

LEMMA CloseObservationsFailsKeeps ==
  ASSUME IInv, NEW s \in Servers, NEW r \in Servers, CloseObservationsFails(s, r)
  PROVE  IInv'
<1>1. UNCHANGED <<clock, connection, lease, row, bound, obs>> /\ proc[s].todo # {}
  BY DEF CloseObservationsFails
<1>2. ProcFine(s) /\ proc[s].owed \in SUBSET Servers
  BY Typed
<1>3. CASE proc[s].pc = "recovering"
  <2>1. PICK p : p = [Stopped("recovery_failed") EXCEPT !.owed = proc[s].owed]
    OBVIOUS
  <2>2. p \in Processes /\ p.pc = "recovery_failed" /\ p.todo = {} /\ p.owed = proc[s].owed
    BY <1>2, <2>1, FailedStart
  <2>3. proc' = [proc EXCEPT ![s] = p] /\ proc'[s] = p
    BY <1>3, <2>1 DEF CloseObservationsFails, IInv, TypeOK
  <2>4. "recovery_failed" \notin Serving
    BY DEF Serving
  <2>5. ProcFine(s)'
    BY <1>1, <1>2, <2>2, <2>3, <2>4 DEF ProcFine
  <2> QED BY <1>1, <2>2, <2>3, <2>5, SameLeases
<1>4. CASE proc[s].pc # "recovering" /\ proc[s].exiting
  <2>1. proc' = [proc EXCEPT ![s] = Stopped("exited")]
    BY <1>4 DEF CloseObservationsFails
  <2> QED BY <1>1, <2>1, StopStep
<1>5. CASE proc[s].pc # "recovering" /\ ~proc[s].exiting
  <2>1. PICK q \in Processes : q = proc[s]
    BY Typed
  <2>2. PICK p : p = [q EXCEPT !.todo = {}, !.pc = "terminating"]
    OBVIOUS
  <2>3. p = [pc |-> "terminating", floor |-> q.floor, failed |-> q.failed, todo |-> {},
             exiting |-> q.exiting, owed |-> q.owed]
    BY <2>2 DEF Processes
  <2>4. p \in Processes /\ p.pc = "terminating" /\ p.todo = {} /\ p.owed = q.owed
    BY SMT, <2>3 DEF Processes, Phases
  <2>5. proc' = [proc EXCEPT ![s] = p] /\ proc'[s] = p
    BY <1>5, <2>1, <2>2 DEF CloseObservationsFails, IInv, TypeOK
  <2>6. proc[s].pc \in Serving \cup {"terminating"} /\ "terminating" \notin Serving
    BY <1>1, <1>2, <1>5 DEF ProcFine, Serving
  <2>7. ProcFine(s)'
    BY <1>1, <1>2, <2>1, <2>4, <2>5, <2>6 DEF ProcFine
  <2> QED BY <1>1, <2>4, <2>5, <2>7, SameLeases
<1> QED BY <1>3, <1>4, <1>5

LEMMA CrashKeeps ==
  ASSUME IInv, NEW s \in Servers, Crash(s)
  PROVE  IInv'
  BY StopStep DEF Crash, Quiet

\* The row of a runtime that just started.
LEMMA NewRowFacts ==
  ASSUME IInv, NEW s \in Servers
  PROVE  /\ Sound(NewRow(s)) /\ NewRow(s).revision = connection.revision
         /\ NewRow(s).last = proc[s].floor /\ NewRow(s).terminal = None /\ NewRow(s).closed = None
<1>1. PICK v \in Revisions : v = connection.revision
  BY DEF IInv, TypeOK
<1>2. PICK f \in Times : f = proc[s].floor
  BY Typed
<1>3. PICK n : n = NewRow(s)
  OBVIOUS
<1>4. n = [revision |-> v, started |-> f, last |-> f, attempted |-> FALSE, completed |-> None,
           initialized |-> None, listed |-> None, validated |-> None, verified |-> None,
           terminal |-> None, closed |-> None]
  BY <1>1, <1>2, <1>3 DEF NewRow
<1>5. /\ n.revision = v /\ n.started = f /\ n.last = f /\ n.completed = None
      /\ n.initialized = None /\ n.listed = None /\ n.validated = None /\ n.verified = None
      /\ n.terminal = None /\ n.closed = None
  BY SMT, <1>4
<1>6. n \in SessionRows
  BY SMT, <1>4 DEF SessionRows, MaybeTime
<1>7. f >= f
  BY SMT, TimesAreNat
<1>8. Coherent(n)
  BY <1>5, <1>7, NoneApart DEF Coherent, NotBefore
<1> QED BY <1>1, <1>2, <1>3, <1>5, <1>6, <1>8 DEF Sound

LEMMA ConsumeLeaseKeeps ==
  ASSUME IInv, NEW s \in Servers, ConsumeLease(s)
  PROVE  IInv'
<1>1. /\ proc[s].pc = "recovering" /\ proc[s].todo = {}
      /\ UNCHANGED <<clock, connection, bound, obs>>
  BY DEF ConsumeLease, Busy
<1>2. CASE ~Consumable(CleanLeases[s])
  <2>1. proc' = [proc EXCEPT ![s] = Stopped("not_started")] /\ UNCHANGED <<lease, row>>
    BY <1>2 DEF ConsumeLease
  <2> QED BY <1>1, <2>1, StopStep
<1>3. CASE Consumable(CleanLeases[s])
  <2>1. CleanLeases[s].state = "issued" /\ CleanLeases[s].revision = connection.revision
    BY <1>3 DEF Consumable
  <2>2. row[s] = None
    BY <2>1, CleanFacts, Typed DEF RowFine
  <2>3. PICK q \in LeaseRows : q = CleanLeases[s]
    BY CleanFacts
  <2>4. PICK l \in LeaseRows : l = EndLease(q, "consumed")
    BY EndLeaseFacts
  <2>5. l.state = "consumed" /\ l.revision = connection.revision
    BY <2>1, <2>3, <2>4, EndLeaseFacts
  <2>6. lease' = [CleanLeases EXCEPT ![s] = l]
    BY <1>3, <2>3, <2>4, CleanFacts DEF ConsumeLease
  <2>7. PICK r : r = NewRow(s)
    OBVIOUS
  <2>8. /\ Sound(r) /\ r \in SessionRows /\ r # None /\ r.revision = connection.revision
        /\ r.last = proc[s].floor /\ r.terminal = None /\ r.closed = None
    BY <2>7, NewRowFacts, NoneApart DEF Sound
  <2>9. /\ row' = [row EXCEPT ![s] = r]
        /\ row' \in [Servers -> SessionRows \cup {None}] /\ row'[s] = r
        /\ \A t \in Servers \ {s} : row'[t] = row[t]
    BY <1>3, <2>7, <2>8 DEF ConsumeLease, IInv, TypeOK
  <2>10. /\ lease' \in [Servers -> LeaseRows] /\ lease'[s] = l
         /\ \A t \in Servers \ {s} :
              /\ LeaseKept(t)
              /\ lease'[t].state = "consumed" <=> lease[t].state = "consumed"
              /\ lease'[t].revision = lease[t].revision
    BY <2>6, CleanKept
  <2>11. \A t \in Servers : RowFine(t)'
    <3>1. RowFine(s)'
      BY <2>5, <2>8, <2>9, <2>10 DEF RowFine, Sound
    <3>2. ASSUME NEW t \in Servers \ {s} PROVE RowFine(t)'
      <4>1. RowFine(t) /\ row'[t] = row[t]
        BY <2>9, Typed
      <4> QED BY <2>10, <4>1 DEF RowFine
    <3> QED BY <3>1, <3>2
  <2>12. \A t \in Servers : Ended(t) => t # s /\ Ended(t)'
    BY <2>2, <2>9 DEF Ended
  <2>13. Kept
    BY <1>1, <2>12 DEF Kept
  <2>14. TerminatedByItsEnd'
    BY <1>1, <2>9, <2>12 DEF IInv, TerminatedByItsEnd
  <2>15. PICK p \in Processes : p = PcSet(s, "await_initialize")
    BY PcSetFacts DEF Phases
  <2>16. /\ p.pc = "await_initialize" /\ p.floor = proc[s].floor /\ p.todo = {}
         /\ p.owed = proc[s].owed
    BY <1>1, <2>15, PcSetFacts DEF Phases
  <2>17. proc' = [proc EXCEPT ![s] = p] /\ proc'[s] = p
    BY <1>3, <2>15 DEF PcSet, ConsumeLease, IInv, TypeOK
  <2>18. ProcFine(s)'
    <3>1. \A t \in proc[s].owed : t \in bound' /\ obs'[t].state # "none" /\ obs'[t].state # "open"
      BY <1>1, Typed DEF ProcFine
    <3>2. p.floor >= r.last
      <4>1. p.floor = r.last /\ r.last \in Nat
        BY <2>8, <2>16, Typed, TimesAreNat
      <4> QED BY SMT, <4>1
    <3> QED BY <2>8, <2>9, <2>16, <2>17, <3>1, <3>2 DEF ProcFine
  <2>19. bound' \in SUBSET Servers /\ obs' \in [Servers -> Observations]
    BY <1>1 DEF IInv, TypeOK
  <2>20. \A t \in Servers \ {s} : row'[t] = row[t] /\ LeaseKept(t)
    BY <2>9, <2>10
  <2> QED BY <1>1, <2>9, <2>10, <2>11, <2>13, <2>14, <2>17, <2>18, <2>19, <2>20, ProcStep
<1> QED BY <1>2, <1>3

-----------------------------------------------------------------------------
(* The hooks of the host, the Connection and the clock.                    *)

LEMMA HookKeeps ==
  ASSUME IInv, NEW s \in Servers, HookOpens(s) \/ HookCloses(s)
  PROVE  IInv'
<1>1. UNCHANGED <<clock, connection, lease, row, bound, proc>>
  BY DEF HookOpens, HookCloses
<1>2. PICK o : /\ obs' = [obs EXCEPT ![s] = o] /\ o.state \in {"open", "closed"} /\ o \in Observations
               /\ o.state = "open" => obs[s].state = "none"
  <2>1. CASE HookOpens(s)
    <3>1. PICK o : o = [state |-> "open", started |-> clock]
      OBVIOUS
    <3>2. o \in Observations /\ o.state = "open"
      BY SMT, <3>1 DEF IInv, TypeOK, Observations
    <3> QED BY <2>1, <3>1, <3>2 DEF HookOpens
  <2>2. CASE HookCloses(s)
    <3>1. PICK o : o = [state |-> "closed", started |-> 0]
      OBVIOUS
    <3>2. o \in Observations /\ o.state = "closed"
      BY SMT, <3>1, TimesAreNat DEF Observations
    <3> QED BY <2>2, <3>1, <3>2 DEF HookCloses
  <2> QED BY <2>1, <2>2
<1>3. obs' \in [Servers -> Observations] /\ obs'[s] = o /\ \A t \in Servers \ {s} : obs'[t] = obs[t]
  BY <1>2 DEF IInv, TypeOK
<1>4. Kept
  BY <1>1, <1>2, <1>3 DEF Kept, Ended
<1>5. \A t \in Servers : RowFine(t)' /\ ProcFine(t)'
  <2>1. \A t \in Servers : RowFine(t)'
    BY <1>1, RowsByLease
  <2>2. \A t \in Servers : proc'[t] = proc[t] /\ row'[t] = row[t] /\ LeaseKept(t)
    BY <1>1 DEF LeaseKept
  <2> QED BY <1>4, <2>1, <2>2, ProcKept
<1>6. TerminatedByItsEnd'
  BY <1>1, <1>2, <1>3 DEF IInv, TerminatedByItsEnd, Ended
<1>7. TypeOK'
  BY <1>1, <1>3 DEF IInv, TypeOK
<1> QED BY <1>5, <1>6, <1>7 DEF IInv

\* Nothing that was recorded changes.
LEMMA WorldKeeps ==
  ASSUME IInv, UNCHANGED <<lease, row, bound, obs, proc>>, clock' \in Times,
         connection' \in [revision : Revisions, enabled : BOOLEAN]
  PROVE  IInv'
<1>1. Kept /\ \A t \in Servers : LeaseKept(t)
  BY DEF Kept, LeaseKept, Ended
<1>2. \A t \in Servers : RowFine(t)' /\ ProcFine(t)'
  BY <1>1, RowsByLease, ProcKept
<1>3. TypeOK' /\ TerminatedByItsEnd'
  BY DEF IInv, TypeOK, TerminatedByItsEnd, Ended
<1> QED BY <1>2, <1>3 DEF IInv

LEMMA ChangeConnectionKeeps ==
  ASSUME IInv, ChangeConnection
  PROVE  IInv'
<1>1. connection' \in [revision : Revisions, enabled : BOOLEAN]
  <2>1. PICK c \in [revision : Revisions, enabled : BOOLEAN] : c = connection
    BY DEF IInv, TypeOK
  <2>2. c.revision + 1 \in Revisions
    BY SMT, <2>1, McpAssumption DEF ChangeConnection, Revisions
  <2>3. \/ connection' = [c EXCEPT !.revision = c.revision + 1]
        \/ connection' = [c EXCEPT !.enabled = FALSE]
    BY <2>1 DEF ChangeConnection
  <2>4. [c EXCEPT !.revision = c.revision + 1] \in [revision : Revisions, enabled : BOOLEAN]
    BY <2>2
  <2>5. [c EXCEPT !.enabled = FALSE] \in [revision : Revisions, enabled : BOOLEAN]
    OBVIOUS
  <2> QED BY <2>3, <2>4, <2>5
<1> QED BY <1>1, WorldKeeps DEF ChangeConnection, IInv, TypeOK

-----------------------------------------------------------------------------
LEMMA InitIInv == Init => IInv
<1> SUFFICES ASSUME Init PROVE IInv
  OBVIOUS
<1>1. \A s \in Servers : /\ lease[s] = [state |-> "none", revision |-> 1, expires |-> 0]
                         /\ obs[s] = [state |-> "none", started |-> 0]
                         /\ row[s] = None /\ proc[s] = NewProcess
  BY DEF Init
<1>2. \A s \in Servers : /\ lease[s] \in LeaseRows /\ lease[s].state = "none"
                         /\ obs[s] \in Observations /\ obs[s].state = "none"
  BY SMT, <1>1, McpAssumption, TimesAreNat DEF LeaseRows, Revisions, Observations
<1>3. NewProcess.pc = "new" /\ NewProcess.todo = {} /\ NewProcess.owed = {}
  BY SMT DEF NewProcess
<1>4. connection \in [revision : Revisions, enabled : BOOLEAN]
  BY SMT, McpAssumption DEF Init, Revisions
<1>5. TypeOK
  BY <1>2, <1>4, NewProcessType, TimesAreNat DEF TypeOK, Init
<1>6. \A s \in Servers : RowFine(s)
  BY <1>1, <1>2 DEF RowFine
<1>7. \A s \in Servers : ProcFine(s)
  <2>1. {"new"} \cap Serving = {}
    BY DEF Serving
  <2> QED BY <1>1, <1>2, <1>3, <2>1 DEF ProcFine
<1>8. TerminatedByItsEnd
  BY <1>2 DEF TerminatedByItsEnd
<1> QED BY <1>5, <1>6, <1>7, <1>8 DEF IInv

LEMMA NextIInv == IInv /\ [Next]_vars => IInv'
<1> SUFFICES ASSUME IInv, [Next]_vars PROVE IInv'
  OBVIOUS
<1>1. CASE UNCHANGED vars
  BY <1>1, WorldKeeps DEF vars, IInv, TypeOK
<1>2. ASSUME NEW s \in Servers, IssueLease(s) PROVE IInv'
  BY <1>2, IssueLeaseKeeps
<1>3. ASSUME NEW s \in Servers, CancelLease(s) PROVE IInv'
  BY <1>3, CancelLeaseKeeps
<1>4. ASSUME NEW s \in Servers, Launch(s) PROVE IInv'
  BY <1>4, LaunchKeeps
<1>5. ASSUME NEW s \in Servers, NEW r \in Servers, CloseObservations(s, r) PROVE IInv'
  BY <1>5, CloseObservationsKeeps
<1>6. ASSUME NEW s \in Servers, NEW r \in Servers, CloseObservationsFails(s, r) PROVE IInv'
  BY <1>6, CloseObservationsFailsKeeps
<1>7. ASSUME NEW s \in Servers, ConsumeLease(s) PROVE IInv'
  BY <1>7, ConsumeLeaseKeeps
<1>8. ASSUME NEW s \in Servers, Eof(s) \/ Terminate(s) \/ Crash(s) PROVE IInv'
  BY <1>8, EofKeeps, TerminateKeeps, CrashKeeps
<1>9. ASSUME NEW s \in Driven, \/ Initialize(s) \/ InitializedNotification(s)
                               \/ \E present \in BOOLEAN : ListTools(s, present)
                               \/ CallVerificationTool(s)
      PROVE  IInv'
  BY <1>9, McpAssumption, InitializeKeeps, InitializedKeeps, ListToolsKeeps, CallVerificationToolKeeps
<1>10. ASSUME NEW s \in Driven, \/ \E fails \in BOOLEAN : CallTool(s, fails)
                                \/ \E attempted \in BOOLEAN : BadRequest(s, attempted)
                                \/ MinorFinding(s) \/ TransportFails(s)
                                \/ HookOpens(s) \/ HookCloses(s)
      PROVE  IInv'
  BY <1>10, McpAssumption, CallToolKeeps, BadRequestKeeps, MinorFindingKeeps, TransportFailsKeeps,
     HookKeeps
<1>11. CASE ChangeConnection
  BY <1>11, ChangeConnectionKeeps
<1>12. CASE ClockMoves
  BY <1>12, WorldKeeps DEF ClockMoves, IInv, TypeOK
<1> QED BY <1>1, <1>2, <1>3, <1>4, <1>5, <1>6, <1>7, <1>8, <1>9, <1>10, <1>11, <1>12 DEF Next

LEMMA Invariance == Spec => []IInv
  BY InitIInv, NextIInv, PTL DEF Spec

\* Every committed session row reads back, and a serving process never observes a
\* time before the last activity of its row: no order of the client's messages
\* and no setting of the clock corrupts a session.
THEOREM RowsAreCoherent == Spec => []RowsCoherent
<1>1. IInv => RowsCoherent
  BY DEF IInv, RowsCoherent, RowFine, ProcFine
<1> QED BY <1>1, Invariance, PTL

\* A launch lease is spent exactly when its runtime exists, for the revision it was
\* issued for, and none outlives a launcher that returned.
THEOREM LeasesMatchRuntimes == Spec => []LeaseMatchesRuntime
<1>1. IInv => LeaseMatchesRuntime
  BY DEF IInv, LeaseMatchesRuntime, RowFine, ProcFine
<1> QED BY <1>1, Invariance, PTL

\* An observation is terminated only with a runtime the Registry records as ended,
\* at a time not before it began.
THEOREM TerminationsHaveEnds == Spec => []TerminatedByItsEnd
<1>1. IInv => TerminatedByItsEnd
  BY DEF IInv
<1> QED BY <1>1, Invariance, PTL

\* A server that serves has seen every observation closed that an ended runtime had
\* left open when it started, however many recover at once and wherever they crash.
THEOREM RecoveryPrecedesServing == Spec => []RecoveredBeforeServing
<1>1. IInv => RecoveredBeforeServing
  <2>1. "recovering" \notin Serving
    BY DEF Serving
  <2> QED BY <2>1 DEF IInv, RecoveredBeforeServing, ProcFine
<1> QED BY <1>1, Invariance, PTL

=============================================================================
