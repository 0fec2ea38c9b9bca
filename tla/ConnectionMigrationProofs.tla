----------------------- MODULE ConnectionMigrationProofs -----------------------
(* The migration of a project keeps its promises for any number of            *)
(* Connections, projects and removals.                                        *)
(*                                                                            *)
(* The argument is about what an init may rely on after its first check. The  *)
(* lease keeps everybody else away, so what staged_connection_migration_state *)
(* saw is what activate_staged_connection and complete_pending_host_cleanup   *)
(* see; a superseded Connection is disabled only with a marker that names the *)
(* target, so a second init finds exactly what the first one left to do.      *)
EXTENDS ConnectionMigration, TLAPS

(* Zenon proves most leaves; the ones with arithmetic or large records say SMT. *)
USE Zenon

(* The first check of an init lets it through. *)
Admissible(rows, c, p) ==
  /\ rows[c].marker = None
  /\ p \in rows[c].projects =>
       \A d \in Connections \ {c} :
         p \in rows[d].projects => rows[d].marker = [project |-> p, replacement |-> c]

(* Removals and exclusive commands keep each other away. *)
LeaseFacts == setup # None => \A r \in Removers : removal[r] = None

(* What every exclusive command keeps. *)
SetupFacts ==
  setup # None =>
    /\ Guarded(setup.before)
    /\ \A c \in Connections : ~setup.before[c].known => setup.before[c] = NoRow
    /\ \A d \in Connections :
         Marked(d) => setup.before[d].enabled \/ setup.before[d].marker # None
    /\ setup.kind = "add" => setup.pc \in {"host", "register", "member"} /\ unfinished = None
    /\ setup.kind = "init" => setup.pc # "host"
    /\ setup.pc = "member" => registry[setup.conn].enabled

(* The target serves the project and only what is pending is left of others. *)
Serving(c, p) ==
  /\ registry[c].enabled /\ p \in registry[c].projects
  /\ Others(c, p) = setup.pending

(* Where an init stands. *)
InitFacts ==
  setup # None /\ setup.kind = "init" =>
    /\ setup.pending \subseteq setup.superseded
    /\ setup.conn \notin setup.superseded
    /\ setup.pc \in {"register", "member", "refused"} => entry = setup.files
    /\ setup.pc \in {"register", "member", "removeEntries", "activate"} =>
         \A d \in Connections \ {setup.conn} : registry[d] = setup.before[d]
    /\ setup.pc = "register" =>
         /\ registry = setup.before
         /\ setup.superseded = Others(setup.conn, setup.project)
         /\ setup.pending = {} /\ ~setup.resume
    /\ setup.pc = "member" =>
         Others(setup.conn, setup.project) = {} /\ setup.superseded = {}
    /\ setup.pc \in {"removeEntries", "activate"} /\ Migrates /\ ~setup.resume =>
         /\ registry[setup.conn].known
         /\ setup.project \notin registry[setup.conn].projects
         /\ setup.superseded = Others(setup.conn, setup.project)
    /\ setup.pc = "removeEntries" /\ (~Migrates \/ setup.resume) =>
         Serving(setup.conn, setup.project)
    /\ setup.pc = "activate" => Migrates /\ ~setup.resume
    /\ setup.pc \in {"activate", "cleanup"} => \A d \in setup.superseded : ~entry[d]
    /\ setup.pc \in {"activate", "cleanup", "verify"} => entry[setup.conn]
    /\ setup.pc = "cleanup" => Serving(setup.conn, setup.project)
    /\ setup.pc = "verify" =>
         /\ registry[setup.conn].enabled
         /\ setup.project \in registry[setup.conn].projects
         /\ Others(setup.conn, setup.project) = {}

(* An init under way, and one to run again, would be let through now, and     *)
(* from the Store's recovery copy.                                            *)
RerunFacts ==
  /\ setup # None /\ setup.kind = "init" =>
       /\ unfinished # None => /\ unfinished = <<setup.conn, setup.project>>
                               /\ setup.pc # "refused"
                               /\ Admissible(setup.before, setup.conn, setup.project)
       /\ setup.pc \notin {"register", "refused"} =>
            /\ Admissible(setup.before, setup.conn, setup.project)
            /\ Admissible(registry, setup.conn, setup.project)
  /\ setup = None /\ unfinished # None =>
       /\ \A r \in Removers : removal[r] = None
       /\ Admissible(registry, unfinished[1], unfinished[2])

IInv ==
  /\ TypeOK
  /\ MarkersGuarded
  /\ ServiceKept
  /\ LeaseFacts
  /\ SetupFacts
  /\ InitFacts
  /\ RerunFacts

-----------------------------------------------------------------------------
USE MigrationAssumption

LEMMA InitIInv == Init => IInv
  BY SMT DEF Init, IInv, TypeOK, MarkersGuarded, Guarded, ServiceKept, LeaseFacts, SetupFacts,
     InitFacts, RerunFacts, Rows, NoRow

(* A member of a project is enabled or marked for it, so a migration to c     *)
(* supersedes every other member, whatever the policy file names.             *)
LEMMA EveryOtherSuperseded ==
  ASSUME TypeOK, MarkersGuarded, NEW c \in Connections, NEW p \in Projects, NEW named
  PROVE  Superseded(c, p, named) = Others(c, p)
  BY SMT DEF TypeOK, MarkersGuarded, Guarded, Superseded, Others, Marked, MarkedFor, Rows, Markers

LEMMA MemberKnown ==
  ASSUME TypeOK, NEW c \in Connections, NEW p \in registry[c].projects
  PROVE  registry[c].known
<1> SUFFICES ASSUME ~registry[c].known PROVE FALSE
  OBVIOUS
<1>1. registry[c] = NoRow
  BY DEF TypeOK
<1> QED BY SMT, <1>1 DEF NoRow

LEMMA InitBeginKeeps ==
  ASSUME IInv, NEW c \in Connections, NEW p \in Projects, NEW named,
         InitBegin(c, p, named)
  PROVE  IInv'
<1>1. Superseded(c, p, named) = Others(c, p)
  BY EveryOtherSuperseded DEF IInv
<1>2. Others(c, p) \subseteq Connections
  BY DEF Others
<1>3. setup' \in Setups
  BY <1>1, <1>2 DEF InitBegin, IInv, TypeOK, Setups
<1>4. TypeOK' /\ setup' # None
  BY <1>3 DEF InitBegin, IInv, TypeOK
<1>5. MarkersGuarded' /\ ServiceKept' /\ LeaseFacts'
  BY DEF InitBegin, IInv, MarkersGuarded, Guarded, ServiceKept, Served, LeaseFacts, LeaseFree
<1>6. SetupFacts'
  BY DEF InitBegin, IInv, TypeOK, SetupFacts, MarkersGuarded, Guarded, Marked
<1>7. InitFacts'
  BY <1>1 DEF InitBegin, InitFacts, Others
<1>8. RerunFacts'
  BY SMT, <1>4 DEF InitBegin, IInv, TypeOK, RerunFacts, LeaseFree, Admissible
<1> QED BY <1>4, <1>5, <1>6, <1>7, <1>8 DEF IInv

LEMMA AddBeginKeeps ==
  ASSUME IInv, NEW c \in Connections, NEW p \in Projects, AddBegin(c, p)
  PROVE  IInv'
<1>0. setup' \in Setups
  BY DEF AddBegin, IInv, TypeOK, Setups
<1>1. TypeOK' /\ setup' # None
  BY <1>0 DEF AddBegin, IInv, TypeOK
<1>2. MarkersGuarded' /\ ServiceKept' /\ LeaseFacts'
  BY DEF AddBegin, IInv, MarkersGuarded, Guarded, ServiceKept, Served, LeaseFacts, LeaseFree
<1>3. SetupFacts'
  BY DEF AddBegin, IInv, TypeOK, SetupFacts, MarkersGuarded, Guarded, Marked
<1>4. InitFacts' /\ RerunFacts'
  BY <1>1 DEF AddBegin, InitFacts, RerunFacts
<1> QED BY <1>1, <1>2, <1>3, <1>4 DEF IInv

LEMMA InitSucceedsKeeps ==
  ASSUME IInv, InitSucceeds
  PROVE  IInv'
<1>1. TypeOK'
  BY DEF InitSucceeds, IInv, TypeOK
<1>2. MarkersGuarded'
  BY DEF InitSucceeds, IInv, MarkersGuarded, Guarded
<1>3. ServiceKept' /\ LeaseFacts' /\ SetupFacts' /\ InitFacts' /\ RerunFacts'
  BY DEF InitSucceeds, ServiceKept, LeaseFacts, SetupFacts, InitFacts, RerunFacts
<1> QED BY <1>1, <1>2, <1>3 DEF IInv

LEMMA InitDiesKeeps ==
  ASSUME IInv, InitDies
  PROVE  IInv'
<1>1. setup \in Setups /\ setup # None
  BY DEF InitDies, IInv, TypeOK
<1>2. Unfinished \in (Connections \X Projects) \cup {None}
  BY <1>1 DEF Unfinished, IInv, TypeOK, Setups
<1>3. TypeOK'
  BY <1>2 DEF InitDies, IInv, TypeOK
<1>4. MarkersGuarded'
  BY DEF InitDies, IInv, MarkersGuarded, Guarded
<1>5. ServiceKept' /\ LeaseFacts' /\ SetupFacts' /\ InitFacts'
  BY DEF InitDies, ServiceKept, LeaseFacts, SetupFacts, InitFacts
<1>6. RerunFacts'
  BY SMT, <1>1 DEF InitDies, IInv, Unfinished, LeaseFacts, RerunFacts, InitFacts, Admissible, Setups
<1> QED BY <1>3, <1>4, <1>5, <1>6 DEF IInv

LEMMA InitRollsBackKeeps ==
  ASSUME IInv, NEW kept \in SUBSET Connections, NEW restored \in BOOLEAN,
         InitRollsBack(kept, restored)
  PROVE  IInv'
<1>1. setup \in Setups /\ setup # None
  BY DEF InitRollsBack, IInv, TypeOK
<1>2. Unfinished \in (Connections \X Projects) \cup {None}
  BY <1>1 DEF Unfinished, IInv, TypeOK, Setups
<1>3. registry' \in {setup.before, registry}
  BY DEF InitRollsBack
<1>4. TypeOK'
  BY <1>1, <1>2, <1>3 DEF InitRollsBack, IInv, TypeOK, SetupFacts, Setups
<1>5. MarkersGuarded'
  BY SMT, <1>1, <1>3 DEF IInv, MarkersGuarded, SetupFacts, Guarded
<1>6. ServiceKept' /\ LeaseFacts' /\ SetupFacts' /\ InitFacts'
  BY DEF InitRollsBack, ServiceKept, LeaseFacts, SetupFacts, InitFacts
<1>7. RerunFacts'
  BY SMT, <1>1, <1>3 DEF InitRollsBack, IInv, Unfinished, LeaseFacts, RerunFacts, InitFacts, Admissible,
     Setups
<1> QED BY <1>4, <1>5, <1>6, <1>7 DEF IInv

LEMMA AddStopsKeeps ==
  ASSUME IInv, AddStops
  PROVE  IInv'
<1>1. TypeOK'
  BY DEF AddStops, IInv, TypeOK
<1>2. MarkersGuarded'
  BY DEF AddStops, IInv, MarkersGuarded, Guarded
<1>3. ServiceKept' /\ LeaseFacts' /\ SetupFacts' /\ InitFacts'
  BY DEF AddStops, ServiceKept, LeaseFacts, SetupFacts, InitFacts
<1>4. RerunFacts'
  BY DEF AddStops, IInv, SetupFacts, RerunFacts
<1> QED BY <1>1, <1>2, <1>3, <1>4 DEF IInv

-----------------------------------------------------------------------------
(* Steps of an init that move its program counter and change no row. *)
LEMMA InitRemoveEntryKeeps ==
  ASSUME IInv, NEW d \in Connections, InitRemoveEntry(d)
  PROVE  IInv'
<1>1. TypeOK'
  BY DEF InitRemoveEntry, IInv, TypeOK
<1>2. MarkersGuarded' /\ ServiceKept' /\ LeaseFacts'
  BY DEF InitRemoveEntry, IInv, MarkersGuarded, Guarded, ServiceKept, Served, LeaseFacts
<1>3. SetupFacts' /\ RerunFacts'
  BY DEF InitRemoveEntry, IInv, SetupFacts, Guarded, Marked, RerunFacts, Admissible
<1>4. InitFacts'
  BY DEF InitRemoveEntry, Running, IInv, InitFacts, Others, Serving, Migrates
<1> QED BY <1>1, <1>2, <1>3, <1>4 DEF IInv

LEMMA InitWriteEntryKeeps ==
  ASSUME IInv, InitWriteEntry
  PROVE  IInv'
<1> DEFINE next == IF Migrates /\ ~setup.resume THEN "activate" ELSE "cleanup"
<1>1. setup \in Setups /\ setup # None
  BY DEF InitWriteEntry, Running, IInv, TypeOK
<1>2. setup' = [setup EXCEPT !.pc = next] /\ setup' \in Setups
  BY <1>1 DEF InitWriteEntry, At, Setups
<1>3. TypeOK' /\ setup' # None
  BY <1>1, <1>2 DEF InitWriteEntry, IInv, TypeOK
<1>4. /\ setup'.kind = "init" /\ setup.kind = "init" /\ setup.pc = "removeEntries"
      /\ setup'.conn = setup.conn /\ setup'.project = setup.project
      /\ setup'.superseded = setup.superseded /\ setup'.pending = setup.pending
      /\ setup'.resume = setup.resume
      /\ setup'.before = setup.before /\ setup'.files = setup.files
      /\ setup'.pc = next
  BY <1>1, <1>2 DEF InitWriteEntry, Running, Setups
<1>5. MarkersGuarded' /\ ServiceKept' /\ LeaseFacts'
  BY <1>1, <1>4 DEF InitWriteEntry, IInv, MarkersGuarded, Guarded, ServiceKept, Served, LeaseFacts
<1>6. SetupFacts' /\ RerunFacts'
  BY SMT, <1>1, <1>3, <1>4 DEF InitWriteEntry, IInv, SetupFacts, Guarded, Marked, RerunFacts, Admissible
<1>7. setup.conn \in Connections /\ setup.superseded \subseteq Connections
  BY <1>1 DEF Setups
<1>8. /\ entry'[setup.conn]
      /\ \A d \in setup.superseded : ~entry'[d]
  BY <1>1, <1>4, <1>7 DEF InitWriteEntry, IInv, TypeOK, InitFacts
<1>9. InitFacts'
  BY SMT, <1>1, <1>4, <1>8 DEF InitWriteEntry, IInv, InitFacts, Others, Serving, Migrates
<1> QED BY <1>3, <1>5, <1>6, <1>9 DEF IInv

(* The first check of an init lets it through exactly when it is admissible. *)
LEMMA AdmissibleMemberResumes ==
  ASSUME TypeOK, MarkersGuarded, NEW c \in Connections, NEW p \in Projects,
         Admissible(registry, c, p), p \in registry[c].projects
  PROVE  CleanupResume(c, p, Others(c, p))
<1>1. ~Marked(c) /\ registry[c].enabled
  BY DEF Admissible, Marked, MarkersGuarded, Guarded
<1>2. \A d \in Others(c, p) : PendingFor(d, p, c)
  BY DEF Admissible, Others, PendingFor
<1>3. \A d \in Others(c, p) : ~registry[d].enabled
  BY <1>2, [project |-> p, replacement |-> c] \in Markers
     DEF PendingFor, Others, MarkersGuarded, Guarded, Markers
<1> QED BY <1>1, <1>2, <1>3 DEF CleanupResume

LEMMA LetThroughAdmissible ==
  ASSUME TypeOK, MarkersGuarded, NEW c \in Connections, NEW p \in Projects,
         \/ Staged(c, p)
         \/ ~Marked(c) /\ Others(c, p) = {}
         \/ CleanupResume(c, p, Others(c, p))
  PROVE  Admissible(registry, c, p)
  BY DEF Staged, CleanupResume, Admissible, Marked, Others, PendingFor

-----------------------------------------------------------------------------
(* What the Registry writes of init and add do to the rows. *)
LEMMA WithRowEffect ==
  ASSUME TypeOK, NEW c \in Connections, NEW e \in BOOLEAN, NEW keep \in BOOLEAN,
         registry' = WithRow(c, e, keep)
  PROVE  /\ registry' \in [Connections -> Rows]
         /\ \A d \in Connections \ {c} : registry'[d] = registry[d]
         /\ registry'[c].known
         /\ registry'[c].enabled <=> (e \/ (keep /\ registry[c].enabled))
         /\ registry'[c].projects = registry[c].projects
         /\ registry'[c].marker = registry[c].marker
<1> DEFINE row == [registry[c] EXCEPT !.known = TRUE, !.enabled = e \/ (keep /\ registry[c].enabled)]
<1>1. registry[c] \in Rows
  BY DEF TypeOK
<1>2. /\ row \in Rows /\ row.known
      /\ row.enabled <=> (e \/ (keep /\ registry[c].enabled))
      /\ row.projects = registry[c].projects /\ row.marker = registry[c].marker
  BY <1>1 DEF Rows
<1>3. registry' = [registry EXCEPT ![c] = row]
  BY Zenon DEF WithRow
<1> HIDE DEF row
<1> QED BY <1>2, <1>3 DEF TypeOK

LEMMA WithMemberEffect ==
  ASSUME TypeOK, NEW c \in Connections, NEW p \in Projects, registry' = WithMember(c, p)
  PROVE  /\ registry' \in [Connections -> Rows]
         /\ \A d \in Connections \ {c} : registry'[d] = registry[d]
         /\ registry'[c].known = registry[c].known
         /\ registry'[c].enabled = registry[c].enabled
         /\ registry'[c].projects = registry[c].projects \cup {p}
         /\ registry'[c].marker = registry[c].marker
<1> DEFINE row == [registry[c] EXCEPT !.projects = registry[c].projects \cup {p}]
<1>1. registry[c] \in Rows
  BY DEF TypeOK
<1>2. /\ row \in Rows /\ row.known = registry[c].known /\ row.enabled = registry[c].enabled
      /\ row.projects = registry[c].projects \cup {p} /\ row.marker = registry[c].marker
  BY <1>1 DEF Rows
<1>3. registry' = [registry EXCEPT ![c] = row]
  BY Zenon DEF WithMember
<1> HIDE DEF row
<1> QED BY <1>2, <1>3 DEF TypeOK

(* The fields of a setup that no step changes. *)
SameSetup ==
  /\ setup'.kind = setup.kind
  /\ setup'.conn = setup.conn /\ setup'.project = setup.project
  /\ setup'.superseded = setup.superseded
  /\ setup'.before = setup.before /\ setup'.files = setup.files

(* A refusal changes the program counter; it has to come before the files and *)
(* not to an init that has been under way.                                    *)
LEMMA RefuseKeeps ==
  ASSUME IInv, setup # None, setup.kind = "init", setup.pc \in {"register", "member"},
         unfinished = None, Refuse, UNCHANGED <<removal, unfinished>>
  PROVE  IInv'
<1>1. setup \in Setups
  BY DEF IInv, TypeOK
<1>2. setup' = [setup EXCEPT !.pc = "refused"] /\ setup' \in Setups
  BY <1>1 DEF Refuse, At, Setups
<1>3. TypeOK' /\ setup' # None
  BY <1>1, <1>2 DEF Refuse, IInv, TypeOK
<1>4. SameSetup /\ setup'.pc = "refused" /\ setup'.pending = setup.pending
  BY <1>1, <1>2 DEF SameSetup, Setups
<1>5. MarkersGuarded' /\ ServiceKept' /\ LeaseFacts'
  BY <1>4 DEF SameSetup, Refuse, IInv, MarkersGuarded, Guarded, ServiceKept, Served, LeaseFacts
<1>6. SetupFacts'
  BY SMT, <1>4 DEF SameSetup, Refuse, IInv, SetupFacts, Guarded, Marked
<1>7. InitFacts'
  BY <1>4 DEF SameSetup, Refuse, IInv, InitFacts
<1>8. RerunFacts'
  BY <1>3, <1>4 DEF SameSetup, Refuse, RerunFacts
<1> QED BY <1>3, <1>5, <1>6, <1>7, <1>8 DEF IInv

LEMMA InitRegisterKeeps ==
  ASSUME IInv, InitRegister,
         NEW c \in Connections, NEW p \in Projects, setup.conn = c, setup.project = p
  PROVE  IInv'
<1> DEFINE resume == Migrates /\ registry[c].known /\ CleanupResume(c, p, setup.superseded)
           refused == Marked(c) \/ (Migrates /\ registry[c].known /\ ~Staged(c, p) /\ ~resume)
           pc == IF Migrates THEN "removeEntries" ELSE "member"
           pending == IF resume THEN setup.superseded ELSE {}
<1>1. setup \in Setups /\ setup # None /\ setup.kind = "init" /\ setup.pc = "register"
  BY DEF InitRegister, Running, IInv, TypeOK
<1>3. setup.superseded = Others(c, p) /\ registry = setup.before /\ entry = setup.files
      /\ setup.pending = {} /\ c \notin setup.superseded
  BY <1>1 DEF IInv, InitFacts
<1>4. UNCHANGED <<removal, unfinished>>
  BY DEF InitRegister
<1>5. CASE refused
  <2>1. Refuse
    BY <1>5 DEF InitRegister
  <2>2. unfinished = None
    <3> SUFFICES ASSUME unfinished # None PROVE FALSE
      OBVIOUS
    <3>1. Admissible(registry, c, p)
      BY <1>1, <1>3 DEF IInv, RerunFacts
    <3>2. ~Marked(c)
      BY <3>1 DEF Admissible, Marked
    <3>3. ~Staged(c, p) => p \in registry[c].projects
      BY <3>2 DEF Staged
    <3>4. ~Staged(c, p) => CleanupResume(c, p, setup.superseded)
      BY <1>3, <3>1, <3>3, AdmissibleMemberResumes DEF IInv
    <3> QED BY <1>5, <3>2, <3>4
  <2> QED BY <1>1, <1>4, <2>1, <2>2, RefuseKeeps
<1>6. CASE ~refused
  <2>1. /\ registry' = WithRow(c, ~Migrates, Migrates)
        /\ setup' = [setup EXCEPT !.pc = pc, !.resume = resume, !.pending = pending]
        /\ entry' = entry
    BY <1>6 DEF InitRegister
  <2> HIDE DEF pc, resume, pending
  <2>2. pc \in {"removeEntries", "member"} /\ resume \in BOOLEAN /\ pending \in SUBSET Connections
    BY <1>1 DEF pc, resume, pending, Setups, CleanupResume
  <2>3. setup' \in Setups
    BY <1>1, <2>1, <2>2 DEF Setups
  <2>4. /\ SameSetup /\ setup'.pc = pc /\ setup'.resume = resume /\ setup'.pending = pending
    BY <1>1, <2>1, <2>2 DEF SameSetup, Setups
  <2>5. /\ registry' \in [Connections -> Rows]
        /\ \A d \in Connections \ {c} : registry'[d] = registry[d]
        /\ registry'[c].known
        /\ registry'[c].enabled <=> (~Migrates \/ (Migrates /\ registry[c].enabled))
        /\ registry'[c].projects = registry[c].projects
        /\ registry'[c].marker = registry[c].marker
    BY <2>1, WithRowEffect DEF IInv, Migrates
  <2>6. TypeOK' /\ setup' # None
    BY <1>4, <2>1, <2>3, <2>5 DEF IInv, TypeOK
  <2>7. registry[c].marker = None
    BY <1>6 DEF Marked
  <2>8. MarkersGuarded'
    BY SMT, <2>5, <2>7 DEF IInv, MarkersGuarded, Guarded
  <2>9. ServiceKept'
    BY <1>1, <2>4, <2>5 DEF SameSetup, IInv, ServiceKept, Served
  <2>10. LeaseFacts'
    BY <1>1, <1>4 DEF IInv, LeaseFacts
  <2>11. SetupFacts'
    BY SMT, <1>1, <2>4, <2>5, <2>7 DEF SameSetup, IInv, SetupFacts, Guarded, Marked, pc
  <2>12. Others(c, p)' = Others(c, p)
    BY <2>4, <2>5 DEF Others, SameSetup
  <2>13. Admissible(registry, c, p)
    <3>1. Staged(c, p) \/ (~Marked(c) /\ Others(c, p) = {}) \/ CleanupResume(c, p, Others(c, p))
      BY SMT, <1>3, <1>6, <2>7 DEF Staged, Marked, resume, IInv, TypeOK, NoRow, Migrates
    <3> QED BY <3>1, LetThroughAdmissible DEF IInv
  <2>14. Admissible(registry, c, p)'
    BY <2>4, <2>5, <2>13 DEF Admissible, SameSetup
  <2>15. InitFacts'
    <3>1. pending \subseteq setup.superseded
      BY DEF pending
    <3>2. pc = "member" => Others(c, p)' = {} /\ setup.superseded = {}
      BY <1>3, <2>12 DEF pc, Migrates
    <3>3. pc = "removeEntries" /\ ~resume => p \notin registry[c].projects
      BY SMT, <1>6, <2>7 DEF pc, resume, Staged, Marked, IInv, TypeOK, NoRow
    <3>4. pc = "removeEntries" /\ resume =>
            registry'[c].enabled /\ p \in registry'[c].projects /\ Others(c, p)' = pending
      BY <1>3, <2>5, <2>12 DEF pc, resume, pending, CleanupResume
    <3>5. pc = "removeEntries" <=> Migrates
      BY DEF pc
    <3>6. Migrates' <=> Migrates
      BY <2>4 DEF SameSetup, Migrates
    <3>7. Serving(c, p)' <=>
            registry'[c].enabled /\ p \in registry'[c].projects /\ Others(c, p)' = pending
      BY <2>4 DEF SameSetup, Serving
    <3> QED BY SMT, <1>1, <1>3, <2>1, <2>2, <2>4, <2>5, <2>12, <3>1, <3>2, <3>3, <3>4, <3>5, <3>6, <3>7
            DEF InitFacts, SameSetup
  <2>16. RerunFacts'
    BY <1>1, <1>3, <1>4, <2>2, <2>4, <2>6, <2>13, <2>14 DEF RerunFacts, SameSetup, IInv
  <2> QED BY <2>6, <2>8, <2>9, <2>10, <2>11, <2>15, <2>16 DEF IInv
<1> QED BY <1>5, <1>6

LEMMA InitMemberKeeps ==
  ASSUME IInv, InitMember,
         NEW c \in Connections, NEW p \in Projects, setup.conn = c, setup.project = p
  PROVE  IInv'
<1>1. setup \in Setups /\ setup # None /\ setup.kind = "init" /\ setup.pc = "member"
  BY DEF InitMember, Running, IInv, TypeOK
<1>2. /\ registry[c].enabled /\ Others(c, p) = {} /\ setup.superseded = {} /\ setup.pending = {}
      /\ Admissible(setup.before, c, p) /\ Admissible(registry, c, p) /\ c \notin setup.superseded
  BY <1>1 DEF IInv, SetupFacts, InitFacts, RerunFacts
<1>3. ~Marked(c)
  BY <1>2 DEF Admissible, Marked
<1>4. /\ registry' = WithMember(c, p) /\ setup' = [setup EXCEPT !.pc = "removeEntries"]
      /\ UNCHANGED <<entry, removal, unfinished>>
  BY <1>3 DEF InitMember, At
<1>5. /\ registry' \in [Connections -> Rows]
      /\ \A d \in Connections \ {c} : registry'[d] = registry[d]
      /\ registry'[c].known = registry[c].known
      /\ registry'[c].enabled = registry[c].enabled
      /\ registry'[c].projects = registry[c].projects \cup {p}
      /\ registry'[c].marker = registry[c].marker
  BY <1>4, WithMemberEffect DEF IInv
<1>6. setup' \in Setups
  BY <1>1, <1>4 DEF Setups
<1>7. /\ SameSetup /\ setup'.pc = "removeEntries" /\ setup'.resume = setup.resume
      /\ setup'.pending = setup.pending
  BY <1>1, <1>4 DEF SameSetup, Setups
<1>8. registry[c].known
  BY SMT, <1>2 DEF IInv, TypeOK, NoRow
<1>9. TypeOK' /\ setup' # None
  BY <1>4, <1>5, <1>6, <1>8 DEF IInv, TypeOK
<1>10. MarkersGuarded'
  <2>1. registry'[c].enabled /\ registry'[c].marker = None
    BY <1>2, <1>3, <1>5 DEF Marked
  <2> QED BY SMT, <1>5, <2>1 DEF IInv, MarkersGuarded, Guarded
<1>11. ServiceKept' /\ LeaseFacts'
  BY SMT, <1>1, <1>4, <1>5, <1>7 DEF SameSetup, IInv, ServiceKept, Served, LeaseFacts
<1>12. SetupFacts'
  BY SMT, <1>1, <1>3, <1>5, <1>7 DEF SameSetup, IInv, SetupFacts, Guarded, Marked
<1>13. Others(c, p)' = {}
  BY <1>2, <1>5 DEF Others
<1>14. InitFacts'
  <2>1. Serving(c, p)'
    BY <1>2, <1>5, <1>7, <1>13 DEF SameSetup, Serving
  <2>2. ~Migrates'
    BY <1>2, <1>7 DEF SameSetup, Migrates
  <2>3. \A d \in Connections \ {c} : registry'[d] = setup.before[d]
    BY <1>1, <1>5 DEF IInv, InitFacts
  <2> QED BY SMT, <1>1, <1>2, <1>4, <1>7, <2>1, <2>2, <2>3 DEF SameSetup, InitFacts
<1>15. Admissible(registry, c, p)'
  BY <1>3, <1>5, <1>13 DEF Admissible, Others, Marked
<1>16. RerunFacts'
  BY <1>1, <1>2, <1>4, <1>7, <1>9, <1>15 DEF SameSetup, IInv, RerunFacts
<1> QED BY <1>9, <1>10, <1>11, <1>12, <1>14, <1>16 DEF IInv

(* The switch: who has which project afterwards, and who is marked. *)
LEMMA SwitchedEffect ==
  ASSUME TypeOK, NEW c \in Connections, NEW p \in Projects, NEW old \in SUBSET Connections,
         c \notin old, registry' = Switched(c, p, old)
  PROVE  /\ registry' \in [Connections -> Rows]
         /\ \A d \in Connections : registry'[d].known = registry[d].known
         /\ registry'[c].enabled /\ registry'[c].projects = registry[c].projects \cup {p}
         /\ registry'[c].marker = registry[c].marker
         /\ \A d \in Connections \ (old \cup {c}) : registry'[d] = registry[d]
         /\ \A d \in old : registry[d].projects = {p} =>
              /\ registry'[d].projects = {p} /\ ~registry'[d].enabled
              /\ registry'[d].marker = [project |-> p, replacement |-> c]
         /\ \A d \in old : registry[d].projects # {p} =>
              /\ registry'[d].projects = registry[d].projects \ {p}
              /\ registry'[d].enabled = registry[d].enabled
              /\ registry'[d].marker = registry[d].marker
<1> DEFINE m == [project |-> p, replacement |-> c]
           target == [registry[c] EXCEPT !.enabled = TRUE, !.projects = @ \cup {p}]
           disabled(d) == [registry[d] EXCEPT !.enabled = FALSE, !.marker = m]
           retired(d) == [registry[d] EXCEPT !.projects = @ \ {p}]
<1>1. m \in Markers
  BY DEF Markers
<1>2. /\ target \in Rows /\ target.known = registry[c].known /\ target.enabled
      /\ target.projects = registry[c].projects \cup {p} /\ target.marker = registry[c].marker
  <2>1. registry[c] \in Rows
    BY DEF TypeOK
  <2> QED BY <2>1 DEF Rows
<1>3. \A d \in Connections :
        /\ disabled(d) \in Rows /\ disabled(d).known = registry[d].known /\ ~disabled(d).enabled
        /\ disabled(d).projects = registry[d].projects /\ disabled(d).marker = m
  <2> SUFFICES ASSUME NEW d \in Connections
               PROVE  /\ disabled(d) \in Rows /\ disabled(d).known = registry[d].known
                      /\ ~disabled(d).enabled
                      /\ disabled(d).projects = registry[d].projects /\ disabled(d).marker = m
    OBVIOUS
  <2>1. registry[d] \in Rows
    BY DEF TypeOK
  <2> HIDE DEF m
  <2> QED BY <1>1, <2>1 DEF Rows
<1>4. \A d \in Connections :
        /\ retired(d) \in Rows /\ retired(d).known = registry[d].known
        /\ retired(d).enabled = registry[d].enabled
        /\ retired(d).projects = registry[d].projects \ {p}
        /\ retired(d).marker = registry[d].marker
  BY SMT DEF TypeOK, Rows
<1>5. registry' = [d \in Connections |->
                     CASE d = c -> target
                       [] d \in old /\ registry[d].projects = {p} -> disabled(d)
                       [] d \in old /\ registry[d].projects # {p} -> retired(d)
                       [] OTHER -> registry[d]]
  BY DEF Switched
<1> HIDE DEF m, target, disabled, retired
<1>6. /\ registry'[c] = target
      /\ \A d \in old : registry[d].projects = {p} => registry'[d] = disabled(d)
      /\ \A d \in old : registry[d].projects # {p} => registry'[d] = retired(d)
      /\ \A d \in Connections \ (old \cup {c}) : registry'[d] = registry[d]
  BY <1>5
<1>7. \A d \in Connections : registry'[d] \in Rows /\ registry'[d].known = registry[d].known
  BY SMT, <1>2, <1>3, <1>4, <1>6 DEF TypeOK
<1>8. registry' \in [Connections -> Rows]
  BY <1>5, <1>7
<1> QED BY SMT, <1>2, <1>3, <1>4, <1>6, <1>7, <1>8 DEF m

LEMMA InitActivateKeeps ==
  ASSUME IInv, InitActivate,
         NEW c \in Connections, NEW p \in Projects, setup.conn = c, setup.project = p
  PROVE  IInv'
<1> DEFINE old == setup.superseded
           pending == {d \in old : registry[d].projects = {p}}
<1>1. setup \in Setups /\ setup # None /\ setup.kind = "init" /\ setup.pc = "activate"
  BY DEF InitActivate, Running, IInv, TypeOK
<1>2. /\ registry[c].known /\ p \notin registry[c].projects /\ old = Others(c, p) /\ c \notin old
      /\ Admissible(setup.before, c, p) /\ Admissible(registry, c, p)
      /\ entry[c] /\ \A d \in old : ~entry[d]
  BY <1>1 DEF IInv, InitFacts, RerunFacts
<1>3. old \in SUBSET Connections
  BY <1>1 DEF Setups
<1>4. registry[c].marker = None
  BY <1>2 DEF Admissible
<1>5. \A d \in old : Marked(d) => MarkedFor(d, p) /\ registry[d].projects = {p}
  BY SMT, <1>2, <1>3 DEF IInv, MarkersGuarded, Guarded, Marked, MarkedFor, Others
<1>6. Activatable(c, p, old)
  <2>1. Superseded(c, p, old) = old
    BY <1>2, EveryOtherSuperseded DEF IInv
  <2> QED BY <1>2, <1>4, <1>5, <2>1 DEF Activatable, Staged, Marked, MarkedFor
<1>7. /\ registry' = Switched(c, p, old)
      /\ setup' = [setup EXCEPT !.pc = "cleanup", !.pending = pending]
      /\ UNCHANGED <<entry, removal, unfinished>>
  BY <1>6 DEF InitActivate
<1>8. /\ registry' \in [Connections -> Rows]
      /\ \A d \in Connections : registry'[d].known = registry[d].known
      /\ registry'[c].enabled /\ registry'[c].projects = registry[c].projects \cup {p}
      /\ registry'[c].marker = registry[c].marker
      /\ \A d \in Connections \ (old \cup {c}) : registry'[d] = registry[d]
      /\ \A d \in old : registry[d].projects = {p} =>
           /\ registry'[d].projects = {p} /\ ~registry'[d].enabled
           /\ registry'[d].marker = [project |-> p, replacement |-> c]
      /\ \A d \in old : registry[d].projects # {p} =>
           /\ registry'[d].projects = registry[d].projects \ {p}
           /\ registry'[d].enabled = registry[d].enabled
           /\ registry'[d].marker = registry[d].marker
  BY SMT, <1>2, <1>3, <1>7, SwitchedEffect DEF IInv
<1>9. setup' \in Setups
  BY <1>1, <1>3, <1>7 DEF Setups
<1>10. /\ SameSetup /\ setup'.pc = "cleanup" /\ setup'.resume = setup.resume
       /\ setup'.pending = pending
  BY <1>1, <1>7 DEF SameSetup, Setups
<1>11. \A d \in Connections : registry'[d].known \/ registry'[d] = NoRow
  <2>1. \A d \in old : registry[d].known
    BY <1>2, <1>3, MemberKnown DEF Others, IInv
  <2>2. \A d \in old \cup {c} : registry'[d].known
    BY <1>2, <1>3, <1>8, <2>1
  <2> QED BY SMT, <1>8, <2>2 DEF IInv, TypeOK
<1>12. TypeOK' /\ setup' # None
  BY <1>2, <1>3, <1>7, <1>8, <1>9, <1>11 DEF IInv, TypeOK
<1>13. [project |-> p, replacement |-> c] # None
  BY [project |-> p, replacement |-> c] \in Markers DEF Markers
<1>14. MarkersGuarded'
  <2> SUFFICES ASSUME NEW d \in Connections
               PROVE  /\ registry'[d].marker # None
                         <=> (~registry'[d].enabled /\ registry'[d].projects # {})
                      /\ registry'[d].marker # None =>
                           /\ registry'[d].projects = {registry'[d].marker.project}
                           /\ registry'[d].marker.replacement # d
    BY DEF MarkersGuarded, Guarded
  <2>1. CASE d = c
    <3>1. registry'[c].enabled /\ registry'[c].marker = None
      BY <1>4, <1>8
    <3> QED BY <2>1, <3>1
  <2>2. CASE d \in old /\ registry[d].projects = {p}
    <3>1. /\ registry'[d].projects = {p} /\ ~registry'[d].enabled
          /\ registry'[d].marker = [project |-> p, replacement |-> c]
      BY <1>8, <2>2
    <3>2. d # c
      BY <1>2, <2>2
    <3> QED BY SMT, <1>13, <3>1, <3>2
  <2>3. CASE d \in old /\ registry[d].projects # {p}
    BY SMT, <1>5, <1>8, <2>3 DEF IInv, MarkersGuarded, Guarded, Marked
  <2>4. CASE d \notin old \cup {c}
    BY SMT, <1>8, <2>4 DEF IInv, MarkersGuarded, Guarded
  <2> QED BY <2>1, <2>2, <2>3, <2>4
<1>15. \A q \in Projects : Served(registry, q) => Served(registry', q)
  <2> SUFFICES ASSUME NEW q \in Projects, NEW d \in Connections,
                      registry[d].enabled, q \in registry[d].projects
               PROVE  Served(registry', q)
    BY DEF Served
  <2>1. CASE q = p
    BY <1>8, <2>1 DEF Served
  <2>2. CASE q # p
    <3>1. registry'[d].enabled /\ q \in registry'[d].projects
      BY SMT, <1>8, <2>2
    <3> QED BY <3>1 DEF Served
  <2> QED BY <2>1, <2>2
<1>16. ServiceKept' /\ LeaseFacts'
  BY <1>1, <1>7, <1>10, <1>15 DEF SameSetup, IInv, ServiceKept, LeaseFacts
<1>17. \A d \in Connections : Marked(d)' => setup.before[d].enabled \/ setup.before[d].marker # None
  <2> SUFFICES ASSUME NEW d \in Connections, Marked(d)'
               PROVE  setup.before[d].enabled \/ setup.before[d].marker # None
    OBVIOUS
  <2>1. CASE d \in old
    <3>1. setup.before[d] = registry[d] /\ p \in registry[d].projects
      BY <1>1, <1>2, <2>1 DEF IInv, InitFacts, Others
    <3> QED BY <1>1, <3>1 DEF IInv, SetupFacts, Guarded
  <2>2. CASE d \notin old
    <3>1. Marked(d)
      BY SMT, <1>8, <2>2 DEF Marked
    <3> QED BY <1>1, <3>1 DEF IInv, SetupFacts
  <2> QED BY <2>1, <2>2
<1>18. SetupFacts'
  BY SMT, <1>1, <1>10, <1>17 DEF SameSetup, IInv, SetupFacts, Guarded
<1>19. Others(c, p)' = pending
  BY SMT, <1>2, <1>3, <1>8 DEF Others
<1>20. InitFacts'
  BY <1>1, <1>2, <1>7, <1>8, <1>10, <1>19 DEF SameSetup, InitFacts, Serving
<1>21. Admissible(registry, c, p)'
  BY SMT, <1>4, <1>8, <1>19 DEF Admissible, Others
<1>22. RerunFacts'
  BY <1>1, <1>2, <1>7, <1>10, <1>12, <1>21 DEF SameSetup, IInv, RerunFacts
<1> QED BY <1>12, <1>14, <1>16, <1>18, <1>20, <1>22 DEF IInv

LEMMA CleanedUpEffect ==
  ASSUME TypeOK, NEW p \in Projects, NEW pending \in SUBSET Connections,
         registry' = CleanedUp(pending, p)
  PROVE  /\ registry' \in [Connections -> Rows]
         /\ \A d \in Connections \ pending : registry'[d] = registry[d]
         /\ \A d \in pending :
              /\ registry'[d].known = registry[d].known
              /\ registry'[d].enabled = registry[d].enabled
              /\ registry'[d].projects = registry[d].projects \ {p}
              /\ registry'[d].marker = None
<1> DEFINE clean(d) == [registry[d] EXCEPT !.projects = @ \ {p}, !.marker = None]
<1>1. \A d \in Connections :
        /\ clean(d) \in Rows /\ clean(d).known = registry[d].known
        /\ clean(d).enabled = registry[d].enabled
        /\ clean(d).projects = registry[d].projects \ {p} /\ clean(d).marker = None
  <2> SUFFICES ASSUME NEW d \in Connections
               PROVE  /\ clean(d) \in Rows /\ clean(d).known = registry[d].known
                      /\ clean(d).enabled = registry[d].enabled
                      /\ clean(d).projects = registry[d].projects \ {p}
                      /\ clean(d).marker = None
    OBVIOUS
  <2>1. registry[d] \in Rows
    BY DEF TypeOK
  <2> QED BY <2>1 DEF Rows
<1>2. registry' = [d \in Connections |-> IF d \in pending THEN clean(d) ELSE registry[d]]
  BY DEF CleanedUp
<1> HIDE DEF clean
<1> QED BY SMT, <1>1, <1>2 DEF TypeOK

LEMMA InitCleanupKeeps ==
  ASSUME IInv, InitCleanup,
         NEW c \in Connections, NEW p \in Projects, setup.conn = c, setup.project = p
  PROVE  IInv'
<1> DEFINE pending == setup.pending
<1>1. setup \in Setups /\ setup # None /\ setup.kind = "init" /\ setup.pc = "cleanup"
  BY DEF InitCleanup, Running, IInv, TypeOK
<1>2. /\ registry[c].enabled /\ p \in registry[c].projects /\ Others(c, p) = pending
      /\ Admissible(setup.before, c, p) /\ Admissible(registry, c, p) /\ entry[c]
      /\ pending \subseteq setup.superseded /\ c \notin setup.superseded
  BY <1>1 DEF IInv, InitFacts, Serving, RerunFacts
<1>3. pending \in SUBSET Connections /\ c \notin pending
  BY <1>1, <1>2 DEF Setups
<1>4. \A d \in pending :
        registry[d].marker = [project |-> p, replacement |-> c] /\ registry[d].marker # None
  BY <1>2, [project |-> p, replacement |-> c] \in Markers DEF Admissible, Others, Markers
<1>5. \A d \in pending : ~registry[d].enabled /\ registry[d].projects = {p}
  BY SMT, <1>3, <1>4 DEF IInv, MarkersGuarded, Guarded
<1>6. CleanupValid(c, p, pending)
  BY <1>2, <1>4, <1>5, MemberKnown DEF CleanupValid, PendingFor, Marked, Admissible, IInv
<1>7. /\ registry' = CleanedUp(pending, p) /\ setup' = [setup EXCEPT !.pc = "verify"]
      /\ UNCHANGED <<entry, removal, unfinished>>
  BY <1>6 DEF InitCleanup, At
<1>8. /\ registry' \in [Connections -> Rows]
      /\ \A d \in Connections \ pending : registry'[d] = registry[d]
      /\ \A d \in pending :
           /\ registry'[d].known = registry[d].known
           /\ registry'[d].enabled = registry[d].enabled
           /\ registry'[d].projects = registry[d].projects \ {p}
           /\ registry'[d].marker = None
  BY SMT, <1>3, <1>7, CleanedUpEffect DEF IInv
<1>9. setup' \in Setups
  BY <1>1, <1>7 DEF Setups
<1>10. SameSetup /\ setup'.pc = "verify" /\ setup'.pending = setup.pending
  BY <1>1, <1>7 DEF SameSetup, Setups
<1>11. \A d \in Connections : registry'[d].known \/ registry'[d] = NoRow
  <2>1. \A d \in pending : registry[d].known
    BY <1>3, <1>5, MemberKnown DEF IInv
  <2> QED BY <1>3, <1>8, <2>1 DEF IInv, TypeOK
<1>12. TypeOK' /\ setup' # None
  BY <1>7, <1>8, <1>9, <1>11 DEF IInv, TypeOK
<1>13. MarkersGuarded'
  <2>1. \A d \in pending : registry'[d].marker = None /\ registry'[d].projects = {}
    BY <1>5, <1>8
  <2> QED BY SMT, <1>8, <2>1 DEF IInv, MarkersGuarded, Guarded
<1>14. \A q \in Projects : Served(registry, q) => Served(registry', q)
  BY <1>5, <1>8 DEF Served
<1>15. ServiceKept' /\ LeaseFacts'
  BY <1>1, <1>7, <1>10, <1>14 DEF SameSetup, IInv, ServiceKept, LeaseFacts
<1>16. SetupFacts'
  BY SMT, <1>1, <1>8, <1>10 DEF SameSetup, IInv, SetupFacts, Guarded, Marked
<1>17. Others(c, p)' = {}
  BY SMT, <1>2, <1>8 DEF Others
<1>18. registry'[c] = registry[c]
  BY <1>3, <1>8
<1>19. InitFacts'
  BY <1>1, <1>2, <1>7, <1>10, <1>17, <1>18 DEF SameSetup, InitFacts
<1>20. Admissible(registry, c, p)'
  BY <1>2, <1>17, <1>18 DEF Admissible, Others
<1>21. RerunFacts'
  BY <1>1, <1>2, <1>7, <1>10, <1>12, <1>20 DEF SameSetup, IInv, RerunFacts
<1> QED BY <1>12, <1>13, <1>15, <1>16, <1>19, <1>21 DEF IInv

-----------------------------------------------------------------------------
LEMMA AddHostKeeps ==
  ASSUME IInv, AddHost
  PROVE  IInv'
<1>1. setup \in Setups /\ setup # None /\ setup.kind = "add"
  BY DEF AddHost, Running, IInv, TypeOK
<1>2. setup' = [setup EXCEPT !.pc = "register"] /\ setup' \in Setups
  BY <1>1 DEF AddHost, At, Setups
<1>3. SameSetup /\ setup'.pc = "register"
  BY <1>1, <1>2 DEF SameSetup, Setups
<1>4. TypeOK' /\ setup' # None
  BY <1>2 DEF AddHost, IInv, TypeOK
<1>5. MarkersGuarded' /\ ServiceKept' /\ LeaseFacts'
  BY <1>1, <1>3 DEF SameSetup, AddHost, IInv, MarkersGuarded, Guarded, ServiceKept, Served,
     LeaseFacts
<1>6. SetupFacts' /\ InitFacts' /\ RerunFacts'
  BY SMT, <1>1, <1>3, <1>4 DEF SameSetup, AddHost, IInv, SetupFacts, Guarded, Marked, InitFacts, RerunFacts
<1> QED BY <1>4, <1>5, <1>6 DEF IInv

LEMMA AddRegisterKeeps ==
  ASSUME IInv, AddRegister, NEW c \in Connections, setup.conn = c
  PROVE  IInv'
<1>1. setup \in Setups /\ setup # None /\ setup.kind = "add" /\ registry[c].marker = None
  BY DEF AddRegister, Running, Marked, IInv, TypeOK
<1>2. setup' = [setup EXCEPT !.pc = "member"] /\ setup' \in Setups
  BY <1>1 DEF AddRegister, At, Setups
<1>3. SameSetup /\ setup'.pc = "member"
  BY <1>1, <1>2 DEF SameSetup, Setups
<1>4. /\ registry' \in [Connections -> Rows]
      /\ \A d \in Connections \ {c} : registry'[d] = registry[d]
      /\ registry'[c].known /\ registry'[c].enabled
      /\ registry'[c].projects = registry[c].projects
      /\ registry'[c].marker = registry[c].marker
  BY WithRowEffect DEF AddRegister, IInv
<1>0. UNCHANGED <<entry, removal, unfinished>>
  BY DEF AddRegister
<1>5. TypeOK' /\ setup' # None
  BY <1>2, <1>4 DEF AddRegister, IInv, TypeOK
<1>6. MarkersGuarded'
  BY SMT, <1>1, <1>4 DEF IInv, MarkersGuarded, Guarded
<1>7. ServiceKept' /\ LeaseFacts'
  BY SMT, <1>0, <1>1, <1>3, <1>4 DEF SameSetup, IInv, ServiceKept, Served, LeaseFacts
<1>8. SetupFacts'
  BY SMT, <1>0, <1>1, <1>3, <1>4 DEF SameSetup, IInv, SetupFacts, Guarded, Marked
<1>9. InitFacts' /\ RerunFacts'
  BY <1>1, <1>3, <1>5 DEF SameSetup, AddRegister, InitFacts, RerunFacts
<1> QED BY <1>5, <1>6, <1>7, <1>8, <1>9 DEF IInv

LEMMA AddMemberKeeps ==
  ASSUME IInv, AddMember,
         NEW c \in Connections, NEW p \in Projects, setup.conn = c, setup.project = p
  PROVE  IInv'
<1>1. /\ setup # None /\ setup.kind = "add" /\ setup.pc = "member"
      /\ registry[c].marker = None /\ registry[c].enabled
  BY DEF AddMember, Running, Marked, IInv, SetupFacts
<1>2. /\ registry' \in [Connections -> Rows]
      /\ \A d \in Connections \ {c} : registry'[d] = registry[d]
      /\ registry'[c].known = registry[c].known
      /\ registry'[c].enabled = registry[c].enabled
      /\ registry'[c].projects = registry[c].projects \cup {p}
      /\ registry'[c].marker = registry[c].marker
  BY WithMemberEffect DEF AddMember, IInv
<1>3. registry[c].known
  BY SMT, <1>1 DEF IInv, TypeOK, NoRow
<1>4. TypeOK'
  BY <1>2, <1>3 DEF AddMember, IInv, TypeOK
<1>5. registry'[c].enabled /\ registry'[c].marker = None
  BY <1>1, <1>2
<1>6. MarkersGuarded'
  BY SMT, <1>2, <1>5 DEF IInv, MarkersGuarded, Guarded
<1>7. ServiceKept' /\ LeaseFacts' /\ SetupFacts' /\ InitFacts'
  BY DEF AddMember, ServiceKept, LeaseFacts, SetupFacts, InitFacts
<1>8. RerunFacts'
  BY <1>1 DEF AddMember, IInv, SetupFacts, RerunFacts
<1> QED BY <1>4, <1>6, <1>7, <1>8 DEF IInv

-----------------------------------------------------------------------------
(* A removal runs only while no exclusive command does. *)
LEMMA RemovePlanKeeps ==
  ASSUME IInv, NEW r \in Removers, NEW c \in Connections, NEW p \in Projects,
         RemovePlan(r, c, p)
  PROVE  IInv'
<1> DEFINE last == registry[c].projects = {p}
           plan == [conn |-> c, project |-> p, last |-> last, pc |-> IF last THEN "host" ELSE "row"]
<1>1. plan \in Removals
  BY DEF Removals
<1>2. removal' = [removal EXCEPT ![r] = plan] /\ unfinished' = None /\ setup = None
      /\ UNCHANGED <<registry, entry, setup>>
  BY DEF RemovePlan
<1> HIDE DEF plan
<1>3. TypeOK'
  BY <1>1, <1>2 DEF IInv, TypeOK
<1>4. MarkersGuarded'
  BY <1>2 DEF IInv, MarkersGuarded, Guarded
<1>5. ServiceKept' /\ LeaseFacts' /\ SetupFacts' /\ InitFacts' /\ RerunFacts'
  BY <1>2 DEF ServiceKept, LeaseFacts, SetupFacts, InitFacts, RerunFacts
<1> QED BY <1>3, <1>4, <1>5 DEF IInv

LEMMA Removing ==
  ASSUME IInv, NEW r \in Removers, removal[r] # None
  PROVE  removal[r] \in Removals /\ setup = None /\ unfinished = None
  BY DEF IInv, TypeOK, LeaseFacts, RerunFacts

LEMMA RemoveHostKeeps ==
  ASSUME IInv, NEW r \in Removers, RemoveHost(r)
  PROVE  IInv'
<1>1. removal[r] \in Removals /\ setup = None /\ unfinished = None
  BY Removing DEF RemoveHost
<1>2. [removal[r] EXCEPT !.pc = "row"] \in Removals
  BY <1>1 DEF Removals
<1>3. TypeOK'
  BY <1>1, <1>2 DEF RemoveHost, IInv, TypeOK
<1>4. MarkersGuarded'
  BY DEF RemoveHost, IInv, MarkersGuarded, Guarded
<1>5. ServiceKept' /\ LeaseFacts' /\ SetupFacts' /\ InitFacts' /\ RerunFacts'
  BY <1>1 DEF RemoveHost, ServiceKept, LeaseFacts, SetupFacts, InitFacts, RerunFacts
<1> QED BY <1>3, <1>4, <1>5 DEF IInv

LEMMA RemoveRowKeeps ==
  ASSUME IInv, NEW r \in Removers, RemoveRow(r)
  PROVE  IInv'
<1> DEFINE c == removal[r].conn
           p == removal[r].project
           row == IF registry[c].projects = {p} THEN NoRow
                  ELSE [registry[c] EXCEPT !.projects = @ \ {p}]
<1>1. removal[r] \in Removals /\ setup = None /\ unfinished = None
  BY Removing DEF RemoveRow
<1>2. c \in Connections /\ p \in Projects /\ registry[c].marker = None /\ registry[c].known
      /\ p \in registry[c].projects
  BY <1>1 DEF RemoveRow, Removals, Marked
<1>3. registry' = [registry EXCEPT ![c] = row] /\ UNCHANGED <<entry, setup, unfinished>>
      /\ removal' = [removal EXCEPT ![r] = None]
  BY DEF RemoveRow, WithoutMember
<1>4. /\ row \in Rows /\ row.marker = None
      /\ row = NoRow \/ (row.known /\ row.enabled = registry[c].enabled)
  <2>1. registry[c] \in Rows
    BY <1>2 DEF IInv, TypeOK
  <2> QED BY <1>2, <2>1 DEF Rows, NoRow
<1>5. row.enabled \/ row.projects = {}
  <2>1. registry[c].enabled
    BY <1>2 DEF IInv, MarkersGuarded, Guarded
  <2> QED BY <1>4, <2>1 DEF NoRow
<1> HIDE DEF c, row
<1>6. TypeOK'
  BY <1>2, <1>3, <1>4 DEF IInv, TypeOK
<1>7. MarkersGuarded'
  BY <1>2, <1>3, <1>4, <1>5 DEF IInv, TypeOK, MarkersGuarded, Guarded
<1>8. ServiceKept' /\ LeaseFacts' /\ SetupFacts' /\ InitFacts' /\ RerunFacts'
  BY <1>1, <1>3 DEF ServiceKept, LeaseFacts, SetupFacts, InitFacts, RerunFacts
<1> QED BY <1>6, <1>7, <1>8 DEF IInv

LEMMA RemoveStopsKeeps ==
  ASSUME IInv, NEW r \in Removers, RemoveStops(r)
  PROVE  IInv'
<1>1. setup = None /\ unfinished = None
  BY Removing DEF RemoveStops
<1>2. TypeOK'
  BY DEF RemoveStops, IInv, TypeOK
<1>3. MarkersGuarded'
  BY DEF RemoveStops, IInv, MarkersGuarded, Guarded
<1>4. ServiceKept' /\ LeaseFacts' /\ SetupFacts' /\ InitFacts' /\ RerunFacts'
  BY <1>1 DEF RemoveStops, ServiceKept, LeaseFacts, SetupFacts, InitFacts, RerunFacts
<1> QED BY <1>2, <1>3, <1>4 DEF IInv

-----------------------------------------------------------------------------
LEMMA NextIInv == IInv /\ [Next]_vars => IInv'
<1> SUFFICES ASSUME IInv, [Next]_vars PROVE IInv'
  OBVIOUS
<1>1. setup # None => setup.conn \in Connections /\ setup.project \in Projects
  BY DEF IInv, TypeOK, Setups
<1>2. ASSUME NEW c \in Connections, NEW p \in Projects,
             \/ \E named \in {{}} \cup {{d} : d \in Others(c, p)} : InitBegin(c, p, named)
             \/ AddBegin(c, p)
      PROVE  IInv'
  BY <1>2, InitBeginKeeps, AddBeginKeeps
<1>3. CASE InitRegister
  BY <1>1, <1>3, InitRegisterKeeps DEF InitRegister, Running
<1>4. CASE InitMember
  BY <1>1, <1>4, InitMemberKeeps DEF InitMember, Running
<1>5. CASE InitWriteEntry
  BY <1>5, InitWriteEntryKeeps
<1>6. CASE InitActivate
  BY <1>1, <1>6, InitActivateKeeps DEF InitActivate, Running
<1>7. CASE InitCleanup
  BY <1>1, <1>7, InitCleanupKeeps DEF InitCleanup, Running
<1>8. CASE \E d \in Connections : InitRemoveEntry(d)
  BY <1>8, InitRemoveEntryKeeps
<1>9. CASE InitSucceeds \/ InitDies
  BY <1>9, InitSucceedsKeeps, InitDiesKeeps
<1>10. CASE \E kept \in SUBSET Connections, restored \in BOOLEAN : InitRollsBack(kept, restored)
  BY <1>10, InitRollsBackKeeps
<1>11. CASE AddHost \/ AddStops
  BY <1>11, AddHostKeeps, AddStopsKeeps
<1>12. CASE AddRegister
  BY <1>1, <1>12, AddRegisterKeeps DEF AddRegister, Running
<1>13. CASE AddMember
  BY <1>1, <1>13, AddMemberKeeps DEF AddMember, Running
<1>14. ASSUME NEW r \in Removers,
              \/ \E c \in Connections, p \in Projects : RemovePlan(r, c, p)
              \/ RemoveHost(r) \/ RemoveRow(r) \/ RemoveStops(r)
       PROVE  IInv'
  BY <1>14, RemovePlanKeeps, RemoveHostKeeps, RemoveRowKeeps, RemoveStopsKeeps
<1>15. CASE UNCHANGED vars
  <2>1. TypeOK' /\ LeaseFacts'
    BY <1>15 DEF vars, IInv, TypeOK, LeaseFacts
  <2>2. MarkersGuarded' /\ ServiceKept'
    BY <1>15 DEF vars, IInv, MarkersGuarded, Guarded, ServiceKept, Served
  <2>3. SetupFacts'
    BY <1>15 DEF vars, IInv, SetupFacts, Guarded, Marked
  <2>4. InitFacts'
    BY <1>15 DEF vars, IInv, InitFacts, Others, Serving, Migrates
  <2>5. RerunFacts'
    BY <1>15 DEF vars, IInv, RerunFacts, Admissible, Others
  <2> QED BY <2>1, <2>2, <2>3, <2>4, <2>5 DEF IInv
<1> QED BY <1>2, <1>3, <1>4, <1>5, <1>6, <1>7, <1>8, <1>9, <1>10, <1>11, <1>12, <1>13, <1>14, <1>15
        DEF Next

LEMMA Invariance == Spec => []IInv
  BY InitIInv, NextIInv, PTL DEF Spec

-----------------------------------------------------------------------------
(* Registry rows, host entries and running commands keep their types. *)
THEOREM MigrationTypeCorrect == Spec => []TypeOK
  BY Invariance, PTL DEF IInv

(* A Connection is disabled with a project left exactly while its clean-up is *)
(* pending: no command but the migration changes a marked row.                *)
THEOREM MarkersAreGuarded == Spec => []MarkersGuarded
  BY Invariance, PTL DEF IInv

(* No exclusive command ever leaves a project unserved that was served when   *)
(* it began, so none can die there.                                           *)
THEOREM ServiceIsKept == Spec => []ServiceKept
  BY Invariance, PTL DEF IInv

(* The Registry never refuses an init whose host files have changed. *)
THEOREM RefusalsPrecedeFiles == Spec => []RefusedBeforeFiles
<1>1. IInv => RefusedBeforeFiles
  BY DEF IInv, RefusedBeforeFiles, TypeOK, Setups, SetupFacts, InitFacts
<1> QED BY <1>1, Invariance, PTL

(* An init that was under way when it died or failed is let through again. *)
THEOREM RerunsAreAccepted == Spec => []RerunAccepted
<1>1. IInv => RerunAccepted
  BY DEF IInv, RerunAccepted, TypeOK, Setups, SetupFacts, RerunFacts
<1> QED BY <1>1, Invariance, PTL

(* An init that succeeds leaves its Connection as the project's only one. *)
THEOREM InitLeavesOne == Spec => InitSettles
<1>1. IInv /\ [Next]_vars =>
        [InitSucceeds =>
           /\ registry[setup.conn].enabled
           /\ setup.project \in registry[setup.conn].projects
           /\ entry[setup.conn]
           /\ Others(setup.conn, setup.project) = {}]_vars
  BY DEF InitSucceeds, Running, IInv, InitFacts
<1> QED BY <1>1, Invariance, PTL DEF Spec, InitSettles

(* A marker goes only when the entry it is kept for is gone, or when the      *)
(* recovery copy enables the Connection again.                                *)
THEOREM MarkersOutliveEntries == Spec => MarkerOutlivesEntry
<1>1. ASSUME IInv, Next, NEW c \in Connections, Marked(c), ~Marked(c)'
      PROVE  ~entry[c] \/ registry'[c].enabled
  <2>0. setup # None => setup \in Setups /\ setup.conn \in Connections /\ setup.project \in Projects
    BY <1>1 DEF IInv, TypeOK, Setups
  <2>1. registry' # registry /\ registry[c].marker # None /\ registry'[c].marker = None
    BY <1>1 DEF Marked
  <2>2. CASE InitRegister
    BY <1>1, <2>0, <2>1, <2>2, WithRowEffect DEF InitRegister, Running, Refuse, IInv, Migrates
  <2>3. CASE InitMember
    BY <1>1, <2>0, <2>1, <2>3, WithMemberEffect DEF InitMember, Running, Refuse, IInv
  <2>4. CASE InitActivate
    <3> DEFINE old == setup.superseded
               m == [project |-> setup.project, replacement |-> setup.conn]
    <3>1. /\ registry' = Switched(setup.conn, setup.project, old)
          /\ setup.conn \notin old /\ old \in SUBSET Connections
      BY <1>1, <2>0, <2>1, <2>4 DEF InitActivate, Running, Refuse, IInv, InitFacts, Setups
    <3>2. registry'[c].marker \in {registry[c].marker, m}
      BY SMT, <1>1, <2>0, <2>4, <3>1, SwitchedEffect DEF InitActivate, Running, IInv
    <3>3. m \in Markers
      BY <2>0, <2>4 DEF InitActivate, Running, Markers
    <3> QED BY <2>1, <3>2, <3>3
  <2>5. CASE InitCleanup
    <3>1. /\ setup # None /\ setup.pc = "cleanup" /\ setup.kind = "init"
          /\ registry' = CleanedUp(setup.pending, setup.project)
      BY <2>1, <2>5 DEF InitCleanup, Running, Refuse
    <3>2. setup.pending \in SUBSET Connections
      BY <2>0, <3>1 DEF Setups
    <3>3. c \in setup.pending
      BY SMT, <1>1, <2>0, <2>1, <3>1, <3>2, CleanedUpEffect DEF IInv
    <3> QED BY <1>1, <3>1, <3>3 DEF IInv, InitFacts
  <2>6. CASE \E kept \in SUBSET Connections, restored \in BOOLEAN : InitRollsBack(kept, restored)
    BY <1>1, <2>1, <2>6 DEF InitRollsBack, IInv, SetupFacts, Marked
  <2>7. CASE AddRegister
    BY <1>1, <2>0, <2>1, <2>7, WithRowEffect DEF AddRegister, Running, IInv
  <2>8. CASE AddMember
    BY <1>1, <2>0, <2>1, <2>8, WithMemberEffect DEF AddMember, Running, IInv
  <2>9. CASE \E r \in Removers : RemoveRow(r)
    BY <1>1, <2>1, <2>9 DEF RemoveRow, WithoutMember, Marked, IInv, TypeOK
  <2> QED
    BY <1>1, <2>1, <2>2, <2>3, <2>4, <2>5, <2>6, <2>7, <2>8, <2>9
       DEF Next, InitBegin, AddBegin, InitWriteEntry, InitRemoveEntry, InitSucceeds, InitDies,
           AddHost, AddStops, RemovePlan, RemoveHost, RemoveStops
<1>2. IInv /\ [Next]_vars =>
        [\A c \in Connections :
           Marked(c) /\ ~Marked(c)' => ~entry[c] \/ registry'[c].enabled]_vars
  BY <1>1
<1> QED BY <1>2, Invariance, PTL DEF Spec, MarkerOutlivesEntry
=============================================================================
