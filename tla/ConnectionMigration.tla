-------------------------- MODULE ConnectionMigration --------------------------
(* Agent Connections of one Runtime Home and the host files that configure   *)
(* them. `volicord init` moves a project from the Connections that serve it   *)
(* to another one: it stages the new Connection disabled, takes the managed   *)
(* entries of the old ones out of their host files, switches the project in   *)
(* one Registry transaction and then retires what the switch only disabled.   *)
(* A disabled Connection keeps a marker in its metadata until its clean-up is *)
(* done, so that a setup that died can be run again. `volicord connection     *)
(* add` and `volicord connection remove` change the same rows and files       *)
(* without a transaction around them.                                         *)
(*                                                                            *)
(* init and add hold the Runtime Home's mutation lease exclusively, removals  *)
(* share it. Every Connection has one host file and one managed entry in it.  *)
EXTENDS Naturals

CONSTANTS
  Connections, \* host targets, one Connection for each
  Projects,
  Scope,       \* the project of a shared Connection, or User for a personal one
  User,
  Removers,    \* processes running `volicord connection remove`
  None

VARIABLES
  registry,    \* agent_connections with their connection_projects
  entry,       \* the host file of a Connection has its managed entry
  setup,       \* the command that holds the exclusive lease
  removal,     \* the removals under way
  unfinished   \* the init that got under way and died or failed, when nothing was run since

vars == <<registry, entry, setup, removal, unfinished>>

Markers == [project : Projects, replacement : Connections]

Rows == [known : BOOLEAN, enabled : BOOLEAN, projects : SUBSET Projects,
         marker : Markers \cup {None}]

NoRow == [known |-> FALSE, enabled |-> FALSE, projects |-> {}, marker |-> None]

Setups == [kind : {"init", "add"}, conn : Connections, project : Projects,
           pc : {"host", "register", "member", "removeEntries", "activate",
                 "cleanup", "verify", "refused"},
           superseded : SUBSET Connections, pending : SUBSET Connections,
           resume : BOOLEAN,
           before : [Connections -> Rows], files : [Connections -> BOOLEAN]]

Removals == [conn : Connections, project : Projects, last : BOOLEAN,
             pc : {"host", "row"}]

ASSUME MigrationAssumption ==
  /\ Scope \in [Connections -> Projects \cup {User}]
  /\ User \notin Projects
  /\ None \notin Markers /\ None \notin Setups /\ None \notin Removals
  /\ None \notin Connections \X Projects

Init ==
  /\ registry = [c \in Connections |-> NoRow]
  /\ entry = [c \in Connections |-> FALSE]
  /\ setup = None
  /\ removal = [r \in Removers |-> None]
  /\ unfinished = None

-----------------------------------------------------------------------------
(* Reading the Registry.                                                      *)

Marked(c) == registry[c].marker # None

MarkedFor(c, p) == Marked(c) /\ registry[c].marker.project = p

(* connection_metadata_has_pending_host_cleanup *)
PendingFor(c, p, by) == registry[c].marker = [project |-> p, replacement |-> by]

(* The other Connections of a project. *)
Others(c, p) == {d \in Connections \ {c} : p \in registry[d].projects}

(* Mutant: a pending clean-up is not superseded again. *)
Superseded_Enabled(c, p, named) ==
  {d \in Others(c, p) : registry[d].enabled \/ d \in named}

(* The ones a migration to c supersedes. A disabled Connection without a      *)
(* marker is superseded when the repository's policy file names it, which is  *)
(* what `named` stands for.                                                   *)
Superseded(c, p, named) ==
  {d \in Others(c, p) : registry[d].enabled \/ MarkedFor(d, p) \/ d \in named}

(* staged_connection_migration_state: the target is no member yet ...         *)
Staged(c, p) == ~Marked(c) /\ p \notin registry[c].projects

(* Mutant: a clean-up is never resumed. *)
CleanupResume_Never(c, p, expected) == FALSE

(* ... or it is, and all that is left of the migration is its clean-up.       *)
CleanupResume(c, p, expected) ==
  /\ ~Marked(c)
  /\ p \in registry[c].projects /\ registry[c].enabled
  /\ \A d \in Others(c, p) :
       IF PendingFor(d, p, c) THEN ~registry[d].enabled
       ELSE ~registry[d].enabled /\ ~MarkedFor(d, p)
  /\ {d \in Others(c, p) : PendingFor(d, p, c)} = expected

LeaseFree == setup = None /\ \A r \in Removers : removal[r] = None

Running(kind, pc) == setup # None /\ setup.kind = kind /\ setup.pc = pc

At(pc) == setup' = [setup EXCEPT !.pc = pc]

Refuse == At("refused") /\ UNCHANGED <<registry, entry>>

-----------------------------------------------------------------------------
(* volicord init                                                              *)

Migrates == setup.superseded # {}

(* Plans against what the Registry and the files hold, under the lease. *)
InitBegin(c, p, named) ==
  /\ LeaseFree
  /\ Scope[c] \in {User, p}
  /\ setup' = [kind |-> "init", conn |-> c, project |-> p, pc |-> "register",
               superseded |-> Superseded(c, p, named), pending |-> {}, resume |-> FALSE,
               before |-> registry, files |-> entry]
  /\ unfinished' = IF unfinished = <<c, p>> THEN unfinished ELSE None
  /\ UNCHANGED <<registry, entry, removal>>

(* write_agent_connection: marked rows are refused before this. *)
WithRow(c, enabled, preserve) ==
  [registry EXCEPT ![c] =
     [registry[c] EXCEPT !.known = TRUE, !.enabled = enabled \/ (preserve /\ @)]]

(* Mutant: the superseded memberships are retired while the target is staged. *)
InitRegister_Retires ==
  /\ Running("init", "register")
  /\ ~Marked(setup.conn)
  /\ registry' = [d \in Connections |->
       IF d \in setup.superseded
       THEN [registry[d] EXCEPT !.projects = @ \ {setup.project}, !.marker = None]
       ELSE WithRow(setup.conn, ~Migrates, Migrates)[d]]
  /\ At(IF Migrates THEN "removeEntries" ELSE "member")
  /\ UNCHANGED <<entry, removal, unfinished>>

(* A migration target stays disabled unless it serves other projects already; *)
(* a Connection without anything to supersede is enabled at once.             *)
InitRegister ==
  LET c == setup.conn
      p == setup.project
      resume == Migrates /\ registry[c].known /\ CleanupResume(c, p, setup.superseded)
  IN /\ Running("init", "register")
     /\ IF Marked(c) \/ (Migrates /\ registry[c].known /\ ~Staged(c, p) /\ ~resume)
        THEN Refuse
        ELSE /\ registry' = WithRow(c, ~Migrates, Migrates)
             /\ setup' = [setup EXCEPT
                            !.pc = IF Migrates THEN "removeEntries" ELSE "member",
                            !.resume = resume,
                            !.pending = IF resume THEN setup.superseded ELSE {}]
             /\ UNCHANGED entry
     /\ UNCHANGED <<removal, unfinished>>

(* add_connection_project *)
WithMember(c, p) == [registry EXCEPT ![c] = [registry[c] EXCEPT !.projects = @ \cup {p}]]

InitMember ==
  /\ Running("init", "member")
  /\ IF Marked(setup.conn)
     THEN Refuse
     ELSE /\ registry' = WithMember(setup.conn, setup.project)
          /\ At("removeEntries")
          /\ UNCHANGED entry
  /\ UNCHANGED <<removal, unfinished>>

(* Host files are replaced one by one, the target's own file last. *)
InitRemoveEntry(d) ==
  /\ Running("init", "removeEntries")
  /\ d \in setup.superseded /\ entry[d]
  /\ entry' = [entry EXCEPT ![d] = FALSE]
  /\ UNCHANGED <<registry, setup, removal, unfinished>>

InitWriteEntry ==
  /\ Running("init", "removeEntries")
  /\ \A d \in setup.superseded : ~entry[d]
  /\ entry' = [entry EXCEPT ![setup.conn] = TRUE]
  /\ At(IF Migrates /\ ~setup.resume THEN "activate" ELSE "cleanup")
  /\ UNCHANGED <<registry, removal, unfinished>>

(* What activate_staged_connection asks of the Registry it finds. *)
Activatable(c, p, expected) ==
  /\ registry[c].known /\ Staged(c, p)
  /\ Superseded(c, p, expected) = expected
  /\ \A d \in expected :
       /\ Marked(d) => MarkedFor(d, p)
       /\ registry[d].projects # {p} => ~MarkedFor(d, p)

(* One transaction: the target gets the project, a superseded Connection      *)
(* loses it, or is disabled and marked when it was its last.                  *)
Switched(c, p, old) ==
  [d \in Connections |->
     CASE d = c -> [registry[c] EXCEPT !.enabled = TRUE, !.projects = @ \cup {p}]
       [] d \in old /\ registry[d].projects = {p} ->
            [registry[d] EXCEPT !.enabled = FALSE,
                                !.marker = [project |-> p, replacement |-> c]]
       [] d \in old /\ registry[d].projects # {p} ->
            [registry[d] EXCEPT !.projects = @ \ {p}]
       [] OTHER -> registry[d]]

InitActivate ==
  LET c == setup.conn
      p == setup.project
  IN /\ Running("init", "activate")
     /\ IF ~Activatable(c, p, setup.superseded)
        THEN Refuse
        ELSE /\ registry' = Switched(c, p, setup.superseded)
             /\ setup' = [setup EXCEPT
                            !.pc = "cleanup",
                            !.pending = {d \in setup.superseded : registry[d].projects = {p}}]
             /\ UNCHANGED entry
     /\ UNCHANGED <<removal, unfinished>>

(* validate_pending_host_cleanup_inventory *)
CleanupValid(c, p, pending) ==
  /\ registry[c].known /\ registry[c].enabled /\ p \in registry[c].projects /\ ~Marked(c)
  /\ \A d \in pending :
       ~registry[d].enabled /\ registry[d].projects = {p} /\ PendingFor(d, p, c)

(* A cleaned-up Connection stays as a disabled row without projects. *)
CleanedUp(pending, p) ==
  [d \in Connections |->
     IF d \in pending
     THEN [registry[d] EXCEPT !.projects = @ \ {p}, !.marker = None]
     ELSE registry[d]]

InitCleanup ==
  /\ Running("init", "cleanup")
  /\ IF setup.pending # {} /\ ~CleanupValid(setup.conn, setup.project, setup.pending)
     THEN Refuse
     ELSE /\ registry' = CleanedUp(setup.pending, setup.project)
          /\ At("verify")
          /\ UNCHANGED entry
  /\ UNCHANGED <<removal, unfinished>>

InitSucceeds ==
  /\ Running("init", "verify")
  /\ setup' = None
  /\ unfinished' = None
  /\ UNCHANGED <<registry, entry, removal>>

(* The init to run again, once the Registry let it past its first check. *)
Unfinished == CASE setup.pc = "register" -> unfinished
                [] setup.pc = "refused" -> None
                [] OTHER -> <<setup.conn, setup.project>>

(* A step failed or was refused: the files are put back as far as they can be *)
(* and the Store's recovery copy is put back, or is not.                      *)
InitRollsBack(kept, restored) ==
  /\ setup # None /\ setup.kind = "init"
  /\ kept \subseteq {d \in Connections : entry[d] # setup.files[d]}
  /\ entry' = [d \in Connections |-> IF d \in kept THEN entry[d] ELSE setup.files[d]]
  /\ registry' = IF restored THEN setup.before ELSE registry
  /\ unfinished' = Unfinished
  /\ setup' = None
  /\ UNCHANGED removal

InitDies ==
  /\ setup # None /\ setup.kind = "init"
  /\ unfinished' = Unfinished
  /\ setup' = None
  /\ UNCHANGED <<registry, entry, removal>>

-----------------------------------------------------------------------------
(* volicord connection add: file first, nothing is superseded or rolled back. *)

AddBegin(c, p) ==
  /\ LeaseFree
  /\ Scope[c] \in {User, p}
  /\ setup' = [kind |-> "add", conn |-> c, project |-> p, pc |-> "host",
               superseded |-> {}, pending |-> {}, resume |-> FALSE,
               before |-> registry, files |-> entry]
  /\ unfinished' = None
  /\ UNCHANGED <<registry, entry, removal>>

AddHost ==
  /\ Running("add", "host")
  /\ entry' = [entry EXCEPT ![setup.conn] = TRUE]
  /\ At("register")
  /\ UNCHANGED <<registry, removal, unfinished>>

AddRegister ==
  /\ Running("add", "register")
  /\ ~Marked(setup.conn)
  /\ registry' = WithRow(setup.conn, TRUE, FALSE)
  /\ At("member")
  /\ UNCHANGED <<entry, removal, unfinished>>

AddMember ==
  /\ Running("add", "member")
  /\ ~Marked(setup.conn)
  /\ registry' = WithMember(setup.conn, setup.project)
  /\ setup' = None
  /\ UNCHANGED <<entry, removal, unfinished>>

(* It fails where it stands: a marked row is refused after the file changed. *)
AddStops ==
  /\ setup # None /\ setup.kind = "add"
  /\ setup' = None
  /\ UNCHANGED <<registry, entry, removal, unfinished>>

-----------------------------------------------------------------------------
(* volicord connection remove                                                 *)

RemovePlan(r, c, p) ==
  /\ setup = None /\ removal[r] = None
  /\ registry[c].known /\ p \in registry[c].projects
  /\ removal' = [removal EXCEPT ![r] =
       [conn |-> c, project |-> p, last |-> registry[c].projects = {p},
        pc |-> IF registry[c].projects = {p} THEN "host" ELSE "row"]]
  /\ unfinished' = None
  /\ UNCHANGED <<registry, entry, setup>>

RemoveHost(r) ==
  /\ removal[r] # None /\ removal[r].pc = "host"
  /\ entry' = [entry EXCEPT ![removal[r].conn] = FALSE]
  /\ removal' = [removal EXCEPT ![r].pc = "row"]
  /\ UNCHANGED <<registry, setup, unfinished>>

(* remove_connection_project: the row goes with its last membership. *)
WithoutMember(c, p) ==
  [registry EXCEPT ![c] = IF registry[c].projects = {p} THEN NoRow
                          ELSE [registry[c] EXCEPT !.projects = @ \ {p}]]

RemoveRow(r) ==
  LET c == removal[r].conn
      p == removal[r].project
  IN /\ removal[r] # None /\ removal[r].pc = "row"
     /\ registry[c].known /\ ~Marked(c) /\ p \in registry[c].projects
     /\ registry' = WithoutMember(c, p)
     /\ removal' = [removal EXCEPT ![r] = None]
     /\ UNCHANGED <<entry, setup, unfinished>>

(* It fails where it stands, or dies. *)
RemoveStops(r) ==
  /\ removal[r] # None
  /\ removal' = [removal EXCEPT ![r] = None]
  /\ UNCHANGED <<registry, entry, setup, unfinished>>

-----------------------------------------------------------------------------
Next ==
  \/ \E c \in Connections, p \in Projects :
       \/ \E named \in {{}} \cup {{d} : d \in Others(c, p)} : InitBegin(c, p, named)
       \/ AddBegin(c, p)
  \/ InitRegister \/ InitMember \/ InitWriteEntry \/ InitActivate \/ InitCleanup
  \/ \E d \in Connections : InitRemoveEntry(d)
  \/ InitSucceeds \/ InitDies
  \/ \E kept \in SUBSET Connections, restored \in BOOLEAN : InitRollsBack(kept, restored)
  \/ AddHost \/ AddRegister \/ AddMember \/ AddStops
  \/ \E r \in Removers :
       \/ \E c \in Connections, p \in Projects : RemovePlan(r, c, p)
       \/ RemoveHost(r) \/ RemoveRow(r) \/ RemoveStops(r)

Spec == Init /\ [][Next]_vars

-----------------------------------------------------------------------------
(* Properties.                                                                *)

(* Every variable has its type, and a Connection without a row has nothing. *)
TypeOK ==
  /\ registry \in [Connections -> Rows]
  /\ \A c \in Connections : ~registry[c].known => registry[c] = NoRow
  /\ entry \in [Connections -> BOOLEAN]
  /\ setup \in Setups \cup {None}
  /\ removal \in [Removers -> Removals \cup {None}]
  /\ unfinished \in (Connections \X Projects) \cup {None}

Guarded(rows) ==
  \A c \in Connections :
    /\ rows[c].marker # None <=> (~rows[c].enabled /\ rows[c].projects # {})
    /\ rows[c].marker # None => /\ rows[c].projects = {rows[c].marker.project}
                                /\ rows[c].marker.replacement # c

(* A Connection is disabled and still has a project exactly while its        *)
(* clean-up is pending, and then that is its only project and another         *)
(* Connection replaces it: activate_staged_connection marks what it disables, *)
(* complete_pending_host_cleanup retires both together, and every other       *)
(* writer of agent_connections and connection_projects refuses a marked row.  *)
MarkersGuarded == Guarded(registry)

Served(rows, p) == \E c \in Connections : rows[c].enabled /\ p \in rows[c].projects

(* While a command holds the exclusive lease, and so wherever it may die, a   *)
(* project that an enabled Connection served when the command started is      *)
(* served by one: the switch of apply_init_provisioning takes a project from  *)
(* its old Connections only in the transaction that gives it the new one.     *)
ServiceKept ==
  setup # None =>
    \A p \in Projects : Served(setup.before, p) => Served(registry, p)

(* An init that succeeds leaves its Connection as the only one of the         *)
(* project: enabled, a member, with its entry in the host file; no other is a *)
(* member, whatever add, remove and setups that died left behind before.      *)
InitSettles ==
  [][InitSucceeds =>
       /\ registry[setup.conn].enabled
       /\ setup.project \in registry[setup.conn].projects
       /\ entry[setup.conn]
       /\ Others(setup.conn, setup.project) = {}]_vars

(* The marker is all that remembers a host file that may still have to be     *)
(* cleaned: a Connection loses it only when its entry is gone from the file,  *)
(* or when the Store's recovery copy enables the Connection again.            *)
MarkerOutlivesEntry ==
  [][\A c \in Connections :
       Marked(c) /\ ~Marked(c)' => ~entry[c] \/ registry'[c].enabled]_vars

(* Does not hold (MigrationRemovals.cfg). A removal of the last membership   *)
(* takes the managed host entry away before the row: two removals of a        *)
(* Connection with two projects each see another membership remain, leave the *)
(* file alone, and the second deletes the row.                                *)
RowOutlivesEntry ==
  [][\A c \in Connections :
       registry[c].known /\ ~registry'[c].known /\ setup = None => ~entry[c]]_vars

(* The Registry refuses an init, if at all, before any host file changed:     *)
(* what staged_connection_migration_state lets through, the checks of         *)
(* activate_staged_connection and complete_pending_host_cleanup let through.  *)
RefusedBeforeFiles ==
  setup # None /\ setup.pc = "refused" => entry = setup.files

(* An init that died or was rolled back, whole or in part, is not refused     *)
(* when it is run again with nothing in between: "the retained disabled       *)
(* memberships make cleanup retryable" (complete_pending_host_cleanup).       *)
RerunAccepted ==
  setup # None /\ setup.pc = "refused" => unfinished = None
=============================================================================
