--------------------------- MODULE SetupTransaction ---------------------------
(* `volicord init`: one setup transaction over four boundaries that share no  *)
(* transaction of their own: the Runtime Home directory, the Store database   *)
(* in it, the Product Repository's managed files and the host configuration. *)
(* Setup holds the exclusive Runtime Home mutation lease, plans against what  *)
(* it reads, prepares a sibling entry for every file and a recovery copy of   *)
(* the Store, commits in a fixed order and, when a step fails, rolls back     *)
(* what it can prove to be its own.                                           *)
(*                                                                            *)
(* A file's bytes are abstracted to the text its user owns and whether its    *)
(* managed part is what setup wants; planning carries the user's text over.   *)
(* The Store is abstracted to how many writes setup and the lease-holding     *)
(* writers have made to it.                                                   *)
EXTENDS Naturals

CONSTANTS
  RepositoryFiles, \* how many managed files are in the Product Repository
  HostFiles,       \* how many host-configuration files follow them
  Retired,         \* repository files that setup removes
  RegistrationGroups, \* Store groups before the files: profile, project, connection and policy
  StoreGroups,     \* all of them: guard installation, host cleanup, verification report follow
  Texts,           \* texts a user can write into a file
  Before,          \* the files users can have before the first setup
  Missing,         \* no file at a path
  NoText,          \* a file without text of its user
  MaxRuns,         \* bound on the number of setups started
  MaxEdits,        \* bound on what users write
  MaxWrites        \* bound on the writes of other lease holders

(* Commit order: repository files by path, then the host configuration. *)
Files == 1 .. RepositoryFiles + HostFiles

IsHost(f) == f > RepositoryFiles

ASSUME SetupAssumption ==
  /\ RepositoryFiles \in Nat /\ HostFiles \in Nat /\ RepositoryFiles + HostFiles > 0
  /\ Retired \subseteq 1 .. RepositoryFiles
  /\ NoText \notin Texts
  /\ Missing \notin [user : Texts \cup {NoText}, managed : BOOLEAN]
  /\ Missing \notin [setup : Nat, writers : Nat]
  /\ Before \subseteq [Files -> [user : Texts \cup {NoText}, managed : {FALSE}] \cup {Missing}]
  /\ RegistrationGroups \in Nat \ {0} /\ StoreGroups \in Nat /\ StoreGroups > RegistrationGroups
  /\ MaxRuns \in Nat /\ MaxEdits \in Nat /\ MaxWrites \in Nat

VARIABLES
  \* on disk
  home,         \* the Runtime Home path: "absent", "ready" or "other"
  store,        \* writes in the Store, by setup and by other lease holders
  target,       \* the bytes at each managed path
  entry,        \* the staged or recovery bytes beside it
  kept,         \* sibling entries that no running setup knows of
  \* the setup process
  lease,        \* "free" or "exclusive"
  pc, at,       \* the step of apply_init_provisioning, and its file or group
  fresh,        \* the plan creates the Runtime Home
  guard,        \* publication guard: "none", "owned" or "preserved"
  planned,      \* files the plan mutates
  original,     \* FileSnapshot of each file
  desired,      \* bytes each file is to have
  path,         \* files whose staged_path is set
  committed,    \* files whose mutation is committed
  storeApplied,
  backup,       \* recovery copy of the Store
  checkpoint,   \* Store digest at the last checkpoint
  hadEffects,   \* had_committed_effects when the transaction failed
  incomplete,   \* the rollback summary counts a failure
  disposition,  \* what the last setup reported
  run,          \* setups started
  \* history
  latest,       \* the text each file's user wrote last
  edits,        \* how often users have written
  edited,       \* files a user wrote since the plan was made
  raced         \* files written between a check of setup and the move it guards

disk == <<home, store, target, entry, kept>>
planVars == <<fresh, planned, original, desired, run>>
fileVars == <<target, entry, kept, path, committed>>
storeVars == <<home, store, guard, storeApplied, backup, checkpoint>>
reportVars == <<hadEffects, incomplete, disposition>>
history == <<latest, edits, edited, raced>>
vars == <<home, store, target, entry, kept, lease, pc, at, fresh, guard, planned, original,
          desired, path, committed, storeApplied, backup, checkpoint, hadEffects, incomplete,
          disposition, run, latest, edits, edited, raced>>

Bytes == [user : Texts \cup {NoText}, managed : BOOLEAN] \cup {Missing}

Stores == [setup : Nat, writers : Nat]

Empty == [setup |-> 0, writers |-> 0]

Forward == {"validate", "publish", "confirm", "group", "wrote", "file", "swap", "verify", "finish"}

Backward == {"rollback", "unswap", "settle", "restore"}

\* The types of the files, the Store, the lease and the transaction's progress.
TypeOK ==
  /\ home \in {"absent", "ready", "other"}
  /\ store \in Stores
  /\ target \in [Files -> Bytes] /\ entry \in [Files -> Bytes]
  /\ kept \subseteq Files \X Bytes
  /\ lease \in {"free", "exclusive"}
  /\ pc \in {"idle", "prepare"} \cup Forward \cup Backward
  /\ at \in Nat
  /\ fresh \in BOOLEAN /\ guard \in {"none", "owned", "preserved"}
  /\ planned \subseteq Files /\ path \subseteq Files /\ committed \subseteq Files
  /\ original \in [Files -> Bytes] /\ desired \in [Files -> Bytes]
  /\ storeApplied \in BOOLEAN /\ hadEffects \in BOOLEAN /\ incomplete \in BOOLEAN
  /\ backup \in Stores \cup {Missing} /\ checkpoint \in Stores \cup {Missing}
  /\ disposition \in {"none", "committed", "preserved", "rolled_back", "partially_rolled_back"}
  /\ run \in Nat
  /\ latest \in [Files -> Texts \cup {NoText}]
  /\ edits \in Nat /\ edited \subseteq Files /\ raced \subseteq Files

-----------------------------------------------------------------------------
(* Planning *)

UserText(bytes) == IF bytes = Missing THEN NoText ELSE bytes.user

(* The bytes setup wants: the managed part next to the user's text. A retired *)
(* file goes when there is nothing but managed text in it.                    *)
Desired(f, bytes) ==
  IF f \in Retired /\ UserText(bytes) = NoText
    THEN Missing
    ELSE [user |-> UserText(bytes), managed |-> TRUE]

Staged(f) == IF desired[f] = Missing THEN original[f] ELSE desired[f]

NoBytes == [f \in Files |-> Missing]

(* A home and files as a user has them before setup, or after an earlier one. *)
Init ==
  /\ home \in {"absent", "ready"}
  /\ store = Empty
  /\ target \in Before
  /\ latest = [f \in Files |-> UserText(target[f])]
  /\ entry = NoBytes /\ kept = {}
  /\ lease = "free" /\ pc = "idle" /\ at = 0
  /\ fresh = FALSE /\ guard = "none" /\ planned = {} /\ path = {} /\ committed = {}
  /\ original = NoBytes /\ desired = NoBytes
  /\ storeApplied = FALSE /\ backup = Missing /\ checkpoint = Missing
  /\ hadEffects = FALSE /\ incomplete = FALSE /\ disposition = "none"
  /\ run = 0
  /\ edits = 0 /\ edited = {} /\ raced = {}

(* execute_setup_with_lease and the plan: the lease is taken at once or not   *)
(* at all, and every input is read under it.                                  *)
Begin ==
  /\ pc = "idle" /\ run < MaxRuns
  /\ lease = "free" /\ lease' = "exclusive"
  /\ home \in {"absent", "ready"}
  /\ run' = run + 1
  /\ fresh' = (home = "absent")
  /\ original' = target
  /\ desired' = [f \in Files |-> Desired(f, target[f])]
  /\ planned' = {f \in Files : target[f] # Desired(f, target[f])}
  /\ path' = {} /\ committed' = {} /\ edited' = {}
  /\ guard' = "none" /\ storeApplied' = FALSE /\ backup' = Missing /\ checkpoint' = Missing
  /\ hadEffects' = FALSE /\ incomplete' = FALSE /\ disposition' = "none"
  /\ pc' = "prepare"
  /\ UNCHANGED <<disk, at, latest, edits, raced>>

(* PreparedSetup::prepare: nothing at a final path changes. *)
Prepare ==
  /\ pc = "prepare" /\ pc' = "validate"
  /\ entry' = [f \in Files |-> IF f \in planned THEN Staged(f) ELSE Missing]
  /\ path' = planned
  /\ backup' = IF fresh THEN Missing ELSE store
  /\ UNCHANGED <<home, store, target, kept, lease, at, planVars, guard, committed, storeApplied,
                 checkpoint, reportVars, history>>

(* A failed preparation removes what it staged. *)
PrepareFails ==
  /\ pc = "prepare" /\ pc' = "idle"
  /\ lease' = "free"
  /\ disposition' = "preserved"
  /\ UNCHANGED <<fileVars, storeVars, planVars, at, hadEffects, incomplete, history>>

(* PreparedSetup::validate_inputs *)
ValidateInputs ==
  /\ pc = "validate" /\ pc' = "publish"
  /\ \A f \in planned : target[f] = original[f]
  /\ fresh \/ home = "ready"
  /\ UNCHANGED <<fileVars, storeVars, planVars, lease, at, reportVars, history>>

(* commit_runtime_home renames the prepared directory, installation profile   *)
(* included, to a path that must not exist. An existing home is left alone.   *)
Publish ==
  /\ pc = "publish" /\ pc' = "confirm"
  /\ IF fresh
       THEN /\ home = "absent" /\ home' = "ready"
            /\ guard' = "owned"
            /\ store' = [store EXCEPT !.setup = @ + 1]
       ELSE UNCHANGED <<home, guard, store>>
  /\ UNCHANGED <<fileVars, storeApplied, backup, checkpoint, planVars, lease, at, reportVars, history>>

(* confirm_runtime_home *)
Confirm ==
  /\ pc = "confirm" /\ pc' = "group" /\ at' = 1
  /\ home = "ready"
  /\ UNCHANGED <<fileVars, storeVars, planVars, lease, reportVars, history>>

-----------------------------------------------------------------------------
(* Committing *)

(* A group of Store mutations, which may find nothing to change. *)
StoreWrite ==
  /\ pc = "group" /\ pc' = "wrote"
  /\ home = "ready"
  /\ store' = [store EXCEPT !.setup = @ + 1]
  /\ UNCHANGED <<home, guard, storeApplied, backup, checkpoint, fileVars, planVars, lease, at,
                 reportVars, history>>

(* checkpoint_setup_store, mark_store_applied *)
Checkpoint ==
  /\ pc \in {"group", "wrote"}
  /\ home = "ready"
  /\ storeApplied' = TRUE
  /\ checkpoint' = IF backup = Missing THEN Missing ELSE store
  /\ \/ at = RegistrationGroups /\ pc' = "file" /\ at' = 1
     \/ at = StoreGroups /\ pc' = "finish" /\ at' = 1
     \/ at \notin {RegistrationGroups, StoreGroups} /\ pc' = "group" /\ at' = at + 1
  /\ UNCHANGED <<home, store, guard, backup, fileVars, planVars, lease, reportVars, history>>

NextFile ==
  IF at + 1 \in Files THEN pc' = "file" /\ at' = at + 1
  ELSE pc' = "group" /\ at' = RegistrationGroups + 1

SkipFile ==
  /\ pc = "file" /\ at \notin planned
  /\ NextFile
  /\ UNCHANGED <<fileVars, storeVars, planVars, lease, reportVars, history>>

(* AtomicFileMutation::commit, three steps another process can come between:  *)
(* validate_input reads the target, a rename moves the entry, and a last read *)
(* compares the target with the staged bytes.                                 *)
CheckFile ==
  /\ pc = "file" /\ pc' = "swap" /\ at \in planned
  /\ target[at] = original[at]
  /\ UNCHANGED <<fileVars, storeVars, planVars, lease, at, reportVars, history>>

(* A creation must not replace a file, a replacement exchanges the two names, *)
(* and a removal moves the target to the emptied entry: each time the entry   *)
(* ends up with what was at the target.                                       *)
SwapFile ==
  /\ pc = "swap" /\ pc' = "verify"
  /\ (target[at] = Missing) <=> (original[at] = Missing)
  /\ target' = [target EXCEPT ![at] = desired[at]]
  /\ entry' = [entry EXCEPT ![at] = target[at]]
  /\ committed' = committed \cup {at}
  /\ UNCHANGED <<kept, path, storeVars, planVars, lease, at, reportVars, history>>

VerifyFile ==
  /\ pc = "verify"
  /\ target[at] = desired[at]
  /\ NextFile
  /\ UNCHANGED <<fileVars, storeVars, planVars, lease, reportVars, history>>

(* cleanup_after_success: each recovery entry goes, then the Store's. *)
FinishFile ==
  /\ pc = "finish" /\ at \in Files /\ at' = at + 1
  /\ entry' = [entry EXCEPT ![at] = Missing]
  /\ path' = path \ {at}
  /\ UNCHANGED <<target, kept, committed, storeVars, planVars, lease, pc, reportVars, history>>

Succeed ==
  /\ pc = "finish" /\ at \notin Files /\ pc' = "idle"
  /\ lease' = "free"
  /\ disposition' = "committed"
  /\ UNCHANGED <<fileVars, storeVars, planVars, at, hadEffects, incomplete, history>>

-----------------------------------------------------------------------------
(* Failing *)

(* has_committed_effects *)
HasCommittedEffects == guard # "none" \/ storeApplied \/ committed # {}

\* Mutant: host configuration is left out of the rollback.
Abandon_RepositoryOnly ==
  /\ pc' = "rollback" /\ at' = RepositoryFiles
  /\ hadEffects' = HasCommittedEffects
  /\ \/ UNCHANGED guard
     \/ guard = "owned" /\ committed # {} /\ guard' = "preserved"
  /\ UNCHANGED <<target, committed, home, store, storeApplied, backup, checkpoint, planVars, lease,
                 incomplete, disposition, history>>

\* Mutant: the lease ends with the failure, before the rollback.
Abandon_ReleasesLease ==
  /\ pc' = "rollback" /\ at' = RepositoryFiles + HostFiles
  /\ hadEffects' = HasCommittedEffects
  /\ lease' = "free"
  /\ \/ UNCHANGED guard
     \/ guard = "owned" /\ committed # {} /\ guard' = "preserved"
  /\ UNCHANGED <<target, committed, home, store, storeApplied, backup, checkpoint, planVars,
                 incomplete, disposition, history>>

(* Any step can fail, because its check does or because the system call does. *)
(* A published home is kept when files that name it are already visible and   *)
(* its runtime sessions cannot be shown to be none.                           *)
Abandon ==
  /\ pc' = "rollback" /\ at' = RepositoryFiles + HostFiles
  /\ hadEffects' = HasCommittedEffects
  /\ \/ UNCHANGED guard
     \/ guard = "owned" /\ committed # {} /\ guard' = "preserved"
  /\ UNCHANGED <<target, committed, home, store, storeApplied, backup, checkpoint, planVars, lease,
                 incomplete, disposition, history>>

Fail ==
  /\ pc \in Forward
  /\ Abandon
  /\ UNCHANGED <<entry, kept, path>>

(* A recovery entry that cannot be removed is forgotten all the same. *)
FinishFails ==
  /\ pc = "finish" /\ at \in path
  /\ Abandon
  /\ path' = path \ {at}
  /\ kept' = kept \cup {<<at, entry[at]>>}
  /\ entry' = [entry EXCEPT ![at] = Missing]

-----------------------------------------------------------------------------
(* Rolling back: host configuration first, then the repository, in reverse    *)

Back == IF at > 1 THEN pc' = "rollback" /\ at' = at - 1 ELSE pc' = "restore" /\ at' = 0

(* A mutation that was not committed only cleans up its staging entry. *)
CleanupStaging ==
  /\ pc = "rollback" /\ at \notin committed
  /\ entry' = [entry EXCEPT ![at] = Missing]
  /\ path' = path \ {at}
  /\ Back
  /\ UNCHANGED <<target, kept, committed, storeVars, planVars, lease, reportVars, history>>

\* Mutant: the target is taken for setup's own.
CheckOwnBytes_Trusting ==
  /\ pc = "rollback" /\ at \in committed /\ at \in path
  /\ pc' = "unswap"
  /\ UNCHANGED <<fileVars, storeVars, planVars, lease, at, reportVars, history>>

(* AtomicFileMutation::rollback: only bytes that are still the staged ones    *)
(* are taken back.                                                            *)
CheckOwnBytes ==
  /\ pc = "rollback" /\ at \in committed /\ at \in path
  /\ target[at] = desired[at]
  /\ pc' = "unswap"
  /\ UNCHANGED <<fileVars, storeVars, planVars, lease, at, reportVars, history>>

UnswapFile ==
  /\ pc = "unswap" /\ pc' = "settle"
  /\ (target[at] = Missing) <=> (desired[at] = Missing)
  /\ target' = [target EXCEPT ![at] = entry[at]]
  /\ entry' = [entry EXCEPT ![at] = target[at]]
  /\ UNCHANGED <<kept, path, committed, storeVars, planVars, lease, at, reportVars, history>>

(* Only the restoration of a replaced file is read back. *)
SettleFile ==
  /\ pc = "settle"
  /\ original[at] = Missing \/ desired[at] = Missing \/ target[at] = original[at]
  /\ entry' = [entry EXCEPT ![at] = Missing]
  /\ committed' = committed \ {at}
  /\ Back
  /\ UNCHANGED <<target, kept, path, storeVars, planVars, lease, reportVars, history>>

\* Mutant: a file that could not be restored is not counted.
RollbackFails_NotCounted ==
  /\ pc \in {"rollback", "unswap", "settle"}
  /\ Back
  /\ UNCHANGED <<incomplete, fileVars, storeVars, planVars, lease, hadEffects, disposition, history>>

(* The file stays as it is, its recovery entry beside it. *)
RollbackFails ==
  /\ pc \in {"rollback", "unswap", "settle"}
  /\ incomplete' = TRUE
  /\ Back
  /\ UNCHANGED <<fileVars, storeVars, planVars, lease, hadEffects, disposition, history>>

(* The setup ends; entries it could not remove stay on disk. *)
Report ==
  /\ pc' = "idle"
  /\ lease' = "free"
  /\ kept' = kept \cup {<<f, entry[f]>> : f \in {g \in Files : entry[g] # Missing}}
  /\ entry' = NoBytes
  /\ disposition' = IF incomplete' THEN "partially_rolled_back"
                    ELSE IF hadEffects THEN "rolled_back" ELSE "preserved"
  /\ UNCHANGED <<target, path, committed, at, planVars, guard, hadEffects, storeApplied, backup,
                 checkpoint, history>>

\* Mutant: whatever is at the published path is removed.
RollbackHome_Unchecked ==
  /\ pc = "restore" /\ guard # "none"
  /\ \/ /\ guard = "owned"
        /\ \/ home' = "absent" /\ store' = Empty /\ incomplete' \in {incomplete, TRUE}
           \/ home' \in {"ready", "other"} /\ UNCHANGED store /\ incomplete' = TRUE
     \/ /\ guard = "preserved" \/ home # "ready"
        /\ incomplete' = TRUE /\ UNCHANGED <<home, store>>
  /\ Report

(* rollback_if_owned removes the home this invocation published, once it has  *)
(* read the publication back. Removal can stop half way.                      *)
RollbackHome ==
  /\ pc = "restore" /\ guard # "none"
  /\ \/ /\ guard = "owned" /\ home = "ready"
        /\ \/ home' = "absent" /\ store' = Empty /\ incomplete' \in {incomplete, TRUE}
           \/ home' \in {"ready", "other"} /\ UNCHANGED store /\ incomplete' = TRUE
     \/ /\ guard = "preserved" \/ home # "ready"
        /\ incomplete' = TRUE /\ UNCHANGED <<home, store>>
  /\ Report

(* StoreRecoveryEntry::rollback puts the recovery copy back only over the     *)
(* bytes of the last checkpoint.                                              *)
RollbackStore ==
  /\ pc = "restore" /\ guard = "none"
  /\ \/ /\ storeApplied /\ store = checkpoint
        /\ store' = backup /\ UNCHANGED incomplete
     \/ storeApplied /\ incomplete' = TRUE /\ UNCHANGED store
     \/ ~storeApplied /\ UNCHANGED <<store, incomplete>>
  /\ UNCHANGED home
  /\ Report

(* The process dies: the system releases the lease, the files stay. *)
Crash ==
  /\ pc # "idle" /\ pc' = "idle"
  /\ lease' = "free"
  /\ kept' = kept \cup {<<f, entry[f]>> : f \in {g \in Files : entry[g] # Missing}}
  /\ entry' = NoBytes
  /\ UNCHANGED <<target, path, committed, storeVars, planVars, at, reportVars, history>>

-----------------------------------------------------------------------------
(* The others *)

(* A lease holder that is not setup commits to the Store. *)
Write ==
  /\ lease = "free" /\ home = "ready"
  /\ store.writers < MaxWrites
  /\ store' = [store EXCEPT !.writers = @ + 1]
  /\ UNCHANGED <<home, guard, storeApplied, backup, checkpoint, fileVars, planVars, lease, pc, at,
                 reportVars, history>>

(* Between a read of setup that allows a move and the move itself. *)
InWindow(f) == pc \in {"swap", "unswap"} /\ at = f

(* A user writes a file at any time, with or without its managed part. *)
Edit(f, text) ==
  /\ text # latest[f]
  /\ edits < MaxEdits /\ edits' = edits + 1
  /\ \E m \in {FALSE, target[f] # Missing /\ target[f].managed} :
       target' = [target EXCEPT ![f] = [user |-> text, managed |-> m]]
  /\ latest' = [latest EXCEPT ![f] = text]
  /\ edited' = edited \cup {f}
  /\ raced' = IF InWindow(f) THEN raced \cup {f} ELSE raced
  /\ UNCHANGED <<home, store, entry, kept, lease, pc, at, planVars, guard, path, committed,
                 storeApplied, backup, checkpoint, reportVars>>

(* Something else takes the Runtime Home's path while setup runs. *)
Usurp ==
  /\ pc # "idle"
  /\ fresh /\ home # "other" /\ home' = "other"
  /\ UNCHANGED <<store, fileVars, lease, pc, at, planVars, guard, storeApplied, backup, checkpoint,
                 reportVars, history>>

SetupStep ==
  \/ Prepare \/ PrepareFails \/ ValidateInputs \/ Publish \/ Confirm
  \/ StoreWrite \/ Checkpoint \/ SkipFile \/ CheckFile \/ SwapFile \/ VerifyFile
  \/ FinishFile \/ Succeed \/ Fail \/ FinishFails
  \/ CleanupStaging \/ CheckOwnBytes \/ UnswapFile \/ SettleFile \/ RollbackFails
  \/ RollbackHome \/ RollbackStore

Next ==
  \/ Begin \/ SetupStep \/ Crash
  \/ Write \/ Usurp
  \/ \E f \in Files, text \in Texts : Edit(f, text)

Spec == Init /\ [][Next]_vars

-----------------------------------------------------------------------------
(* Properties *)

(* What the report of a setup says of the disk it leaves (setup disposition,  *)
(* apply_init_provisioning). "committed": every file is as planned and the    *)
(* home is in place. "rolled_back": every file is as it was, and so is the    *)
(* home or the Store. "preserved": the same, save for an installation profile *)
(* written before the first checkpoint, which has_committed_effects does not  *)
(* count. Files a user wrote meanwhile are the user's.                        *)
DispositionHonest ==
  /\ disposition = "committed" =>
       /\ home # "absent"
       /\ \A f \in Files \ edited : target[f] = desired[f]
  /\ disposition \in {"rolled_back", "preserved"} =>
       /\ \A f \in Files \ edited : target[f] = original[f]
       /\ fresh => home # "ready"
  /\ disposition = "rolled_back" /\ ~fresh => store.setup = backup.setup
  /\ disposition = "preserved" /\ backup # Missing => store.setup \in backup.setup .. backup.setup + 1

(* At every moment, in the middle of a replacement, of a rollback or after a  *)
(* crash, the file at a managed path carries the text its user wrote last,    *)
(* unless that text arrived between setup's check and its rename              *)
(* (AtomicFileMutation::commit and rollback).                                 *)
UserTextInPlace == \A f \in Files \ raced : UserText(target[f]) = latest[f]

(* The exact bytes a plan replaces stay on disk, at the path or in an entry   *)
(* beside it, until the setup has succeeded and finishes the file: a crash or *)
(* a failed rollback loses none of them (AtomicFileMutation, staged_path).    *)
OriginalOnDisk ==
  \A f \in planned \ edited :
    \/ f \in committed \ path
    \/ original[f] \in {Missing, target[f], entry[f]}
    \/ <<f, original[f]>> \in kept

(* Host configuration is replaced last and restored first: as long as it has  *)
(* the planned bytes, every repository file has its own, also when the setup  *)
(* dies at any point; except for files a user wrote, and once a file could    *)
(* not be rolled back (commit order, rollback_files).                         *)
HostFollowsRepository ==
  \A h \in planned, f \in Files \ edited :
    IsHost(h) /\ ~IsHost(f) /\ target[h] = desired[h] /\ ~incomplete => target[f] = desired[f]

(* No rollback takes back a write of another lease holder: the Store's copy   *)
(* and a published home are only restored or removed under the lease they     *)
(* were taken under (RuntimeHomeMutationLease, StoreRecoveryEntry).           *)
WritersKeepTheirWrites == [][store'.writers >= store.writers]_store

(* Setup never removes a home it did not publish (rollback_if_owned).         *)
OtherHomesStay == [][home = "other" => home' = "other"]_home

(* "New external bytes must be preserved": once a setup has reported, the     *)
(* text a user wrote last is still on disk, at the path or beside it          *)
(* (AtomicFileMutation::commit, finish).  Does not hold for text that arrives *)
(* between setup's check and its exchange (SetupEdits.cfg).                   *)
NewBytesPreserved ==
  disposition # "none" => \A f \in Files :
    latest[f] = UserText(target[f]) \/ \E b \in Bytes : <<f, b>> \in kept /\ UserText(b) = latest[f]
=============================================================================
