------------------------ MODULE SetupTransactionProofs ------------------------
(* Proofs about SetupTransaction, for any number of files, Store groups,      *)
(* setups, edits and writers: its types, the Store under the lease, then the  *)
(* files: the user's text stays where it is, and the original bytes stay on   *)
(* disk; last, what a setup reports and the order of host configuration.  All *)
(* rest on the types and the places, and each has an invariant of its own.    *)
EXTENDS SetupTransaction, TLAPS

(* Zenon proves most leaves; the ones with arithmetic or large records say SMT. *)
USE Zenon

(* The steps over one file are at a file. *)
Located == pc \in {"file", "swap", "verify", "rollback", "unswap", "settle"} => at \in Files

(* Under the exclusive lease the writers' share of the Store stands still, so *)
(* it is what the recovery copy has, and nothing in a home that was absent.   *)
StoreInv ==
  /\ pc # "idle" => lease = "exclusive"
  /\ checkpoint # Missing => backup # Missing
  /\ pc = "prepare" => checkpoint = Missing
  /\ home = "absent" => store.writers = 0
  /\ pc # "idle" /\ fresh => store.writers = 0
  /\ pc # "idle" /\ backup # Missing => backup.writers = store.writers
  /\ guard # "none" => fresh

-----------------------------------------------------------------------------
(* Facts about bytes and stores *)

(* What the model's operators on file contents return. *)
LEMMA BytesFacts ==
  /\ Missing \in Bytes
  /\ \A text \in Texts \cup {NoText}, m \in BOOLEAN :
       /\ [user |-> text, managed |-> m] \in Bytes
       /\ UserText([user |-> text, managed |-> m]) = text
  /\ \A b \in Bytes : UserText(b) \in Texts \cup {NoText}
  /\ \A b \in Bytes : b # Missing => b.managed \in BOOLEAN
<1>1. \A text \in Texts \cup {NoText}, m \in BOOLEAN :
        [user |-> text, managed |-> m] # Missing
  BY SMT, SetupAssumption
<1>2. QED
  BY <1>1 DEF Bytes, UserText

(* Planning carries the user's text over, into bytes of a file or into none. *)
LEMMA DesiredFacts ==
  ASSUME NEW f \in Files, NEW b \in Bytes
  PROVE  Desired(f, b) \in Bytes /\ UserText(Desired(f, b)) = UserText(b)
<1>1. CASE f \in Retired /\ UserText(b) = NoText
  BY <1>1, BytesFacts DEF Desired, UserText
<1>2. CASE ~(f \in Retired /\ UserText(b) = NoText)
  BY <1>2, BytesFacts, Zenon DEF Desired
<1>3. QED
  BY <1>1, <1>2

(* Writes to the Store, of setup and of the others. *)
LEMMA StoreFacts ==
  /\ Empty \in Stores /\ Empty.writers = 0
  /\ Missing \notin Stores
  /\ \A s \in Stores :
       /\ s.writers \in Nat
       /\ [s EXCEPT !.setup = @ + 1] \in Stores
       /\ [s EXCEPT !.setup = @ + 1].writers = s.writers
       /\ [s EXCEPT !.writers = @ + 1] \in Stores
       /\ [s EXCEPT !.writers = @ + 1].writers = s.writers + 1
  BY SMT, SetupAssumption DEF Stores, Empty

-----------------------------------------------------------------------------
(* Type correctness *)

(* The report leaves every variable in its type. *)
LEMMA ReportTyped ==
  ASSUME TypeOK, Report,
         home' \in {"absent", "ready", "other"}, store' \in Stores, incomplete' \in BOOLEAN
  PROVE  TypeOK'
<1>1. entry' \in [Files -> Bytes]
  BY BytesFacts DEF Report, NoBytes
<1>2. kept' \subseteq Files \X Bytes
  BY SMT DEF Report, TypeOK
<1>3. QED
  BY <1>1, <1>2 DEF Report, planVars, history, TypeOK

(* A step keeps every variable in its type. *)
LEMMA TypeStep ==
  ASSUME TypeOK, Located, StoreInv, [Next]_vars
  PROVE  TypeOK'
<1>1. CASE Begin
  <2>1. original' \in [Files -> Bytes] /\ desired' \in [Files -> Bytes]
    BY <1>1, DesiredFacts DEF Begin, TypeOK
  <2>2. /\ planned' \subseteq Files /\ fresh' \in BOOLEAN
        /\ storeApplied' \in BOOLEAN /\ hadEffects' \in BOOLEAN /\ incomplete' \in BOOLEAN
    BY <1>1, Zenon DEF Begin
  <2>3. /\ UNCHANGED <<home, store, target, entry, kept, at, latest, edits, raced>>
        /\ lease' = "exclusive" /\ pc' = "prepare" /\ run' = run + 1 /\ guard' = "none"
        /\ path' = {} /\ committed' = {} /\ edited' = {}
        /\ backup' = Missing /\ checkpoint' = Missing /\ disposition' = "none"
    BY <1>1 DEF Begin, disk
  <2>4. QED
    BY SMT, <2>1, <2>2, <2>3 DEF TypeOK
<1>2. CASE Prepare
  <2>1. entry' \in [Files -> Bytes]
    BY <1>2, BytesFacts DEF Prepare, Staged, TypeOK
  <2>2. backup' \in Stores \cup {Missing}
    BY <1>2 DEF Prepare, TypeOK
  <2>3. QED
    BY SMT, <1>2, <2>1, <2>2 DEF Prepare, planVars, reportVars, history, TypeOK, Forward
<1>3. CASE PrepareFails
  BY <1>3 DEF PrepareFails, fileVars, storeVars, planVars, history, TypeOK
<1>4. CASE ValidateInputs
  BY SMT, <1>4 DEF ValidateInputs, fileVars, storeVars, planVars, reportVars, history, Forward, TypeOK
<1>5. CASE Publish
  <2>1. store' \in Stores
    BY <1>5, StoreFacts, Zenon DEF Publish, TypeOK
  <2>2. QED
    BY SMT, <1>5, <2>1 DEF Publish, fileVars, storeVars, planVars, reportVars, history, TypeOK, Forward
<1>6. CASE Confirm
  BY SMT, <1>6 DEF Confirm, fileVars, storeVars, planVars, reportVars, history, Forward, TypeOK
<1>7. CASE StoreWrite
  <2>1. store' \in Stores
    BY <1>7, StoreFacts, Zenon DEF StoreWrite, TypeOK
  <2>2. QED
    BY SMT, <1>7, <2>1 DEF StoreWrite, fileVars, storeVars, planVars, reportVars, history, TypeOK, Forward
<1>8. CASE Checkpoint
  BY SMT, <1>8, SetupAssumption DEF Checkpoint, fileVars, planVars, reportVars, history, Forward,
     TypeOK
<1>9. CASE SkipFile
  BY SMT, <1>9, SetupAssumption DEF SkipFile, NextFile, fileVars, storeVars, planVars, reportVars,
     history, Forward, TypeOK
<1>10. CASE CheckFile
  BY SMT, <1>10 DEF CheckFile, fileVars, storeVars, planVars, reportVars, history, Forward, TypeOK
<1>11. CASE SwapFile
  BY SMT, <1>11 DEF SwapFile, storeVars, planVars, reportVars, history, Located, Forward, TypeOK
<1>12. CASE VerifyFile
  BY SMT, <1>12, SetupAssumption DEF VerifyFile, NextFile, fileVars, storeVars, planVars, reportVars,
     history, Forward, TypeOK
<1>13. CASE FinishFile
  BY SMT, <1>13, BytesFacts DEF FinishFile, storeVars, planVars, reportVars, history, TypeOK
<1>14. CASE Succeed
  BY <1>14 DEF Succeed, fileVars, storeVars, planVars, history, TypeOK
<1>15. CASE Fail
  <2>1. HasCommittedEffects \in BOOLEAN
    BY DEF HasCommittedEffects
  <2>2. QED
    BY SMT, <1>15, <2>1, SetupAssumption DEF Fail, Abandon, planVars, history, TypeOK, Backward
<1>16. CASE FinishFails
  <2>1. HasCommittedEffects \in BOOLEAN
    BY DEF HasCommittedEffects
  <2>2. entry' \in [Files -> Bytes] /\ kept' \subseteq Files \X Bytes
    BY SMT, <1>16, BytesFacts DEF FinishFails, TypeOK
  <2>3. QED
    BY SMT, <1>16, <2>1, <2>2, SetupAssumption DEF FinishFails, Abandon, planVars, history, TypeOK, Backward
<1>17. CASE CleanupStaging
  BY SMT, <1>17, BytesFacts DEF CleanupStaging, Back, storeVars, planVars, reportVars, history,
     Located, Files, Backward, TypeOK
<1>18. CASE CheckOwnBytes
  BY SMT, <1>18 DEF CheckOwnBytes, fileVars, storeVars, planVars, reportVars, history, Backward, TypeOK
<1>19. CASE UnswapFile
  BY SMT, <1>19 DEF UnswapFile, storeVars, planVars, reportVars, history, Located, Backward, TypeOK
<1>20. CASE SettleFile
  BY SMT, <1>20, BytesFacts DEF SettleFile, Back, storeVars, planVars, reportVars, history, Located,
     Files, Backward, TypeOK
<1>21. CASE RollbackFails
  BY SMT, <1>21 DEF RollbackFails, Back, fileVars, storeVars, planVars, history, Located, Files,
     Backward, TypeOK
<1>22. CASE RollbackHome
  <2>1. home' \in {"absent", "ready", "other"} /\ store' \in Stores /\ incomplete' \in BOOLEAN
    BY <1>22, StoreFacts, Zenon DEF RollbackHome, TypeOK
  <2>2. QED
    BY <1>22, <2>1, ReportTyped DEF RollbackHome
<1>23. CASE RollbackStore
  <2>1. home' \in {"absent", "ready", "other"} /\ store' \in Stores /\ incomplete' \in BOOLEAN
    BY <1>23, StoreFacts, Zenon DEF RollbackStore, TypeOK, StoreInv
  <2>2. QED
    BY <1>23, <2>1, ReportTyped DEF RollbackStore
<1>24. CASE Crash
  BY SMT, <1>24, BytesFacts DEF Crash, storeVars, planVars, reportVars, history, NoBytes, TypeOK
<1>25. CASE Write
  <2>1. store' \in Stores
    BY <1>25, StoreFacts, Zenon DEF Write, TypeOK
  <2>2. QED
    BY SMT, <1>25, <2>1 DEF Write, fileVars, storeVars, planVars, reportVars, history, TypeOK, Forward
<1>26. CASE Usurp
  BY SMT, <1>26 DEF Usurp, fileVars, planVars, reportVars, history, TypeOK
<1>27. CASE \E f \in Files, text \in Texts : Edit(f, text)
  <2>1. PICK f \in Files, text \in Texts : Edit(f, text)
    BY <1>27
  <2>2. PICK m \in {FALSE, target[f] # Missing /\ target[f].managed} :
          target' = [target EXCEPT ![f] = [user |-> text, managed |-> m]]
    BY <2>1, Zenon DEF Edit
  <2>3. m \in BOOLEAN
    BY <2>2, BytesFacts, Zenon DEF TypeOK
  <2>4. target' \in [Files -> Bytes]
    BY <2>2, <2>3, BytesFacts DEF TypeOK
  <2>5. QED
    BY SMT, <2>1, <2>4 DEF Edit, planVars, reportVars, TypeOK
<1>28. CASE UNCHANGED vars
  BY SMT, <1>28 DEF vars, TypeOK
<1>29. QED
  BY <1>1, <1>2, <1>3, <1>4, <1>5, <1>6, <1>7, <1>8, <1>9, <1>10, <1>11, <1>12, <1>13, <1>14,
     <1>15, <1>16, <1>17, <1>18, <1>19, <1>20, <1>21, <1>22, <1>23, <1>24, <1>25, <1>26, <1>27,
     <1>28 DEF Next, SetupStep

(* The files are walked up by the commit and down by the rollback, within their bounds. *)
LEMMA LocatedStep ==
  ASSUME TypeOK, Located, [Next]_vars
  PROVE  Located'
<1>1. CASE Begin
  BY <1>1 DEF Begin, TypeOK, Located
<1>2. CASE Prepare
  BY <1>2 DEF Prepare, TypeOK, Located
<1>3. CASE PrepareFails
  BY <1>3 DEF PrepareFails, TypeOK, Located
<1>4. CASE ValidateInputs
  BY <1>4 DEF ValidateInputs, TypeOK, Located
<1>5. CASE Publish
  BY <1>5 DEF Publish, TypeOK, Located
<1>6. CASE Confirm
  BY <1>6 DEF Confirm, TypeOK, Located
<1>7. CASE StoreWrite
  BY <1>7 DEF StoreWrite, TypeOK, Located
<1>8. CASE Checkpoint
  BY SMT, <1>8, SetupAssumption DEF Checkpoint, Files, TypeOK, Located
<1>9. CASE SkipFile
  BY <1>9, SetupAssumption DEF SkipFile, NextFile, Files, TypeOK, Located
<1>10. CASE CheckFile
  BY <1>10 DEF CheckFile, TypeOK, Located
<1>11. CASE SwapFile
  BY <1>11 DEF SwapFile, TypeOK, Located
<1>12. CASE VerifyFile
  BY <1>12, SetupAssumption DEF VerifyFile, NextFile, Files, TypeOK, Located
<1>13. CASE FinishFile
  BY <1>13 DEF FinishFile, TypeOK, Located
<1>14. CASE Succeed
  BY <1>14 DEF Succeed, TypeOK, Located
<1>15. CASE Fail
  BY SMT, <1>15, SetupAssumption DEF Fail, Abandon, Files, Forward, TypeOK, Located
<1>16. CASE FinishFails
  BY SMT, <1>16, SetupAssumption DEF FinishFails, Abandon, Files, TypeOK, Located
<1>17. CASE CleanupStaging
  BY SMT, <1>17, SetupAssumption DEF CleanupStaging, Back, Files, TypeOK, Located
<1>18. CASE CheckOwnBytes
  BY <1>18 DEF CheckOwnBytes, TypeOK, Located
<1>19. CASE UnswapFile
  BY <1>19 DEF UnswapFile, TypeOK, Located
<1>20. CASE SettleFile
  BY SMT, <1>20, SetupAssumption DEF SettleFile, Back, Files, TypeOK, Located
<1>21. CASE RollbackFails
  BY SMT, <1>21, SetupAssumption DEF RollbackFails, Back, Files, TypeOK, Located
<1>22. CASE RollbackHome
  BY <1>22 DEF RollbackHome, Report, TypeOK, Located
<1>23. CASE RollbackStore
  BY <1>23 DEF RollbackStore, Report, TypeOK, Located
<1>24. CASE Crash
  BY <1>24 DEF Crash, TypeOK, Located
<1>25. CASE Write
  BY <1>25 DEF Write, TypeOK, Located
<1>26. CASE Usurp
  BY <1>26 DEF Usurp, TypeOK, Located
<1>27. CASE \E f \in Files, text \in Texts : Edit(f, text)
  BY <1>27 DEF Edit, TypeOK, Located
<1>28. CASE UNCHANGED vars
  BY <1>28 DEF vars, TypeOK, Located
<1>29. QED
  BY <1>1, <1>2, <1>3, <1>4, <1>5, <1>6, <1>7, <1>8, <1>9, <1>10, <1>11, <1>12, <1>13, <1>14,
     <1>15, <1>16, <1>17, <1>18, <1>19, <1>20, <1>21, <1>22, <1>23, <1>24, <1>25, <1>26, <1>27,
     <1>28 DEF Next, SetupStep

-----------------------------------------------------------------------------
(* The Store under the lease *)

(* While setup runs nobody else writes, and a rollback restores what it began with. *)
LEMMA StoreStep ==
  ASSUME TypeOK, StoreInv, [Next]_vars
  PROVE  StoreInv'
<1>1. CASE Begin
  BY <1>1, Zenon DEF Begin, disk, TypeOK, StoreInv
<1>2. CASE Prepare
  BY <1>2 DEF Prepare, planVars, TypeOK, StoreInv
<1>3. CASE PrepareFails
  BY <1>3 DEF PrepareFails, storeVars, planVars, StoreInv
<1>4. CASE ValidateInputs
  BY <1>4 DEF ValidateInputs, storeVars, planVars, StoreInv
<1>5. CASE Publish
  BY <1>5, StoreFacts, Zenon DEF Publish, planVars, TypeOK, StoreInv
<1>6. CASE Confirm
  BY <1>6 DEF Confirm, storeVars, planVars, StoreInv
<1>7. CASE StoreWrite
  BY <1>7, StoreFacts DEF StoreWrite, planVars, TypeOK, StoreInv
<1>8. CASE Checkpoint
  BY <1>8 DEF Checkpoint, planVars, StoreInv
<1>9. CASE SkipFile
  BY <1>9 DEF SkipFile, NextFile, storeVars, planVars, StoreInv
<1>10. CASE CheckFile
  BY <1>10 DEF CheckFile, storeVars, planVars, StoreInv
<1>11. CASE SwapFile
  BY <1>11 DEF SwapFile, storeVars, planVars, StoreInv
<1>12. CASE VerifyFile
  BY <1>12 DEF VerifyFile, NextFile, storeVars, planVars, StoreInv
<1>13. CASE FinishFile
  BY <1>13 DEF FinishFile, storeVars, planVars, StoreInv
<1>14. CASE Succeed
  BY <1>14 DEF Succeed, storeVars, planVars, StoreInv
<1>15. CASE Fail
  BY <1>15 DEF Fail, Abandon, planVars, Forward, StoreInv
<1>16. CASE FinishFails
  BY <1>16 DEF FinishFails, Abandon, planVars, StoreInv
<1>17. CASE CleanupStaging
  BY <1>17 DEF CleanupStaging, Back, storeVars, planVars, StoreInv
<1>18. CASE CheckOwnBytes
  BY <1>18 DEF CheckOwnBytes, storeVars, planVars, StoreInv
<1>19. CASE UnswapFile
  BY <1>19 DEF UnswapFile, storeVars, planVars, StoreInv
<1>20. CASE SettleFile
  BY <1>20 DEF SettleFile, Back, storeVars, planVars, StoreInv
<1>21. CASE RollbackFails
  BY <1>21 DEF RollbackFails, Back, storeVars, planVars, StoreInv
<1>22. CASE RollbackHome
  BY <1>22, StoreFacts, Zenon DEF RollbackHome, Report, planVars, TypeOK, StoreInv
<1>23. CASE RollbackStore
  BY <1>23, StoreFacts DEF RollbackStore, Report, planVars, TypeOK, StoreInv
<1>24. CASE Crash
  BY <1>24 DEF Crash, storeVars, planVars, StoreInv
<1>25. CASE Write
  BY <1>25, StoreFacts DEF Write, planVars, TypeOK, StoreInv
<1>26. CASE Usurp
  BY <1>26 DEF Usurp, planVars, StoreInv
<1>27. CASE \E f \in Files, text \in Texts : Edit(f, text)
  BY SMT, <1>27 DEF Edit, planVars, StoreInv
<1>28. CASE UNCHANGED vars
  BY <1>28 DEF vars, StoreInv
<1>29. QED
  BY <1>1, <1>2, <1>3, <1>4, <1>5, <1>6, <1>7, <1>8, <1>9, <1>10, <1>11, <1>12, <1>13, <1>14,
     <1>15, <1>16, <1>17, <1>18, <1>19, <1>20, <1>21, <1>22, <1>23, <1>24, <1>25, <1>26, <1>27,
     <1>28 DEF Next, SetupStep

-----------------------------------------------------------------------------
(* The theorems *)

(* Before the first setup the types, the place and the Store are right. *)
LEMMA BaseInit ==
  ASSUME Init
  PROVE  TypeOK /\ Located /\ StoreInv
<1>0. [user : Texts \cup {NoText}, managed : {FALSE}] \cup {Missing} \subseteq Bytes
  BY Zenon DEF Bytes
<1>1. target \in [Files -> Bytes] /\ original = NoBytes /\ desired = NoBytes
  BY <1>0, SetupAssumption, Zenon DEF Init
<1>2. latest \in [Files -> Texts \cup {NoText}]
  BY <1>1, BytesFacts DEF Init
<1>3. NoBytes \in [Files -> Bytes]
  BY BytesFacts DEF NoBytes
<1>4. storeApplied \in BOOLEAN /\ hadEffects \in BOOLEAN /\ incomplete \in BOOLEAN /\ fresh \in BOOLEAN
  BY Zenon DEF Init
<1>5. TypeOK
  BY <1>1, <1>2, <1>3, <1>4, StoreFacts DEF Init, TypeOK
<1>6. Located /\ StoreInv
  BY StoreFacts DEF Init, Located, StoreInv
<1>7. QED
  BY <1>5, <1>6

(* And every step keeps them so. *)
LEMMA BaseAlways == Spec => [](TypeOK /\ Located /\ StoreInv)
<1>1. TypeOK /\ Located /\ StoreInv /\ [Next]_vars => (TypeOK /\ Located /\ StoreInv)'
  BY TypeStep, LocatedStep, StoreStep
<1>2. QED
  BY <1>1, BaseInit, PTL DEF Spec

(* The actions that write the Store. *)
LEMMA StoreMoves ==
  ASSUME [Next]_vars
  PROVE  Publish \/ StoreWrite \/ Write \/ RollbackHome \/ RollbackStore \/ UNCHANGED store
  BY Zenon DEF Next, SetupStep, vars, storeVars, disk, Begin, Prepare, PrepareFails, ValidateInputs,
     Confirm, Checkpoint, SkipFile, CheckFile, SwapFile, VerifyFile, FinishFile, Succeed, Fail,
     FinishFails, CleanupStaging, CheckOwnBytes, UnswapFile, SettleFile, RollbackFails, Crash,
     Usurp, Abandon, Edit

(* Every variable of the setup transaction keeps its type, for any number of  *)
(* files, Store groups, setups and edits (PreparedSetup, AtomicFileMutation). *)
THEOREM SetupTypeCorrect == Spec => []TypeOK
BY BaseAlways, PTL

(* No step of a setup, rollbacks included, takes back a write of another      *)
(* lease holder (RuntimeHomeMutationLease, StoreRecoveryEntry::rollback,      *)
(* rollback_if_owned).                                                        *)
THEOREM WritersKept == Spec => WritersKeepTheirWrites
<1>1. ASSUME TypeOK, StoreInv, [Next]_vars
      PROVE  store'.writers = store.writers \/ store'.writers = store.writers + 1
  <2>1. CASE Publish
    BY <1>1, <2>1, StoreFacts, Zenon DEF Publish, TypeOK
  <2>2. CASE StoreWrite
    BY <1>1, <2>2, StoreFacts DEF StoreWrite, TypeOK
  <2>3. CASE Write
    BY <1>1, <2>3, StoreFacts DEF Write, TypeOK
  <2>4. CASE RollbackHome
    BY <1>1, <2>4, StoreFacts, Zenon DEF RollbackHome, TypeOK, StoreInv
  <2>5. CASE RollbackStore
    BY <1>1, <2>5, StoreFacts DEF RollbackStore, TypeOK, StoreInv
  <2>6. CASE UNCHANGED store
    BY <1>1, <2>6, StoreFacts DEF TypeOK
  <2>7. QED
    BY <1>1, <2>1, <2>2, <2>3, <2>4, <2>5, <2>6, StoreMoves
<1>2. ASSUME TypeOK, store'.writers = store.writers \/ store'.writers = store.writers + 1
      PROVE  store'.writers >= store.writers
  BY SMT, <1>2 DEF TypeOK, Stores
<1>3. TypeOK /\ StoreInv /\ [Next]_vars => [store'.writers >= store.writers]_store
  BY <1>1, <1>2
<1>4. QED
  BY <1>3, BaseAlways, PTL DEF WritersKeepTheirWrites, Spec

-------------------------------------------------------------------------------
(* The files.                                                                 *)

(* The text of the user: planning kept it, an open window over a file that    *)
(* nobody wrote in it still shows it, and the entry of a committed file has   *)
(* it to give back.                                                           *)
TextInv ==
  /\ \A f \in Files : UserText(desired[f]) = UserText(original[f])
  /\ pc = "prepare" => committed = {}
  /\ pc \in {"swap", "unswap"} /\ at \notin raced => UserText(original[at]) = latest[at]
  /\ pc = "unswap" => at \in committed \cap path
  /\ pc \notin {"idle", "prepare"} =>
       \A f \in (committed \cap path) \ raced : UserText(entry[f]) = UserText(original[f])

(* Files are committed in order, and the moves are over planned and committed *)
(* files.                                                                     *)
OrderInv ==
  /\ pc \in {"prepare", "validate", "publish", "confirm"} => committed = {}
  /\ pc \in {"group", "wrote"} /\ at <= RegistrationGroups => committed = {}
  /\ pc \in {"file", "swap"} => committed \subseteq 1 .. at - 1
  /\ pc = "swap" => at \in planned
  /\ pc = "unswap" => at \in committed \cap path
  /\ pc = "verify" => committed \subseteq 1 .. at

(* The original bytes: a file that is not committed still has them, and until *)
(* the rollback reaches it the entry of a committed file does.                *)
CopyInv ==
  /\ \A f \in planned \ (edited \cup committed) : target[f] = original[f]
  /\ pc \in Forward => \A f \in (committed \cap path) \ edited : entry[f] = original[f]
  /\ pc \in {"rollback", "unswap"} =>
       \A f \in (committed \cap path) \ edited : f <= at => entry[f] = original[f]
  /\ pc = "settle" =>
       /\ at \notin edited => target[at] = original[at]
       /\ \A f \in (committed \cap path) \ edited : f < at => entry[f] = original[f]

-----------------------------------------------------------------------------
(* What the steps do to the files *)

copies == <<target, entry, kept, path, committed, planned, original, desired, latest, edited, raced>>

(* Commit steps between the moves leave the files alone. *)
LEMMA ForwardStill ==
  ASSUME \/ ValidateInputs \/ Publish \/ Confirm \/ StoreWrite
         \/ Checkpoint \/ SkipFile \/ CheckFile \/ VerifyFile
  PROVE  pc \in Forward /\ pc' \in Forward /\ UNCHANGED copies
<1>1. CASE ValidateInputs
  BY <1>1, Zenon DEF ValidateInputs, fileVars, planVars, history, copies, Forward
<1>2. CASE Publish
  BY <1>2, Zenon DEF Publish, fileVars, planVars, history, copies, Forward
<1>3. CASE Confirm
  BY <1>3, Zenon DEF Confirm, fileVars, planVars, history, copies, Forward
<1>4. CASE StoreWrite
  BY <1>4, Zenon DEF StoreWrite, fileVars, planVars, history, copies, Forward
<1>5. CASE Checkpoint
  BY <1>5, Zenon DEF Checkpoint, fileVars, planVars, history, copies, Forward
<1>6. CASE SkipFile
  BY <1>6, Zenon DEF SkipFile, NextFile, fileVars, planVars, history, copies, Forward
<1>7. CASE CheckFile
  BY <1>7, Zenon DEF CheckFile, fileVars, planVars, history, copies, Forward
<1>8. CASE VerifyFile
  BY <1>8, Zenon DEF VerifyFile, NextFile, fileVars, planVars, history, copies, Forward
<1>9. QED
  BY <1>1, <1>2, <1>3, <1>4, <1>5, <1>6, <1>7, <1>8

(* So do the ends of a setup, *)
LEMMA EndStill ==
  ASSUME PrepareFails \/ Succeed
  PROVE  pc' = "idle" /\ UNCHANGED copies
BY Zenon DEF PrepareFails, Succeed, fileVars, planVars, history, copies

(* and what others do to the Store and the home. *)
LEMMA OthersStill ==
  ASSUME Write \/ Usurp \/ UNCHANGED vars
  PROVE  UNCHANGED <<pc, at>> /\ UNCHANGED copies
BY Zenon DEF Write, Usurp, vars, fileVars, planVars, history, copies

(* A failure moves from the commit to the last file of the rollback. *)
LEMMA FailEffect ==
  ASSUME Fail
  PROVE  pc \in Forward /\ pc' = "rollback" /\ at' = RepositoryFiles + HostFiles /\ UNCHANGED copies
BY DEF Fail, Abandon, planVars, history, copies

(* The rename of a commit. *)
LEMMA SwapEffect ==
  ASSUME TypeOK, Located, SwapFile
  PROVE  /\ pc = "swap" /\ pc' = "verify" /\ at \in Files /\ at' = at
         /\ target'[at] = desired[at] /\ entry'[at] = target[at]
         /\ \A f \in Files \ {at} : target'[f] = target[f] /\ entry'[f] = entry[f]
         /\ committed' = committed \cup {at}
         /\ UNCHANGED <<kept, path, planned, original, desired, latest, edited, raced>>
BY DEF TypeOK, Located, SwapFile, planVars, history

(* The rename of a rollback. *)
LEMMA UnswapEffect ==
  ASSUME TypeOK, Located, UnswapFile
  PROVE  /\ pc = "unswap" /\ pc' = "settle" /\ at \in Files /\ at' = at
         /\ target'[at] = entry[at] /\ entry'[at] = target[at]
         /\ \A f \in Files \ {at} : target'[f] = target[f] /\ entry'[f] = entry[f]
         /\ UNCHANGED <<committed, kept, path, planned, original, desired, latest, edited, raced>>
BY DEF TypeOK, Located, UnswapFile, planVars, history

(* Removing the entry of one file, in the commit or in the rollback. *)
LEMMA RemovalEffect ==
  ASSUME TypeOK, FinishFile \/ FinishFails \/ CleanupStaging
  PROVE  /\ \A f \in Files \ {at} : entry'[f] = entry[f]
         /\ path' = path \ {at}
         /\ kept \subseteq kept'
         /\ UNCHANGED <<target, committed, planned, original, desired, latest, edited, raced>>
<1>1. CASE FinishFile
  BY <1>1 DEF TypeOK, FinishFile, planVars, history
<1>2. CASE FinishFails
  BY <1>2 DEF TypeOK, FinishFails, Abandon, planVars, history
<1>3. CASE CleanupStaging
  BY <1>3 DEF TypeOK, CleanupStaging, planVars, history
<1>4. QED
  BY <1>1, <1>2, <1>3

(* The end of a file's rollback. *)
LEMMA SettleEffect ==
  ASSUME TypeOK, SettleFile
  PROVE  /\ \A f \in Files \ {at} : entry'[f] = entry[f]
         /\ committed' = committed \ {at}
         /\ original[at] = Missing \/ desired[at] = Missing \/ target[at] = original[at]
         /\ UNCHANGED <<target, kept, path, planned, original, desired, latest, edited, raced>>
BY DEF TypeOK, SettleFile, planVars, history

(* The rollback walks the files down and leaves them for the Store. *)
LEMMA BackEffect ==
  ASSUME TypeOK, at \in Files, Back
  PROVE  \/ pc' = "rollback" /\ at' = at - 1 /\ at' \in Nat
         \/ pc' = "restore"
BY SMT DEF TypeOK, Back, Files

(* A report, like a crash, leaves the targets and keeps what entries there are. *)
LEMMA StopEffect ==
  ASSUME RollbackHome \/ RollbackStore \/ Crash
  PROVE  /\ pc' = "idle"
         /\ \A f \in Files : entry[f] # Missing => <<f, entry[f]>> \in kept'
         /\ kept \subseteq kept'
         /\ UNCHANGED <<target, path, committed, planned, original, desired, latest, edited, raced>>
<1>1. CASE Report
  BY <1>1 DEF Report, planVars, history
<1>2. CASE Crash
  BY <1>2 DEF Crash, planVars, history
<1>3. QED
  BY <1>1, <1>2, Zenon DEF RollbackHome, RollbackStore

(* A user's write. *)
LEMMA EditEffect ==
  ASSUME TypeOK, NEW f \in Files, NEW text \in Texts, Edit(f, text)
  PROVE  /\ UserText(target'[f]) = latest'[f]
         /\ \A g \in Files \ {f} : target'[g] = target[g] /\ latest'[g] = latest[g]
         /\ edited' = edited \cup {f}
         /\ raced \subseteq raced'
         /\ pc \in {"swap", "unswap"} /\ at = f => f \in raced'
         /\ UNCHANGED <<pc, at, entry, kept, path, committed, planned, original, desired>>
<1>1. PICK m \in {FALSE, target[f] # Missing /\ target[f].managed} :
        target' = [target EXCEPT ![f] = [user |-> text, managed |-> m]]
  BY Zenon DEF Edit
<1>2. m \in BOOLEAN
  BY <1>1, BytesFacts, Zenon DEF TypeOK
<1>3. UserText([user |-> text, managed |-> m]) = text
  BY <1>2, BytesFacts
<1>4. target'[f] = [user |-> text, managed |-> m] /\ latest'[f] = text
  BY <1>1 DEF TypeOK, Edit
<1>5. \A g \in Files \ {f} : target'[g] = target[g] /\ latest'[g] = latest[g]
  BY <1>1 DEF TypeOK, Edit
<1>6. QED
  BY <1>3, <1>4, <1>5 DEF Edit, InWindow, planVars

-----------------------------------------------------------------------------
(* The user's text *)

(* A step moves text only where the user's is known to be the same. *)
LEMMA TextStep ==
  ASSUME TypeOK, Located, TextInv, UserTextInPlace, [Next]_vars
  PROVE  TextInv' /\ UserTextInPlace'
<1>1. CASE Begin
  <2>1. \A f \in Files : UserText(desired'[f]) = UserText(original'[f])
    BY <1>1, DesiredFacts DEF Begin, TypeOK
  <2>2. pc' = "prepare" /\ committed' = {} /\ UNCHANGED <<target, latest, raced>>
    BY <1>1 DEF Begin, disk
  <2>3. QED
    BY <2>1, <2>2, Zenon DEF TextInv, UserTextInPlace
<1>2. CASE Prepare
  <2>1. pc = "prepare" /\ pc' = "validate"
        /\ UNCHANGED <<target, committed, original, desired, latest, raced>>
    BY <1>2 DEF Prepare, planVars, history
  <2>2. QED
    BY <2>1 DEF TextInv, UserTextInPlace
<1>3. CASE PrepareFails \/ Succeed
  BY <1>3, EndStill DEF copies, TextInv, UserTextInPlace
<1>4. CASE CheckFile
  <2>1. pc = "file" /\ pc' = "swap" /\ at' = at /\ at \in Files /\ target[at] = original[at]
    BY <1>4 DEF CheckFile, Located
  <2>2. UNCHANGED copies
    BY <1>4, ForwardStill
  <2>3. QED
    BY <2>1, <2>2 DEF copies, TextInv, UserTextInPlace
<1>5. CASE ValidateInputs \/ Publish \/ Confirm \/ StoreWrite \/ Checkpoint \/ SkipFile \/ VerifyFile
  <2>1. pc \in Forward /\ pc' \in Forward /\ UNCHANGED copies
    BY <1>5, ForwardStill
  <2>2. pc' # "swap"
    BY <1>5 DEF ValidateInputs, Publish, Confirm, StoreWrite, Checkpoint, SkipFile, VerifyFile, NextFile
  <2>3. QED
    BY <2>1, <2>2 DEF copies, Forward, TextInv, UserTextInPlace
<1>6. CASE SwapFile
  <2>1. UserTextInPlace'
    BY SMT, <1>6, SwapEffect DEF TextInv, UserTextInPlace
  <2>2. committed \subseteq Files
    BY DEF TypeOK
  <2>3. \A f \in (committed' \cap path') \ raced' : UserText(entry'[f]) = UserText(original'[f])
    BY SMT, <1>6, <2>2, SwapEffect DEF TextInv, UserTextInPlace
  <2>4. QED
    BY <1>6, <2>1, <2>3, SwapEffect DEF TextInv
<1>7. CASE FinishFile \/ FinishFails \/ CleanupStaging
  <2>1. pc \notin {"idle", "prepare"} /\ pc' \notin {"idle", "prepare", "swap", "unswap"}
    BY <1>7 DEF FinishFile, FinishFails, CleanupStaging, Abandon, Back
  <2>2. QED
    BY <1>7, <2>1, RemovalEffect DEF TypeOK, TextInv, UserTextInPlace
<1>8. CASE Fail
  BY <1>8, FailEffect DEF copies, Forward, TextInv, UserTextInPlace
<1>9. CASE CheckOwnBytes
  <2>1. pc = "rollback" /\ pc' = "unswap" /\ at' = at /\ at \in Files
    BY <1>9 DEF CheckOwnBytes, Located
  <2>2. at \in committed \cap path /\ target[at] = desired[at] /\ UNCHANGED copies
    BY <1>9 DEF CheckOwnBytes, fileVars, planVars, history, copies
  <2>3. QED
    BY <2>1, <2>2 DEF copies, TextInv, UserTextInPlace
<1>10. CASE UnswapFile
  <2>1. UserTextInPlace'
    BY <1>10, UnswapEffect DEF TextInv, UserTextInPlace
  <2>2. committed \subseteq Files
    BY DEF TypeOK
  <2>3. \A f \in (committed' \cap path') \ raced' : UserText(entry'[f]) = UserText(original'[f])
    BY <1>10, <2>2, UnswapEffect DEF TextInv, UserTextInPlace
  <2>4. QED
    BY <1>10, <2>1, <2>3, UnswapEffect DEF TextInv
<1>11. CASE SettleFile
  <2>1. pc = "settle" /\ pc' \in {"rollback", "restore"}
    BY <1>11, Zenon DEF SettleFile, Back
  <2>2. QED
    BY <1>11, <2>1, SettleEffect DEF TypeOK, TextInv, UserTextInPlace
<1>12. CASE RollbackFails
  <2>1. pc \in {"rollback", "unswap", "settle"} /\ pc' \in {"rollback", "restore"} /\ UNCHANGED copies
    BY <1>12 DEF RollbackFails, Back, fileVars, planVars, history, copies
  <2>2. QED
    BY <2>1 DEF copies, TextInv, UserTextInPlace
<1>13. CASE RollbackHome \/ RollbackStore \/ Crash
  BY <1>13, StopEffect DEF TextInv, UserTextInPlace
<1>14. ASSUME NEW f \in Files, NEW text \in Texts, Edit(f, text)
       PROVE  TextInv' /\ UserTextInPlace'
  <2>1. UserTextInPlace'
    BY <1>14, EditEffect DEF UserTextInPlace
  <2>2. TextInv'
    BY <1>14, EditEffect DEF TextInv, Located
  <2>3. QED
    BY <2>1, <2>2
<1>15. CASE Write \/ Usurp \/ UNCHANGED vars
  BY <1>15, OthersStill DEF copies, TextInv, UserTextInPlace
<1>16. QED
  BY <1>1, <1>2, <1>3, <1>4, <1>5, <1>6, <1>7, <1>8, <1>9, <1>10, <1>11, <1>12, <1>13, <1>14, <1>15
     DEF Next, SetupStep

-----------------------------------------------------------------------------
(* The original bytes *)

(* Files are committed one after the other, after the registration groups. *)
LEMMA OrderStep ==
  ASSUME TypeOK, Located, OrderInv, [Next]_vars
  PROVE  OrderInv'
<1>1. CASE Begin
  BY <1>1, Zenon DEF Begin, OrderInv
<1>2. CASE Prepare
  BY <1>2, Zenon DEF Prepare, OrderInv
<1>3. CASE PrepareFails \/ Succeed
  BY <1>3, EndStill, Zenon DEF OrderInv
<1>4. CASE ValidateInputs \/ Publish
  <2>1. pc \in {"validate", "publish"} /\ pc' \in {"publish", "confirm"}
    BY <1>4 DEF ValidateInputs, Publish
  <2>2. UNCHANGED committed
    BY <1>4, ForwardStill DEF copies
  <2>3. QED
    BY <2>1, <2>2 DEF OrderInv
<1>5. CASE Confirm
  BY <1>5, ForwardStill DEF Confirm, copies, OrderInv
<1>6. CASE StoreWrite
  BY <1>6, ForwardStill DEF StoreWrite, copies, OrderInv
<1>7. CASE Checkpoint
  <2>1. pc \in {"group", "wrote"} /\ UNCHANGED committed
    BY <1>7, ForwardStill DEF Checkpoint, copies
  <2>2. CASE at = RegistrationGroups /\ pc' = "file" /\ at' = 1
    BY SMT, <2>1, <2>2, SetupAssumption DEF OrderInv
  <2>3. CASE at = StoreGroups /\ pc' = "finish"
    BY <2>3 DEF OrderInv
  <2>4. CASE at # RegistrationGroups /\ pc' = "group" /\ at' = at + 1
    BY SMT, <2>1, <2>4, SetupAssumption DEF OrderInv, TypeOK
  <2>5. QED
    BY <1>7, <2>2, <2>3, <2>4 DEF Checkpoint
<1>8. CASE SkipFile \/ VerifyFile
  <2>1. at \in Nat /\ committed \subseteq 1 .. at /\ UNCHANGED committed
    BY SMT, <1>8, ForwardStill DEF SkipFile, VerifyFile, copies, OrderInv, TypeOK
  <2>2. CASE pc' = "file" /\ at' = at + 1
    BY SMT, <2>1, <2>2 DEF OrderInv
  <2>3. CASE pc' = "group" /\ at' = RegistrationGroups + 1
    BY SMT, <2>3, SetupAssumption DEF OrderInv
  <2>4. QED
    BY <1>8, <2>2, <2>3 DEF SkipFile, VerifyFile, NextFile
<1>9. CASE CheckFile
  BY <1>9, ForwardStill DEF CheckFile, copies, OrderInv
<1>10. CASE SwapFile
  <2>1. at \in Nat \ {0} /\ committed \subseteq 1 .. at - 1
    BY SMT, <1>10, SwapEffect DEF OrderInv, Files
  <2>2. committed \cup {at} \subseteq 1 .. at
    BY SMT, <2>1
  <2>3. QED
    BY <1>10, <2>2, SwapEffect DEF OrderInv
<1>11. CASE \/ FinishFile \/ FinishFails \/ Fail \/ CleanupStaging
            \/ UnswapFile \/ SettleFile \/ RollbackFails
  <2>1. pc' \in {"finish", "rollback", "settle", "restore"}
    BY <1>11 DEF FinishFile, FinishFails, Fail, Abandon, CleanupStaging, UnswapFile, SettleFile,
       RollbackFails, Back
  <2>2. QED
    BY <2>1 DEF OrderInv
<1>12. CASE CheckOwnBytes
  BY <1>12, Zenon DEF CheckOwnBytes, fileVars, OrderInv
<1>13. CASE RollbackHome \/ RollbackStore \/ Crash
  <2>1. pc' = "idle"
    BY <1>13, StopEffect
  <2>2. QED
    BY <2>1 DEF OrderInv
<1>14. ASSUME NEW f \in Files, NEW text \in Texts, Edit(f, text)
       PROVE  OrderInv'
  <2>1. UNCHANGED <<pc, at, path, committed, planned>>
    BY <1>14, EditEffect
  <2>2. QED
    BY <2>1, Zenon DEF OrderInv
<1>15. CASE Write \/ Usurp \/ UNCHANGED vars
  BY <1>15, OthersStill, Zenon DEF copies, OrderInv
<1>16. QED
  BY <1>1, <1>2, <1>3, <1>4, <1>5, <1>6, <1>7, <1>8, <1>9, <1>10, <1>11, <1>12, <1>13, <1>14, <1>15
     DEF Next, SetupStep

(* Where each file's original bytes are. *)
LEMMA CopyStep ==
  ASSUME TypeOK, Located, OrderInv, CopyInv, [Next]_vars
  PROVE  CopyInv'
<1>0. committed \subseteq Files /\ planned \subseteq Files
  BY DEF TypeOK
<1>1. CASE Begin
  <2>1. pc' = "prepare" /\ original' = target /\ target' = target /\ planned' \subseteq Files
    BY <1>1 DEF Begin, disk
  <2>2. QED
    BY <2>1 DEF CopyInv, Forward
<1>2. CASE Prepare
  <2>1. pc = "prepare" /\ UNCHANGED <<target, committed, planned, original, edited>>
    BY <1>2 DEF Prepare, planVars, history
  <2>2. pc' = "validate"
    BY <1>2 DEF Prepare
  <2>3. QED
    BY <2>1, <2>2 DEF CopyInv, OrderInv
<1>3. CASE PrepareFails \/ Succeed
  <2>1. pc' = "idle" /\ UNCHANGED <<target, committed, planned, original, edited>>
    BY <1>3, EndStill DEF copies
  <2>2. QED
    BY <2>1 DEF CopyInv, Forward
<1>4. CASE \/ ValidateInputs \/ Publish \/ Confirm \/ StoreWrite
           \/ Checkpoint \/ SkipFile \/ CheckFile \/ VerifyFile
  BY <1>4, ForwardStill DEF copies, CopyInv, Forward
<1>5. CASE SwapFile
  <2>1. pc' = "verify" /\ pc = "swap" /\ at \in planned /\ at \notin committed
    BY SMT, <1>5, SwapEffect DEF OrderInv, Files
  <2>2. at \notin edited => target[at] = original[at]
    BY <2>1 DEF CopyInv
  <2>3. \A f \in planned' \ (edited' \cup committed') : target'[f] = original'[f]
    BY <1>0, <1>5, SwapEffect DEF CopyInv
  <2>4. \A f \in (committed' \cap path') \ edited' : entry'[f] = original'[f]
    BY SMT, <1>0, <1>5, <2>1, <2>2, SwapEffect DEF CopyInv, Forward
  <2>5. QED
    BY <2>1, <2>3, <2>4 DEF CopyInv
<1>6. CASE FinishFile \/ FinishFails
  <2>1. /\ pc = "finish"
        /\ pc' \in {"finish", "rollback"}
    BY <1>6 DEF FinishFile, FinishFails, Abandon
  <2>2. QED
    BY <1>0, <1>6, <2>1, RemovalEffect DEF CopyInv, Forward
<1>7. CASE Fail
  BY <1>7, FailEffect DEF copies, CopyInv, Forward
<1>8. CASE CleanupStaging
  <2>1. pc = "rollback" /\ at \in Files /\ Back
    BY <1>8 DEF CleanupStaging, Located
  <2>2. \A f \in (committed \cap path) \ edited : f <= at - 1 => f <= at
    BY SMT, <1>0, <2>1 DEF Files, TypeOK
  <2>3. \A f \in planned' \ (edited' \cup committed') : target'[f] = original'[f]
    BY <1>8, RemovalEffect DEF CopyInv
  <2>4. \A f \in (committed' \cap path') \ edited' : f <= at - 1 => entry'[f] = original'[f]
    BY <1>0, <1>8, <2>1, <2>2, RemovalEffect DEF CopyInv
  <2>5. (pc' = "rollback" /\ at' = at - 1) \/ pc' = "restore"
    BY <2>1, BackEffect
  <2>6. QED
    BY <2>3, <2>4, <2>5 DEF CopyInv, Forward
<1>9. CASE CheckOwnBytes
  BY <1>9 DEF CheckOwnBytes, fileVars, planVars, history, CopyInv, Forward
<1>10. CASE UnswapFile
  <2>1. pc = "unswap" /\ pc' = "settle" /\ at \in Files /\ at \in committed \cap path
    BY <1>10, UnswapEffect DEF OrderInv
  <2>2. \A f \in planned' \ (edited' \cup committed') : target'[f] = original'[f]
    BY SMT, <1>0, <1>10, <2>1, UnswapEffect DEF CopyInv
  <2>3. at \notin edited => entry[at] = original[at]
    BY SMT, <2>1 DEF CopyInv, TypeOK
  <2>4. \A f \in Files : f < at => f <= at /\ f # at
    BY SMT, <2>1 DEF Files
  <2>5. \A f \in (committed' \cap path') \ edited' : f < at => entry'[f] = original'[f]
    BY <1>0, <1>10, <2>1, <2>4, UnswapEffect DEF CopyInv
  <2>6. QED
    BY <1>10, <2>1, <2>2, <2>3, <2>5, UnswapEffect DEF CopyInv, Forward
<1>11. CASE SettleFile
  <2>1. pc = "settle" /\ at \in Files /\ Back
    BY <1>11, Zenon DEF SettleFile, Located
  <2>2. \A f \in Files : f <= at - 1 => f < at /\ f # at
    BY SMT, <2>1 DEF Files
  <2>3. \A f \in planned' \ (edited' \cup committed') : target'[f] = original'[f]
    BY <1>0, <1>11, <2>1, SettleEffect DEF CopyInv
  <2>4. \A f \in (committed' \cap path') \ edited' : f <= at - 1 => entry'[f] = original'[f]
    BY <1>0, <1>11, <2>1, <2>2, SettleEffect DEF CopyInv
  <2>5. (pc' = "rollback" /\ at' = at - 1) \/ pc' = "restore"
    BY <2>1, BackEffect
  <2>6. QED
    BY <2>3, <2>4, <2>5 DEF CopyInv, Forward
<1>12. CASE RollbackFails
  <2>1. pc \in {"rollback", "unswap", "settle"} /\ at \in Files /\ Back
    BY <1>12 DEF RollbackFails, Located
  <2>2. UNCHANGED copies
    BY <1>12 DEF RollbackFails, fileVars, planVars, history, copies
  <2>3. \A f \in Files : f <= at - 1 => f < at /\ f <= at
    BY SMT, <2>1 DEF Files
  <2>4. \A f \in (committed \cap path) \ edited : f <= at - 1 => entry[f] = original[f]
    BY <1>0, <2>1, <2>3 DEF CopyInv
  <2>5. (pc' = "rollback" /\ at' = at - 1) \/ pc' = "restore"
    BY <2>1, BackEffect
  <2>6. QED
    BY <2>2, <2>4, <2>5 DEF copies, CopyInv, Forward
<1>13. CASE RollbackHome \/ RollbackStore \/ Crash
  <2>1. pc' = "idle" /\ UNCHANGED <<target, committed, planned, original, edited>>
    BY <1>13, StopEffect
  <2>2. QED
    BY <2>1 DEF CopyInv, Forward
<1>14. ASSUME NEW f \in Files, NEW text \in Texts, Edit(f, text)
       PROVE  CopyInv'
  <2>1. /\ edited' = edited \cup {f}
        /\ \A g \in Files \ {f} : target'[g] = target[g]
        /\ UNCHANGED <<pc, at, entry, path, committed, planned, original>>
    BY <1>14, EditEffect
  <2>2. \A g \in planned' \ (edited' \cup committed') : target'[g] = original'[g]
    BY <1>0, <2>1 DEF CopyInv
  <2>3. pc' = "settle" => at' \in Files
    BY <2>1 DEF Located
  <2>4. QED
    BY <2>1, <2>2, <2>3 DEF CopyInv
<1>15. CASE Write \/ Usurp \/ UNCHANGED vars
  BY <1>15, OthersStill DEF copies, CopyInv
<1>16. QED
  BY <1>1, <1>2, <1>3, <1>4, <1>5, <1>6, <1>7, <1>8, <1>9, <1>10, <1>11, <1>12, <1>13, <1>14, <1>15
     DEF Next, SetupStep

(* A step removes a copy of the original bytes only where another is left. *)
LEMMA OnDiskStep ==
  ASSUME TypeOK, Located, OrderInv, CopyInv, OriginalOnDisk, [Next]_vars
  PROVE  OriginalOnDisk'
<1>0. committed \subseteq Files /\ planned \subseteq Files
  BY DEF TypeOK
<1>1. CASE Begin
  <2>1. original' = target /\ target' = target
    BY <1>1 DEF Begin, disk
  <2>2. QED
    BY <2>1 DEF OriginalOnDisk
<1>2. CASE Prepare
  <2>1. pc = "prepare" /\ UNCHANGED <<target, committed, planned, original, edited>>
    BY <1>2 DEF Prepare, planVars, history
  <2>2. QED
    BY <2>1 DEF OriginalOnDisk, OrderInv, CopyInv
<1>3. CASE UNCHANGED copies
  BY <1>3, Zenon DEF copies, OriginalOnDisk
<1>4. CASE SwapFile
  <2>1. at \in planned /\ at \notin committed
    BY SMT, <1>4, SwapEffect DEF OrderInv, Files
  <2>2. at \notin edited => entry'[at] = original[at]
    BY SMT, <1>4, <2>1, SwapEffect DEF CopyInv
  <2>3. QED
    BY SMT, <1>0, <1>4, <2>2, SwapEffect DEF OriginalOnDisk
<1>5. CASE FinishFile \/ FinishFails \/ CleanupStaging
  <2>1. \A f \in planned \ edited : f \notin committed => target[f] = original[f]
    BY DEF CopyInv
  <2>2. QED
    BY <1>0, <1>5, <2>1, RemovalEffect DEF OriginalOnDisk
<1>6. CASE UnswapFile
  <2>1. at \notin edited => entry[at] = original[at]
    BY SMT, <1>6, UnswapEffect DEF OrderInv, CopyInv, TypeOK
  <2>2. QED
    BY <1>0, <1>6, <2>1, UnswapEffect DEF OriginalOnDisk
<1>7. CASE SettleFile
  <2>1. at \notin edited => target[at] = original[at]
    BY <1>7 DEF SettleFile, CopyInv
  <2>2. QED
    BY SMT, <1>0, <1>7, <2>1, SettleEffect DEF OriginalOnDisk
<1>8. CASE RollbackHome \/ RollbackStore \/ Crash
  BY <1>0, <1>8, StopEffect DEF OriginalOnDisk
<1>9. ASSUME NEW f \in Files, NEW text \in Texts, Edit(f, text)
      PROVE  OriginalOnDisk'
  BY SMT, <1>0, <1>9, EditEffect DEF OriginalOnDisk
<1>10. CASE Fail \/ CheckOwnBytes \/ RollbackFails
  <2>1. CASE Fail
    BY <1>3, <2>1, FailEffect
  <2>2. CASE CheckOwnBytes \/ RollbackFails
    BY <1>3, <2>2 DEF CheckOwnBytes, RollbackFails, fileVars, planVars, history, copies
  <2>3. QED
    BY <1>10, <2>1, <2>2
<1>11. QED
  BY <1>1, <1>2, <1>3, <1>4, <1>5, <1>6, <1>7, <1>8, <1>9, <1>10, ForwardStill, EndStill, OthersStill
     DEF Next, SetupStep

-----------------------------------------------------------------------------
(* The theorems *)

IInv == TextInv /\ UserTextInPlace /\ OrderInv /\ CopyInv /\ OriginalOnDisk

(* Before the first setup every part of the invariant holds. *)
LEMMA IInvInit ==
  ASSUME Init
  PROVE  IInv
<1>1. original = NoBytes /\ desired = NoBytes
  BY Zenon DEF Init
<1>2. TextInv /\ UserTextInPlace
  BY <1>1 DEF Init, TextInv, UserTextInPlace
<1>3. OrderInv /\ CopyInv /\ OriginalOnDisk
  BY DEF Init, OrderInv, CopyInv, OriginalOnDisk, Forward
<1>4. QED
  BY <1>2, <1>3 DEF IInv

(* And every step keeps it. *)
LEMMA IInvAlways == Spec => []IInv
<1>1. IInv /\ TypeOK /\ Located /\ StoreInv /\ [Next]_vars => IInv'
  BY TextStep, OrderStep, CopyStep, OnDiskStep DEF IInv
<1>2. QED
  BY <1>1, IInvInit, BaseAlways, PTL DEF Spec

(* At every moment of a commit, a rollback or after a crash the file at a     *)
(* managed path carries the text its user wrote last, unless that text came   *)
(* between a check and the rename it guards (AtomicFileMutation::commit and   *)
(* rollback).                                                                 *)
THEOREM UserTextKept == Spec => []UserTextInPlace
BY IInvAlways, PTL DEF IInv

(* The bytes a plan replaces are on disk until the file is finished after     *)
(* success, whatever fails and wherever the process dies                      *)
(* (AtomicFileMutation, staged_path).                                         *)
THEOREM OriginalKept == Spec => []OriginalOnDisk
BY IInvAlways, PTL DEF IInv

-------------------------------------------------------------------------------
(* What is reported.                                                          *)

(* The actions that move the Runtime Home's path. *)
LEMMA HomeMoves ==
  ASSUME [Next]_vars
  PROVE  Publish \/ RollbackHome \/ Usurp \/ UNCHANGED home
  BY Zenon DEF Next, SetupStep, vars, storeVars, disk, Begin, Prepare, PrepareFails, ValidateInputs,
     Confirm, StoreWrite, Checkpoint, SkipFile, CheckFile, SwapFile, VerifyFile, FinishFile, Succeed,
     Fail, FinishFails, CleanupStaging, CheckOwnBytes, UnswapFile, SettleFile, RollbackFails,
     RollbackStore, Crash, Write, Abandon, Edit

(* A setup removes no home but the one it published: what something else put  *)
(* at the path stays there, in every rollback (rollback_if_owned).            *)
THEOREM OtherHomesKept == Spec => OtherHomesStay
<1>1. [Next]_vars => [home = "other" => home' = "other"]_home
  <2>1. ASSUME [Next]_vars, home = "other"
        PROVE  home' = "other" \/ UNCHANGED home
    BY <2>1, HomeMoves DEF Publish, RollbackHome, Usurp
  <2>2. QED
    BY <2>1
<1>2. QED
  BY <1>1, PTL DEF OtherHomesStay, Spec

(* What a running setup knows of the disk it will report on: what it counts   *)
(* as effects, whose home it is, and how far the Store is from the copy.      *)
ReportInv ==
  /\ pc # "idle" => disposition = "none"
  /\ pc \in Forward \cup {"prepare"} => ~incomplete
  /\ pc = "prepare" => backup = Missing /\ ~storeApplied /\ guard = "none"
  /\ pc \notin {"idle", "prepare"} => (fresh <=> backup = Missing)
  /\ pc # "idle" /\ fresh /\ guard = "none" => home # "ready"
  /\ pc = "finish" => home # "absent"
  /\ pc \in {"file", "swap", "verify", "finish"} => storeApplied
  /\ pc \in {"group", "wrote"} /\ at > RegistrationGroups => storeApplied
  /\ pc \in Backward => (hadEffects <=> guard # "none" \/ storeApplied)
  /\ pc \notin {"idle", "prepare"} /\ backup # Missing /\ ~storeApplied =>
       /\ store.setup \in backup.setup .. backup.setup + 1
       /\ pc \in {"validate", "publish", "confirm", "group"} => store.setup = backup.setup

(* Every planned file the commit has passed is committed, and none the        *)
(* rollback has passed, unless it failed.                                     *)
PassedInv ==
  /\ pc \in {"file", "swap"} => \A f \in planned : f < at => f \in committed
  /\ pc = "verify" => \A f \in planned : f <= at => f \in committed
  /\ pc \in {"group", "wrote"} /\ at > RegistrationGroups => planned \subseteq committed
  /\ pc = "finish" => planned \subseteq committed
  /\ pc \in {"rollback", "unswap", "settle"} /\ ~incomplete => \A f \in committed : f <= at
  /\ pc = "restore" /\ ~incomplete => committed = {}

(* Only planned files are committed, and a file that nobody wrote has the     *)
(* planned bytes if it is committed or needs no change.                       *)
FileInv ==
  /\ committed \subseteq planned
  /\ pc # "idle" => \A f \in Files \ edited :
       /\ f \notin planned => target[f] = desired[f] /\ original[f] = desired[f]
       /\ f \in committed /\ ~incomplete /\ ~(pc = "settle" /\ at = f) => target[f] = desired[f]

Unmanaged(bytes) == bytes = Missing \/ bytes.managed = FALSE

(* A host file has its managed part only while it is committed: before and    *)
(* after, not even an edit by its user puts it there.  And while one is       *)
(* committed the repository files are as planned.                             *)
HostInv ==
  ~incomplete => \A h \in planned : IsHost(h) =>
    /\ ~Unmanaged(desired[h])
    /\ h \notin committed \/ (pc = "settle" /\ at = h) => Unmanaged(target[h])
    /\ h \in committed /\ pc # "idle" /\ ~(pc = "settle" /\ at = h) => Unmanaged(entry[h])
    /\ h \in committed => \A f \in Files \ edited : ~IsHost(f) => target[f] = desired[f]

-----------------------------------------------------------------------------
(* The order of the commit and of the rollback *)

(* The commit leaves no planned file behind it, and the rollback no committed *)
(* one.                                                                       *)
LEMMA PassedStep ==
  ASSUME TypeOK, Located, PassedInv, [Next]_vars
  PROVE  PassedInv'
<1>0. /\ committed \subseteq Files /\ planned \subseteq Files /\ at \in Nat
      /\ \A f \in Files : f \in Nat /\ 1 <= f /\ f <= RepositoryFiles + HostFiles
  BY SMT, SetupAssumption DEF TypeOK, Files
<1>1. CASE pc' \in {"idle", "prepare", "validate", "publish", "confirm"}
  BY <1>1 DEF PassedInv
<1>2. CASE Confirm
  BY SMT, <1>2, SetupAssumption DEF Confirm, PassedInv
<1>3. CASE StoreWrite
  <2>1. pc = "group" /\ pc' = "wrote" /\ at' = at
    BY <1>3 DEF StoreWrite
  <2>2. UNCHANGED <<committed, planned>>
    BY <1>3, ForwardStill DEF copies
  <2>3. QED
    BY <2>1, <2>2 DEF PassedInv
<1>4. CASE Checkpoint
  <2>1. pc \in {"group", "wrote"} /\ UNCHANGED <<committed, planned>>
    BY <1>4, ForwardStill DEF Checkpoint, copies
  <2>2. CASE at = RegistrationGroups /\ pc' = "file" /\ at' = 1
    <3>1. \A f \in planned : ~(f < 1)
      BY SMT, <1>0
    <3>2. QED
      BY <2>1, <2>2, <3>1 DEF PassedInv
  <2>3. CASE at = StoreGroups /\ pc' = "finish"
    <3>1. at > RegistrationGroups
      BY <2>3, SetupAssumption
    <3>2. QED
      BY <2>1, <2>3, <3>1 DEF PassedInv
  <2>4. CASE at # RegistrationGroups /\ pc' = "group" /\ at' = at + 1
    <3>1. at' > RegistrationGroups => at > RegistrationGroups
      BY SMT, <1>0, <2>4, SetupAssumption
    <3>2. QED
      BY <2>1, <2>4, <3>1 DEF PassedInv
  <2>5. QED
    BY <1>4, <2>2, <2>3, <2>4 DEF Checkpoint
<1>5. CASE SkipFile \/ VerifyFile
  <2>1. at \in Files /\ NextFile /\ UNCHANGED <<committed, planned>>
    BY <1>5, ForwardStill DEF SkipFile, VerifyFile, Located, copies
  <2>2. \A f \in planned : f <= at => f \in committed
    BY SMT, <1>0, <1>5 DEF SkipFile, VerifyFile, PassedInv
  <2>3. CASE pc' = "file" /\ at' = at + 1
    <3>1. \A f \in planned : f < at + 1 => f <= at
      BY SMT, <1>0
    <3>2. QED
      BY <2>1, <2>2, <2>3, <3>1 DEF PassedInv
  <2>4. CASE at + 1 \notin Files /\ pc' = "group" /\ at' = RegistrationGroups + 1
    <3>1. \A f \in planned : f <= at
      BY SMT, <1>0, <2>1, <2>4, SetupAssumption DEF Files
    <3>2. QED
      BY <2>1, <2>2, <2>4, <3>1 DEF PassedInv
  <2>5. QED
    BY <2>1, <2>3, <2>4 DEF NextFile
<1>6. CASE CheckFile
  <2>1. pc = "file" /\ pc' = "swap" /\ at' = at /\ UNCHANGED <<committed, planned>>
    BY <1>6, ForwardStill DEF CheckFile, copies
  <2>2. QED
    BY <2>1 DEF PassedInv
<1>7. CASE SwapFile
  <2>1. \A f \in planned : f <= at => f < at \/ f = at
    BY SMT, <1>0
  <2>2. QED
    BY <1>7, <2>1, SwapEffect DEF PassedInv
<1>8. CASE FinishFile
  <2>1. pc = "finish" /\ pc' = "finish" /\ UNCHANGED <<committed, planned>>
    BY <1>8, RemovalEffect DEF FinishFile
  <2>2. QED
    BY <2>1 DEF PassedInv
<1>9. CASE Fail \/ FinishFails
  <2>1. pc' = "rollback" /\ at' = RepositoryFiles + HostFiles /\ UNCHANGED committed
    BY <1>9 DEF Fail, FinishFails, Abandon
  <2>2. QED
    BY <1>0, <2>1 DEF PassedInv
<1>10. CASE CleanupStaging \/ SettleFile
  <2>1. /\ pc \in {"rollback", "settle"} /\ at \in Files /\ Back
        /\ committed' = committed \ {at} /\ incomplete' = incomplete
    BY <1>10 DEF CleanupStaging, SettleFile, Located, reportVars
  <2>2. ~incomplete => \A f \in committed : f <= at
    BY <2>1 DEF PassedInv
  <2>3. ~incomplete => \A f \in committed' : f <= at - 1
    BY SMT, <1>0, <2>1, <2>2
  <2>4. \A f \in committed' : at <= 1 => ~(f <= at - 1)
    BY SMT, <1>0, <2>1
  <2>5. CASE at > 1 /\ pc' = "rollback" /\ at' = at - 1
    BY <2>1, <2>3, <2>5 DEF PassedInv
  <2>6. CASE at <= 1 /\ pc' = "restore"
    BY <2>1, <2>3, <2>4, <2>6 DEF PassedInv
  <2>7. QED
    BY SMT, <1>0, <2>1, <2>5, <2>6 DEF Back
<1>11. CASE CheckOwnBytes \/ UnswapFile
  <2>1. pc \in {"rollback", "unswap"} /\ pc' \in {"unswap", "settle"}
    BY <1>11 DEF CheckOwnBytes, UnswapFile
  <2>2. UNCHANGED <<at, committed, incomplete>>
    BY <1>11 DEF CheckOwnBytes, UnswapFile, fileVars, reportVars
  <2>3. QED
    BY <2>1, <2>2 DEF PassedInv
<1>12. CASE RollbackFails
  <2>1. pc' \in {"rollback", "restore"} /\ incomplete' = TRUE
    BY <1>12 DEF RollbackFails, Back
  <2>2. QED
    BY <2>1 DEF PassedInv
<1>13. CASE UNCHANGED <<pc, at, committed, planned, incomplete>>
  BY <1>13 DEF PassedInv
<1>14. ASSUME NEW f \in Files, NEW text \in Texts, Edit(f, text)
       PROVE  PassedInv'
  BY <1>13, <1>14, Zenon DEF Edit, planVars, reportVars
<1>15. CASE Write \/ Usurp \/ UNCHANGED vars
  BY <1>13, <1>15, Zenon DEF Write, Usurp, vars, fileVars, planVars, reportVars
<1>16. CASE \/ Begin \/ Prepare \/ PrepareFails \/ ValidateInputs \/ Publish \/ Succeed
            \/ RollbackHome \/ RollbackStore \/ Crash
  BY <1>1, <1>16 DEF Begin, Prepare, PrepareFails, ValidateInputs, Publish, Succeed, RollbackHome,
     RollbackStore, Report, Crash
<1>17. QED
  BY <1>2, <1>3, <1>4, <1>5, <1>6, <1>7, <1>8, <1>9, <1>10, <1>11, <1>12, <1>14, <1>15, <1>16
     DEF Next, SetupStep

-----------------------------------------------------------------------------
(* What the report will be about *)

(* The Store is one write ahead of its copy at most before the first checkpoint. *)
LEMMA SetupCounted ==
  ASSUME NEW s \in Stores
  PROVE  /\ s.setup \in Nat
         /\ s.setup \in s.setup .. s.setup + 1
         /\ [s EXCEPT !.setup = @ + 1].setup = s.setup + 1
         /\ [s EXCEPT !.writers = @ + 1].setup = s.setup
         /\ s.setup + 1 \in s.setup .. s.setup + 1
BY SMT DEF Stores

(* The steps of a setup that change neither the home, the Store nor what is   *)
(* counted, by where they lead.                                               *)
LEMMA QuietSteps ==
  ASSUME \/ ValidateInputs \/ Confirm \/ SkipFile \/ CheckFile \/ SwapFile \/ VerifyFile
         \/ FinishFile \/ CleanupStaging \/ CheckOwnBytes \/ UnswapFile \/ SettleFile
  PROVE  /\ UNCHANGED <<home, store, guard, storeApplied, backup, checkpoint>>
         /\ UNCHANGED <<hadEffects, incomplete, disposition, fresh>>
         /\ \/ pc \in {"validate", "confirm"} /\ pc' \in {"publish", "group"}
               /\ (pc' = "group" => at' = 1)
            \/ pc \in {"file", "swap", "verify"} /\ pc' \in {"file", "swap", "verify", "group"}
            \/ pc = "finish" /\ pc' = "finish"
            \/ pc \in Backward /\ pc' \in Backward
<1>1. CASE ValidateInputs \/ Confirm
  BY <1>1, Zenon DEF ValidateInputs, Confirm, storeVars, reportVars, planVars
<1>2. CASE SkipFile \/ CheckFile
  BY <1>2, Zenon DEF SkipFile, CheckFile, NextFile, storeVars, reportVars, planVars
<1>3. CASE SwapFile \/ VerifyFile
  BY <1>3, Zenon DEF SwapFile, VerifyFile, NextFile, storeVars, reportVars, planVars
<1>4. CASE FinishFile
  BY <1>4, Zenon DEF FinishFile, storeVars, reportVars, planVars
<1>5. CASE CleanupStaging \/ CheckOwnBytes
  BY <1>5, Zenon DEF CleanupStaging, CheckOwnBytes, Back, storeVars, reportVars, planVars, Backward
<1>6. CASE UnswapFile \/ SettleFile
  BY <1>6, Zenon DEF UnswapFile, SettleFile, Back, storeVars, reportVars, planVars, Backward
<1>7. QED
  BY <1>1, <1>2, <1>3, <1>4, <1>5, <1>6

(* Every step keeps the account true. *)
LEMMA ReportStep ==
  ASSUME TypeOK, OrderInv, ReportInv, [Next]_vars
  PROVE  ReportInv'
<1>0. /\ store \in Stores /\ store # Missing
      /\ backup # Missing => backup \in Stores
  BY StoreFacts DEF TypeOK
<1>1. CASE Begin
  BY <1>1, Zenon DEF Begin, disk, ReportInv, Forward, Backward
<1>2. CASE Prepare
  <2>1. pc = "prepare" /\ pc' = "validate" /\ backup' = (IF fresh THEN Missing ELSE store)
    BY <1>2 DEF Prepare
  <2>2. UNCHANGED <<home, store, guard, storeApplied, fresh, incomplete, disposition>>
    BY <1>2 DEF Prepare, planVars, reportVars
  <2>3. ~incomplete /\ guard = "none" /\ ~storeApplied /\ disposition = "none"
    BY <2>1 DEF ReportInv
  <2>4. store.setup \in store.setup .. store.setup + 1
    BY <1>0, SetupCounted
  <2>5. QED
    BY <1>0, <2>1, <2>2, <2>3, <2>4 DEF ReportInv, Backward
<1>3. CASE PrepareFails \/ Succeed \/ RollbackHome \/ RollbackStore \/ Crash
  <2>1. pc' = "idle"
    BY <1>3, EndStill, StopEffect
  <2>2. QED
    BY <2>1 DEF ReportInv, Forward, Backward
<1>4. CASE \/ ValidateInputs \/ Confirm \/ SkipFile \/ CheckFile \/ SwapFile \/ VerifyFile
           \/ FinishFile \/ CleanupStaging \/ CheckOwnBytes \/ UnswapFile \/ SettleFile
  <2>1. /\ UNCHANGED <<home, store, guard, storeApplied, backup, checkpoint>>
        /\ UNCHANGED <<hadEffects, incomplete, disposition, fresh>>
    BY <1>4, QuietSteps
  <2>2. CASE pc \in {"validate", "confirm"} /\ pc' \in {"publish", "group"} /\ (pc' = "group" => at' = 1)
    <3>1. pc' = "group" => ~(at' > RegistrationGroups)
      BY SMT, <2>2, SetupAssumption
    <3>2. QED
      BY <2>1, <2>2, <3>1 DEF ReportInv, Forward, Backward
  <2>3. CASE pc \in {"file", "swap", "verify"} /\ pc' \in {"file", "swap", "verify", "group"}
    BY <2>1, <2>3 DEF ReportInv, Forward, Backward
  <2>4. CASE pc = "finish" /\ pc' = "finish"
    BY <2>1, <2>4 DEF ReportInv, Forward, Backward
  <2>5. CASE pc \in Backward /\ pc' \in Backward
    BY <2>1, <2>5 DEF ReportInv, Forward, Backward
  <2>6. QED
    BY <1>4, <2>2, <2>3, <2>4, <2>5, QuietSteps
<1>5. CASE Publish
  <2>1. pc = "publish" /\ pc' = "confirm" /\ UNCHANGED <<fresh, storeApplied, backup, incomplete, disposition>>
    BY <1>5 DEF Publish, planVars, reportVars
  <2>2. IF fresh THEN guard' = "owned" ELSE UNCHANGED <<home, guard, store>>
    BY <1>5, Zenon DEF Publish
  <2>3. QED
    BY <2>1, <2>2 DEF ReportInv, Forward, Backward
<1>6. CASE StoreWrite
  <2>1. /\ pc = "group" /\ pc' = "wrote" /\ at' = at
        /\ store' = [store EXCEPT !.setup = @ + 1]
    BY <1>6 DEF StoreWrite
  <2>2. UNCHANGED <<home, guard, fresh, storeApplied, backup, incomplete, disposition>>
    BY <1>6 DEF StoreWrite, planVars, reportVars
  <2>3. backup # Missing /\ ~storeApplied => store'.setup \in backup.setup .. backup.setup + 1
    <3>1. backup # Missing /\ ~storeApplied => store.setup = backup.setup
      BY <2>1 DEF ReportInv
    <3>2. store'.setup = store.setup + 1 /\ store.setup + 1 \in store.setup .. store.setup + 1
      BY <1>0, <2>1, SetupCounted
    <3>3. QED
      BY <3>1, <3>2
  <2>4. QED
    BY <2>1, <2>2, <2>3 DEF ReportInv, Forward, Backward
<1>7. CASE Checkpoint
  <2>1. /\ pc \in {"group", "wrote"} /\ pc' \in {"file", "finish", "group"}
        /\ home = "ready" /\ storeApplied' = TRUE
    BY <1>7 DEF Checkpoint
  <2>2. UNCHANGED <<home, guard, fresh, backup, incomplete, disposition>>
    BY <1>7 DEF Checkpoint, planVars, reportVars
  <2>3. QED
    BY <2>1, <2>2 DEF ReportInv, Forward, Backward
<1>8. CASE Fail \/ FinishFails
  <2>1. /\ pc \in Forward /\ pc' = "rollback"
        /\ hadEffects' = HasCommittedEffects
        /\ guard' = guard \/ (guard # "none" /\ guard' # "none")
    BY <1>8, Zenon DEF Fail, FinishFails, Abandon, Forward
  <2>2. UNCHANGED <<home, store, fresh, storeApplied, backup, disposition>>
    BY <1>8, Zenon DEF Fail, FinishFails, Abandon, planVars
  <2>3. committed # {} => storeApplied
    <3>1. CASE pc \in {"validate", "publish", "confirm"}
      BY <3>1 DEF OrderInv
    <3>2. CASE pc \in {"group", "wrote"}
      BY SMT, <3>2, SetupAssumption DEF OrderInv, ReportInv, TypeOK
    <3>3. CASE pc \in {"file", "swap", "verify", "finish"}
      BY <3>3 DEF ReportInv
    <3>4. QED
      BY <2>1, <3>1, <3>2, <3>3 DEF Forward
  <2>4. hadEffects' <=> guard' # "none" \/ storeApplied'
    BY <2>1, <2>2, <2>3 DEF HasCommittedEffects
  <2>5. QED
    BY <2>1, <2>2, <2>4 DEF ReportInv, Forward, Backward
<1>9. CASE RollbackFails
  <2>1. pc \in Backward /\ pc' \in Backward
    BY <1>9 DEF RollbackFails, Back, Backward
  <2>2. UNCHANGED <<home, store, guard, fresh, storeApplied, backup, hadEffects, disposition>>
    BY <1>9 DEF RollbackFails, storeVars, planVars
  <2>3. QED
    BY <2>1, <2>2 DEF ReportInv, Forward, Backward
<1>10. CASE Write
  <2>1. store' = [store EXCEPT !.writers = @ + 1]
    BY <1>10 DEF Write
  <2>2. store'.setup = store.setup
    BY <1>0, <2>1, SetupCounted
  <2>3. /\ UNCHANGED <<pc, at, home, guard, fresh, storeApplied, backup>>
        /\ UNCHANGED <<hadEffects, incomplete, disposition>>
    BY <1>10 DEF Write, planVars, reportVars
  <2>4. QED
    BY <2>2, <2>3 DEF ReportInv
<1>11. CASE Usurp
  <2>1. home' = "other"
    BY <1>11 DEF Usurp
  <2>2. /\ UNCHANGED <<pc, at, store, guard, fresh, storeApplied, backup>>
        /\ UNCHANGED <<hadEffects, incomplete, disposition>>
    BY <1>11 DEF Usurp, planVars, reportVars
  <2>3. QED
    BY <2>1, <2>2 DEF ReportInv
<1>12. CASE \/ UNCHANGED vars
            \/ \E f \in Files, text \in Texts : Edit(f, text)
  <2>1. /\ UNCHANGED <<pc, at, home, store, guard, fresh, storeApplied, backup>>
        /\ UNCHANGED <<hadEffects, incomplete, disposition>>
    BY <1>12, Zenon DEF vars, Edit, planVars, reportVars
  <2>2. QED
    BY <2>1 DEF ReportInv
<1>13. QED
  BY <1>1, <1>2, <1>3, <1>4, <1>5, <1>6, <1>7, <1>8, <1>9, <1>10, <1>11, <1>12 DEF Next, SetupStep

-----------------------------------------------------------------------------
(* The planned bytes *)

(* A step that leaves the files and the outcome alone, outside the moment     *)
(* between a restoring rename and the end of its file.                        *)
LEMMA CopiesStill ==
  ASSUME \/ ValidateInputs \/ Publish \/ Confirm \/ StoreWrite \/ Checkpoint \/ SkipFile
         \/ CheckFile \/ VerifyFile \/ PrepareFails \/ Succeed \/ Fail \/ CheckOwnBytes
  PROVE  /\ UNCHANGED copies /\ incomplete' = incomplete
         /\ pc \notin {"idle", "settle"} /\ pc' # "settle"
<1>1. CASE \/ ValidateInputs \/ Publish \/ Confirm \/ StoreWrite
           \/ Checkpoint \/ SkipFile \/ CheckFile \/ VerifyFile
  <2>1. pc \in Forward /\ pc' \in Forward /\ UNCHANGED copies
    BY <1>1, ForwardStill
  <2>2. incomplete' = incomplete
    BY <1>1, Zenon DEF ValidateInputs, Publish, Confirm, StoreWrite, Checkpoint, SkipFile, CheckFile,
       VerifyFile, reportVars
  <2>3. QED
    BY <2>1, <2>2 DEF Forward
<1>2. CASE PrepareFails \/ Succeed
  BY <1>2, EndStill DEF PrepareFails, Succeed
<1>3. CASE Fail
  BY <1>3, FailEffect DEF Fail, Abandon, Forward
<1>4. CASE CheckOwnBytes
  BY <1>4 DEF CheckOwnBytes, fileVars, planVars, reportVars, history, copies
<1>5. QED
  BY <1>1, <1>2, <1>3, <1>4

(* Committed files have the planned bytes, and so have the ones not planned. *)
LEMMA FileStep ==
  ASSUME TypeOK, Located, OrderInv, FileInv, [Next]_vars
  PROVE  FileInv'
<1>0. committed \subseteq Files /\ planned \subseteq Files
  BY DEF TypeOK
<1>1. CASE Begin
  <2>1. /\ original' = target /\ target' = target /\ committed' = {}
        /\ \A f \in Files : desired'[f] = Desired(f, target[f])
        /\ \A f \in Files : f \notin planned' => target[f] = Desired(f, target[f])
    BY <1>1 DEF Begin, disk
  <2>2. QED
    BY <2>1 DEF FileInv
<1>2. CASE Prepare
  <2>1. /\ pc = "prepare" /\ pc' = "validate"
        /\ UNCHANGED <<target, committed, planned, original, desired, edited, incomplete>>
    BY <1>2 DEF Prepare, planVars, reportVars, history
  <2>2. QED
    BY <2>1 DEF FileInv
<1>3. CASE \/ ValidateInputs \/ Publish \/ Confirm \/ StoreWrite \/ Checkpoint \/ SkipFile
           \/ CheckFile \/ VerifyFile \/ PrepareFails \/ Succeed \/ Fail \/ CheckOwnBytes
  <2>1. /\ UNCHANGED <<target, committed, planned, original, desired, edited, incomplete>>
        /\ pc \notin {"idle", "settle"} /\ pc' # "settle"
    BY <1>3, CopiesStill DEF copies
  <2>2. QED
    BY <2>1 DEF FileInv
<1>4. CASE SwapFile
  <2>1. at \in planned /\ incomplete' = incomplete
    BY <1>4 DEF SwapFile, OrderInv, reportVars
  <2>2. QED
    BY <1>4, <2>1, SwapEffect DEF FileInv
<1>5. CASE FinishFile \/ FinishFails \/ CleanupStaging
  <2>1. pc \in {"finish", "rollback"} /\ pc' # "settle" /\ incomplete' = incomplete
    BY <1>5 DEF FinishFile, FinishFails, CleanupStaging, Abandon, Back, reportVars
  <2>2. QED
    BY <1>5, <2>1, RemovalEffect DEF FileInv
<1>6. CASE UnswapFile
  <2>1. at \in planned /\ incomplete' = incomplete
    BY <1>6 DEF UnswapFile, OrderInv, FileInv, reportVars
  <2>2. QED
    BY <1>6, <2>1, UnswapEffect DEF FileInv
<1>7. CASE SettleFile
  <2>1. pc = "settle" /\ pc' # "settle" /\ incomplete' = incomplete
    BY <1>7, Zenon DEF SettleFile, Back, reportVars
  <2>2. committed' = committed \ {at} /\ UNCHANGED <<target, planned, original, desired, edited>>
    BY <1>7, SettleEffect
  <2>3. QED
    BY <2>1, <2>2 DEF FileInv
<1>8. CASE RollbackFails
  <2>1. /\ UNCHANGED <<target, committed, planned, original, desired, edited>>
        /\ pc # "idle" /\ incomplete' = TRUE
    BY <1>8, Zenon DEF RollbackFails, fileVars, planVars, history
  <2>2. QED
    BY <2>1 DEF FileInv
<1>9. CASE RollbackHome \/ RollbackStore \/ Crash
  BY <1>9, StopEffect DEF FileInv
<1>10. ASSUME NEW f \in Files, NEW text \in Texts, Edit(f, text)
       PROVE  FileInv'
  <2>1. incomplete' = incomplete
    BY <1>10 DEF Edit, reportVars
  <2>2. /\ edited' = edited \cup {f}
        /\ \A g \in Files \ {f} : target'[g] = target[g]
        /\ UNCHANGED <<pc, at, committed, planned, original, desired>>
    BY <1>10, EditEffect
  <2>3. \A g \in Files \ edited' : g \in Files \ edited /\ target'[g] = target[g]
    BY <2>2
  <2>4. QED
    BY <2>1, <2>2, <2>3 DEF FileInv
<1>11. CASE Write \/ Usurp \/ UNCHANGED vars
  <2>1. incomplete' = incomplete
    BY <1>11 DEF Write, Usurp, vars, reportVars
  <2>2. QED
    BY <1>11, <2>1, OthersStill, Zenon DEF copies, FileInv
<1>12. QED
  BY <1>1, <1>2, <1>3, <1>4, <1>5, <1>6, <1>7, <1>8, <1>9, <1>10, <1>11 DEF Next, SetupStep

-----------------------------------------------------------------------------
(* Host configuration follows the repository *)

(* A host file that needs a change has no managed part yet, and is to have one. *)
LEMMA PlannedHost ==
  ASSUME NEW h \in Files, IsHost(h), NEW b \in Bytes, b # Desired(h, b)
  PROVE  ~Unmanaged(Desired(h, b)) /\ Unmanaged(b)
<1>1. h \notin Retired
  BY SMT, SetupAssumption DEF IsHost, Files
<1>2. Desired(h, b) = [user |-> UserText(b), managed |-> TRUE]
  BY <1>1 DEF Desired
<1>3. UserText(b) \in Texts \cup {NoText}
  BY BytesFacts
<1>4. \A text \in Texts \cup {NoText}, m \in BOOLEAN : [user |-> text, managed |-> m] # Missing
  BY SMT, SetupAssumption
<1>5. ASSUME b # Missing, b.managed # FALSE
      PROVE  FALSE
  <2>1. b \in [user : Texts \cup {NoText}, managed : BOOLEAN] /\ b.managed = TRUE
    BY <1>5 DEF Bytes
  <2>2. b = [user |-> b.user, managed |-> TRUE]
    BY SMT, <2>1
  <2>3. QED
    BY <1>2, <1>5, <2>2 DEF UserText
<1>6. Desired(h, b) # Missing
  BY <1>2, <1>3, <1>4
<1>7. ~Unmanaged(Desired(h, b))
  BY SMT, <1>2, <1>6 DEF Unmanaged
<1>8. QED
  BY <1>5, <1>7 DEF Unmanaged

(* The user's write adds no managed part. *)
LEMMA EditUnmanaged ==
  ASSUME TypeOK, NEW f \in Files, NEW text \in Texts, Edit(f, text), Unmanaged(target[f])
  PROVE  Unmanaged(target'[f])
<1>1. PICK m \in {FALSE, target[f] # Missing /\ target[f].managed} :
        target' = [target EXCEPT ![f] = [user |-> text, managed |-> m]]
  BY Zenon DEF Edit
<1>2. m = FALSE
  BY <1>1 DEF Unmanaged
<1>3. target'[f] = [user |-> text, managed |-> m]
  BY <1>1 DEF TypeOK
<1>4. target'[f] = [user |-> text, managed |-> FALSE]
  BY <1>2, <1>3
<1>5. QED
  BY SMT, <1>4 DEF Unmanaged

(* Every step keeps the managed part of host files behind the commit. *)
LEMMA HostStep ==
  ASSUME TypeOK, Located, OrderInv, PassedInv, FileInv, HostInv, [Next]_vars
  PROVE  HostInv'
<1>0. /\ committed \subseteq Files /\ planned \subseteq Files
      /\ \A f, h \in Files : IsHost(h) /\ h <= f => IsHost(f)
      /\ \A f, h \in Files : IsHost(h) /\ ~IsHost(f) => f < h /\ f # h
  BY SMT, SetupAssumption DEF TypeOK, Files, IsHost
<1>1. CASE Begin
  <2>1. /\ pc' = "prepare" /\ target' = target /\ committed' = {}
        /\ \A f \in Files : desired'[f] = Desired(f, target[f])
        /\ \A f \in planned' : f \in Files /\ target[f] # Desired(f, target[f])
    BY <1>1 DEF Begin, disk
  <2>2. \A h \in planned' : IsHost(h) => ~Unmanaged(desired'[h]) /\ Unmanaged(target[h])
    BY <2>1, PlannedHost DEF TypeOK
  <2>3. QED
    BY <2>1, <2>2 DEF HostInv
<1>2. CASE Prepare
  <2>1. /\ pc = "prepare" /\ pc' = "validate"
        /\ UNCHANGED <<target, committed, planned, desired, edited, incomplete>>
    BY <1>2 DEF Prepare, planVars, reportVars, history
  <2>2. QED
    BY <2>1 DEF HostInv, OrderInv
<1>3. CASE \/ ValidateInputs \/ Publish \/ Confirm \/ StoreWrite \/ Checkpoint \/ SkipFile
           \/ CheckFile \/ VerifyFile \/ PrepareFails \/ Succeed \/ Fail \/ CheckOwnBytes
  <2>1. /\ UNCHANGED <<target, entry, committed, planned, desired, edited, incomplete>>
        /\ pc \notin {"idle", "settle"} /\ pc' # "settle"
    BY <1>3, CopiesStill DEF copies
  <2>2. QED
    BY <2>1 DEF HostInv
<1>4. CASE SwapFile
  <2>1. /\ pc = "swap" /\ pc' = "verify" /\ at \in Files /\ at \in planned /\ at \notin committed
        /\ \A f \in committed : f <= at
    BY SMT, <1>4, SwapEffect DEF OrderInv, Files
  <2>2. incomplete' = incomplete
    BY <1>4 DEF SwapFile, reportVars
  <2>3. /\ entry'[at] = target[at]
        /\ \A f \in Files \ {at} : target'[f] = target[f] /\ entry'[f] = entry[f]
        /\ committed' = committed \cup {at} /\ UNCHANGED <<planned, desired, edited>>
    BY <1>4, SwapEffect
  <2>4. ASSUME ~incomplete, IsHost(at), NEW f \in Files \ edited, ~IsHost(f)
        PROVE  target[f] = desired[f]
    <3>1. f \in planned => f \in committed
      BY <1>0, <2>1, <2>4 DEF PassedInv
    <3>2. QED
      BY <2>1, <2>4, <3>1 DEF FileInv
  <2>5. ASSUME ~incomplete, NEW h \in committed', IsHost(h), h \in planned,
               NEW f \in Files \ edited, ~IsHost(f)
        PROVE  target'[f] = desired'[f]
    <3>1. h = at \/ h \in committed
      BY <2>3
    <3>2. IsHost(at) /\ f # at
      BY <1>0, <2>1, <2>5, <3>1
    <3>3. QED
      BY <2>3, <2>4, <2>5, <3>2
  <2>6. ASSUME ~incomplete, NEW h \in planned, IsHost(h)
        PROVE  /\ ~Unmanaged(desired'[h])
               /\ h \notin committed' => Unmanaged(target'[h])
               /\ h \in committed' => Unmanaged(entry'[h])
    BY <1>0, <2>1, <2>3, <2>6 DEF HostInv
  <2>7. QED
    BY <2>1, <2>2, <2>3, <2>5, <2>6 DEF HostInv
<1>5. CASE FinishFile \/ FinishFails \/ CleanupStaging
  <2>1. pc \in {"finish", "rollback"} /\ pc' \notin {"idle", "settle"} /\ incomplete' = incomplete
    BY <1>5 DEF FinishFile, FinishFails, CleanupStaging, Abandon, Back, reportVars
  <2>2. \A f \in Files : entry'[f] = entry[f] \/ entry'[f] = Missing
    BY <1>5 DEF TypeOK, FinishFile, FinishFails, CleanupStaging
  <2>3. UNCHANGED <<target, committed, planned, desired, edited>>
    BY <1>5, RemovalEffect
  <2>4. \A f \in Files : Unmanaged(entry[f]) => Unmanaged(entry'[f])
    BY <2>2 DEF Unmanaged
  <2>5. QED
    BY <1>0, <2>1, <2>3, <2>4 DEF HostInv
<1>6. CASE UnswapFile
  <2>1. /\ pc = "unswap" /\ pc' = "settle" /\ at' = at /\ at \in Files /\ at \in committed
        /\ target'[at] = entry[at]
        /\ \A f \in Files \ {at} : target'[f] = target[f] /\ entry'[f] = entry[f]
        /\ UNCHANGED <<committed, planned, desired, edited>>
    BY <1>6, UnswapEffect DEF OrderInv
  <2>2. incomplete' = incomplete
    BY <1>6 DEF UnswapFile, reportVars
  <2>3. ASSUME ~incomplete, NEW h \in committed, IsHost(h), h \in planned,
               NEW f \in Files \ edited, ~IsHost(f)
        PROVE  target'[f] = desired'[f]
    <3>1. h <= at
      BY <2>1, <2>3 DEF PassedInv
    <3>2. f # at
      BY <1>0, <2>1, <2>3, <3>1
    <3>3. QED
      BY <2>1, <2>3, <3>2 DEF HostInv
  <2>4. ASSUME ~incomplete, NEW h \in planned, IsHost(h)
        PROVE  /\ ~Unmanaged(desired'[h])
               /\ h \notin committed' \/ at' = h => Unmanaged(target'[h])
               /\ h \in committed' /\ at' # h => Unmanaged(entry'[h])
    BY <1>0, <2>1, <2>4 DEF HostInv
  <2>5. QED
    BY <2>1, <2>2, <2>3, <2>4 DEF HostInv
<1>7. CASE SettleFile
  <2>1. pc = "settle" /\ pc' \notin {"idle", "settle"} /\ incomplete' = incomplete
    BY <1>7, Zenon DEF SettleFile, Back, reportVars
  <2>2. /\ \A f \in Files \ {at} : entry'[f] = entry[f]
        /\ committed' = committed \ {at}
        /\ UNCHANGED <<target, planned, desired, edited>>
    BY <1>7, SettleEffect
  <2>3. ASSUME ~incomplete, NEW h \in planned, IsHost(h)
        PROVE  /\ ~Unmanaged(desired'[h])
               /\ h \notin committed' => Unmanaged(target'[h])
               /\ h \in committed' => Unmanaged(entry'[h])
    BY <1>0, <2>1, <2>2, <2>3 DEF HostInv
  <2>4. QED
    BY <2>1, <2>2, <2>3 DEF HostInv
<1>8. CASE RollbackFails
  BY <1>8 DEF RollbackFails, HostInv
<1>9. CASE RollbackHome \/ RollbackStore \/ Crash
  <2>1. ~incomplete' => ~incomplete
    BY <1>9, Zenon DEF RollbackHome, RollbackStore, Crash, reportVars, TypeOK
  <2>2. pc' = "idle" /\ UNCHANGED <<target, committed, planned, desired, edited>>
    BY <1>9, StopEffect
  <2>3. QED
    BY <2>1, <2>2 DEF HostInv
<1>10. ASSUME NEW f \in Files, NEW text \in Texts, Edit(f, text)
       PROVE  HostInv'
  <2>1. incomplete' = incomplete
    BY <1>10 DEF Edit, reportVars
  <2>2. /\ edited' = edited \cup {f}
        /\ \A g \in Files \ {f} : target'[g] = target[g]
        /\ UNCHANGED <<pc, at, entry, committed, planned, desired>>
    BY <1>10, EditEffect
  <2>3. \A g \in Files : Unmanaged(target[g]) => Unmanaged(target'[g])
    BY <1>10, <2>2, EditUnmanaged
  <2>4. \A g \in Files \ edited' : g \in Files \ edited /\ target'[g] = target[g]
    BY <2>2
  <2>5. QED
    BY <1>0, <2>1, <2>2, <2>3, <2>4 DEF HostInv
<1>11. CASE Write \/ Usurp \/ UNCHANGED vars
  <2>1. incomplete' = incomplete
    BY <1>11 DEF Write, Usurp, vars, reportVars
  <2>2. QED
    BY <1>11, <2>1, OthersStill, Zenon DEF copies, HostInv
<1>12. QED
  BY <1>1, <1>2, <1>3, <1>4, <1>5, <1>6, <1>7, <1>8, <1>9, <1>10, <1>11 DEF Next, SetupStep

-----------------------------------------------------------------------------
(* The report *)

(* Once no file is committed any more, every file nobody wrote is as it was. *)
LEMMA AllOriginal ==
  ASSUME TypeOK, CopyInv, FileInv, pc # "idle", committed = {}
  PROVE  \A f \in Files \ edited : target[f] = original[f]
BY DEF CopyInv, FileInv

(* A rollback that restored the home or the Store says so, and only then. *)
LEMMA ReportedEnd ==
  ASSUME TypeOK, CopyInv, FileInv, PassedInv, ReportInv, StoreInv, RollbackHome \/ RollbackStore
  PROVE  DispositionHonest'
<1>1. /\ pc = "restore" /\ Report
      /\ UNCHANGED <<target, original, desired, edited, fresh, backup>>
  BY DEF RollbackHome, RollbackStore, Report, planVars, history
<1>2. disposition' = IF incomplete' THEN "partially_rolled_back"
                     ELSE IF hadEffects THEN "rolled_back" ELSE "preserved"
  BY <1>1 DEF Report
<1>3. CASE incomplete'
  BY <1>2, <1>3, Zenon DEF DispositionHonest
<1>4. CASE ~incomplete'
  <2>1. ~incomplete
    BY <1>4, Zenon DEF RollbackHome, RollbackStore, TypeOK
  <2>2. \A f \in Files \ edited' : target'[f] = original'[f]
    BY <1>1, <2>1, AllOriginal DEF PassedInv
  <2>3. disposition' = (IF hadEffects THEN "rolled_back" ELSE "preserved")
    BY <1>2, <1>4, Zenon
  <2>4. /\ fresh <=> backup = Missing
        /\ fresh /\ guard = "none" => home # "ready"
        /\ hadEffects <=> guard # "none" \/ storeApplied
        /\ backup # Missing /\ ~storeApplied => store.setup \in backup.setup .. backup.setup + 1
    BY <1>1 DEF ReportInv, Backward
  <2>5. CASE RollbackHome
    <3>1. home' = "absent" /\ guard # "none"
      BY <1>4, <2>5 DEF RollbackHome
    <3>2. fresh /\ backup = Missing
      BY <2>4, <3>1 DEF StoreInv
    <3>3. QED
      BY <1>1, <2>2, <2>3, <3>1, <3>2 DEF DispositionHonest
  <2>6. CASE RollbackStore
    <3>1. home' = home /\ guard = "none"
      BY <2>6 DEF RollbackStore
    <3>2. (storeApplied /\ store' = backup) \/ (~storeApplied /\ store' = store)
      BY <1>4, <2>6 DEF RollbackStore
    <3>3. fresh' => home' # "ready"
      BY <1>1, <2>4, <3>1
    <3>4. hadEffects => store' = backup
      BY <2>4, <3>1, <3>2
    <3>5. ~hadEffects /\ backup # Missing => store'.setup \in backup.setup .. backup.setup + 1
      BY <2>4, <3>1, <3>2
    <3>6. QED
      BY <1>1, <2>2, <2>3, <3>3, <3>4, <3>5 DEF DispositionHonest
  <2>7. QED
    BY <2>5, <2>6
<1>5. QED
  BY <1>3, <1>4

(* Every step keeps the last report true. *)
LEMMA HonestStep ==
  ASSUME TypeOK, CopyInv, OrderInv, FileInv, PassedInv, ReportInv, StoreInv, DispositionHonest,
         [Next]_vars
  PROVE  DispositionHonest'
<1>1. CASE disposition' = "none"
  BY <1>1 DEF DispositionHonest
<1>2. CASE PrepareFails
  <2>1. /\ pc = "prepare" /\ disposition' = "preserved"
        /\ UNCHANGED <<home, target, original, edited, fresh, backup>>
    BY <1>2 DEF PrepareFails, fileVars, storeVars, planVars, history
  <2>2. committed = {} /\ backup = Missing /\ (fresh => home # "ready")
    BY <2>1 DEF OrderInv, ReportInv
  <2>3. \A f \in Files \ edited : target[f] = original[f]
    BY <2>1, <2>2, AllOriginal
  <2>4. QED
    BY <2>1, <2>2, <2>3 DEF DispositionHonest
<1>3. CASE Succeed
  <2>1. /\ pc = "finish" /\ disposition' = "committed"
        /\ UNCHANGED <<home, target, desired, edited>>
    BY <1>3 DEF Succeed, fileVars, storeVars, planVars, history
  <2>2. home # "absent" /\ planned \subseteq committed /\ ~incomplete
    BY <2>1 DEF PassedInv, ReportInv, Forward
  <2>3. \A f \in Files \ edited : target[f] = desired[f]
    BY <2>1, <2>2 DEF FileInv
  <2>4. QED
    BY <2>1, <2>2, <2>3 DEF DispositionHonest
<1>4. CASE RollbackHome \/ RollbackStore
  BY <1>4, ReportedEnd
<1>5. CASE pc # "idle" /\ UNCHANGED disposition
  BY <1>1, <1>5 DEF ReportInv
<1>6. CASE Begin
  BY <1>1, <1>6 DEF Begin
<1>7. CASE Write
  <2>1. store' = [store EXCEPT !.writers = @ + 1]
    BY <1>7 DEF Write
  <2>2. store'.setup = store.setup
    BY <2>1, SetupCounted DEF TypeOK
  <2>3. UNCHANGED <<home, target, original, desired, edited, fresh, backup, disposition>>
    BY <1>7 DEF Write, fileVars, planVars, reportVars, history
  <2>4. QED
    BY <2>2, <2>3 DEF DispositionHonest
<1>8. ASSUME NEW f \in Files, NEW text \in Texts, Edit(f, text)
      PROVE  DispositionHonest'
  <2>1. UNCHANGED <<home, store, fresh, backup, disposition>>
    BY <1>8 DEF Edit, planVars, reportVars
  <2>2. /\ edited' = edited \cup {f}
        /\ \A g \in Files \ {f} : target'[g] = target[g]
        /\ UNCHANGED <<original, desired>>
    BY <1>8, EditEffect
  <2>3. \A g \in Files \ edited' : g \in Files \ edited /\ target'[g] = target[g]
    BY <2>2
  <2>4. QED
    BY <2>1, <2>2, <2>3 DEF DispositionHonest
<1>9. CASE UNCHANGED vars
  BY <1>9, Zenon DEF vars, DispositionHonest
<1>10. CASE \/ Prepare \/ ValidateInputs \/ Publish \/ Confirm \/ StoreWrite \/ Checkpoint
            \/ SkipFile \/ CheckFile \/ SwapFile \/ VerifyFile \/ FinishFile \/ Fail \/ FinishFails
            \/ CleanupStaging \/ CheckOwnBytes \/ UnswapFile \/ SettleFile \/ RollbackFails
            \/ Crash \/ Usurp
  <2>1. pc # "idle"
    BY <1>10, Zenon DEF Prepare, ValidateInputs, Publish, Confirm, StoreWrite, Checkpoint, SkipFile,
       CheckFile, SwapFile, VerifyFile, FinishFile, Fail, FinishFails, CleanupStaging, CheckOwnBytes,
       UnswapFile, SettleFile, RollbackFails, Crash, Usurp, Forward
  <2>2. UNCHANGED disposition
    BY <1>10, Zenon DEF Prepare, ValidateInputs, Publish, Confirm, StoreWrite, Checkpoint, SkipFile,
       CheckFile, SwapFile, VerifyFile, FinishFile, Fail, FinishFails, Abandon, CleanupStaging,
       CheckOwnBytes, UnswapFile, SettleFile, RollbackFails, Crash, Usurp, reportVars
  <2>3. QED
    BY <1>5, <2>1, <2>2
<1>11. QED
  BY <1>2, <1>3, <1>4, <1>6, <1>7, <1>8, <1>9, <1>10 DEF Next, SetupStep

RInv == ReportInv /\ PassedInv /\ FileInv /\ HostInv /\ DispositionHonest

(* Before the first setup nothing is planned, committed or reported. *)
LEMMA RInvInit ==
  ASSUME Init
  PROVE  RInv
<1>1. pc = "idle" /\ planned = {} /\ committed = {} /\ disposition = "none"
  BY DEF Init
<1>2. ReportInv /\ PassedInv
  BY <1>1 DEF ReportInv, PassedInv, Forward, Backward
<1>3. FileInv /\ HostInv /\ DispositionHonest
  BY <1>1 DEF FileInv, HostInv, DispositionHonest
<1>4. QED
  BY <1>2, <1>3 DEF RInv

(* And every step keeps it so. *)
LEMMA RInvAlways == Spec => []RInv
<1>1. RInv /\ IInv /\ TypeOK /\ Located /\ StoreInv /\ [Next]_vars => RInv'
  BY ReportStep, PassedStep, FileStep, HostStep, HonestStep DEF RInv, IInv
<1>2. QED
  BY <1>1, RInvInit, IInvAlways, BaseAlways, PTL DEF Spec

(* What a setup reports of its outcome is true of the home, the Store and the *)
(* files it leaves, whichever step failed and whoever wrote meanwhile (setup  *)
(* disposition, apply_init_provisioning).                                     *)
THEOREM ReportsAreHonest == Spec => []DispositionHonest
BY RInvAlways, PTL DEF RInv

(* Host configuration is committed last and rolled back first: it has the     *)
(* planned bytes only while every repository file has its own, also after a   *)
(* crash (commit order, rollback_files).                                      *)
THEOREM HostComesLast == Spec => []HostFollowsRepository
<1>1. ASSUME TypeOK, HostInv
      PROVE  HostFollowsRepository
  <2>1. SUFFICES ASSUME NEW h \in planned, NEW f \in Files \ edited, IsHost(h), ~IsHost(f),
                        target[h] = desired[h], ~incomplete
                 PROVE  target[f] = desired[f]
    BY DEF HostFollowsRepository
  <2>2. h \in committed
    BY <1>1, <2>1 DEF HostInv
  <2>3. QED
    BY <1>1, <2>1, <2>2 DEF HostInv
<1>2. QED
  BY <1>1, RInvAlways, BaseAlways, PTL DEF RInv

=============================================================================
