-------------------------- MODULE Recovery_proofs --------------------------
(* For any sources, files, configurations and faults: sources share an ID   *)
(* only after one lost its own (IDsDistinct), a process changes the         *)
(* destination and the cache only while .Failure exists (ChangesAreMarked), *)
(* a cached hash that equals the source's is in the destination             *)
(* (CacheTruthfulUnlessLost), and what was scanned by a run that ends with  *)
(* .Success is there, too (SuccessIsCopied).                                *)
(*                                                                          *)
(* The invariant grows in layers: Control (types, IDs, markers and how far  *)
(* a process is), VersionsInv and OwnersInv (whose versions the destination *)
(* and the cache hold), and Truth (what the cache says of the destination). *)
EXTENDS Recovery, MetaDataCache_proofs, FiniteSetTheorems, TLAPS

-----------------------------------------------------------------------------
(* IDs.  An index that lost nothing numbers its sources: the IDs are        *)
(* different and at most as large as their number, so the number of sources *)
(* plus one is free.  The backup may come back, so it must be one, too.     *)
Numbered(f) ==
  /\ DOMAIN f \subseteq Source
  /\ \A s \in DOMAIN f : f[s] \in 1 .. Cardinality(DOMAIN f)
  /\ \A s, t \in DOMAIN f : f[s] = f[t] => s = t

IDInv ==
  ~indexLost =>
    /\ Numbered(Index)
    /\ backup # Missing => backup.index = Missing \/ Numbered(backup.index)

LEMMA EmptyNumbered == Numbered(EmptyCache)
  BY DEF Numbered, EmptyCache

(* A new source's ID is another than those in use. *)
LEMMA IndexWithNumbered ==
  ASSUME Numbered(Index), NEW s \in Source, s \notin DOMAIN Index
  PROVE  Numbered(IndexWith(s))
  <1> DEFINE known == DOMAIN Index
  <1>1. IsFiniteSet(known)
    BY RecoveryAssumption, FS_Subset DEF Numbered
  <1>2. /\ Cardinality(known) \in Nat
        /\ Cardinality(known \cup {s}) = Cardinality(known) + 1
    BY <1>1, FS_CardinalityType, FS_AddElement
  <1>3. /\ DOMAIN IndexWith(s) = known \cup {s}
        /\ IndexWith(s)[s] = Cardinality(known) + 1
        /\ \A t \in known : IndexWith(s)[t] = Index[t]
    BY DEF IndexWith
  <1>4. \A t \in known : Index[t] \in 1 .. Cardinality(known)
    BY DEF Numbered
  <1>5. \A t \in DOMAIN IndexWith(s) : IndexWith(s)[t] \in 1 .. Cardinality(known) + 1
    BY <1>2, <1>3, <1>4
  <1>6. \A t, u \in DOMAIN IndexWith(s) : IndexWith(s)[t] = IndexWith(s)[u] => t = u
    BY <1>2, <1>3, <1>4 DEF Numbered
  <1> QED BY <1>2, <1>3, <1>5, <1>6 DEF Numbered

(* A cut that keeps the known sources leaves the old IDs, or all of them. *)
LEMMA TornNumbered ==
  ASSUME Numbered(Index), NEW s \in Source, s \notin DOMAIN Index,
         NEW S \in SUBSET DOMAIN IndexWith(s), DOMAIN Index \subseteq S
  PROVE  Numbered(Part(IndexWith(s), S))
  <1> DEFINE f == Part(IndexWith(s), S)
  <1>1. DOMAIN f = S /\ \A t \in S : f[t] = IndexWith(s)[t]
    BY DEF Part
  <1>2. DOMAIN IndexWith(s) = DOMAIN Index \cup {s} /\ \A t \in DOMAIN Index : IndexWith(s)[t] = Index[t]
    BY DEF IndexWith
  <1>3. CASE s \in S
    <2>1. S = DOMAIN IndexWith(s)
      BY <1>2, <1>3
    <2> QED BY <1>1, <2>1, IndexWithNumbered DEF Numbered
  <1>4. CASE s \notin S
    <2>1. S = DOMAIN Index
      BY <1>2, <1>4
    <2> QED BY <1>1, <1>2, <2>1 DEF Numbered
  <1> QED BY <1>3, <1>4

(* A process that ends has kept the IDs, or the loss is noted. *)
LEMMA EndKeepsIDs ==
  ASSUME IDInv, index' \in IndexLeft, NoteLoss, backup' = backup
  PROVE  IDInv'
  <1> SUFFICES ASSUME ~indexLost' PROVE Numbered(Index)'
    BY DEF IDInv, NoteLoss
  <1>1. Numbered(Index)
    BY DEF IDInv, NoteLoss
  <1>2. CASE index' = index
    BY <1>1, <1>2 DEF Index, Numbered
  <1>3. CASE index' # index
    <2>1. PICK s \in Source : s \notin DOMAIN Index /\ index' \in TornIndex(IndexWith(s))
      BY <1>3 DEF IndexLeft
    <2>2. PICK S \in SUBSET DOMAIN IndexWith(s) : index' = Part(IndexWith(s), S)
      BY <2>1 DEF TornIndex
    <2>3. DOMAIN Index \subseteq S
      <3>1. CASE index = Missing
        BY <3>1 DEF Index, EmptyCache
      <3>2. CASE index # Missing
        BY <2>2, <3>2 DEF NoteLoss, Index, Part
      <3> QED BY <3>1, <3>2
    <2>4. Numbered(index')
      BY <1>1, <2>1, <2>2, <2>3, TornNumbered
    <2> QED BY <2>4, EmptyNumbered DEF Index, Numbered
  <1> QED BY <1>2, <1>3

(* So has one that starts, whatever it restores. *)
LEMMA StartKeepsIDs ==
  ASSUME IDInv, NEW c \in Configs, Start(c)
  PROVE  IDInv'
  <1> SUFFICES ASSUME ~indexLost' PROVE Numbered(Index)'
    BY DEF IDInv, NoteLoss, Start
  <1>1. Numbered(Index) /\ (backup # Missing => backup.index = Missing \/ Numbered(backup.index))
    BY DEF IDInv, NoteLoss, Start
  <1>2. CASE index' = index
    BY <1>1, <1>2 DEF Index, Numbered
  <1>3. CASE index' # index
    <2>1. backup # Missing /\ backup.index # Missing /\ index' = backup.index
      BY <1>3 DEF Start, RestoreBackup
    <2>2. Numbered(index')
      BY <1>1, <2>1
    <2> QED BY <2>2, EmptyNumbered DEF Index, Numbered
  <1> QED BY <1>2, <1>3

LEMMA IDInvStep ==
  ASSUME IDInv, [Next]_vars
  PROVE  IDInv'
  <1> USE DEF disk, users, process, history, Exit
  <1>1. ASSUME UNCHANGED <<index, backup, indexLost>> PROVE IDInv'
    BY <1>1 DEF IDInv, Index, Numbered
  <1>2. ASSUME NEW c \in Configs, Start(c) PROVE IDInv'
    BY <1>2, StartKeepsIDs
  <1>3. ASSUME NEW s \in Source, AddToIndex(s) PROVE IDInv'
    <2>1. UNCHANGED <<backup, indexLost>> /\ index' = IndexWith(s) /\ s \notin DOMAIN Index
      BY <1>3 DEF AddToIndex
    <2> SUFFICES ASSUME ~indexLost PROVE Numbered(Index)'
      BY <2>1 DEF IDInv
    <2>2. Numbered(index')
      BY <2>1, IndexWithNumbered DEF IDInv
    <2> QED BY <2>2, EmptyNumbered DEF Index, Numbered
  <1>4. CASE RemoveBackup
    <2>1. UNCHANGED <<index, indexLost>> /\ backup' = Missing
      BY <1>4 DEF RemoveBackup
    <2> QED BY <2>1 DEF IDInv, Index, Numbered
  <1>5. CASE CopyBackup
    <2>1. UNCHANGED <<index, indexLost>> /\ backup'.index = index
      BY <1>5 DEF CopyBackup
    <2> QED BY <2>1 DEF IDInv, Index, Numbered
  <1>6. CASE Kill \/ Abort
    BY <1>6, EndKeepsIDs DEF Kill, Abort
  <1>7. ASSUME NEW s \in Source, SourceStep(s) PROVE IDInv'
    <2>1. CASE AddToIndex(s)
      BY <1>3, <2>1
    <2>2. CASE ~AddToIndex(s)
      BY <1>1, <1>7, <2>2
         DEF SourceStep, QueueCopies, NothingToCopy, SaveUnchanged, TakeTask, RecoverySkips, RecoverSource
    <2> QED BY <2>1, <2>2
  <1>8. ASSUME NEW p \in Path, OpenDestination(p) \/ CopyRefused(p) PROVE IDInv'
    BY <1>1, <1>8 DEF OpenDestination, CopyRefused
  <1>9. CASE \/ BeginRun \/ RemoveSuccess \/ CreateFailure \/ ScanSources \/ ResetCopiedFlags
             \/ FinishCopy \/ GiveUpSource \/ MarkCopied \/ SaveCopied \/ SyncDone
    BY <1>1, <1>9 DEF BeginRun, RemoveSuccess, CreateFailure, ScanSources, ResetCopiedFlags,
         FinishCopy, GiveUpSource, MarkCopied, SaveCopied, SyncDone
  <1>10. CASE \/ RemoveFailure \/ CreateSuccess \/ BeginRecovery \/ RecoveryFails
              \/ RecoveryMarksCopied \/ RecoverySucceeds \/ RecoveryCreatesSuccess
    BY <1>1, <1>10 DEF RemoveFailure, CreateSuccess, BeginRecovery, RecoveryFails,
         RecoveryMarksCopied, RecoverySucceeds, RecoveryCreatesSuccess
  <1>11. CASE ProcessStep
    BY <1>4, <1>5, <1>7, <1>8, <1>9, <1>10, <1>11 DEF ProcessStep
  <1>12. CASE Edit \/ UNCHANGED vars
    BY <1>1, <1>12 DEF Edit, vars
  <1> QED BY <1>2, <1>6, <1>8, <1>11, <1>12 DEF Next, Starts

(* Two sources get one ID, and so one bin and one flag in State.bin, only   *)
(* after Index.bin lost the ID of a source (MetaDataCache.cpp, the ID of a  *)
(* new source in UpdateCacheForSource).                                     *)
THEOREM IDsAreDistinct == Spec => []IDsDistinct
  <1>1. Init => IDInv
    BY EmptyNumbered DEF Init, IDInv, Index
  <1>2. IDInv /\ [Next]_vars => IDInv'
    BY IDInvStep
  <1>3. IDInv => IDsDistinct
    BY DEF IDInv, IDsDistinct, Numbered
  <1> QED BY <1>1, <1>2, <1>3, PTL DEF Spec

-----------------------------------------------------------------------------
(* The marker.  A copy that is open belongs to the source being copied.     *)
Working ==
  {"scan", "reset", "sync", "removeFailure", "recover", "recoverCopy", "recoverRemoveFailure"}

Stage == {"none", "index", "queued", "copy", "save", "jobSave", "pending", "done"}

OpenInv ==
  open # NoFile =>
    /\ current \in Source /\ current # NoSource
    /\ pc = "recoverCopy" \/ (pc = "sync" /\ stage[current] = "copy")

MarkInv ==
  /\ stage \in [Source -> Stage]
  /\ current \in Source \cup {NoSource}
  /\ OpenInv
  /\ pc \in Working => "Failure" \in markers

LEMMA MarkInvInit == Init => MarkInv
  BY DEF Init, MarkInv, OpenInv, NoStage, Working, Stage

LEMMA ExitMarkInv == Exit => MarkInv'
  BY DEF Exit, FreshProcess, NoStage, MarkInv, OpenInv, Working, Stage

(* A source that is not being copied goes on. *)
LEMMA MarkInvStage ==
  ASSUME MarkInv, NEW s \in Source, NEW w \in Stage,
         stage[s] # "copy", stage' = [stage EXCEPT ![s] = w],
         UNCHANGED <<open, pc, markers, current>>
  PROVE  MarkInv'
  <1>1. stage' \in [Source -> Stage]
    BY DEF MarkInv
  <1>2. OpenInv'
    BY DEF MarkInv, OpenInv
  <1> QED BY <1>1, <1>2 DEF MarkInv

LEMMA MarkInvSource ==
  ASSUME MarkInv, NEW s \in Source, SourceStep(s)
  PROVE  MarkInv'
  <1>1. CASE AddToIndex(s)
    <2>1. UNCHANGED <<stage, open, pc, markers, current>>
      BY <1>1 DEF AddToIndex, process
    <2> QED BY <2>1 DEF MarkInv, OpenInv
  <1>2. CASE QueueCopies(s) \/ NothingToCopy(s) \/ SaveUnchanged(s)
    <2>1. /\ stage[s] \in {"index", "jobSave"} /\ UNCHANGED <<open, pc, markers, current>>
          /\ \/ stage' = [stage EXCEPT ![s] = "queued"]
             \/ stage' = [stage EXCEPT ![s] = "jobSave"]
             \/ stage' = [stage EXCEPT ![s] = "done"]
      BY <1>2 DEF QueueCopies, NothingToCopy, SaveUnchanged, At, Become, disk
    <2> QED BY <2>1, MarkInvStage DEF Stage
  <1>3. CASE TakeTask(s)
    <2>1. /\ UNCHANGED <<open, pc, markers>> /\ current = NoSource /\ current' = s
          /\ stage' = [stage EXCEPT ![s] = "copy"]
      BY <1>3 DEF TakeTask, Become, disk
    <2>2. stage' \in [Source -> Stage] /\ open = NoFile
      BY <2>1 DEF MarkInv, OpenInv, Stage
    <2> QED BY <2>1, <2>2 DEF MarkInv, OpenInv
  <1>4. CASE RecoverySkips(s)
    <2>1. /\ stage[s] = "pending" /\ UNCHANGED <<open, pc, markers, current>>
          /\ stage' = [stage EXCEPT ![s] = "done"]
      BY <1>4 DEF RecoverySkips, Become, disk
    <2> QED BY <2>1, MarkInvStage DEF Stage
  <1>5. CASE RecoverSource(s)
    <2>1. /\ pc = "recover" /\ pc' = "recoverCopy" /\ current' = s
          /\ UNCHANGED <<stage, open, markers>>
      BY <1>5 DEF RecoverSource, disk
    <2>2. open = NoFile /\ "Failure" \in markers
      BY <2>1 DEF MarkInv, OpenInv, Working
    <2> QED BY <2>1, <2>2 DEF MarkInv, OpenInv
  <1> QED BY <1>1, <1>2, <1>3, <1>4, <1>5 DEF SourceStep

LEMMA MarkInvProcess ==
  ASSUME MarkInv, ProcessStep
  PROVE  MarkInv'
  <1> USE DEF MarkInv, OpenInv, Working, Stage, disk, process, history, users
  <1>1. CASE \/ BeginRun \/ RemoveSuccess \/ CreateFailure \/ ScanSources
    BY <1>1 DEF BeginRun, RemoveSuccess, CreateFailure, ScanSources
  <1>2. CASE ResetCopiedFlags
    BY <1>2 DEF ResetCopiedFlags
  <1>3. ASSUME NEW p \in Path, OpenDestination(p) PROVE MarkInv'
    BY <1>3 DEF OpenDestination, Copying, CopyingNow, At
  <1>4. ASSUME NEW p \in Path, CopyRefused(p) PROVE MarkInv'
    BY <1>4 DEF CopyRefused, Copying
  <1>5. CASE FinishCopy
    BY <1>5 DEF FinishCopy
  <1>6. CASE GiveUpSource \/ MarkCopied
    <2>1. /\ open = NoFile /\ UNCHANGED <<open, pc, markers>>
          /\ current' \in {current, NoSource}
          /\ stage' \in {[stage EXCEPT ![current] = w] : w \in {"done", "save"}}
      BY <1>6 DEF GiveUpSource, MarkCopied, CopiesDone, Become
    <2> QED BY <2>1
  <1>7. CASE SaveCopied
    <2>1. /\ pc = "sync" /\ stage[current] = "save" /\ UNCHANGED <<open, pc, markers>>
          /\ current' = NoSource /\ stage' = [stage EXCEPT ![current] = "done"]
      BY <1>7 DEF SaveCopied, At, Become
    <2>2. open = NoFile
      BY <2>1
    <2> QED BY <2>1, <2>2
  <1>8. CASE SyncDone \/ RecoverySucceeds \/ RemoveFailure
    BY <1>8 DEF SyncDone, RecoverySucceeds, RemoveFailure
  <1>9. CASE RecoveryMarksCopied
    <2>1. /\ pc = "recoverCopy" /\ pc' = "recover" /\ open = NoFile /\ UNCHANGED <<open, markers>>
          /\ current' = NoSource /\ stage' = [stage EXCEPT ![current] = "done"]
      BY <1>9 DEF RecoveryMarksCopied, CopiesDone, Become
    <2> QED BY <2>1
  <1>10. CASE CreateSuccess \/ CopyBackup \/ RecoveryFails \/ RecoveryCreatesSuccess
    <2>1. CASE Exit
      BY <2>1, ExitMarkInv
    <2>2. CASE ~Exit
      <3>1. pc = "createSuccess" /\ pc' = "removeBackup" /\ UNCHANGED <<open, stage, current>>
        BY <1>10, <2>2 DEF CreateSuccess, CopyBackup, RecoveryFails, RecoveryCreatesSuccess
      <3> QED BY <3>1
    <2> QED BY <2>1, <2>2
  <1>11. CASE RemoveBackup
    BY <1>11 DEF RemoveBackup
  <1>12. CASE BeginRecovery
    <2>1. /\ "Failure" \in markers /\ pc = "decide" /\ UNCHANGED <<open, markers, current>>
          /\ stage' = [s \in Source |-> IF s \in PendingSources THEN "pending" ELSE "done"]
      BY <1>12 DEF BeginRecovery
    <2>2. open' = NoFile
      BY <2>1
    <2> QED BY <2>1, <2>2
  <1> QED BY <1>1, <1>2, <1>3, <1>4, <1>5, <1>6, <1>7, <1>8, <1>9, <1>10, <1>11, <1>12,
             MarkInvSource DEF ProcessStep

LEMMA MarkInvStep ==
  ASSUME MarkInv, [Next]_vars
  PROVE  MarkInv'
  <1> USE DEF MarkInv, OpenInv, Working, Stage
  <1>1. CASE Edit
    BY <1>1 DEF Edit, disk, process, history
  <1>2. ASSUME NEW c \in Configs, Start(c) PROVE MarkInv'
    <2>1. FreshProcess /\ pc' = "decide"
      BY <1>2 DEF Start
    <2> QED BY <2>1 DEF FreshProcess, NoStage
  <1>3. ASSUME NEW p \in Path, CopyRefused(p) PROVE MarkInv'
    BY <1>3 DEF CopyRefused, Copying, disk
  <1>4. CASE Kill \/ Abort
    BY <1>4, ExitMarkInv DEF Kill, Abort
  <1>5. CASE UNCHANGED vars
    BY <1>5 DEF vars, disk, process, history
  <1> QED BY <1>1, <1>2, <1>3, <1>4, <1>5, MarkInvProcess DEF Next, Starts

(* There is a bin, or none, for each ID and nothing else.                   *)
BinsInv == bin = [i \in ID |-> bin[i]]

LEMMA BinsInvInit == Init => BinsInv
  BY DEF Init, BinsInv

LEMMA BinsInvStep ==
  ASSUME BinsInv, [Next]_vars
  PROVE  BinsInv'
  <1> USE DEF disk, users, process, history
  <1>1. ASSUME UNCHANGED bin PROVE BinsInv'
    BY <1>1 DEF BinsInv
  <1>2. ASSUME NEW i, NEW b, bin' = [bin EXCEPT ![i] = b] PROVE BinsInv'
    BY <1>2 DEF BinsInv
  <1>3. ASSUME bin' \in BinsLeft PROVE BinsInv'
    BY <1>3 DEF BinsLeft, BinsInv
  <1>4. ASSUME NEW c \in Configs, Start(c) PROVE BinsInv'
    <2>1. CASE RestoreBackup
      BY <2>1 DEF RestoreBackup, BinsInv
    <2> QED BY <1>1, <1>4, <2>1 DEF Start
  <1>5. ASSUME NEW s \in Source, SourceStep(s) PROVE BinsInv'
    <2>1. CASE SaveUnchanged(s)
      BY <1>2, <2>1 DEF SaveUnchanged
    <2>2. CASE ~SaveUnchanged(s)
      BY <1>1, <1>5, <2>2 DEF SourceStep, AddToIndex, QueueCopies, NothingToCopy, TakeTask,
           RecoverySkips, RecoverSource
    <2> QED BY <2>1, <2>2
  <1>6. CASE SaveCopied
    BY <1>2, <1>6 DEF SaveCopied
  <1>7. CASE \/ BeginRun \/ RemoveSuccess \/ CreateFailure \/ ScanSources \/ ResetCopiedFlags
             \/ FinishCopy \/ GiveUpSource \/ MarkCopied \/ SyncDone
             \/ \E p \in Path : OpenDestination(p) \/ CopyRefused(p)
    BY <1>1, <1>7 DEF BeginRun, RemoveSuccess, CreateFailure, ScanSources, ResetCopiedFlags,
         FinishCopy, GiveUpSource, MarkCopied, SyncDone, OpenDestination, CopyRefused
  <1>8. CASE \/ RemoveFailure \/ CreateSuccess \/ RemoveBackup \/ CopyBackup \/ BeginRecovery
             \/ RecoveryFails \/ RecoveryMarksCopied \/ RecoverySucceeds \/ RecoveryCreatesSuccess
    BY <1>1, <1>8 DEF RemoveFailure, CreateSuccess, RemoveBackup, CopyBackup, BeginRecovery,
         RecoveryFails, RecoveryMarksCopied, RecoverySucceeds, RecoveryCreatesSuccess
  <1>9. CASE Kill \/ Abort
    BY <1>3, <1>9 DEF Kill, Abort
  <1>10. CASE Edit \/ UNCHANGED vars
    BY <1>1, <1>10 DEF Edit, vars
  <1> QED BY <1>4, <1>5, <1>6, <1>7, <1>8, <1>9, <1>10 DEF Next, ProcessStep, Starts

Changed == <<dest, index, state, bin>>' # <<dest, index, state, bin>>

(* What is written is written while the thread that writes it works. *)
LEMMA ChangesWhileWorking ==
  ASSUME MarkInv, BinsInv, [Next]_vars, pc # "off", Changed
  PROVE  pc \in Working
  <1> SUFFICES ASSUME pc \notin Working PROVE FALSE
    OBVIOUS
  <1> USE DEF Changed, Working, disk, users, process, history
  <1>1. open = NoFile /\ ~CopyingNow /\ \A s, w : ~At(s, w)
    BY DEF MarkInv, OpenInv, CopyingNow, At
  <1>2. IndexLeft = {index} /\ StateLeft = {state} /\ \A i \in ID : BinLeft(i) = {bin[i]}
    BY <1>1 DEF IndexLeft, StateLeft, BinLeft, Writing, CopiesDone
  <1>3. ~Kill
    <2>1. ASSUME bin' \in BinsLeft PROVE bin' = bin
      BY <1>2, <2>1 DEF BinsLeft, BinsInv
    <2> QED BY <1>2, <2>1 DEF Kill
  <1>4. ~Abort
    BY <1>1 DEF Abort, Copying
  <1>5. ~Edit /\ ~Starts
    BY DEF Edit, Starts, Start
  <1>6. \A s \in Source : ~SourceStep(s)
    BY <1>1 DEF SourceStep, AddToIndex, QueueCopies, NothingToCopy, SaveUnchanged, TakeTask,
         RecoverySkips, RecoverSource
  <1>7. \A p \in Path : ~OpenDestination(p) /\ ~CopyRefused(p)
    BY <1>1 DEF OpenDestination, CopyRefused, Copying
  <1>8. ~\/ BeginRun \/ RemoveSuccess \/ CreateFailure \/ ScanSources \/ ResetCopiedFlags
         \/ FinishCopy \/ GiveUpSource \/ MarkCopied \/ SaveCopied \/ SyncDone
    BY <1>1 DEF BeginRun, RemoveSuccess, CreateFailure, ScanSources, ResetCopiedFlags,
         FinishCopy, GiveUpSource, MarkCopied, CopiesDone, SaveCopied, SyncDone, At
  <1>9. ~\/ RemoveFailure \/ CreateSuccess \/ RemoveBackup \/ CopyBackup \/ BeginRecovery
         \/ RecoveryFails \/ RecoveryMarksCopied \/ RecoverySucceeds \/ RecoveryCreatesSuccess
    BY DEF RemoveFailure, CreateSuccess, RemoveBackup, CopyBackup, BeginRecovery,
         RecoveryFails, RecoveryMarksCopied, RecoverySucceeds, RecoveryCreatesSuccess
  <1>10. ~UNCHANGED vars
    BY DEF vars
  <1> QED BY <1>3, <1>4, <1>5, <1>6, <1>7, <1>8, <1>9, <1>10 DEF Next, ProcessStep

(* Every change of the destination, Index.bin, State.bin or a bin by a      *)
(* running process is made while .Failure exists, so that whenever the      *)
(* process ends, the next one finds it (FailureDetect.cpp, MarkFailure and  *)
(* MarkSuccess; HandleCopyFailure and a kill included).                     *)
THEOREM ChangesMarked == Spec => ChangesAreMarked
  <1>1. MarkInv /\ BinsInv /\ [Next]_vars => MarkInv' /\ BinsInv'
    BY MarkInvStep, BinsInvStep
  <1>2. MarkInv /\ BinsInv /\ [Next]_vars =>
          [pc # "off" /\ <<dest, index, state, bin>>' # <<dest, index, state, bin>>
             => "Failure" \in markers]_vars
    BY ChangesWhileWorking DEF MarkInv, Changed
  <1> QED BY MarkInvInit, BinsInvInit, <1>1, <1>2, PTL DEF Spec, ChangesAreMarked
-----------------------------------------------------------------------------
(* What the caches claim.  A bin, or its copy in the backup, says version v *)
(* of p if the next run or recovery that reads it would find v there.       *)
Says(b, p, v) == b # Missing /\ p \in DOMAIN b.entries /\ b.entries[p].hash = v

(* Only the bin of a file's own source is asked about the file.             *)
Records(p, v) == SourceOf[p] \in DOMAIN Index /\ Says(bin[Index[SourceOf[p]]], p, v)

BacksUp(p, v) ==
  backup # Missing /\ SourceOf[p] \in DOMAIN Index /\ Says(backup.bin[Index[SourceOf[p]]], p, v)

(* How far a process is: nothing is known before it scanned, and a source   *)
(* is compared, copied and saved after it has an ID.                        *)
QuietInv ==
  /\ pc \in {"off", "decide", "removeSuccess", "createFailure", "scan", "reset"} =>
       refused = {} /\ entries = EmptyCache
  /\ pc \in {"off", "decide", "removeSuccess", "createFailure", "scan"} => scanned = NothingScanned
  /\ pc \notin {"sync", "recoverCopy"} => todo = {}

StagesInv ==
  /\ \A s \in Source : stage[s] \in {"queued", "copy", "save", "jobSave", "pending"} => s \in DOMAIN Index
  /\ pc = "recoverCopy" => current \in DOMAIN Index
  /\ pc \in {"recover", "recoverCopy"} => \A s \in Source : stage[s] \in {"pending", "done"}
  /\ pc = "sync" =>
       /\ \A s \in Source : stage[s] \in {"copy", "save"} => current = s
       /\ \A p \in todo : stage[SourceOf[p]] \in {"queued", "copy"}
       /\ \A p \in refused : \/ stage[SourceOf[p]] = "done"
                             \/ stage[SourceOf[p]] = "copy" /\ failed
       /\ \A p \in DOMAIN entries : scanned[p] # Absent
       /\ ~indexLost => \A s \in Source : stage[s] = "jobSave" => ToCopy(s) = {}

OpenFileInv ==
  open # NoFile => open.path \in todo /\ (pc = "sync" => SourceOf[open.path] = current)

Progress == QuietInv /\ StagesInv /\ OpenFileInv

(* Nobody knows a version that does not exist yet.                          *)
VersionsInv ==
  \A p \in Path :
    /\ src[p] \in {Absent, newest[p]}
    /\ scanned[p] # Absent => scanned[p] <= newest[p]
    /\ \A i \in ID, v \in Version : Says(bin[i], p, v) => v <= newest[p]
    /\ backup # Missing => \A i \in ID, v \in Version : Says(backup.bin[i], p, v) => v <= newest[p]
    /\ open # NoFile /\ open.path = p => open.version <= newest[p]
    /\ p \in DOMAIN entries => entries[p].hash <= newest[p]

(* A bin belongs to a source, and to the same one in the backup.            *)
OwnersInv ==
  ~indexLost =>
    /\ \A i \in ID : bin[i] # Missing => \E s \in DOMAIN Index : Index[s] = i
    /\ backup # Missing =>
         /\ \A i \in ID : backup.bin[i] # Missing => \E s \in DOMAIN Index : Index[s] = i
         /\ backup.index # Missing =>
              \A s \in DOMAIN backup.index : s \in DOMAIN Index /\ backup.index[s] = Index[s]

-----------------------------------------------------------------------------
(* What is in the destination, but for copies that ended short. *)
RecordedInv ==
  ~indexLost => \A p \in Path \ (recopied \cup short) :
    Records(p, src[p]) \/ BacksUp(p, src[p]) => dest[p] = src[p]

(* What is to be copied is not recorded, but for what recovery adds of other *)
(* sources; and what is recorded and was scanned was scanned as it is.       *)
UnrecordedInv ==
  ~indexLost =>
    /\ \A p \in todo : pc = "sync" \/ SourceOf[p] = current => ~Records(p, src[p])
    /\ \A p \in Path : scanned[p] # Absent /\ Records(p, src[p]) => scanned[p] = src[p]

(* A version newer than the one being copied is not known to anybody.        *)
OpenVersionInv ==
  ~indexLost /\ open # NoFile =>
    LET p == open.path
    IN  src[p] \notin {open.version, Absent} =>
          ~Records(p, src[p]) /\ ~BacksUp(p, src[p]) /\ scanned[p] # src[p]

ToBeCopied(p) ==
  \/ p \in todo
  \/ pc = "reset"
  \/ pc = "sync" /\ stage[SourceOf[p]] = "index"

(* What was scanned belongs to the configuration. *)
ScopeInv == pc = "reset" => \A p \in Path : scanned[p] # Absent => SourceOf[p] \in config

ScannedInv ==
  ~indexLost => \A p \in Path \ (refused \cup recopied \cup short) :
    scanned[p] # Absent /\ scanned[p] = src[p] /\ ~ToBeCopied(p) => dest[p] = src[p]

Truth == RecordedInv /\ UnrecordedInv /\ OpenVersionInv /\ ScopeInv /\ ScannedInv

-----------------------------------------------------------------------------
(* Types.                                                                  *)
IndexSet == UNION {[S -> ID] : S \in SUBSET Source}

FlagSet == UNION {[S -> BOOLEAN] : S \in SUBSET ID}

LEMMA IndexType ==
  ASSUME index \in IndexFile
  PROVE  /\ Index \in IndexSet /\ DOMAIN Index \subseteq Source
         /\ \A s \in DOMAIN Index : Index[s] \in ID /\ index # Missing /\ index[s] = Index[s]
  <1>1. CASE index = Missing
    <2>1. Index = EmptyCache /\ DOMAIN EmptyCache = {}
      BY <1>1 DEF Index, EmptyCache
    <2>2. EmptyCache \in [{} -> ID]
      BY DEF EmptyCache
    <2> QED BY <2>1, <2>2 DEF IndexSet
  <1>2. CASE index # Missing
    <2>1. index \in IndexSet
      <3>1. IndexFile = IndexSet \cup {Missing}
        BY DEF IndexFile, IndexSet
      <3> QED BY <1>2, <3>1
    <2>2. Index = index
      BY <1>2 DEF Index
    <2> QED BY <1>2, <2>1, <2>2 DEF IndexSet
  <1> QED BY <1>1, <1>2

LEMMA CacheHas ==
  ASSUME NEW c \in Caches
  PROVE  /\ DOMAIN c \subseteq Path
         /\ \A p \in DOMAIN c : /\ c[p] \in [hash : Version, visited : BOOLEAN, miss : 0 .. MaxMiss]
                               /\ c[p].hash \in Version
  BY DEF Caches, Cache

LEMMA EmptyIsCache == EmptyCache \in Caches /\ DOMAIN EmptyCache = {}
  <1>1. EmptyCache \in [{} -> [hash : Version, visited : BOOLEAN, miss : 0 .. MaxMiss]]
    BY DEF EmptyCache
  <1>2. DOMAIN EmptyCache = {}
    BY DEF EmptyCache
  <1> QED BY <1>1, <1>2 DEF Caches, Cache

LEMMA PartIsCache ==
  ASSUME NEW c \in Caches, NEW S \in SUBSET DOMAIN c
  PROVE  Part(c, S) \in Caches
  <1>1. Part(c, S) \in [S -> [hash : Version, visited : BOOLEAN, miss : 0 .. MaxMiss]]
    BY CacheHas DEF Part
  <1>2. S \subseteq Path
    BY CacheHas
  <1> QED BY <1>1, <1>2 DEF Caches, Cache

LEMMA VisitedIsCache ==
  ASSUME NEW c \in Caches, NEW P
  PROVE  MarkVisited(c, P) \in Caches
  <1>1. 0 \in 0 .. MaxMiss
    BY RecoveryAssumption
  <1>2. MarkVisited(c, P) \in [DOMAIN c -> [hash : Version, visited : BOOLEAN, miss : 0 .. MaxMiss]]
    BY CacheHas, <1>1 DEF MarkVisited, Entry
  <1>3. DOMAIN c \subseteq Path
    BY CacheHas
  <1> QED BY <1>2, <1>3 DEF Caches, Cache

LEMMA EntriesType ==
  ASSUME bin \in [ID -> BinFile], NEW i \in ID
  PROVE  Entries(i) \in Caches
  <1>1. bin[i] \in BinFile
    OBVIOUS
  <1>2. CASE bin[i] = Missing
    BY <1>2, EmptyIsCache DEF Entries
  <1>3. CASE bin[i] # Missing
    <2>1. bin[i].entries \in Caches
      BY <1>1, <1>3 DEF BinFile
    <2> QED BY <1>3, <2>1 DEF Entries
  <1> QED BY <1>2, <1>3

LEMMA FreshIs ==
  ASSUME NEW s
  PROVE  /\ DOMAIN Fresh(s) = {p \in Path : SourceOf[p] = s /\ scanned[p] # Absent}
         /\ \A p \in DOMAIN Fresh(s) : Fresh(s)[p] = scanned[p]
  BY DEF Fresh, Part, Found, FilesOf

LEMMA ToCopyIs ==
  ASSUME NEW s
  PROVE  /\ \A p \in ToCopy(s) :
               /\ p \in Path /\ SourceOf[p] = s /\ scanned[p] # Absent
               /\ p \in DOMAIN Entries(index[s]) => Entries(index[s])[p].hash # scanned[p]
         /\ \A p \in Path :
               SourceOf[p] = s /\ scanned[p] # Absent /\ p \notin ToCopy(s) =>
                 p \in DOMAIN Entries(index[s]) /\ Entries(index[s])[p].hash = scanned[p]
  <1> DEFINE c == Entries(index[s])
             f == Fresh(s)
  <1>1. ToCopy(s) = {p \in DOMAIN f : p \in DOMAIN c => c[p].hash # f[p]}
    BY DEF ToCopy, FilesToCopy, HasEntry
  <1>2. /\ DOMAIN f = {p \in Path : SourceOf[p] = s /\ scanned[p] # Absent}
        /\ \A p \in DOMAIN f : f[p] = scanned[p]
    BY FreshIs
  <1> HIDE DEF c, f
  <1>3. ASSUME NEW p \in ToCopy(s)
        PROVE  /\ p \in Path /\ SourceOf[p] = s /\ scanned[p] # Absent
               /\ p \in DOMAIN c => c[p].hash # scanned[p]
    BY <1>1, <1>2
  <1>4. ASSUME NEW p \in Path, SourceOf[p] = s, scanned[p] # Absent, p \notin ToCopy(s)
        PROVE  p \in DOMAIN c /\ c[p].hash = scanned[p]
    BY <1>1, <1>2, <1>4
  <1> QED BY <1>3, <1>4 DEF c

LEMMA FreshType ==
  ASSUME scanned \in [Path -> Version \cup {Absent}], NEW s
  PROVE  DOMAIN Fresh(s) \in SUBSET Path /\ Fresh(s) \in [DOMAIN Fresh(s) -> Version]
  BY DEF Fresh, Part, Found

LEMMA RefreshedType ==
  ASSUME TypeOK, NEW s \in DOMAIN Index
  PROVE  CacheOf(s) \in Caches /\ Refreshed(s) \in Caches
  <1>1. index[s] \in ID
    BY IndexType DEF TypeOK
  <1>2. CacheOf(s) \in Caches
    BY <1>1, EntriesType, VisitedIsCache DEF CacheOf, TypeOK
  <1>3. /\ scanned \in [Path -> Version \cup {Absent}]
        /\ MaxMiss \in Nat
    BY RecoveryAssumption DEF TypeOK
  <1>4. DOMAIN Fresh(s) \in SUBSET Path /\ Fresh(s) \in [DOMAIN Fresh(s) -> Version]
    BY <1>3, FreshType
  <1> QED BY <1>2, <1>3, <1>4, RefreshType DEF Refreshed, Caches

LEMMA EntriesAfterType ==
  ASSUME TypeOK
  PROVE  EntriesAfter \in Caches
  <1>1. entries \in Caches /\ scanned \in [Path -> Version \cup {Absent}] /\ MaxMiss \in Nat
    BY RecoveryAssumption DEF TypeOK
  <1>2. DOMAIN Fresh(current) \in SUBSET Path /\ Fresh(current) \in [DOMAIN Fresh(current) -> Version]
    BY <1>1, FreshType
  <1> QED BY <1>1, <1>2, RefreshType DEF EntriesAfter, Caches

LEMMA BinType ==
  ASSUME NEW c \in Caches
  PROVE  WholeBin(c) \in BinFile /\ TornBin(c) \subseteq BinFile
  <1>1. WholeBin(c) \in BinFile
    BY DEF WholeBin, BinFile
  <1>2. ASSUME NEW S \in SUBSET DOMAIN c, NEW w \in BOOLEAN
        PROVE  [entries |-> Part(c, S), whole |-> w] \in BinFile
    BY PartIsCache DEF BinFile
  <1> QED BY <1>1, <1>2 DEF TornBin

LEMMA BinsLeftType ==
  ASSUME TypeOK, StagesInv, NEW b \in BinsLeft
  PROVE  b \in [ID -> BinFile]
  <1>1. ASSUME NEW i \in ID PROVE BinLeft(i) \subseteq BinFile
    <2>1. bin[i] \in BinFile
      BY DEF TypeOK
    <2>2. ASSUME NEW s \in Writing(i)
          PROVE  TornBin(IF stage[s] = "save" THEN EntriesAfter ELSE Refreshed(s)) \subseteq BinFile
      <3>1. s \in DOMAIN Index
        BY DEF Writing, At, StagesInv
      <3> QED BY <3>1, RefreshedType, EntriesAfterType, BinType
    <2> QED BY <2>1, <2>2 DEF BinLeft
  <1>2. b \in [ID -> UNION {BinLeft(i) : i \in ID}] /\ \A i \in ID : b[i] \in BinLeft(i)
    BY DEF BinsLeft
  <1> QED BY <1>1, <1>2


LEMMA IndexWithType ==
  ASSUME TypeOK, NEW s \in Source, s \notin DOMAIN Index
  PROVE  /\ IndexWith(s) \in IndexSet /\ TornIndex(IndexWith(s)) \subseteq IndexSet
         /\ DOMAIN IndexWith(s) = DOMAIN Index \cup {s}
         /\ \A t \in DOMAIN Index : IndexWith(s)[t] = Index[t]
  <1>1. /\ DOMAIN Index \subseteq Source /\ IsFiniteSet(Source)
        /\ \A t \in DOMAIN Index : Index[t] \in ID
    BY IndexType, RecoveryAssumption DEF TypeOK
  <1>2. IsFiniteSet(DOMAIN Index \cup {s}) /\ Cardinality(DOMAIN Index \cup {s}) = Cardinality(DOMAIN Index) + 1
    BY <1>1, FS_Subset, FS_AddElement
  <1>3. /\ Cardinality(DOMAIN Index) \in Nat /\ Cardinality(Source) \in Nat
        /\ Cardinality(DOMAIN Index \cup {s}) <= Cardinality(Source)
    BY <1>1, <1>2, FS_Subset, FS_CardinalityType
  <1>4. Cardinality(DOMAIN Index) + 1 \in ID
    BY <1>2, <1>3 DEF ID
  <1>5. IndexWith(s) \in [DOMAIN Index \cup {s} -> ID]
    BY <1>1, <1>4 DEF IndexWith
  <1>6. ASSUME NEW S \in SUBSET DOMAIN IndexWith(s) PROVE Part(IndexWith(s), S) \in IndexSet
    <2>1. Part(IndexWith(s), S) \in [S -> ID] /\ S \in SUBSET Source
      BY <1>1, <1>5 DEF Part
    <2> QED BY <2>1 DEF IndexSet
  <1>7. DOMAIN Index \cup {s} \in SUBSET Source
    BY <1>1
  <1>8. \A t \in DOMAIN Index : IndexWith(s)[t] = Index[t]
    BY DEF IndexWith
  <1> QED BY <1>5, <1>6, <1>7, <1>8 DEF IndexSet, TornIndex

LEMMA IndexLeftType ==
  ASSUME TypeOK, NEW f \in IndexLeft
  PROVE  f \in IndexFile
  <1>1. IndexSet \subseteq IndexFile /\ index \in IndexFile
    BY DEF IndexSet, IndexFile, TypeOK
  <1>2. CASE f # index
    <2>1. PICK s \in Source : s \notin DOMAIN Index /\ f \in TornIndex(IndexWith(s))
      BY <1>2 DEF IndexLeft
    <2> QED BY <1>1, <2>1, IndexWithType
  <1> QED BY <1>1, <1>2

LEMMA FlagsType ==
  ASSUME state \in StateFile
  PROVE  /\ Flags \in FlagSet /\ DOMAIN Flags \subseteq ID
         /\ \A i \in DOMAIN Flags : Flags[i] \in BOOLEAN
  <1>1. CASE state = Missing
    <2>1. Flags = EmptyCache /\ DOMAIN EmptyCache = {} /\ EmptyCache \in [{} -> BOOLEAN]
      BY <1>1 DEF Flags, EmptyCache
    <2> QED BY <2>1 DEF FlagSet
  <1>2. CASE state # Missing
    <2>1. state.flags \in FlagSet /\ Flags = state.flags
      BY <1>2 DEF StateFile, FlagSet, Flags
    <2> QED BY <2>1 DEF FlagSet
  <1> QED BY <1>1, <1>2

LEMMA StateType ==
  ASSUME NEW f \in FlagSet
  PROVE  WholeState(f) \in StateFile /\ TornState(f) \subseteq StateFile
  <1>1. \A g \in FlagSet, w \in BOOLEAN : [flags |-> g, whole |-> w] \in StateFile
    BY DEF StateFile, FlagSet
  <1>2. ASSUME NEW S \in SUBSET DOMAIN f PROVE Part(f, S) \in FlagSet
    <2>1. Part(f, S) \in [S -> BOOLEAN] /\ S \in SUBSET ID
      BY DEF Part, FlagSet
    <2> QED BY <2>1 DEF FlagSet
  <1>3. EmptyCache \in FlagSet
    <2>1. EmptyCache \in [{} -> BOOLEAN]
      BY DEF EmptyCache
    <2> QED BY <2>1 DEF FlagSet
  <1> QED BY <1>1, <1>2, <1>3 DEF WholeState, TornState

LEMMA FlagsResetType ==
  ASSUME TypeOK
  PROVE  FlagsReset \in FlagSet
  <1>1. DOMAIN Flags \in SUBSET ID
    BY FlagsType DEF TypeOK
  <1>2. FlagsReset \in [DOMAIN Flags -> BOOLEAN]
    BY DEF FlagsReset
  <1> QED BY <1>1, <1>2 DEF FlagSet

LEMMA FlagsWithType ==
  ASSUME TypeOK, NEW s \in DOMAIN Index
  PROVE  FlagsWith(s) \in FlagSet
  <1>1. /\ DOMAIN Flags \subseteq ID /\ \A i \in DOMAIN Flags : Flags[i] \in BOOLEAN
        /\ index[s] \in ID
    BY FlagsType, IndexType DEF TypeOK
  <1>2. FlagsWith(s) \in [DOMAIN Flags \cup {index[s]} -> BOOLEAN]
    BY <1>1 DEF FlagsWith
  <1> QED BY <1>1, <1>2 DEF FlagSet

LEMMA StateLeftType ==
  ASSUME TypeOK, StagesInv, NEW f \in StateLeft
  PROVE  f \in StateFile
  <1>1. state \in StateFile
    BY DEF TypeOK
  <1>2. CASE pc = "reset"
    BY <1>1, <1>2, FlagsResetType, StateType DEF StateLeft
  <1>3. CASE CopiesDone
    <2>1. current \in DOMAIN Index
      BY <1>3 DEF CopiesDone, CopyingNow, At, StagesInv, TypeOK
    <2> QED BY <1>1, <1>2, <1>3, <2>1, FlagsWithType, StateType DEF StateLeft
  <1> QED BY <1>1, <1>2, <1>3 DEF StateLeft


(* The parts of TypeOK that actions leave alone together. *)
UsersType ==
  /\ src \in [Path -> Version \cup {Absent}] /\ newest \in [Path -> 0 .. MaxVersion]
  /\ dest \in [Path -> Version \cup {Absent, Torn}]

DirectoryType ==
  /\ markers \subseteq {"Failure", "Success"} /\ created \in BOOLEAN
  /\ index \in IndexFile /\ state \in StateFile /\ bin \in [ID -> BinFile]

BackupType ==
  \/ backup = Missing
  \/ /\ backup.markers \subseteq {"Failure", "Success"}
     /\ backup.index \in IndexFile /\ backup.state \in StateFile
     /\ backup.bin \in [ID -> BinFile]

Place ==
  {"off", "decide", "removeSuccess", "createFailure", "scan", "reset", "sync",
   "removeFailure", "createSuccess", "removeBackup", "copyBackup", "recover",
   "recoverCopy", "recoverRemoveFailure", "recoverCreateSuccess"}

PlaceType ==
  /\ pc \in Place /\ config \in Configs \cup {{}}
  /\ stage \in [Source -> Stage] /\ current \in Source \cup {NoSource} /\ failed \in BOOLEAN

DataType ==
  /\ scanned \in [Path -> Version \cup {Absent}] /\ todo \subseteq Path
  /\ open \in [path : Path, version : Version] \cup {NoFile} /\ entries \in Caches

HistoryType ==
  /\ faults \in 0 .. MaxFaults /\ refused \subseteq Path
  /\ recopied \subseteq Path /\ short \subseteq Path /\ indexLost \in BOOLEAN

TypeParts == UsersType /\ DirectoryType /\ BackupType /\ PlaceType /\ DataType /\ HistoryType

LEMMA PartsOfType == TypeOK <=> TypeParts
  BY DEF TypeOK, TypeParts, UsersType, DirectoryType, BackupType, PlaceType, DataType, HistoryType,
     Place, Stage

LEMMA PartsOfNextType == TypeOK' <=> TypeParts'
  BY DEF TypeOK, TypeParts, UsersType, DirectoryType, BackupType, PlaceType, DataType, HistoryType,
     Place, Stage

LEMMA FreshProcessType ==
  ASSUME FreshProcess, pc' \in Place, config' \in Configs \cup {{}}
  PROVE  PlaceType' /\ DataType' /\ refused' \subseteq Path
  <1>1. /\ scanned' = NothingScanned /\ stage' = NoStage /\ todo' = {} /\ open' = NoFile
        /\ current' = NoSource /\ failed' = FALSE /\ entries' = EmptyCache /\ refused' = {}
    BY DEF FreshProcess
  <1>2. NothingScanned \in [Path -> Version \cup {Absent}] /\ NoStage \in [Source -> Stage]
    BY DEF NothingScanned, NoStage, Stage
  <1>3. PlaceType'
    BY <1>1, <1>2 DEF PlaceType
  <1>4. DataType'
    BY <1>1, <1>2, EmptyIsCache DEF DataType, Caches
  <1> QED BY <1>1, <1>3, <1>4

LEMMA TypeInit == Init => TypeOK
  <1> SUFFICES ASSUME Init PROVE TypeParts
    BY PartsOfType
  <1>1. 1 \in Version /\ 1 \in 0 .. MaxVersion /\ 0 \in 0 .. MaxFaults
    BY RecoveryAssumption DEF Version
  <1>2. UsersType
    BY <1>1 DEF Init, UsersType
  <1>3. DirectoryType
    BY DEF Init, DirectoryType, IndexFile, StateFile, BinFile
  <1>4. BackupType
    BY DEF Init, BackupType
  <1>5. NothingScanned \in [Path -> Version \cup {Absent}] /\ NoStage \in [Source -> Stage]
    BY DEF NothingScanned, NoStage, Stage
  <1>6. PlaceType
    BY <1>5 DEF Init, PlaceType, Place
  <1>7. DataType
    BY <1>5, EmptyIsCache DEF Init, DataType
  <1>8. HistoryType
    BY <1>1 DEF Init, HistoryType
  <1> QED BY <1>2, <1>3, <1>4, <1>6, <1>7, <1>8 DEF TypeParts

LEMMA TypeStart ==
  ASSUME TypeOK, NEW c \in Configs, Start(c)
  PROVE  TypeOK'
  <1>1. TypeParts
    BY PartsOfType
  <1>2. FreshProcess /\ pc' = "decide" /\ config' = c /\ created' = TRUE
    BY DEF Start
  <1>3. PlaceType' /\ DataType' /\ refused' \subseteq Path
    BY <1>2, FreshProcessType DEF Place
  <1>4. UsersType' /\ BackupType'
    BY <1>1 DEF Start, users, TypeParts, UsersType, BackupType
  <1>5. HistoryType'
    BY <1>1, <1>3 DEF Start, NoteLoss, TypeParts, HistoryType
  <1>6. DirectoryType'
    <2>1. CASE UNCHANGED <<markers, index, state, bin>>
      BY <1>1, <1>2, <2>1 DEF TypeParts, DirectoryType
    <2>2. CASE backup # Missing /\ RestoreBackup
      <3>1. /\ backup.markers \subseteq {"Failure", "Success"}
            /\ backup.index \in IndexFile /\ backup.state \in StateFile
            /\ backup.bin \in [ID -> BinFile]
        BY <1>1, <2>2 DEF TypeParts, BackupType
      <3>2. markers' \subseteq {"Failure", "Success"} /\ index' \in IndexFile /\ state' \in StateFile
        BY <1>1, <2>2, <3>1 DEF RestoreBackup, TypeParts, DirectoryType
      <3>3. bin' \in [ID -> BinFile]
        BY <1>1, <2>2, <3>1 DEF RestoreBackup, TypeParts, DirectoryType
      <3> QED BY <1>2, <3>2, <3>3 DEF DirectoryType
    <2> QED BY <2>1, <2>2 DEF Start
  <1> QED BY <1>3, <1>4, <1>5, <1>6, PartsOfNextType DEF TypeParts

LEMMA TypeEnd ==
  ASSUME TypeOK, StagesInv, Kill \/ Abort
  PROVE  TypeOK'
  <1>1. TypeParts
    BY PartsOfType
  <1>2. FreshProcess /\ pc' = "off" /\ config' = {}
    BY DEF Kill, Abort, Exit
  <1>3. PlaceType' /\ DataType' /\ refused' \subseteq Path
    BY <1>2, FreshProcessType DEF Place
  <1>4. UsersType' /\ BackupType'
    BY <1>1 DEF Kill, Abort, users, TypeParts, UsersType, BackupType
  <1>5. faults' \in 0 .. MaxFaults
    BY <1>1, RecoveryAssumption DEF Kill, Abort, Fault, TypeParts, HistoryType
  <1>6. HistoryType'
    BY <1>1, <1>3, <1>5 DEF Kill, Abort, NoteLoss, TypeParts, HistoryType
  <1>7. state' \in StateFile
    <2>1. CASE Kill
      BY <2>1, StateLeftType DEF Kill
    <2>2. CASE Abort
      BY <2>2, FlagsType, StateType DEF Abort, TypeOK
    <2> QED BY <2>1, <2>2
  <1>8. index' \in IndexFile /\ bin' \in [ID -> BinFile]
    BY IndexLeftType, BinsLeftType DEF Kill, Abort
  <1>9. DirectoryType'
    BY <1>1, <1>7, <1>8 DEF Kill, Abort, TypeParts, DirectoryType
  <1> QED BY <1>3, <1>4, <1>6, <1>9, PartsOfNextType DEF TypeParts

LEMMA TypeSource ==
  ASSUME TypeOK, StagesInv, NEW s \in Source, SourceStep(s)
  PROVE  TypeOK'
  <1>1. TypeParts
    BY PartsOfType
  <1> USE DEF disk, users, process, history
  <1>2. CASE AddToIndex(s)
    <2>1. index' \in IndexFile
      <3>1. IndexSet \subseteq IndexFile
        BY DEF IndexSet, IndexFile
      <3> QED BY <1>2, <3>1, IndexWithType DEF AddToIndex
    <2>2. DirectoryType'
      BY <1>1, <1>2, <2>1 DEF AddToIndex, TypeParts, DirectoryType
    <2>3. UsersType' /\ BackupType' /\ PlaceType' /\ DataType' /\ HistoryType'
      BY <1>1, <1>2 DEF AddToIndex, TypeParts, UsersType, BackupType, PlaceType, DataType, HistoryType
    <2> QED BY <2>2, <2>3, PartsOfNextType DEF TypeParts
  <1>3. CASE QueueCopies(s)
    <2>1. ToCopy(s) \subseteq Path
      BY FreshIs DEF ToCopy, FilesToCopy
    <2>2. DataType' /\ PlaceType'
      BY <1>1, <1>3, <2>1 DEF QueueCopies, Become, TypeParts, DataType, PlaceType, Stage
    <2>3. UsersType' /\ BackupType' /\ DirectoryType' /\ HistoryType'
      BY <1>1, <1>3 DEF QueueCopies, TypeParts, UsersType, BackupType, DirectoryType, HistoryType
    <2> QED BY <2>2, <2>3, PartsOfNextType DEF TypeParts
  <1>4. CASE NothingToCopy(s) \/ TakeTask(s) \/ RecoverySkips(s)
    <2>1. PlaceType'
      BY <1>1, <1>4 DEF NothingToCopy, TakeTask, RecoverySkips, Become, TypeParts, PlaceType, Stage
    <2>2. UsersType' /\ BackupType' /\ DirectoryType' /\ HistoryType' /\ DataType'
      BY <1>1, <1>4 DEF NothingToCopy, TakeTask, RecoverySkips, TypeParts, UsersType, BackupType,
         DirectoryType, HistoryType, DataType
    <2> QED BY <2>1, <2>2, PartsOfNextType DEF TypeParts
  <1>5. CASE SaveUnchanged(s)
    <2>1. s \in DOMAIN Index
      BY <1>5 DEF SaveUnchanged, At, StagesInv
    <2>2. WholeBin(Refreshed(s)) \in BinFile
      BY <2>1, RefreshedType, BinType
    <2>3. DirectoryType'
      BY <1>1, <1>5, <2>2 DEF SaveUnchanged, TypeParts, DirectoryType
    <2>4. PlaceType'
      BY <1>1, <1>5 DEF SaveUnchanged, Become, TypeParts, PlaceType, Stage
    <2>5. UsersType' /\ BackupType' /\ HistoryType' /\ DataType'
      BY <1>1, <1>5 DEF SaveUnchanged, TypeParts, UsersType, BackupType, HistoryType, DataType
    <2> QED BY <2>3, <2>4, <2>5, PartsOfNextType DEF TypeParts
  <1>6. CASE RecoverSource(s)
    <2>1. scanned' \in [Path -> Version \cup {Absent}]
      BY <1>1, <1>6 DEF RecoverSource, TypeParts, UsersType, DataType
    <2>2. todo' \subseteq Path
      BY <1>6 DEF RecoverSource, FilesToCopy, Part
    <2>3. DataType'
      BY <1>1, <1>6, <2>1, <2>2 DEF RecoverSource, TypeParts, DataType
    <2>4. PlaceType'
      BY <1>1, <1>6 DEF RecoverSource, TypeParts, PlaceType, Place
    <2>5. UsersType' /\ BackupType' /\ DirectoryType' /\ HistoryType'
      BY <1>1, <1>6 DEF RecoverSource, TypeParts, UsersType, BackupType, DirectoryType, HistoryType
    <2> QED BY <2>3, <2>4, <2>5, PartsOfNextType DEF TypeParts
  <1> QED BY <1>2, <1>3, <1>4, <1>5, <1>6 DEF SourceStep

LEMMA TypeCopy ==
  ASSUME TypeOK, FinishCopy \/ \E p \in Path : OpenDestination(p) \/ CopyRefused(p)
  PROVE  TypeOK'
  <1>1. TypeParts
    BY PartsOfType
  <1> USE DEF disk, users, process, history
  <1>2. BackupType' /\ DirectoryType'
    BY <1>1 DEF OpenDestination, CopyRefused, FinishCopy, TypeParts, BackupType, DirectoryType
  <1>3. PlaceType'
    BY <1>1 DEF OpenDestination, CopyRefused, FinishCopy, TypeParts, PlaceType
  <1>4. ASSUME NEW p \in Path, OpenDestination(p) PROVE TypeOK'
    <2>1. UsersType' /\ DataType' /\ HistoryType'
      BY <1>1, <1>4 DEF OpenDestination, TypeParts, UsersType, DataType, HistoryType
    <2> QED BY <1>2, <1>3, <2>1, PartsOfNextType DEF TypeParts
  <1>5. ASSUME NEW p \in Path, CopyRefused(p) PROVE TypeOK'
    <2>1. UsersType' /\ DataType' /\ HistoryType'
      BY <1>1, <1>5, RecoveryAssumption DEF CopyRefused, TypeParts, UsersType, DataType, HistoryType
    <2> QED BY <1>2, <1>3, <2>1, PartsOfNextType DEF TypeParts
  <1>6. CASE FinishCopy
    <2>1. open \in [path : Path, version : Version]
      BY <1>1, <1>6 DEF FinishCopy, TypeParts, DataType
    <2>2. Outcomes(open.path) \subseteq Version \cup {Absent, Torn}
      BY <1>1, <2>1 DEF Outcomes, Unedited, TypeParts, UsersType
    <2>3. PICK v \in Outcomes(open.path) :
            /\ dest' = [dest EXCEPT ![open.path] = v]
            /\ IF v = Torn /\ Unedited(open.path)
               THEN short' = short \cup {open.path} /\ faults' = faults + 1
               ELSE UNCHANGED <<short, faults>>
      BY <1>6 DEF FinishCopy
    <2>4. HistoryType'
      <3>1. CASE v = Torn /\ Unedited(open.path)
        <4>1. open.version # Torn
          BY <2>1, RecoveryAssumption
        <4>2. MayEndShort
          BY <2>3, <3>1, <4>1 DEF Outcomes
        <4>3. faults' \in 0 .. MaxFaults
          BY <1>1, <2>3, <3>1, <4>2, RecoveryAssumption DEF MayEndShort, TypeParts, HistoryType
        <4> QED BY <1>1, <1>6, <2>1, <2>3, <3>1, <4>3 DEF FinishCopy, TypeParts, HistoryType
      <3>2. CASE ~(v = Torn /\ Unedited(open.path))
        BY <1>1, <1>6, <2>3, <3>2 DEF FinishCopy, TypeParts, HistoryType
      <3> QED BY <3>1, <3>2
    <2>5. UsersType' /\ DataType'
      BY <1>1, <1>6, <2>1, <2>2, <2>3 DEF FinishCopy, TypeParts, UsersType, DataType
    <2> QED BY <1>2, <1>3, <2>4, <2>5, PartsOfNextType DEF TypeParts
  <1> QED BY <1>4, <1>5, <1>6

(* What the copy thread, the recovery and the main thread do for a source. *)
LEMMA TypeCopied ==
  ASSUME TypeOK, StagesInv, GiveUpSource \/ MarkCopied \/ SaveCopied \/ RecoveryMarksCopied
  PROVE  TypeOK'
  <1>1. TypeParts
    BY PartsOfType
  <1> USE DEF disk, users, process, history
  <1>2. UsersType' /\ BackupType' /\ HistoryType'
    BY <1>1 DEF GiveUpSource, MarkCopied, SaveCopied, RecoveryMarksCopied, TypeParts, UsersType,
       BackupType, HistoryType
  <1>3. PlaceType'
    BY <1>1 DEF GiveUpSource, MarkCopied, SaveCopied, RecoveryMarksCopied, Become, TypeParts,
       PlaceType, Place, Stage
  <1>4. DataType'
    BY <1>1, EntriesAfterType DEF GiveUpSource, MarkCopied, SaveCopied, RecoveryMarksCopied, TypeParts,
       DataType
  <1>5. DirectoryType'
    <2>1. CASE GiveUpSource
      BY <1>1, <2>1 DEF GiveUpSource, TypeParts, DirectoryType
    <2>2. CASE SaveCopied
      <3>1. WholeBin(EntriesAfter) \in BinFile
        BY EntriesAfterType, BinType
      <3> QED BY <1>1, <2>2, <3>1 DEF SaveCopied, TypeParts, DirectoryType
    <2>3. CASE MarkCopied \/ RecoveryMarksCopied
      <3>1. current \in DOMAIN Index
        BY <2>3, <1>1 DEF MarkCopied, RecoveryMarksCopied, CopiesDone, CopyingNow, At, StagesInv,
           TypeParts, PlaceType
      <3>2. WholeState(FlagsWith(current)) \in StateFile
        BY <3>1, FlagsWithType, StateType
      <3> QED BY <1>1, <2>3, <3>2 DEF MarkCopied, RecoveryMarksCopied, TypeParts, DirectoryType
    <2> QED BY <2>1, <2>2, <2>3
  <1> QED BY <1>2, <1>3, <1>4, <1>5, PartsOfNextType DEF TypeParts


LEMMA TypeMain ==
  ASSUME TypeOK,
         \/ BeginRun \/ RemoveSuccess \/ CreateFailure \/ ScanSources \/ ResetCopiedFlags
         \/ SyncDone \/ RemoveFailure \/ BeginRecovery \/ RecoverySucceeds
  PROVE  TypeOK'
  <1>1. TypeParts
    BY PartsOfType
  <1> USE DEF disk, users, process, history
  <1>2. UsersType' /\ BackupType' /\ HistoryType'
    BY <1>1 DEF BeginRun, RemoveSuccess, CreateFailure, ScanSources, ResetCopiedFlags, SyncDone,
       RemoveFailure, BeginRecovery, RecoverySucceeds, TypeParts, UsersType, BackupType, HistoryType
  <1>3. PlaceType'
    BY <1>1 DEF BeginRun, RemoveSuccess, CreateFailure, ScanSources, ResetCopiedFlags, SyncDone,
       RemoveFailure, BeginRecovery, RecoverySucceeds, TypeParts, PlaceType, Place, Stage
  <1>4. DataType'
    BY <1>1 DEF BeginRun, RemoveSuccess, CreateFailure, ScanSources, ResetCopiedFlags, SyncDone,
       RemoveFailure, BeginRecovery, RecoverySucceeds, TypeParts, DataType, UsersType
  <1>5. DirectoryType'
    <2>1. CASE ResetCopiedFlags
      <3>1. WholeState(FlagsReset) \in StateFile
        BY FlagsResetType, StateType
      <3> QED BY <1>1, <2>1, <3>1 DEF ResetCopiedFlags, TypeParts, DirectoryType
    <2>2. CASE ~ResetCopiedFlags
      BY <1>1, <2>2 DEF BeginRun, RemoveSuccess, CreateFailure, ScanSources, SyncDone,
         RemoveFailure, BeginRecovery, RecoverySucceeds, TypeParts, DirectoryType
    <2> QED BY <2>1, <2>2
  <1> QED BY <1>2, <1>3, <1>4, <1>5, PartsOfNextType DEF TypeParts

(* The end of a run or of a recovery. *)
LEMMA TypeExit ==
  ASSUME TypeOK, CreateSuccess \/ RemoveBackup \/ CopyBackup \/ RecoveryFails \/ RecoveryCreatesSuccess
  PROVE  TypeOK'
  <1>1. TypeParts
    BY PartsOfType
  <1> USE DEF disk, users, process, history
  <1>2. UsersType'
    BY <1>1 DEF CreateSuccess, RemoveBackup, CopyBackup, RecoveryFails, RecoveryCreatesSuccess,
       TypeParts, UsersType
  <1>3. DirectoryType'
    BY <1>1 DEF CreateSuccess, RemoveBackup, CopyBackup, RecoveryFails, RecoveryCreatesSuccess,
       TypeParts, DirectoryType
  <1>4. BackupType'
    <2>1. CASE CopyBackup
      BY <1>1, <2>1 DEF CopyBackup, BackupType, TypeParts, DirectoryType
    <2>2. CASE ~CopyBackup
      BY <1>1, <2>2 DEF CreateSuccess, RemoveBackup, RecoveryFails, RecoveryCreatesSuccess, TypeParts,
         BackupType
    <2> QED BY <2>1, <2>2
  <1>5. PlaceType' /\ DataType' /\ refused' \subseteq Path
    <2>1. CASE Exit
      BY <2>1, FreshProcessType DEF Exit, Place
    <2>2. CASE ~Exit
      <3>1. UNCHANGED process /\ pc' \in Place
        BY <2>2 DEF CreateSuccess, RemoveBackup, CopyBackup, RecoveryFails, RecoveryCreatesSuccess, Place
      <3> QED BY <1>1, <3>1 DEF TypeParts, PlaceType, DataType, HistoryType
    <2> QED BY <2>1, <2>2
  <1>6. HistoryType'
    BY <1>1, <1>5 DEF CreateSuccess, RemoveBackup, CopyBackup, RecoveryFails, RecoveryCreatesSuccess,
       TypeParts, HistoryType
  <1> QED BY <1>2, <1>3, <1>4, <1>5, <1>6, PartsOfNextType DEF TypeParts

LEMMA TypeEdit ==
  ASSUME TypeOK, Edit
  PROVE  TypeOK'
  <1>1. TypeParts
    BY PartsOfType
  <1>2. PICK p \in Editable : Modify(p) \/ Remove(p)
    BY DEF Edit
  <1>3. p \in Path /\ newest[p] \in Nat /\ MaxVersion \in Nat
    BY <1>1, RecoveryAssumption DEF TypeParts, UsersType
  <1>4. UsersType'
    <2>1. dest' = dest
      BY DEF Edit
    <2>2. CASE Modify(p)
      <3>1. newest[p] + 1 \in Version /\ newest[p] + 1 \in 0 .. MaxVersion
        BY <1>3, <2>2 DEF Modify, Version
      <3> QED BY <1>1, <2>1, <2>2, <3>1 DEF Modify, TypeParts, UsersType
    <2>3. CASE Remove(p)
      BY <1>1, <2>1, <2>3 DEF Remove, TypeParts, UsersType
    <2> QED BY <1>2, <2>2, <2>3
  <1>5. DirectoryType' /\ BackupType' /\ PlaceType' /\ DataType' /\ HistoryType'
    BY <1>1 DEF Edit, disk, process, history, TypeParts, DirectoryType, BackupType, PlaceType,
       DataType, HistoryType
  <1> QED BY <1>4, <1>5, PartsOfNextType DEF TypeParts

LEMMA TypeStep ==
  ASSUME TypeOK, StagesInv, [Next]_vars
  PROVE  TypeOK'
  <1>1. CASE UNCHANGED vars
    <2>1. TypeParts
      BY PartsOfType
    <2>2. UNCHANGED <<src, newest, dest, disk, backup, pc, process, history>>
      BY <1>1 DEF vars, users
    <2>3. TypeParts'
      BY <2>1, <2>2 DEF disk, process, history, TypeParts, UsersType, DirectoryType, BackupType,
         PlaceType, DataType, HistoryType
    <2> QED BY <2>3, PartsOfNextType
  <1>2. CASE ProcessStep
    BY <1>2, TypeMain, TypeExit, TypeCopied, TypeCopy, TypeSource DEF ProcessStep
  <1>3. CASE Next
    BY <1>2, <1>3, TypeEdit, TypeStart, TypeEnd, TypeCopy DEF Next, Starts
  <1> QED BY <1>1, <1>3


-----------------------------------------------------------------------------
(* How far a process is. *)
Control == TypeOK /\ MarkInv /\ IDInv /\ Progress

LEMMA IDsApart ==
  ASSUME IDInv, ~indexLost, NEW s \in DOMAIN Index, NEW t \in DOMAIN Index, Index[s] = Index[t]
  PROVE  s = t
  BY DEF IDInv, Numbered

LEMMA FreshProgress ==
  ASSUME FreshProcess, pc' \in {"off", "decide"}
  PROVE  Progress'
  <1>1. QuietInv'
    BY DEF FreshProcess, QuietInv, NothingScanned
  <1>2. StagesInv'
    BY DEF FreshProcess, NoStage, StagesInv
  <1>3. OpenFileInv'
    BY DEF FreshProcess, OpenFileInv
  <1> QED BY <1>1, <1>2, <1>3 DEF Progress

(* A saved cache leaves those of other sources as they are. *)
LEMMA OthersKept ==
  ASSUME TypeOK, IDInv, ~indexLost, NEW s \in DOMAIN Index, NEW b,
         bin' = [bin EXCEPT ![index[s]] = b], UNCHANGED <<index, scanned>>,
         NEW t \in DOMAIN Index, t # s
  PROVE  bin'[Index[t]] = bin[Index[t]] /\ ToCopy(t)' = ToCopy(t)
  <1>1. Index[t] \in ID /\ Index[t] # Index[s] /\ index[s] = Index[s] /\ index[t] = Index[t]
    BY IDsApart, IndexType DEF TypeOK
  <1>2. bin'[Index[t]] = bin[Index[t]]
    BY <1>1 DEF TypeOK
  <1>3. Entries(index[t])' = Entries(index[t])
    BY <1>1, <1>2 DEF Entries
  <1>4. Fresh(t)' = Fresh(t)
    BY DEF Fresh, Part, Found
  <1> QED BY <1>2, <1>3, <1>4 DEF ToCopy

LEMMA ProgressSource ==
  ASSUME Control, NEW s \in Source, SourceStep(s)
  PROVE  Progress'
  <1>1. TypeOK /\ QuietInv /\ StagesInv /\ OpenFileInv /\ MarkInv /\ IDInv
    BY DEF Control, Progress
  <1> USE DEF disk, users, process, history, At, Become
  <1>2. CASE AddToIndex(s)
    <2>1. QuietInv' /\ OpenFileInv'
      BY <1>1, <1>2 DEF AddToIndex, QuietInv, OpenFileInv
    <2>2. /\ DOMAIN Index' = DOMAIN Index \cup {s}
          /\ \A t \in DOMAIN Index : index'[t] = index[t]
      <3>1. index' = IndexWith(s) /\ index' \in IndexFile /\ index' # Missing
        <4>1. index' \in IndexSet /\ index' = IndexWith(s)
          BY <1>1, <1>2, IndexWithType DEF AddToIndex
        <4> QED BY <4>1, RecoveryAssumption DEF IndexSet, IndexFile
      <3>2. Index' = index'
        BY <3>1 DEF Index
      <3>3. \A t \in DOMAIN Index : index[t] = Index[t]
        BY <1>1, IndexType DEF TypeOK
      <3> QED BY <1>1, <1>2, <3>1, <3>2, <3>3, IndexWithType DEF AddToIndex
    <2>3. \A t \in DOMAIN Index : ToCopy(t)' = ToCopy(t)
      BY <1>2, <2>2 DEF AddToIndex, ToCopy, Entries, Fresh, Part, Found
    <2>4. StagesInv'
      BY <1>1, <1>2, <2>2, <2>3 DEF AddToIndex, StagesInv
    <2> QED BY <2>1, <2>4 DEF Progress
  <1>3. CASE QueueCopies(s) \/ NothingToCopy(s)
    <2>1. /\ pc = "sync" /\ stage[s] = "index" /\ s \in DOMAIN Index
          /\ UNCHANGED <<pc, Index, bin, scanned, refused, failed, entries, current, open, index, indexLost>>
          /\ \/ stage' = [stage EXCEPT ![s] = "queued"] /\ todo' = todo \cup ToCopy(s)
             \/ stage' = [stage EXCEPT ![s] = "jobSave"] /\ todo' = todo /\ ToCopy(s) = {}
      BY <1>3 DEF QueueCopies, NothingToCopy, Index
    <2>2. \A p \in ToCopy(s) : p \in Path /\ SourceOf[p] = s
      <3>1. ASSUME NEW p \in ToCopy(s) PROVE p \in Path /\ SourceOf[p] = s
        BY ToCopyIs
      <3> QED BY <3>1
    <2>3. \A t \in Source : ToCopy(t)' = ToCopy(t)
      BY <2>1 DEF ToCopy, Entries, Fresh, Part, Found
    <2>4. QuietInv' /\ OpenFileInv'
      BY <1>1, <2>1 DEF QuietInv, OpenFileInv
    <2>5. \A p \in todo \cup refused : SourceOf[p] # s /\ SourceOf[p] \in Source
      BY <1>1, <2>1, RecoveryAssumption DEF StagesInv, TypeOK
    <2>6. stage \in [Source -> Stage]
      BY <1>1 DEF MarkInv
    <2>7. StagesInv'
      BY <1>1, <2>1, <2>2, <2>3, <2>5, <2>6 DEF StagesInv
    <2> QED BY <2>4, <2>7 DEF Progress
  <1>4. CASE SaveUnchanged(s)
    <2>1. /\ pc = "sync" /\ stage[s] = "jobSave" /\ s \in DOMAIN Index
          /\ stage' = [stage EXCEPT ![s] = "done"]
          /\ bin' = [bin EXCEPT ![index[s]] = WholeBin(Refreshed(s))]
          /\ UNCHANGED <<pc, Index, scanned, refused, failed, entries, current, open, index, indexLost, todo>>
      BY <1>1, <1>4 DEF SaveUnchanged, Index, StagesInv
    <2>2. QuietInv' /\ OpenFileInv'
      BY <1>1, <2>1 DEF QuietInv, OpenFileInv
    <2>3. \A p \in todo \cup refused : SourceOf[p] # s /\ SourceOf[p] \in Source
      BY <1>1, <2>1, RecoveryAssumption DEF StagesInv, TypeOK
    <2>4. ~indexLost => \A t \in DOMAIN Index \ {s} : ToCopy(t)' = ToCopy(t)
      BY <1>1, <2>1, OthersKept
    <2>5. stage \in [Source -> Stage]
      BY <1>1 DEF MarkInv
    <2>6. StagesInv'
      BY <1>1, <2>1, <2>3, <2>4, <2>5 DEF StagesInv
    <2> QED BY <2>2, <2>6 DEF Progress
  <1>5. CASE TakeTask(s)
    <2>1. /\ pc = "sync" /\ stage[s] = "queued" /\ current = NoSource /\ current' = s
          /\ stage' = [stage EXCEPT ![s] = "copy"]
          /\ UNCHANGED <<pc, Index, bin, scanned, refused, entries, open, index, indexLost, todo>>
      BY <1>5 DEF TakeTask, Index
    <2>2. open = NoFile
      BY <1>1, <2>1 DEF MarkInv, OpenInv
    <2>3. QuietInv' /\ OpenFileInv'
      BY <1>1, <2>1, <2>2 DEF QuietInv, OpenFileInv
    <2>4. \A t \in Source : ToCopy(t)' = ToCopy(t) /\ stage[t] \notin {"copy", "save"}
      BY <1>1, <2>1, RecoveryAssumption DEF ToCopy, Entries, Fresh, Part, Found, StagesInv
    <2>5. \A p \in todo \cup refused : SourceOf[p] \in Source
      BY <1>1, RecoveryAssumption DEF TypeOK
    <2>6. stage \in [Source -> Stage]
      BY <1>1 DEF MarkInv
    <2>7. StagesInv'
      BY <1>1, <2>1, <2>4, <2>5, <2>6 DEF StagesInv
    <2> QED BY <2>3, <2>7 DEF Progress
  <1>6. CASE RecoverySkips(s) \/ RecoverSource(s)
    <2>1. /\ pc = "recover" /\ stage[s] = "pending" /\ s \in DOMAIN Index
          /\ UNCHANGED <<Index, entries, open, refused>> /\ open = NoFile
      BY <1>1, <1>6 DEF RecoverySkips, RecoverSource, Index, StagesInv, MarkInv, OpenInv
    <2>2. stage \in [Source -> Stage]
      BY <1>1 DEF MarkInv
    <2>3. CASE RecoverySkips(s)
      <3>1. /\ pc' = "recover" /\ stage' = [stage EXCEPT ![s] = "done"]
            /\ UNCHANGED <<todo, scanned, current>>
        BY <2>3 DEF RecoverySkips
      <3>2. QuietInv' /\ OpenFileInv' /\ StagesInv'
        BY <1>1, <2>1, <2>2, <3>1 DEF QuietInv, OpenFileInv, StagesInv
      <3> QED BY <3>2 DEF Progress
    <2>4. CASE RecoverSource(s)
      <3>1. pc' = "recoverCopy" /\ current' = s /\ UNCHANGED stage
        BY <2>4 DEF RecoverSource
      <3>2. QuietInv' /\ OpenFileInv' /\ StagesInv'
        BY <1>1, <2>1, <2>2, <3>1 DEF QuietInv, OpenFileInv, StagesInv
      <3> QED BY <3>2 DEF Progress
    <2> QED BY <1>6, <2>3, <2>4
  <1> QED BY <1>2, <1>3, <1>4, <1>5, <1>6 DEF SourceStep

LEMMA ProgressCopy ==
  ASSUME Control, FinishCopy \/ \E p \in Path : OpenDestination(p) \/ CopyRefused(p)
  PROVE  Progress'
  <1>1. TypeOK /\ QuietInv /\ StagesInv /\ OpenFileInv /\ MarkInv
    BY DEF Control, Progress
  <1> USE DEF disk, users, process, history
  <1>2. /\ UNCHANGED <<pc, Index, index, bin, scanned, stage, current, entries, indexLost>>
        /\ pc \in {"sync", "recoverCopy"} /\ todo' \subseteq todo
        /\ pc = "sync" => stage[current] = "copy" /\ current \in Source
    BY <1>1, RecoveryAssumption
       DEF FinishCopy, OpenDestination, CopyRefused, Copying, CopyingNow, At, Index, MarkInv, OpenInv
  <1>3. \A t \in Source : ToCopy(t)' = ToCopy(t)
    BY <1>2 DEF ToCopy, Entries, Fresh, Part, Found
  <1>4. QuietInv'
    BY <1>1, <1>2 DEF QuietInv
  <1>5. ASSUME NEW p \in Path, CopyRefused(p) PROVE Progress'
    <2>1. /\ open = NoFile /\ UNCHANGED open /\ refused' = refused \cup {p}
          /\ pc = "sync" => failed' = TRUE /\ SourceOf[p] = current
      BY <1>2, <1>5 DEF CopyRefused, Copying, Copies, FilesOf
    <2>2. OpenFileInv'
      BY <2>1 DEF OpenFileInv
    <2>3. StagesInv'
      BY <1>1, <1>2, <1>3, <2>1 DEF StagesInv
    <2> QED BY <1>4, <2>2, <2>3 DEF Progress
  <1>6. ASSUME NEW p \in Path, OpenDestination(p) PROVE Progress'
    <2>1. /\ open' = [path |-> p, version |-> src[p]] /\ p \in todo /\ UNCHANGED <<todo, refused, failed>>
          /\ pc = "sync" => SourceOf[p] = current
      BY <1>2, <1>6 DEF OpenDestination, Copying, Copies, FilesOf
    <2>2. OpenFileInv'
      BY <1>2, <2>1 DEF OpenFileInv
    <2>3. StagesInv'
      BY <1>1, <1>2, <1>3, <2>1 DEF StagesInv
    <2> QED BY <1>4, <2>2, <2>3 DEF Progress
  <1>7. CASE FinishCopy
    <2>1. UNCHANGED <<refused, failed>> /\ open' = NoFile
      BY <1>7 DEF FinishCopy
    <2>2. OpenFileInv'
      BY <2>1 DEF OpenFileInv
    <2>3. StagesInv'
      BY <1>1, <1>2, <1>3, <2>1 DEF StagesInv
    <2> QED BY <1>4, <2>2, <2>3 DEF Progress
  <1> QED BY <1>5, <1>6, <1>7


LEMMA ProgressCopied ==
  ASSUME Control, GiveUpSource \/ MarkCopied \/ SaveCopied \/ RecoveryMarksCopied
  PROVE  Progress'
  <1>1. TypeOK /\ QuietInv /\ StagesInv /\ OpenFileInv /\ MarkInv /\ IDInv
    BY DEF Control, Progress
  <1> USE DEF disk, users, process, history, At, Become
  <1>2. /\ stage \in [Source -> Stage] /\ current \in Source /\ open = NoFile
        /\ UNCHANGED <<Index, index, open, scanned, todo, refused, indexLost, failed>>
    BY <1>1 DEF GiveUpSource, MarkCopied, SaveCopied, RecoveryMarksCopied, CopiesDone, CopyingNow,
       Index, MarkInv, OpenInv
  <1>3. OpenFileInv'
    BY <1>2 DEF OpenFileInv
  <1>4. \A p \in todo \cup refused : p \in Path /\ SourceOf[p] \in Source
    BY <1>1, RecoveryAssumption DEF TypeOK
  <1>5. CASE GiveUpSource
    <2>1. /\ pc = "sync" /\ stage[current] = "copy" /\ todo \cap FilesOf(current) = {}
          /\ stage' = [stage EXCEPT ![current] = "done"] /\ current' = NoSource
          /\ UNCHANGED <<pc, bin, entries>>
      BY <1>5 DEF GiveUpSource, CopiesDone, CopyingNow, Copies
    <2>2. \A p \in todo : SourceOf[p] # current
      BY <1>4, <2>1 DEF FilesOf
    <2>3. \A t \in Source : ToCopy(t)' = ToCopy(t)
      BY <1>2, <2>1 DEF ToCopy, Entries, Fresh, Part, Found
    <2>4. QuietInv'
      BY <1>1, <1>2, <2>1 DEF QuietInv
    <2>5. StagesInv'
      BY <1>1, <1>2, <1>4, <2>1, <2>2, <2>3 DEF StagesInv
    <2> QED BY <1>3, <2>4, <2>5 DEF Progress
  <1>6. CASE MarkCopied
    <2>1. /\ pc = "sync" /\ stage[current] = "copy" /\ todo \cap FilesOf(current) = {} /\ ~failed
          /\ stage' = [stage EXCEPT ![current] = "save"] /\ current' = current
          /\ UNCHANGED <<pc, bin, entries>>
      BY <1>6 DEF MarkCopied, CopiesDone, CopyingNow, Copies
    <2>2. /\ \A p \in todo : SourceOf[p] # current
          /\ \A p \in refused : SourceOf[p] # current
      BY <1>1, <1>4, <2>1 DEF FilesOf, StagesInv
    <2>3. \A t \in Source : ToCopy(t)' = ToCopy(t)
      BY <1>2, <2>1 DEF ToCopy, Entries, Fresh, Part, Found
    <2>4. QuietInv'
      BY <1>1, <1>2, <2>1 DEF QuietInv
    <2>5. StagesInv'
      BY <1>1, <1>2, <1>4, <2>1, <2>2, <2>3 DEF StagesInv
    <2> QED BY <1>3, <2>4, <2>5 DEF Progress
  <1>7. CASE SaveCopied
    <2>1. /\ pc = "sync" /\ stage[current] = "save" /\ current \in DOMAIN Index
          /\ stage' = [stage EXCEPT ![current] = "done"] /\ current' = NoSource
          /\ bin' = [bin EXCEPT ![index[current]] = WholeBin(EntriesAfter)]
          /\ entries' = EntriesAfter /\ pc' = pc
      BY <1>1, <1>2, <1>7 DEF SaveCopied, StagesInv
    <2>2. \A p \in todo : SourceOf[p] # current
      BY <1>1, <2>1 DEF StagesInv
    <2>3. ~indexLost => \A t \in DOMAIN Index \ {current} : ToCopy(t)' = ToCopy(t)
      BY <1>1, <1>2, <2>1, OthersKept
    <2>4. \A p \in DOMAIN EntriesAfter : scanned[p] # Absent
      <3>1. ASSUME NEW p \in DOMAIN EntriesAfter PROVE p \in DOMAIN Fresh(current) \/ p \in DOMAIN entries
        BY RefreshIs DEF EntriesAfter
      <3>2. \A p \in DOMAIN Fresh(current) : scanned[p] # Absent
        BY FreshIs
      <3>3. \A p \in DOMAIN entries : scanned[p] # Absent
        BY <1>1, <2>1 DEF StagesInv
      <3> QED BY <3>1, <3>2, <3>3
    <2>5. QuietInv'
      BY <1>1, <1>2, <2>1 DEF QuietInv
    <2>6. StagesInv'
      BY <1>1, <1>2, <1>4, <2>1, <2>2, <2>3, <2>4 DEF StagesInv
    <2> QED BY <1>3, <2>5, <2>6 DEF Progress
  <1>8. CASE RecoveryMarksCopied
    <2>1. /\ pc = "recoverCopy" /\ todo = {} /\ pc' = "recover"
          /\ stage' = [stage EXCEPT ![current] = "done"] /\ UNCHANGED entries
      BY <1>8 DEF RecoveryMarksCopied, CopiesDone, Copies
    <2>2. QuietInv' /\ StagesInv'
      BY <1>1, <1>2, <2>1 DEF QuietInv, StagesInv
    <2> QED BY <1>3, <2>2 DEF Progress
  <1> QED BY <1>5, <1>6, <1>7, <1>8

LEMMA ProgressMain ==
  ASSUME Control,
         \/ BeginRun \/ RemoveSuccess \/ CreateFailure \/ ScanSources \/ ResetCopiedFlags
         \/ SyncDone \/ RemoveFailure \/ RemoveBackup \/ BeginRecovery \/ RecoverySucceeds
  PROVE  Progress'
  <1>1. TypeOK /\ QuietInv /\ StagesInv /\ OpenFileInv /\ MarkInv
    BY DEF Control, Progress
  <1> USE DEF disk, users, process, history
  <1>2. open' = NoFile /\ UNCHANGED <<Index, todo, refused, entries>> /\ todo = {}
    <2>1. CASE SyncDone
      <3>1. todo = {}
        BY <1>1, <2>1, RecoveryAssumption DEF SyncDone, StagesInv, TypeOK
      <3> QED BY <1>1, <2>1, <3>1 DEF SyncDone, Index, OpenFileInv
    <2>2. CASE ~SyncDone
      BY <1>1, <2>2 DEF BeginRun, RemoveSuccess, CreateFailure, ScanSources, ResetCopiedFlags,
         RemoveFailure, RemoveBackup, BeginRecovery, RecoverySucceeds, Index, QuietInv, OpenFileInv
    <2> QED BY <2>1, <2>2
  <1>3. OpenFileInv'
    BY <1>2 DEF OpenFileInv
  <1>4. CASE ResetCopiedFlags
    <2>1. /\ pc = "reset" /\ pc' = "sync" /\ refused = {} /\ entries = EmptyCache
          /\ stage' = [s \in Source |-> IF s \in config THEN "index" ELSE "done"]
      BY <1>1, <1>4 DEF ResetCopiedFlags, QuietInv
    <2>2. QuietInv' /\ StagesInv'
      BY <1>2, <2>1, EmptyIsCache DEF QuietInv, StagesInv
    <2> QED BY <1>3, <2>2 DEF Progress
  <1>5. CASE BeginRecovery
    <2>1. /\ pc' = "recover" /\ stage' = [s \in Source |-> IF s \in PendingSources THEN "pending" ELSE "done"]
          /\ PendingSources \subseteq DOMAIN Index
      BY <1>5 DEF BeginRecovery, PendingSources
    <2>2. QuietInv' /\ StagesInv'
      BY <1>2, <2>1 DEF QuietInv, StagesInv
    <2> QED BY <1>3, <2>2 DEF Progress
  <1>6. CASE ~ResetCopiedFlags /\ ~BeginRecovery
    <2>1. /\ UNCHANGED stage /\ pc' \notin {"sync", "recover", "recoverCopy", "off", "decide"}
          /\ pc' \in {"removeSuccess", "createFailure", "scan"} =>
               pc \in {"decide", "removeSuccess", "createFailure"} /\ UNCHANGED scanned
          /\ pc' = "reset" => pc = "scan"
      BY <1>6 DEF BeginRun, RemoveSuccess, CreateFailure, ScanSources, SyncDone, RemoveFailure,
         RemoveBackup, RecoverySucceeds
    <2>2. QuietInv'
      BY <1>1, <1>2, <2>1 DEF QuietInv, NothingScanned
    <2>3. StagesInv'
      BY <1>1, <1>2, <2>1 DEF StagesInv
    <2> QED BY <1>3, <2>2, <2>3 DEF Progress
  <1> QED BY <1>4, <1>5, <1>6

LEMMA ProgressStep ==
  ASSUME Control, [Next]_vars
  PROVE  Progress'
  <1> USE DEF Control, Progress
  <1>1. ASSUME UNCHANGED <<index, bin, pc, process, indexLost>> PROVE Progress'
    <2>1. UNCHANGED Index /\ \A t \in Source : ToCopy(t)' = ToCopy(t)
      BY <1>1 DEF process, Index, ToCopy, Entries, Fresh, Part, Found
    <2>2. QuietInv' /\ OpenFileInv'
      BY <1>1 DEF process, QuietInv, NothingScanned, OpenFileInv
    <2>3. StagesInv'
      BY <1>1, <2>1 DEF process, StagesInv
    <2> QED BY <2>2, <2>3
  <1>2. CASE Edit \/ UNCHANGED vars
    BY <1>1, <1>2 DEF Edit, vars, disk, history
  <1>3. CASE Starts \/ Kill \/ Abort
    BY <1>3, FreshProgress DEF Starts, Start, Kill, Abort, Exit
  <1>4. CASE CreateSuccess \/ CopyBackup \/ RecoveryFails \/ RecoveryCreatesSuccess
    <2>1. CASE Exit
      BY <2>1, FreshProgress DEF Exit
    <2>2. CASE ~Exit
      <3>1. /\ pc = "createSuccess" /\ pc' = "removeBackup"
            /\ UNCHANGED process /\ UNCHANGED <<index, bin, indexLost>>
        BY <1>4, <2>2 DEF CreateSuccess, CopyBackup, RecoveryFails, RecoveryCreatesSuccess, history
      <3>2. QuietInv' /\ OpenFileInv'
        BY <3>1 DEF process, QuietInv, OpenFileInv
      <3>3. StagesInv'
        BY <3>1 DEF process, StagesInv, Index
      <3> QED BY <3>2, <3>3
    <2> QED BY <2>1, <2>2
  <1>5. CASE ProcessStep
    BY <1>4, <1>5, ProgressMain, ProgressCopied, ProgressCopy, ProgressSource DEF ProcessStep
  <1> QED BY <1>2, <1>3, <1>5, ProgressCopy DEF Next

LEMMA ControlStep == Control /\ [Next]_vars => Control'
  BY TypeStep, MarkInvStep, IDInvStep, ProgressStep DEF Control, Progress

LEMMA ControlInit == Init => Control
  <1> SUFFICES ASSUME Init PROVE Control
    OBVIOUS
  <1>1. IDInv
    BY EmptyNumbered DEF Init, IDInv, Index
  <1>2. QuietInv /\ OpenFileInv
    BY DEF Init, QuietInv, OpenFileInv, NothingScanned
  <1>3. StagesInv
    BY DEF Init, StagesInv, NoStage
  <1> QED BY <1>1, <1>2, <1>3, TypeInit, MarkInvInit DEF Control, Progress

(* Every variable keeps its type, whatever ends a process: in particular    *)
(* the ID of a new source, the number of entries of Index.bin plus one,     *)
(* never exceeds the number of sources, and the files that a kill leaves    *)
(* can be read by the next process.                                         *)
THEOREM TypeCorrect == Spec => []TypeOK
  <1>1. Control => TypeOK
    BY DEF Control
  <1> QED BY ControlInit, ControlStep, <1>1, PTL DEF Spec


-----------------------------------------------------------------------------
(* What a step may do to the files of the directory.  What a thread of s is *)
(* about to save:                                                           *)
Saved(s) == IF stage[s] = "save" THEN EntriesAfter ELSE Refreshed(s)

Saving(s) == pc = "sync" /\ stage[s] \in {"save", "jobSave"}

LEMMA SaysTorn ==
  ASSUME NEW c, NEW b \in TornBin(c), NEW p, NEW v, Says(b, p, v)
  PROVE  p \in DOMAIN c /\ c[p].hash = v
  <1>1. CASE b = WholeBin(c)
    <2>1. b.entries = c
      BY <1>1 DEF WholeBin
    <2> QED BY <2>1 DEF Says
  <1>2. CASE b # WholeBin(c)
    <2>1. PICK S \in SUBSET DOMAIN c, w \in BOOLEAN : b = [entries |-> Part(c, S), whole |-> w]
      BY <1>2 DEF TornBin
    <2>2. b.entries = Part(c, S)
      BY <2>1
    <2>3. DOMAIN b.entries = S /\ \A q \in S : b.entries[q] = c[q]
      BY <2>2 DEF Part
    <2> QED BY <2>3 DEF Says
  <1> QED BY <1>1, <1>2

(* It says what was scanned, and else what the cache said before. *)
LEMMA SavedIs ==
  ASSUME Control, NEW s \in Source, Saving(s), NEW p \in DOMAIN Saved(s)
  PROVE  \/ /\ p \in Path /\ SourceOf[p] = s /\ scanned[p] # Absent
            /\ Saved(s)[p].hash = scanned[p]
         \/ /\ p \in Path => SourceOf[p] # s \/ scanned[p] = Absent
            /\ \/ stage[s] = "save" /\ p \in DOMAIN entries /\ Saved(s)[p].hash = entries[p].hash
               \/ /\ stage[s] = "jobSave" /\ p \in DOMAIN Entries(index[s])
                  /\ Saved(s)[p].hash = Entries(index[s])[p].hash
  <1>1. /\ DOMAIN Fresh(s) = {q \in Path : SourceOf[q] = s /\ scanned[q] # Absent}
        /\ \A q \in DOMAIN Fresh(s) : Fresh(s)[q] = scanned[q]
    BY FreshIs
  <1>2. CASE stage[s] = "save"
    <2>1. current = s
      BY <1>2 DEF Control, Progress, StagesInv, Saving
    <2>2. Saved(s) = Refresh(entries, Fresh(s), MaxMiss)
      BY <1>2, <2>1 DEF Saved, EntriesAfter
    <2>3. \/ p \in DOMAIN Fresh(s) /\ Saved(s)[p].hash = Fresh(s)[p]
          \/ p \in DOMAIN entries \ DOMAIN Fresh(s) /\ Saved(s)[p].hash = entries[p].hash
      BY <2>2, RefreshIs
    <2> QED BY <1>1, <1>2, <2>3
  <1>3. CASE stage[s] = "jobSave"
    <2>1. Saved(s) = Refresh(CacheOf(s), Fresh(s), MaxMiss)
      BY <1>3 DEF Saved, Refreshed
    <2>2. DOMAIN CacheOf(s) = DOMAIN Entries(index[s])
      BY DEF CacheOf, MarkVisited
    <2>3. \A q \in DOMAIN CacheOf(s) : CacheOf(s)[q].hash = Entries(index[s])[q].hash
      BY DEF CacheOf, MarkVisited, Entry
    <2>4. \/ p \in DOMAIN Fresh(s) /\ Saved(s)[p].hash = Fresh(s)[p]
          \/ p \in DOMAIN CacheOf(s) \ DOMAIN Fresh(s) /\ Saved(s)[p].hash = CacheOf(s)[p].hash
      BY <2>1, RefreshIs
    <2> QED BY <1>1, <1>3, <2>2, <2>3, <2>4
  <1> QED BY <1>2, <1>3 DEF Saving

LEMMA BinStep ==
  ASSUME Control, [Next]_vars, NEW i \in ID
  PROVE  \/ bin'[i] = bin[i]
         \/ backup # Missing /\ bin'[i] = backup.bin[i] /\ FreshProcess
         \/ \E s \in DOMAIN Index : /\ index[s] = i /\ Saving(s)
                                    /\ bin'[i] \in TornBin(Saved(s))
  <1> USE DEF disk, users, process, history
  <1>1. ASSUME UNCHANGED bin PROVE bin'[i] = bin[i]
    BY <1>1
  <1>2. bin = [j \in ID |-> bin[j]]
    BY DEF Control, TypeOK
  <1>3. ASSUME bin' \in BinsLeft
        PROVE  \/ bin'[i] = bin[i]
               \/ \E s \in DOMAIN Index : index[s] = i /\ Saving(s) /\ bin'[i] \in TornBin(Saved(s))
    <2>1. bin'[i] \in BinLeft(i)
      BY <1>3 DEF BinsLeft
    <2>2. ASSUME bin'[i] # bin[i]
          PROVE  \E s \in DOMAIN Index : index[s] = i /\ Saving(s) /\ bin'[i] \in TornBin(Saved(s))
      <3>1. PICK s \in Writing(i) : bin'[i] \in TornBin(IF stage[s] = "save" THEN EntriesAfter ELSE Refreshed(s))
        BY <2>1, <2>2 DEF BinLeft
      <3>2. s \in Source /\ Saving(s) /\ index[s] = i
        BY <3>1 DEF Writing, At, Saving
      <3>3. s \in DOMAIN Index
        BY <3>2 DEF Saving, Control, Progress, StagesInv
      <3> QED BY <3>1, <3>2, <3>3 DEF Saved
    <2> QED BY <2>2
  <1>4. ASSUME NEW s \in Source, Saving(s), bin' = [bin EXCEPT ![index[s]] = WholeBin(Saved(s))]
        PROVE  \/ bin'[i] = bin[i]
               \/ \E t \in DOMAIN Index : index[t] = i /\ Saving(t) /\ bin'[i] \in TornBin(Saved(t))
    <2>1. s \in DOMAIN Index
      BY <1>4 DEF Saving, Control, Progress, StagesInv
    <2>2. WholeBin(Saved(s)) \in TornBin(Saved(s))
      BY DEF TornBin
    <2>3. CASE index[s] = i
      <3>1. bin'[i] = WholeBin(Saved(s))
        BY <1>2, <1>4, <2>3
      <3> QED BY <1>4, <2>1, <2>2, <2>3, <3>1
    <2>4. CASE index[s] # i
      BY <1>2, <1>4, <2>4
    <2> QED BY <2>3, <2>4
  <1>5. ASSUME NEW c \in Configs, Start(c)
        PROVE  bin'[i] = bin[i] \/ (backup # Missing /\ bin'[i] = backup.bin[i] /\ FreshProcess)
    BY <1>5 DEF Start, RestoreBackup
  <1>6. CASE SaveCopied
    <2>1. Saving(current) /\ current \in Source /\ Saved(current) = EntriesAfter
      BY <1>6 DEF SaveCopied, At, Saving, Saved, Control, MarkInv
    <2> QED BY <1>4, <1>6, <2>1 DEF SaveCopied
  <1>7. ASSUME NEW s \in Source, SaveUnchanged(s)
        PROVE  \/ bin'[i] = bin[i]
               \/ \E t \in DOMAIN Index : index[t] = i /\ Saving(t) /\ bin'[i] \in TornBin(Saved(t))
    <2>1. Saving(s) /\ Saved(s) = Refreshed(s)
      BY <1>7 DEF SaveUnchanged, At, Saving, Saved
    <2> QED BY <1>4, <1>7, <2>1 DEF SaveUnchanged
  <1>8. ASSUME NEW s \in Source, SourceStep(s), ~SaveUnchanged(s) PROVE bin'[i] = bin[i]
    BY <1>8 DEF SourceStep, AddToIndex, QueueCopies, NothingToCopy, TakeTask, RecoverySkips, RecoverSource
  <1>9. ASSUME \/ BeginRun \/ RemoveSuccess \/ CreateFailure \/ ScanSources \/ ResetCopiedFlags
               \/ FinishCopy \/ GiveUpSource \/ MarkCopied \/ SyncDone
               \/ \E p \in Path : OpenDestination(p) \/ CopyRefused(p)
        PROVE  bin'[i] = bin[i]
    BY <1>9 DEF BeginRun, RemoveSuccess, CreateFailure, ScanSources, ResetCopiedFlags,
         FinishCopy, GiveUpSource, MarkCopied, SyncDone, OpenDestination, CopyRefused
  <1>10. ASSUME \/ RemoveFailure \/ CreateSuccess \/ RemoveBackup \/ CopyBackup \/ BeginRecovery
                \/ RecoveryFails \/ RecoveryMarksCopied \/ RecoverySucceeds \/ RecoveryCreatesSuccess
         PROVE  bin'[i] = bin[i]
    BY <1>10 DEF RemoveFailure, CreateSuccess, RemoveBackup, CopyBackup, BeginRecovery,
         RecoveryFails, RecoveryMarksCopied, RecoverySucceeds, RecoveryCreatesSuccess
  <1>11. CASE Kill \/ Abort
    BY <1>3, <1>11 DEF Kill, Abort
  <1>12. CASE Edit \/ UNCHANGED vars
    BY <1>12 DEF Edit, vars
  <1>13. CASE ProcessStep
    BY <1>6, <1>7, <1>8, <1>9, <1>10, <1>13 DEF ProcessStep
  <1> QED BY <1>5, <1>9, <1>11, <1>12, <1>13 DEF Next, Starts

LEMMA BackupStep ==
  ASSUME [Next]_vars
  PROVE  backup' \in {backup, Missing} \/ (backup'.bin = bin /\ backup'.index = index)
  <1> USE DEF disk, users, process, history
  <1>1. CASE RemoveBackup \/ CopyBackup
    BY <1>1 DEF RemoveBackup, CopyBackup
  <1>2. ASSUME NEW s \in Source, SourceStep(s) PROVE backup' = backup
    BY <1>2 DEF SourceStep, AddToIndex, QueueCopies, NothingToCopy, SaveUnchanged, TakeTask,
         RecoverySkips, RecoverSource
  <1>3. ASSUME \/ BeginRun \/ RemoveSuccess \/ CreateFailure \/ ScanSources \/ ResetCopiedFlags
               \/ FinishCopy \/ GiveUpSource \/ MarkCopied \/ SaveCopied \/ SyncDone
               \/ \E p \in Path : OpenDestination(p) \/ CopyRefused(p)
        PROVE  backup' = backup
    BY <1>3 DEF BeginRun, RemoveSuccess, CreateFailure, ScanSources, ResetCopiedFlags,
         FinishCopy, GiveUpSource, MarkCopied, SaveCopied, SyncDone, OpenDestination, CopyRefused
  <1>4. ASSUME \/ RemoveFailure \/ CreateSuccess \/ BeginRecovery
               \/ RecoveryFails \/ RecoveryMarksCopied \/ RecoverySucceeds \/ RecoveryCreatesSuccess
        PROVE  backup' = backup
    BY <1>4 DEF RemoveFailure, CreateSuccess, BeginRecovery,
         RecoveryFails, RecoveryMarksCopied, RecoverySucceeds, RecoveryCreatesSuccess
  <1>5. ASSUME Kill \/ Abort \/ Edit \/ Starts \/ UNCHANGED vars PROVE backup' = backup
    BY <1>5 DEF Kill, Abort, Edit, Starts, Start, vars
  <1>6. CASE ProcessStep
    BY <1>1, <1>2, <1>3, <1>4, <1>6 DEF ProcessStep
  <1> QED BY <1>3, <1>5, <1>6 DEF Next

LEMMA IndexStep ==
  ASSUME [Next]_vars
  PROVE  \/ UNCHANGED <<index, indexLost>>
         \/ (\E s \in Source : AddToIndex(s)) /\ UNCHANGED indexLost
         \/ NoteLoss /\ index' \in IndexLeft
         \/ NoteLoss /\ backup # Missing /\ backup.index # Missing /\ index' = backup.index
         \/ NoteLoss /\ UNCHANGED index
  <1> USE DEF disk, users, process, history
  <1>1. ASSUME NEW s \in Source, SourceStep(s)
        PROVE  UNCHANGED indexLost /\ (AddToIndex(s) \/ UNCHANGED index)
    BY <1>1 DEF SourceStep, AddToIndex, QueueCopies, NothingToCopy, SaveUnchanged, TakeTask,
         RecoverySkips, RecoverSource
  <1>2. ASSUME \/ BeginRun \/ RemoveSuccess \/ CreateFailure \/ ScanSources \/ ResetCopiedFlags
               \/ FinishCopy \/ GiveUpSource \/ MarkCopied \/ SaveCopied \/ SyncDone
               \/ \E p \in Path : OpenDestination(p) \/ CopyRefused(p)
        PROVE  UNCHANGED <<index, indexLost>>
    BY <1>2 DEF BeginRun, RemoveSuccess, CreateFailure, ScanSources, ResetCopiedFlags,
         FinishCopy, GiveUpSource, MarkCopied, SaveCopied, SyncDone, OpenDestination, CopyRefused
  <1>3. ASSUME \/ RemoveFailure \/ CreateSuccess \/ RemoveBackup \/ CopyBackup \/ BeginRecovery
               \/ RecoveryFails \/ RecoveryMarksCopied \/ RecoverySucceeds \/ RecoveryCreatesSuccess
        PROVE  UNCHANGED <<index, indexLost>>
    BY <1>3 DEF RemoveFailure, CreateSuccess, RemoveBackup, CopyBackup, BeginRecovery,
         RecoveryFails, RecoveryMarksCopied, RecoverySucceeds, RecoveryCreatesSuccess
  <1>4. CASE Kill \/ Abort
    BY <1>4 DEF Kill, Abort
  <1>5. CASE Starts
    BY <1>5 DEF Starts, Start, RestoreBackup
  <1>6. CASE Edit \/ UNCHANGED vars
    BY <1>6 DEF Edit, vars
  <1>7. CASE ProcessStep
    BY <1>1, <1>2, <1>3, <1>7 DEF ProcessStep
  <1> QED BY <1>2, <1>4, <1>5, <1>6, <1>7 DEF Next

(* As long as no ID was lost, a source keeps its own. *)
LEMMA IndexGrows ==
  ASSUME Control, OwnersInv, [Next]_vars, ~indexLost'
  PROVE  ~indexLost /\ \A s \in DOMAIN Index : s \in DOMAIN Index' /\ Index'[s] = Index[s]
  <1>1. CASE UNCHANGED index
    <2>1. ~indexLost
      BY IndexStep DEF NoteLoss
    <2>2. Index' = Index
      BY <1>1 DEF Index
    <2> QED BY <2>1, <2>2
  <1>2. ASSUME NEW s \in Source, s \notin DOMAIN Index, ~indexLost, NEW S \in SUBSET DOMAIN IndexWith(s),
               index' = Part(IndexWith(s), S), DOMAIN Index \subseteq S
        PROVE  ~indexLost /\ \A t \in DOMAIN Index : t \in DOMAIN Index' /\ Index'[t] = Index[t]
    <2>1. /\ DOMAIN index' = S /\ \A t \in S : index'[t] = IndexWith(s)[t]
      BY <1>2 DEF Part
    <2>2. \A t \in DOMAIN Index : IndexWith(s)[t] = Index[t]
      BY <1>2, IndexWithType DEF Control
    <2>3. index' # Missing
      <3>1. Part(IndexWith(s), S) \in TornIndex(IndexWith(s))
        BY <1>2 DEF TornIndex
      <3> QED BY <1>2, <3>1, IndexWithType, RecoveryAssumption DEF Control, IndexSet
    <2> QED BY <1>2, <2>1, <2>2, <2>3 DEF Index
  <1>3. ASSUME NEW s \in Source, AddToIndex(s), UNCHANGED indexLost
        PROVE  ~indexLost /\ \A t \in DOMAIN Index : t \in DOMAIN Index' /\ Index'[t] = Index[t]
    <2>1. index' = IndexWith(s) /\ s \notin DOMAIN Index /\ ~indexLost
      BY <1>3 DEF AddToIndex
    <2>2. IndexWith(s) = Part(IndexWith(s), DOMAIN IndexWith(s)) /\ DOMAIN Index \subseteq DOMAIN IndexWith(s)
      BY DEF Part, IndexWith
    <2> HIDE DEF Index
    <2> QED BY <1>2, <2>1, <2>2
  <1>4. CASE NoteLoss /\ index = Missing
    BY <1>4 DEF NoteLoss, Index, EmptyCache
  <1>5. CASE NoteLoss /\ index # Missing /\ index' # index
    <2>1. DOMAIN index \subseteq DOMAIN index' /\ Index = index /\ ~indexLost
      BY <1>5 DEF NoteLoss, Index
    <2>2. CASE index' \in IndexLeft
      <3>1. PICK s \in Source : s \notin DOMAIN Index /\ index' \in TornIndex(IndexWith(s))
        BY <1>5, <2>2 DEF IndexLeft
      <3>2. PICK S \in SUBSET DOMAIN IndexWith(s) : index' = Part(IndexWith(s), S)
        BY <3>1 DEF TornIndex
      <3>3. DOMAIN index' = S
        BY <3>2 DEF Part
      <3> QED BY <1>2, <2>1, <3>1, <3>2, <3>3
    <2>3. CASE backup # Missing /\ backup.index # Missing /\ index' = backup.index
      <3>1. Index' = index'
        BY <2>3 DEF Index
      <3> QED BY <2>1, <2>3, <3>1 DEF OwnersInv
    <2> QED BY <1>5, <2>2, <2>3, IndexStep, <1>3
  <1> QED BY <1>1, <1>3, <1>4, <1>5, IndexStep


LEMMA OwnersStep ==
  ASSUME Control, OwnersInv, [Next]_vars
  PROVE  OwnersInv'
  <1> SUFFICES ASSUME ~indexLost' PROVE OwnersInv'
    BY DEF OwnersInv
  <1>1. ~indexLost /\ \A s \in DOMAIN Index : s \in DOMAIN Index' /\ Index'[s] = Index[s]
    BY IndexGrows
  <1>2. \A s \in DOMAIN Index : index # Missing /\ index[s] = Index[s]
    BY IndexType DEF Control, TypeOK
  <1>3. ASSUME NEW i \in ID, bin'[i] # Missing PROVE \E s \in DOMAIN Index' : Index'[s] = i
    <2>1. \E s \in DOMAIN Index : Index[s] = i
      BY <1>1, <1>2, <1>3, BinStep DEF OwnersInv
    <2> QED BY <1>1, <2>1
  <1>4. ASSUME backup' # Missing, NEW i \in ID, backup'.bin[i] # Missing
        PROVE  \E s \in DOMAIN Index' : Index'[s] = i
    <2>1. \E s \in DOMAIN Index : Index[s] = i
      BY <1>1, <1>4, BackupStep DEF OwnersInv
    <2> QED BY <1>1, <2>1
  <1>5. ASSUME backup' # Missing, backup'.index # Missing, NEW s \in DOMAIN backup'.index
        PROVE  s \in DOMAIN Index' /\ backup'.index[s] = Index'[s]
    <2>1. CASE backup' = backup
      BY <1>1, <1>5, <2>1 DEF OwnersInv
    <2>2. CASE backup'.index = index
      <3>1. Index = index
        BY <1>5, <2>2 DEF Index
      <3> QED BY <1>1, <2>2, <3>1
    <2> QED BY <1>5, <2>1, <2>2, BackupStep
  <1> QED BY <1>3, <1>4, <1>5 DEF OwnersInv

(* What a step may do to the data of a process and to the users' files. *)
LEMMA DataStep ==
  ASSUME Control, [Next]_vars
  PROVE  /\ \A p \in Path :
              \/ src'[p] = src[p] /\ newest'[p] = newest[p]
              \/ src'[p] = Absent /\ newest'[p] = newest[p]
              \/ src'[p] = newest[p] + 1 /\ newest'[p] = newest[p] + 1
         /\ \A p \in Path : scanned'[p] \in {scanned[p], src[p], Absent}
         /\ \/ open' \in {open, NoFile}
            \/ \E p \in Path : open' = [path |-> p, version |-> src[p]] /\ src[p] # Absent
         /\ \/ entries' \in {entries, EmptyCache}
            \/ current \in Source /\ Saving(current) /\ entries' = Saved(current)
  <1> USE DEF disk, users, process, history
  <1> DEFINE Goal == /\ scanned' = scanned \/ scanned' = NothingScanned
                     /\ open' \in {open, NoFile} /\ entries' \in {entries, EmptyCache}
  <1>1. ASSUME FreshProcess PROVE Goal
    BY <1>1 DEF FreshProcess
  <1>2. ASSUME UNCHANGED <<src, newest>>, Goal
        PROVE  /\ \A p \in Path : src'[p] = src[p] /\ newest'[p] = newest[p]
               /\ \A p \in Path : scanned'[p] \in {scanned[p], Absent}
               /\ open' \in {open, NoFile} /\ entries' \in {entries, EmptyCache}
    BY <1>2 DEF NothingScanned
  <1>3. CASE Edit
    <2>1. PICK p \in Editable : Modify(p) \/ Remove(p)
      BY <1>3 DEF Edit
    <2>2. src \in [Path -> Version \cup {Absent}] /\ newest \in [Path -> 0 .. MaxVersion] /\ p \in Path
      BY RecoveryAssumption DEF Control, TypeOK
    <2>3. \A q \in Path : \/ src'[q] = src[q] /\ newest'[q] = newest[q]
                          \/ src'[q] = Absent /\ newest'[q] = newest[q]
                          \/ src'[q] = newest[q] + 1 /\ newest'[q] = newest[q] + 1
      BY <2>1, <2>2 DEF Modify, Remove
    <2>4. UNCHANGED <<scanned, open, entries>>
      BY <1>3 DEF Edit
    <2> QED BY <2>3, <2>4
  <1>4. CASE UNCHANGED vars
    BY <1>2, <1>4 DEF vars
  <1>5. CASE Starts \/ Kill \/ Abort
    <2>1. FreshProcess /\ UNCHANGED <<src, newest>>
      BY <1>5 DEF Starts, Start, Kill, Abort, Exit
    <2> HIDE DEF Goal
    <2> QED BY <1>1, <1>2, <2>1
  <1>6. CASE CreateSuccess \/ CopyBackup \/ RecoveryFails \/ RecoveryCreatesSuccess
    <2>1. UNCHANGED <<src, newest>> /\ (FreshProcess \/ UNCHANGED process)
      BY <1>6 DEF CreateSuccess, CopyBackup, RecoveryFails, RecoveryCreatesSuccess, Exit
    <2>2. Goal
      BY <1>1, <2>1
    <2> HIDE DEF Goal
    <2> QED BY <1>2, <2>1, <2>2
  <1>7. CASE \/ BeginRun \/ RemoveSuccess \/ CreateFailure \/ ResetCopiedFlags
             \/ FinishCopy \/ GiveUpSource \/ MarkCopied \/ SyncDone
             \/ RemoveFailure \/ RemoveBackup \/ BeginRecovery \/ RecoveryMarksCopied \/ RecoverySucceeds
             \/ \E p \in Path : CopyRefused(p)
    <2>1. UNCHANGED <<src, newest, scanned, entries>> /\ open' \in {open, NoFile}
      BY <1>7 DEF BeginRun, RemoveSuccess, CreateFailure, ResetCopiedFlags, FinishCopy, GiveUpSource,
         MarkCopied, SyncDone, RemoveFailure, RemoveBackup, BeginRecovery, RecoveryMarksCopied,
         RecoverySucceeds, CopyRefused
    <2> HIDE DEF Goal
    <2> QED BY <2>1
  <1>8. ASSUME NEW p \in Path, OpenDestination(p)
        PROVE  /\ UNCHANGED <<src, newest, scanned, entries>> /\ src[p] # Absent
               /\ open' = [path |-> p, version |-> src[p]]
    BY <1>8 DEF OpenDestination
  <1>9. CASE ScanSources
    <2>1. \A p \in Path : scanned'[p] \in {src[p], Absent}
      BY <1>9 DEF ScanSources
    <2>2. UNCHANGED <<src, newest, open, entries>>
      BY <1>9 DEF ScanSources
    <2> QED BY <2>1, <2>2
  <1>10. CASE SaveCopied
    <2>1. /\ UNCHANGED <<src, newest, scanned, open>> /\ entries' = Saved(current)
          /\ Saving(current) /\ current \in Source
      BY <1>10 DEF SaveCopied, At, Saving, Saved, Control, MarkInv
    <2> QED BY <2>1
  <1>11. ASSUME NEW s \in Source, SourceStep(s)
         PROVE  /\ UNCHANGED <<src, newest, open, entries>>
                /\ \A p \in Path : scanned'[p] \in {scanned[p], src[p]}
    <2>1. CASE RecoverSource(s)
      BY <2>1 DEF RecoverSource
    <2>2. CASE ~RecoverSource(s)
      BY <1>11, <2>2 DEF SourceStep, AddToIndex, QueueCopies, NothingToCopy, SaveUnchanged, TakeTask,
         RecoverySkips
    <2> QED BY <2>1, <2>2
  <1>12. CASE ProcessStep
    BY <1>6, <1>7, <1>8, <1>9, <1>10, <1>11, <1>12 DEF ProcessStep
  <1> QED BY <1>3, <1>4, <1>5, <1>7, <1>12 DEF Next

LEMMA VersionsStep ==
  ASSUME Control, VersionsInv, [Next]_vars
  PROVE  VersionsInv'
  <1>1. TypeOK
    BY DEF Control
  <1>2. ASSUME NEW p \in Path PROVE newest[p] \in Nat /\ newest'[p] \in Nat /\ newest[p] <= newest'[p]
    <2>1. newest[p] \in Nat
      BY <1>1, RecoveryAssumption DEF TypeOK
    <2> QED BY <2>1, DataStep
  <1>3. \A v \in Version : v \in Nat
    BY RecoveryAssumption DEF Version
  (* What a cache about to be saved says is not newer, either. *)
  <1>4. ASSUME NEW s \in DOMAIN Index, s \in Source, Saving(s), NEW p \in Path, NEW v \in Version,
               p \in DOMAIN Saved(s), Saved(s)[p].hash = v
        PROVE  v <= newest[p]
    <2>1. CASE scanned[p] = v
      BY <1>4, <2>1, RecoveryAssumption DEF VersionsInv
    <2>2. CASE p \in DOMAIN entries /\ v = entries[p].hash
      BY <1>4, <2>2 DEF VersionsInv
    <2>3. CASE p \in DOMAIN Entries(index[s]) /\ v = Entries(index[s])[p].hash
      <3>1. index[s] \in ID
        BY <1>1, <1>4, IndexType DEF TypeOK
      <3>2. Says(bin[index[s]], p, v)
        BY <2>3 DEF Says, Entries, EmptyCache
      <3> QED BY <1>4, <3>1, <3>2 DEF VersionsInv
    <2> QED BY <1>4, <2>1, <2>2, <2>3, SavedIs
  <1>5. DOMAIN Index \subseteq Source
    BY <1>1, IndexType DEF TypeOK
  <1>6. ASSUME NEW p \in Path, NEW i \in ID, NEW v \in Version, Says(bin'[i], p, v)
        PROVE  v <= newest[p]
    <2>1. CASE bin'[i] = bin[i] \/ (backup # Missing /\ bin'[i] = backup.bin[i])
      BY <1>6, <2>1 DEF VersionsInv
    <2>2. ASSUME NEW s \in DOMAIN Index, Saving(s), bin'[i] \in TornBin(Saved(s))
          PROVE  v <= newest[p]
      BY <1>4, <1>5, <1>6, <2>2, SaysTorn
    <2> QED BY <2>1, <2>2, BinStep
  <1>7. ASSUME NEW p \in Path, backup' # Missing, NEW i \in ID, NEW v \in Version, Says(backup'.bin[i], p, v)
        PROVE  v <= newest[p]
    <2>1. Says(bin[i], p, v) \/ (backup # Missing /\ Says(backup.bin[i], p, v))
      BY <1>7, BackupStep
    <2> QED BY <1>7, <2>1 DEF VersionsInv
  <1>8. ASSUME NEW p \in Path PROVE src'[p] \in {Absent, newest'[p]}
    BY <1>8, DataStep DEF VersionsInv
  <1>9. ASSUME NEW p \in Path, scanned'[p] # Absent PROVE scanned'[p] <= newest[p]
    BY <1>2, <1>9, DataStep DEF VersionsInv
  <1>10. ASSUME NEW p \in Path, open' # NoFile, open'.path = p PROVE open'.version <= newest[p]
    <2>1. CASE open' = open
      BY <1>10, <2>1 DEF VersionsInv
    <2>2. ASSUME NEW q \in Path, open' = [path |-> q, version |-> src[q]], src[q] # Absent
          PROVE  open'.version <= newest[p]
      BY <1>2, <1>10, <2>2 DEF VersionsInv
    <2> QED BY <1>10, <2>1, <2>2, DataStep
  <1>11. ASSUME NEW p \in Path, p \in DOMAIN entries' PROVE entries'[p].hash <= newest[p]
    <2>1. CASE entries' = entries
      BY <1>11, <2>1 DEF VersionsInv
    <2>2. CASE current \in Source /\ Saving(current) /\ entries' = Saved(current)
      <3>1. current \in DOMAIN Index
        BY <2>2 DEF Saving, Control, Progress, StagesInv
      <3>2. Saved(current) \in Caches
        BY <1>1, <3>1, RefreshedType, EntriesAfterType DEF Saved
      <3>3. Saved(current)[p].hash \in Version
        BY <1>11, <2>2, <3>2, CacheHas
      <3> QED BY <1>4, <1>11, <2>2, <3>1, <3>3
    <2>3. CASE entries' = EmptyCache
      BY <1>11, <2>3, EmptyIsCache
    <2> QED BY <2>1, <2>2, <2>3, DataStep
  <1>12. /\ scanned' \in [Path -> Version \cup {Absent}] /\ open' \in [path : Path, version : Version] \cup {NoFile}
         /\ entries' \in Caches
    BY ControlStep DEF Control, TypeOK, Caches
  <1>13. ASSUME NEW p \in Path, NEW v \in Version, v <= newest[p] PROVE v <= newest'[p]
    BY <1>2, <1>3, <1>13
  <1>14. ASSUME NEW p \in Path
         PROVE  /\ src'[p] \in {Absent, newest'[p]}
                /\ scanned'[p] # Absent => scanned'[p] <= newest'[p]
                /\ \A i \in ID, v \in Version : Says(bin'[i], p, v) => v <= newest'[p]
                /\ backup' # Missing => \A i \in ID, v \in Version : Says(backup'.bin[i], p, v) => v <= newest'[p]
                /\ open' # NoFile /\ open'.path = p => open'.version <= newest'[p]
                /\ p \in DOMAIN entries' => entries'[p].hash <= newest'[p]
    <2>1. scanned'[p] # Absent => scanned'[p] \in Version
      BY <1>12
    <2>2. open' # NoFile => open'.version \in Version
      BY <1>12
    <2>3. p \in DOMAIN entries' => entries'[p].hash \in Version
      BY <1>12, CacheHas
    <2> QED BY <1>6, <1>7, <1>8, <1>9, <1>10, <1>11, <1>13, <2>1, <2>2, <2>3
  <1> QED BY <1>14 DEF VersionsInv


-----------------------------------------------------------------------------
(* What a step adds to the claims: what a thread scanned and saves, and      *)
(* what the backup says when it is restored.  A source that gets an ID finds *)
(* no bin there.                                                             *)
LEMMA NextIndexType ==
  ASSUME Control, [Next]_vars, NEW s \in DOMAIN Index'
  PROVE  Index'[s] \in ID
  <1>1. index' \in IndexSet \cup {Missing}
    BY ControlStep DEF Control, TypeOK, IndexFile, IndexSet
  <1>2. index' # Missing /\ Index' = index'
    BY DEF Index, EmptyCache
  <1> QED BY <1>1, <1>2 DEF IndexSet

LEMMA OwnerFirst ==
  ASSUME Control, OwnersInv, [Next]_vars, ~indexLost', NEW s \in DOMAIN Index', NEW i, Index'[s] = i,
         NEW t \in DOMAIN Index, Index[t] = i
  PROVE  s = t
  <1>1. t \in DOMAIN Index' /\ Index'[t] = Index[t]
    BY IndexGrows
  <1>2. IDInv'
    BY ControlStep DEF Control
  <1> QED BY <1>1, <1>2 DEF IDInv, Numbered

LEMMA RecordsStep ==
  ASSUME Control, OwnersInv, [Next]_vars, ~indexLost', NEW p \in Path, NEW v, Records(p, v)'
  PROVE  \/ Records(p, v)
         \/ BacksUp(p, v) /\ FreshProcess
         \/ Saving(SourceOf[p]) /\ scanned[p] = v /\ v # Absent
  <1> DEFINE s == SourceOf[p]
             i == Index'[s]
  <1>1. s \in DOMAIN Index' /\ Says(bin'[i], p, v)
    BY DEF Records
  <1>2. i \in ID /\ s \in Source
    BY <1>1, NextIndexType, RecoveryAssumption
  <1>3. ~indexLost
    BY IndexGrows
  <1>4. \A t \in DOMAIN Index : index[t] = Index[t]
    BY IndexType DEF Control, TypeOK
  <1>5. ASSUME NEW t \in DOMAIN Index, Index[t] = i PROVE s = t
    BY <1>1, <1>5, OwnerFirst
  <1>6. CASE bin'[i] = bin[i]
    <2>1. bin[i] # Missing
      BY <1>1, <1>6 DEF Says
    <2>2. PICK t \in DOMAIN Index : Index[t] = i
      BY <1>2, <1>3, <2>1 DEF OwnersInv
    <2>3. s \in DOMAIN Index /\ Index[s] = i
      BY <1>5, <2>2
    <2> QED BY <1>1, <1>6, <2>3 DEF Records
  <1>7. CASE backup # Missing /\ bin'[i] = backup.bin[i] /\ FreshProcess
    <2>1. backup.bin[i] # Missing
      BY <1>1, <1>7 DEF Says
    <2>2. PICK t \in DOMAIN Index : Index[t] = i
      BY <1>2, <1>3, <1>7, <2>1 DEF OwnersInv
    <2>3. s \in DOMAIN Index /\ Index[s] = i
      BY <1>5, <2>2
    <2> QED BY <1>1, <1>7, <2>3 DEF BacksUp
  <1>8. ASSUME NEW t \in DOMAIN Index, index[t] = i, Saving(t), bin'[i] \in TornBin(Saved(t))
        PROVE  Records(p, v) \/ (Saving(s) /\ scanned[p] = v /\ v # Absent)
    <2>1. s = t /\ Index[s] = i
      BY <1>4, <1>5, <1>8
    <2>2. p \in DOMAIN Saved(s) /\ Saved(s)[p].hash = v
      BY <1>1, <1>8, <2>1, SaysTorn
    <2>3. p \in DOMAIN entries => stage[s] # "save" \/ scanned[p] # Absent
      BY <1>8, <2>1 DEF Control, Progress, StagesInv, Saving
    <2>4. \/ scanned[p] # Absent /\ scanned[p] = v
          \/ p \in DOMAIN Entries(index[s]) /\ v = Entries(index[s])[p].hash
      BY <1>2, <1>8, <2>1, <2>2, <2>3, SavedIs
    <2>5. CASE p \in DOMAIN Entries(index[s]) /\ v = Entries(index[s])[p].hash
      <3>1. Says(bin[i], p, v)
        BY <1>4, <1>8, <2>1, <2>5 DEF Says, Entries, EmptyCache
      <3> QED BY <1>8, <2>1, <3>1 DEF Records
    <2> QED BY <1>8, <2>1, <2>4, <2>5
  <1> QED BY <1>2, <1>6, <1>7, <1>8, BinStep

LEMMA BacksUpStep ==
  ASSUME Control, OwnersInv, [Next]_vars, ~indexLost', NEW p \in Path, NEW v, BacksUp(p, v)'
  PROVE  BacksUp(p, v) \/ Records(p, v)
  <1> DEFINE s == SourceOf[p]
             i == Index'[s]
  <1>1. s \in DOMAIN Index' /\ backup' # Missing /\ Says(backup'.bin[i], p, v)
    BY DEF BacksUp
  <1>2. i \in ID
    BY <1>1, NextIndexType
  <1>3. ~indexLost
    BY IndexGrows
  <1>4. ASSUME NEW t \in DOMAIN Index, Index[t] = i PROVE s = t
    BY <1>1, <1>4, OwnerFirst
  <1>5. CASE backup' = backup
    <2>1. \E t \in DOMAIN Index : Index[t] = i
      BY <1>1, <1>2, <1>3, <1>5 DEF OwnersInv, Says
    <2> QED BY <1>1, <1>4, <1>5, <2>1 DEF BacksUp
  <1>6. CASE backup'.bin = bin
    <2>1. \E t \in DOMAIN Index : Index[t] = i
      BY <1>1, <1>2, <1>3, <1>6 DEF OwnersInv, Says
    <2> QED BY <1>1, <1>4, <1>6, <2>1 DEF Records
  <1> QED BY <1>1, <1>5, <1>6, BackupStep

(* A step that changes nothing the claims are about. *)
Still ==
  /\ UNCHANGED <<src, dest, recopied, short, open, refused, scanned, todo>>
  /\ pc = "reset" => pc' = "reset"
  /\ \A s \in Source : pc = "sync" /\ stage[s] = "index" => pc' = "sync" /\ stage'[s] = "index"
  /\ todo # {} => pc' = pc /\ (pc = "sync" \/ current' = current)

LEMMA StillSource ==
  ASSUME Control, NEW s \in Source,
         AddToIndex(s) \/ SaveUnchanged(s) \/ TakeTask(s) \/ RecoverySkips(s)
  PROVE  Still
  <1> USE DEF disk, users, process, history
  <1>1. stage \in [Source -> Stage]
    BY DEF Control, MarkInv
  <1>2. CASE AddToIndex(s)
    BY <1>2 DEF AddToIndex, At, Still
  <1>3. CASE SaveUnchanged(s)
    BY <1>1, <1>3 DEF SaveUnchanged, At, Become, Still
  <1>4. CASE TakeTask(s)
    BY <1>1, <1>4 DEF TakeTask, At, Become, Still
  <1>5. CASE RecoverySkips(s)
    BY <1>1, <1>5 DEF RecoverySkips, Become, Still, Control, Progress, QuietInv
  <1> QED BY <1>2, <1>3, <1>4, <1>5

LEMMA StillMain ==
  ASSUME Control, Next,
         \/ BeginRun \/ RemoveSuccess \/ CreateFailure \/ GiveUpSource \/ MarkCopied \/ SaveCopied
         \/ SyncDone \/ RemoveFailure \/ RemoveBackup \/ BeginRecovery \/ RecoveryMarksCopied
         \/ RecoverySucceeds \/ (CreateSuccess /\ UNCHANGED process)
  PROVE  Still
  <1> USE DEF disk, users, process, history
  <1>1. /\ stage \in [Source -> Stage]
        /\ pc \notin {"sync", "recoverCopy"} => todo = {}
        /\ pc' \notin {"sync", "recoverCopy"} => todo' = {}
        /\ pc = "sync" => \A s \in Source : stage[s] \in {"copy", "save"} => current = s
    BY ControlStep DEF Control, MarkInv, Progress, QuietInv, StagesInv
  <1>2. CASE \/ BeginRun \/ RemoveSuccess \/ CreateFailure \/ RemoveFailure \/ RemoveBackup
             \/ RecoverySucceeds \/ (CreateSuccess /\ UNCHANGED process)
    BY <1>1, <1>2 DEF BeginRun, RemoveSuccess, CreateFailure, RemoveFailure, RemoveBackup,
         RecoverySucceeds, CreateSuccess, Still, Exit
  <1>3. CASE GiveUpSource \/ MarkCopied
    <2>1. pc = "sync" /\ stage[current] = "copy"
      BY <1>3 DEF GiveUpSource, MarkCopied, CopiesDone, CopyingNow, At
    <2> QED BY <1>1, <1>3, <2>1 DEF GiveUpSource, MarkCopied, Become, Still
  <1>4. CASE SaveCopied
    BY <1>1, <1>4 DEF SaveCopied, At, Become, Still
  <1>5. CASE SyncDone
    BY <1>1, <1>5 DEF SyncDone, Still
  <1>6. CASE BeginRecovery
    BY <1>1, <1>6 DEF BeginRecovery, Still
  <1>7. CASE RecoveryMarksCopied
    BY <1>1, <1>7 DEF RecoveryMarksCopied, Still, CopiesDone, Copies
  <1> QED BY <1>2, <1>3, <1>4, <1>5, <1>6, <1>7

LEMMA StepKinds ==
  ASSUME Control, [Next]_vars
  PROVE  \/ Still \/ (FreshProcess /\ UNCHANGED <<src, dest, recopied, short>>)
         \/ Edit \/ ScanSources \/ ResetCopiedFlags \/ FinishCopy
         \/ \E s \in Source : QueueCopies(s) \/ NothingToCopy(s) \/ RecoverSource(s)
         \/ \E p \in Path : OpenDestination(p) \/ CopyRefused(p)
  <1> USE DEF disk, users, process, history
  <1>1. CASE UNCHANGED vars
    BY <1>1 DEF vars, Still
  <1>2. CASE \/ Starts \/ Kill \/ Abort \/ CopyBackup \/ RecoveryFails \/ RecoveryCreatesSuccess
             \/ (CreateSuccess /\ ~UNCHANGED process)
    BY <1>2 DEF Starts, Start, Kill, Abort, CopyBackup, RecoveryFails, RecoveryCreatesSuccess,
         CreateSuccess, Exit
  <1>3. ASSUME NEW s \in Source, SourceStep(s)
        PROVE  Still \/ QueueCopies(s) \/ NothingToCopy(s) \/ RecoverSource(s)
    BY <1>3, StillSource DEF SourceStep
  <1>4. CASE Next /\ ProcessStep
    BY <1>2, <1>3, <1>4, StillMain DEF ProcessStep
  <1> QED BY <1>1, <1>2, <1>4 DEF Next


LEMMA KnownVersion ==
  ASSUME Control, VersionsInv, NEW p \in Path, NEW v, Records(p, v) \/ BacksUp(p, v)
  PROVE  v \in Version /\ v <= newest[p]
  <1>1. ASSUME NEW b \in BinFile, Says(b, p, v) PROVE v \in Version
    <2>1. b.entries \in Caches
      BY <1>1 DEF Says, BinFile
    <2> QED BY <1>1, <2>1, CacheHas DEF Says
  <1>2. SourceOf[p] \in DOMAIN Index /\ Index[SourceOf[p]] \in ID
    BY IndexType DEF Control, TypeOK, Records, BacksUp
  <1>3. CASE Records(p, v)
    <2>1. bin[Index[SourceOf[p]]] \in BinFile
      BY <1>2 DEF Control, TypeOK
    <2> QED BY <1>1, <1>2, <1>3, <2>1 DEF Records, VersionsInv
  <1>4. CASE BacksUp(p, v)
    <2>1. backup # Missing /\ backup.bin[Index[SourceOf[p]]] \in BinFile
      BY <1>2, <1>4 DEF Control, TypeOK, BacksUp
    <2> QED BY <1>1, <1>2, <1>4, <2>1 DEF BacksUp, VersionsInv
  <1> QED BY <1>3, <1>4

(* What users write now is a version nobody knows. *)
LEMMA EditedUnknown ==
  ASSUME Control, VersionsInv, Edit, NEW p \in Path, NEW v, v = src'[p], v # src[p]
  PROVE  ~Records(p, v)' /\ ~BacksUp(p, v)' /\ (v # Absent => scanned'[p] # v)
  <1> USE DEF disk, process, history
  <1>1. /\ UNCHANGED <<index, bin, backup, scanned>>
    BY DEF Edit
  <1>2. v = Absent \/ v = newest[p] + 1
    BY DataStep DEF Next
  <1>3. newest[p] \in Nat /\ Absent \notin Version /\ scanned[p] \in Version \cup {Absent}
    BY RecoveryAssumption DEF Control, TypeOK
  <1>4. ~Records(p, v) /\ ~BacksUp(p, v)
    BY <1>2, <1>3, KnownVersion
  <1>5. ~Records(p, v)' /\ ~BacksUp(p, v)'
    BY <1>1, <1>4 DEF Records, BacksUp, Index
  <1>6. v # Absent => scanned'[p] # v
    <2>1. scanned[p] # Absent => scanned[p] <= newest[p] /\ scanned[p] \in Nat
      BY <1>3 DEF VersionsInv, Version
    <2> QED BY <1>1, <1>2, <1>3, <2>1
  <1> QED BY <1>5, <1>6

LEMMA SrcStep ==
  ASSUME Control, [Next]_vars
  PROVE  Edit \/ UNCHANGED src
  <1> USE DEF users
  <1>1. ASSUME NEW s \in Source, QueueCopies(s) \/ NothingToCopy(s) \/ RecoverSource(s) PROVE UNCHANGED src
    BY <1>1 DEF QueueCopies, NothingToCopy, RecoverSource
  <1>2. ASSUME NEW p \in Path, OpenDestination(p) \/ CopyRefused(p) PROVE UNCHANGED src
    BY <1>2 DEF OpenDestination, CopyRefused
  <1>3. ASSUME ScanSources \/ ResetCopiedFlags \/ FinishCopy PROVE UNCHANGED src
    BY <1>3 DEF ScanSources, ResetCopiedFlags, FinishCopy
  <1> QED BY <1>1, <1>2, <1>3, StepKinds DEF Still

(* Which files may get another content, and which are begun to be copied   *)
(* again or are copied short.                                              *)
LEMMA DestStep ==
  ASSUME Control, [Next]_vars, NEW p \in Path
  PROVE  \/ dest'[p] = dest[p] /\ (p \in recopied => p \in recopied') /\ (p \in short => p \in short')
         \/ OpenDestination(p)
         \/ /\ FinishCopy /\ open.path = p /\ dest'[p] \in Outcomes(p)
            /\ dest'[p] = Torn /\ Unedited(p) => p \in short'
  <1> USE DEF history
  <1>1. dest = [q \in Path |-> dest[q]]
    BY DEF Control, TypeOK
  <1>2. CASE FinishCopy
    BY <1>1, <1>2 DEF FinishCopy
  <1>3. ASSUME NEW q \in Path, OpenDestination(q), q # p
        PROVE  dest'[p] = dest[p] /\ (p \in recopied => p \in recopied') /\ (p \in short => p \in short')
    BY <1>1, <1>3 DEF OpenDestination
  <1>4. ASSUME NEW q \in Path, CopyRefused(q) PROVE UNCHANGED <<dest, recopied, short>>
    BY <1>4 DEF CopyRefused
  <1>5. ASSUME NEW s \in Source, QueueCopies(s) \/ NothingToCopy(s) \/ RecoverSource(s)
        PROVE  UNCHANGED <<dest, recopied, short>>
    BY <1>5 DEF QueueCopies, NothingToCopy, RecoverSource
  <1>6. ASSUME Edit \/ ScanSources \/ ResetCopiedFlags PROVE UNCHANGED <<dest, recopied, short>>
    BY <1>6 DEF Edit, ScanSources, ResetCopiedFlags
  <1> QED BY <1>2, <1>3, <1>4, <1>5, <1>6, StepKinds DEF Still

(* The queue, and what it was filled from. *)
LEMMA TodoStep ==
  ASSUME Control, [Next]_vars, NEW p \in todo'
  PROVE  \/ p \in todo /\ pc' = pc /\ (pc = "sync" \/ current' = current) /\ ~FreshProcess
         \/ QueueCopies(SourceOf[p]) /\ p \in ToCopy(SourceOf[p])
         \/ \E s \in Source : RecoverSource(s)
  <1> USE DEF process, history
  <1>1. todo = {} \/ pc \in {"sync", "recoverCopy"}
    BY DEF Control, Progress, QuietInv
  <1>2. ~FreshProcess
    BY DEF FreshProcess
  <1>3. ASSUME NEW s \in Source, QueueCopies(s)
        PROVE  \/ p \in todo /\ pc' = pc /\ pc = "sync"
               \/ s = SourceOf[p] /\ p \in ToCopy(s)
    BY <1>3, ToCopyIs DEF QueueCopies, At
  <1>4. ASSUME NEW s \in Source, NothingToCopy(s) PROVE p \in todo /\ pc' = pc /\ pc = "sync"
    BY <1>4 DEF NothingToCopy, At
  <1>5. ASSUME NEW q \in Path, OpenDestination(q) \/ CopyRefused(q)
        PROVE  p \in todo /\ pc' = pc /\ current' = current
    BY <1>5 DEF OpenDestination, CopyRefused
  <1>6. ASSUME Edit \/ FinishCopy PROVE p \in todo /\ pc' = pc /\ current' = current
    BY <1>6 DEF Edit, FinishCopy
  <1>7. ASSUME ScanSources \/ ResetCopiedFlags PROVE p \in todo /\ pc \in {"scan", "reset"}
    BY <1>7 DEF ScanSources, ResetCopiedFlags
  <1>8. ASSUME Still PROVE p \in todo /\ pc' = pc /\ (pc = "sync" \/ current' = current)
    BY <1>8 DEF Still
  <1> QED BY <1>1, <1>2, <1>3, <1>4, <1>5, <1>6, <1>7, <1>8, StepKinds

LEMMA ScannedStep ==
  ASSUME Control, [Next]_vars, NEW p \in Path
  PROVE  \/ scanned'[p] = scanned[p]
         \/ scanned'[p] = Absent
         \/ pc \in {"scan", "recover"} /\ scanned'[p] = src[p]
  <1> USE DEF process, history
  <1>1. ASSUME NEW s \in Source, QueueCopies(s) \/ NothingToCopy(s) PROVE UNCHANGED scanned
    BY <1>1 DEF QueueCopies, NothingToCopy
  <1>2. ASSUME NEW s \in Source, RecoverSource(s)
        PROVE  scanned'[p] = scanned[p] \/ (pc \in {"scan", "recover"} /\ scanned'[p] = src[p])
    BY <1>2 DEF RecoverSource
  <1>3. ASSUME NEW q \in Path, OpenDestination(q) \/ CopyRefused(q) PROVE UNCHANGED scanned
    BY <1>3 DEF OpenDestination, CopyRefused
  <1>4. ASSUME Edit \/ FinishCopy \/ ResetCopiedFlags PROVE UNCHANGED scanned
    BY <1>4 DEF Edit, FinishCopy, ResetCopiedFlags
  <1>5. ASSUME ScanSources
        PROVE  scanned'[p] = Absent \/ (pc \in {"scan", "recover"} /\ scanned'[p] = src[p])
    BY <1>5 DEF ScanSources
  <1>6. ASSUME FreshProcess PROVE scanned'[p] = Absent
    BY <1>6 DEF FreshProcess, NothingScanned
  <1> QED BY <1>1, <1>2, <1>3, <1>4, <1>5, <1>6, StepKinds DEF Still


-----------------------------------------------------------------------------
(* What the caches and a scan claim stays true. *)
Claims == Control /\ VersionsInv /\ OwnersInv /\ Truth

LEMMA RecordedStep ==
  ASSUME Claims, [Next]_vars
  PROVE  RecordedInv'
  <1> USE DEF Claims
  <1>1. ASSUME ~indexLost', NEW p \in Path, p \notin recopied', p \notin short', NEW v, v = src'[p],
               Records(p, v)' \/ BacksUp(p, v)'
        PROVE  dest'[p] = v
    <2>1. ~indexLost
      BY <1>1, IndexGrows
    <2>2. src[p] = v
      BY <1>1, SrcStep, EditedUnknown
    <2>3. /\ \/ Records(p, v) \/ BacksUp(p, v)
             \/ Saving(SourceOf[p]) /\ scanned[p] = v
          /\ v # Absent
      <3>1. \/ Records(p, v) \/ BacksUp(p, v)
            \/ Saving(SourceOf[p]) /\ scanned[p] = v /\ v # Absent
        BY <1>1, RecordsStep, BacksUpStep
      <3>2. Absent \notin Version
        BY RecoveryAssumption
      <3> QED BY <1>1, <3>1, <3>2, KnownVersion
    <2>4. CASE dest'[p] = dest[p] /\ p \notin recopied /\ p \notin short
      <3>1. CASE Records(p, v) \/ BacksUp(p, v)
        BY <1>1, <2>1, <2>2, <2>4, <3>1 DEF Truth, RecordedInv
      <3>2. CASE Saving(SourceOf[p]) /\ scanned[p] = v
        <4>1. SourceOf[p] \in Source
          BY RecoveryAssumption
        <4>2. p \notin refused /\ p \notin todo /\ pc = "sync" /\ stage[SourceOf[p]] # "index"
          BY <3>2 DEF Saving, Control, Progress, StagesInv
        <4> QED BY <1>1, <2>1, <2>2, <2>3, <2>4, <3>2, <4>2 DEF Truth, ScannedInv, ToBeCopied
      <3> QED BY <2>3, <3>1, <3>2
    <2>5. CASE OpenDestination(p)
      <3>1. SourceOf[p] = current /\ ~BackedUp(p) /\ p \in todo /\ pc \in {"sync", "recoverCopy"}
        BY <1>1, <2>5 DEF OpenDestination, Copying, Copies, CopyingNow, At
      <3>2. ~Records(p, v)
        BY <2>1, <2>2, <3>1 DEF Truth, UnrecordedInv
      <3>3. ~BacksUp(p, v)
        BY <2>2, <3>1 DEF BackedUp, BacksUp, Says
      <3>4. UNCHANGED <<index, bin, backup>>
        BY <2>5 DEF OpenDestination, disk
      <3> QED BY <1>1, <3>2, <3>3, <3>4 DEF Records, BacksUp, Index
    <2>6. CASE /\ FinishCopy /\ open.path = p /\ dest'[p] \in Outcomes(p)
               /\ dest'[p] = Torn /\ Unedited(p) => p \in short'
      <3>1. UNCHANGED <<index, bin, backup>> /\ open # NoFile
        BY <2>6 DEF FinishCopy, disk
      <3>2. Records(p, v) \/ BacksUp(p, v)
        BY <1>1, <3>1 DEF Records, BacksUp, Index
      <3>3. Unedited(p)
        BY <2>1, <2>2, <2>6, <3>1, <3>2 DEF Truth, OpenVersionInv, Unedited
      <3> QED BY <1>1, <2>2, <2>3, <2>6, <3>3 DEF Outcomes, Unedited
    <2> QED BY <1>1, <2>4, <2>5, <2>6, DestStep
  <1>2. ASSUME ~indexLost', NEW p \in Path \ (recopied' \cup short'),
               Records(p, src[p])' \/ BacksUp(p, src[p])'
        PROVE  dest'[p] = src'[p]
    <2>1. PICK v : v = src'[p]
      OBVIOUS
    <2>2. Records(p, v)' \/ BacksUp(p, v)'
      BY <1>2, <2>1 DEF Records, BacksUp
    <2> QED BY <1>1, <1>2, <2>1, <2>2
  <1> QED BY <1>2 DEF RecordedInv

LEMMA UnrecordedStep ==
  ASSUME Claims, [Next]_vars
  PROVE  UnrecordedInv'
  <1> USE DEF Claims
  <1>1. ASSUME ~indexLost', NEW p \in todo', pc' = "sync" \/ SourceOf[p] = current',
               NEW v, v = src'[p], Records(p, v)'
        PROVE  FALSE
    <2>1. ~indexLost
      BY <1>1, IndexGrows
    <2>2. p \in Path
      BY ControlStep DEF Control, TypeOK
    <2>3. src[p] = v
      BY <1>1, <2>2, SrcStep, EditedUnknown
    <2>4. CASE p \in todo /\ pc' = pc /\ (pc = "sync" \/ current' = current) /\ ~FreshProcess
      <3>1. ~Records(p, v)
        BY <1>1, <2>1, <2>3, <2>4 DEF Truth, UnrecordedInv
      <3>2. ~Saving(SourceOf[p])
        BY <2>4 DEF Saving, Control, Progress, StagesInv
      <3> QED BY <1>1, <2>2, <2>4, <3>1, <3>2, RecordsStep
    <2>5. CASE QueueCopies(SourceOf[p]) /\ p \in ToCopy(SourceOf[p])
      <3>1. UNCHANGED <<index, bin>> /\ SourceOf[p] \in DOMAIN Index
        BY <2>5 DEF QueueCopies, disk
      <3>2. Records(p, v)
        BY <1>1, <3>1 DEF Records, Index
      <3>3. scanned[p] = v
        BY <2>1, <2>2, <2>3, <2>5, <3>2, ToCopyIs DEF Truth, UnrecordedInv
      <3>4. index[SourceOf[p]] = Index[SourceOf[p]]
        BY <3>1, IndexType DEF Control, TypeOK
      <3>5. p \in DOMAIN Entries(index[SourceOf[p]]) /\ Entries(index[SourceOf[p]])[p].hash = v
        BY <3>2, <3>4 DEF Records, Says, Entries
      <3> QED BY <2>5, <3>3, <3>5, ToCopyIs
    <2>6. ASSUME NEW s \in Source, RecoverSource(s) PROVE FALSE
      <3>1. /\ UNCHANGED <<index, bin>> /\ current' = s /\ pc' = "recoverCopy"
            /\ todo' = FilesToCopy(Entries(index[s]), Part(scanned', {q \in Path : scanned'[q] # Absent}))
            /\ scanned' = [q \in Path |-> IF SourceOf[q] = s THEN src[q] ELSE scanned[q]]
        BY <2>6 DEF RecoverSource, disk
      <3>2. SourceOf[p] = s
        BY <1>1, <3>1
      <3>3. Records(p, v)
        BY <1>1, <3>1 DEF Records, Index
      <3>4. index[s] = Index[s]
        BY <3>2, <3>3, IndexType DEF Control, TypeOK, Records
      <3>5. p \in DOMAIN Entries(index[s]) /\ Entries(index[s])[p].hash = v
        BY <3>2, <3>3, <3>4 DEF Records, Says, Entries
      <3>6. Entries(index[s])[p].hash # scanned'[p]
        BY <3>1, <3>5 DEF FilesToCopy, HasEntry, Part
      <3> QED BY <2>2, <2>3, <3>1, <3>2, <3>5, <3>6
    <2> QED BY <2>4, <2>5, <2>6, TodoStep
  <1>2. ASSUME ~indexLost', NEW p \in Path, scanned'[p] # Absent, NEW v, v = src'[p], Records(p, v)'
        PROVE  scanned'[p] = v
    <2>1. ~indexLost
      BY <1>2, IndexGrows
    <2>2. src[p] = v
      BY <1>2, SrcStep, EditedUnknown
    <2>3. ~FreshProcess
      BY <1>2 DEF FreshProcess, NothingScanned
    <2>4. CASE scanned'[p] = scanned[p]
      <3>1. Records(p, v) \/ (Saving(SourceOf[p]) /\ scanned[p] = v)
        BY <1>2, <2>3, RecordsStep
      <3> QED BY <1>2, <2>1, <2>2, <2>4, <3>1 DEF Truth, UnrecordedInv
    <2> QED BY <1>2, <2>2, <2>4, ScannedStep
  <1>3. ASSUME ~indexLost', NEW p \in todo', pc' = "sync" \/ SourceOf[p] = current'
        PROVE  ~Records(p, src[p])'
    <2>1. PICK v : v = src'[p]
      OBVIOUS
    <2> QED BY <1>1, <1>3, <2>1 DEF Records
  <1>4. ASSUME ~indexLost', NEW p \in Path, scanned'[p] # Absent, Records(p, src[p])'
        PROVE  scanned'[p] = src'[p]
    <2>1. PICK v : v = src'[p]
      OBVIOUS
    <2> QED BY <1>2, <1>4, <2>1 DEF Records
  <1> QED BY <1>3, <1>4 DEF UnrecordedInv

LEMMA OpenVersionStep ==
  ASSUME Claims, [Next]_vars
  PROVE  OpenVersionInv'
  <1> USE DEF Claims
  <1>1. ASSUME ~indexLost', open' # NoFile, NEW p, p = open'.path, NEW v, v = src'[p],
               v \notin {open'.version, Absent}
        PROVE  ~Records(p, v)' /\ ~BacksUp(p, v)' /\ scanned'[p] # v
    <2>1. ~indexLost
      BY <1>1, IndexGrows
    <2>2. p \in Path
      BY <1>1, ControlStep DEF Control, TypeOK
    <2>3. CASE src[p] # v
      BY <1>1, <2>2, <2>3, SrcStep, EditedUnknown
    <2>4. CASE open' = open /\ src[p] = v
      <3>1. ~Records(p, v) /\ ~BacksUp(p, v) /\ scanned[p] # v
        BY <1>1, <2>1, <2>4 DEF Truth, OpenVersionInv
      <3>2. pc = "recoverCopy" \/ (pc = "sync" /\ p \in todo)
        BY <1>1, <2>4 DEF Control, MarkInv, OpenInv, Progress, OpenFileInv
      <3>3. ~Saving(SourceOf[p])
        BY <3>2 DEF Saving, Control, Progress, StagesInv
      <3>4. ~FreshProcess
        BY <1>1 DEF FreshProcess
      <3>5. ~Records(p, v)'
        BY <1>1, <2>2, <3>1, <3>3, <3>4, RecordsStep
      <3>6. ~BacksUp(p, v)'
        BY <1>1, <2>2, <3>1, BacksUpStep
      <3>7. scanned'[p] # v
        BY <1>1, <2>2, <3>1, <3>2, ScannedStep
      <3> QED BY <3>5, <3>6, <3>7
    <2>5. ASSUME NEW q \in Path, open' = [path |-> q, version |-> src[q]], src[p] = v PROVE FALSE
      BY <1>1, <2>5
    <2> QED BY <1>1, <2>3, <2>4, <2>5, DataStep
  <1>2. ASSUME ~indexLost', open' # NoFile, src'[open'.path] \notin {open'.version, Absent}
        PROVE  /\ ~Records(open.path, src[open.path])' /\ ~BacksUp(open.path, src[open.path])'
               /\ scanned'[open'.path] # src'[open'.path]
    <2>1. PICK p : p = open'.path
      OBVIOUS
    <2>2. PICK v : v = src'[p]
      OBVIOUS
    <2>3. ~Records(p, v)' /\ ~BacksUp(p, v)' /\ scanned'[p] # v
      BY <1>1, <1>2, <2>1, <2>2
    <2> QED BY <2>1, <2>2, <2>3 DEF Records, BacksUp
  <1> QED BY <1>2 DEF OpenVersionInv

LEMMA ScopeStep ==
  ASSUME Claims, [Next]_vars
  PROVE  ScopeInv'
  <1> USE DEF Claims, process, history, disk, users
  <1> SUFFICES ASSUME pc' = "reset" PROVE ScopeInv'
    BY DEF ScopeInv
  <1>1. CASE ScanSources
    BY <1>1 DEF ScanSources, ScopeInv
  <1>2. CASE UNCHANGED <<pc, scanned, config>>
    BY <1>2 DEF Truth, ScopeInv
  <1>3. CASE Edit \/ UNCHANGED vars
    BY <1>2, <1>3 DEF Edit, vars
  <1>4. CASE Starts \/ Kill \/ Abort \/ CreateSuccess \/ CopyBackup \/ RecoveryFails \/ RecoveryCreatesSuccess
    BY <1>4 DEF Starts, Start, Kill, Abort, CreateSuccess, CopyBackup, RecoveryFails,
       RecoveryCreatesSuccess, Exit
  <1>5. CASE \/ BeginRun \/ RemoveSuccess \/ CreateFailure \/ ResetCopiedFlags \/ SyncDone \/ RemoveFailure
             \/ RemoveBackup \/ BeginRecovery \/ RecoveryMarksCopied \/ RecoverySucceeds
    BY <1>5 DEF BeginRun, RemoveSuccess, CreateFailure, ResetCopiedFlags, SyncDone, RemoveFailure,
       RemoveBackup, BeginRecovery, RecoveryMarksCopied, RecoverySucceeds
  <1>6. CASE \/ FinishCopy \/ GiveUpSource \/ MarkCopied \/ SaveCopied
             \/ \E p \in Path : OpenDestination(p) \/ CopyRefused(p)
    BY <1>2, <1>6 DEF FinishCopy, GiveUpSource, MarkCopied, SaveCopied, OpenDestination, CopyRefused
  <1>7. ASSUME NEW s \in Source, SourceStep(s) PROVE ScopeInv'
    <2>1. pc # "reset" /\ (pc' = pc \/ pc' = "recoverCopy")
      BY <1>7 DEF SourceStep, At, AddToIndex, QueueCopies, NothingToCopy, SaveUnchanged, TakeTask,
         RecoverySkips, RecoverSource
    <2> QED BY <2>1
  <1>8. CASE ProcessStep
    BY <1>1, <1>4, <1>5, <1>6, <1>7, <1>8 DEF ProcessStep
  <1> QED BY <1>3, <1>4, <1>6, <1>8 DEF Next


(* A file a source did not queue is recorded as it was scanned. *)
LEMMA NotQueued ==
  ASSUME Claims, NEW s \in Source, s \in DOMAIN Index, NEW p \in Path, SourceOf[p] = s, scanned[p] # Absent,
         p \notin ToCopy(s)
  PROVE  Records(p, scanned[p])
  <1>1. p \in DOMAIN Entries(index[s]) /\ Entries(index[s])[p].hash = scanned[p]
    BY ToCopyIs
  <1>2. index[s] = Index[s]
    BY IndexType DEF Claims, Control, TypeOK
  <1> QED BY <1>1, <1>2 DEF Records, Says, Entries, EmptyCache

LEMMA CopiedStep ==
  ASSUME Claims, [Next]_vars
  PROVE  ScannedInv'
  <1> USE DEF process, history, disk, users
  <1> SUFFICES ASSUME ~indexLost', NEW p \in Path, p \notin refused', p \notin recopied', p \notin short',
                      NEW v, v = src'[p], v # Absent, scanned'[p] = v, ~ToBeCopied(p)'
               PROVE  dest'[p] = v
    <2>1. ASSUME ~indexLost', NEW p \in Path \ (refused' \cup recopied' \cup short'),
                 scanned'[p] # Absent, scanned'[p] = src'[p], ~ToBeCopied(p)'
          PROVE  dest'[p] = src'[p]
      <3>1. PICK v : v = src'[p]
        OBVIOUS
      <3> QED BY <2>1, <3>1
    <2> QED BY <2>1 DEF ScannedInv
  <1>1. ~indexLost /\ SourceOf[p] \in Source
    BY IndexGrows, RecoveryAssumption DEF Claims
  <1>2. src[p] = v
    BY SrcStep, EditedUnknown DEF Claims
  <1>3. ~FreshProcess
    BY DEF FreshProcess, NothingScanned
  <1>4. ASSUME scanned[p] = v, ~ToBeCopied(p), p \notin refused, p \notin recopied, p \notin short PROVE dest[p] = v
    BY <1>1, <1>2, <1>4 DEF Claims, Truth, ScannedInv
  <1>5. ASSUME Records(p, v), p \notin recopied, p \notin short PROVE dest[p] = v
    BY <1>1, <1>2, <1>5 DEF Claims, Truth, RecordedInv
  <1>6. stage \in [Source -> Stage]
    BY DEF Claims, Control, MarkInv
  <1>7. CASE Still
    <2>1. ~ToBeCopied(p)
      BY <1>1, <1>7 DEF Still, ToBeCopied
    <2> QED BY <1>4, <1>7, <2>1 DEF Still
  <1>8. CASE Edit
    <2>1. ~ToBeCopied(p) /\ UNCHANGED <<scanned, refused, recopied, short, dest>>
      BY <1>8 DEF Edit, ToBeCopied
    <2> QED BY <1>4, <2>1
  <1>9. CASE ScanSources
    BY <1>9 DEF ScanSources, ToBeCopied
  <1>10. CASE ResetCopiedFlags
    <2>1. SourceOf[p] \in config
      BY <1>10 DEF ResetCopiedFlags, Claims, Truth, ScopeInv
    <2> QED BY <1>1, <1>10, <2>1 DEF ResetCopiedFlags, ToBeCopied
  <1>11. CASE FinishCopy
    <2>1. UNCHANGED <<pc, stage, scanned, refused>> /\ todo' = todo \ {open.path} /\ open # NoFile
      BY <1>11 DEF FinishCopy
    <2>2. CASE open.path = p
      <3>1. PICK w \in Outcomes(p) :
              /\ dest' = [dest EXCEPT ![p] = w]
              /\ w = Torn /\ Unedited(p) => p \in short'
        BY <1>11, <2>2 DEF FinishCopy
      <3>2. dest'[p] = w
        BY <3>1 DEF Claims, Control, TypeOK
      <3>3. Unedited(p)
        BY <1>1, <1>2, <2>1, <2>2 DEF Claims, Truth, OpenVersionInv, Unedited
      <3> QED BY <1>2, <3>1, <3>2, <3>3 DEF Outcomes, Unedited
    <2>3. CASE open.path # p
      <3>1. ~ToBeCopied(p)
        BY <2>1, <2>3 DEF ToBeCopied
      <3>2. dest'[p] = dest[p] /\ p \notin recopied /\ p \notin short
        BY <1>11, <2>1, <2>3, DestStep DEF Claims, OpenDestination, Copying
      <3> QED BY <1>4, <2>1, <3>1, <3>2
    <2> QED BY <2>2, <2>3
  <1>12. ASSUME NEW s \in Source, QueueCopies(s) \/ NothingToCopy(s) PROVE dest'[p] = v
    <2>1. /\ UNCHANGED <<pc, scanned, refused, recopied, short, dest>> /\ todo \subseteq todo' /\ pc = "sync"
          /\ \A q \in Source : q # s => stage'[q] = stage[q]
          /\ s \in DOMAIN Index
      BY <1>6, <1>12 DEF QueueCopies, NothingToCopy, Become, At
    <2>2. CASE SourceOf[p] = s
      <3>1. p \notin ToCopy(s)
        BY <1>12 DEF QueueCopies, NothingToCopy, ToBeCopied
      <3> QED BY <1>5, <2>1, <2>2, <3>1, NotQueued
    <2>3. CASE SourceOf[p] # s
      BY <1>1, <1>4, <2>1, <2>3 DEF ToBeCopied
    <2> QED BY <2>2, <2>3
  <1>13. ASSUME NEW s \in Source, RecoverSource(s) PROVE dest'[p] = v
    <2>1. /\ UNCHANGED <<index, bin, refused, recopied, short, dest>> /\ pc = "recover" /\ stage[s] = "pending"
          /\ scanned' = [q \in Path |-> IF SourceOf[q] = s THEN src[q] ELSE scanned[q]]
          /\ todo' = FilesToCopy(Entries(index[s]), Part(scanned', {q \in Path : scanned'[q] # Absent}))
      BY <1>13 DEF RecoverSource
    <2>2. CASE SourceOf[p] = s
      <3> DEFINE found == Part(scanned', {q \in Path : scanned'[q] # Absent})
      <3>1. p \in DOMAIN found /\ found[p] = v
        BY DEF Part
      <3>2. p \notin FilesToCopy(Entries(index[s]), found)
        BY <2>1 DEF ToBeCopied
      <3> HIDE DEF found
      <3>3. p \in DOMAIN Entries(index[s]) /\ Entries(index[s])[p].hash = v
        BY <3>1, <3>2 DEF FilesToCopy, HasEntry
      <3>4. s \in DOMAIN Index
        BY <2>1 DEF Claims, Control, Progress, StagesInv
      <3>5. index[s] = Index[s]
        BY <3>4, IndexType DEF Claims, Control, TypeOK
      <3>6. Records(p, v)
        BY <2>2, <3>3, <3>4, <3>5 DEF Records, Says, Entries, EmptyCache
      <3> QED BY <1>5, <2>1, <3>6
    <2>3. CASE SourceOf[p] # s
      <3>1. scanned[p] = v
        BY <2>1, <2>3
      <3>2. todo = {}
        BY <2>1 DEF Claims, Control, Progress, QuietInv
      <3> QED BY <1>4, <2>1, <3>1, <3>2 DEF ToBeCopied
    <2> QED BY <2>2, <2>3
  <1>14. ASSUME NEW q \in Path, OpenDestination(q) PROVE dest'[p] = v
    <2>1. UNCHANGED <<pc, stage, scanned, refused, todo>> /\ q \in todo /\ open = NoFile
      BY <1>14 DEF OpenDestination, Copying, Copies
    <2>2. ~ToBeCopied(p) /\ q # p
      BY <2>1 DEF ToBeCopied
    <2>3. dest'[p] = dest[p] /\ recopied \subseteq recopied' /\ p \notin short
      BY <1>14, <2>2 DEF OpenDestination, Claims, Control, TypeOK
    <2> QED BY <1>4, <2>1, <2>2, <2>3
  <1>15. ASSUME NEW q \in Path, CopyRefused(q) PROVE dest'[p] = v
    <2>1. /\ UNCHANGED <<pc, stage, scanned, dest, recopied, short>> /\ todo' = todo \ {q} /\ refused' = refused \cup {q}
      BY <1>15 DEF CopyRefused
    <2>2. ~ToBeCopied(p)
      BY <2>1 DEF ToBeCopied
    <2> QED BY <1>4, <2>1, <2>2
  <1> QED BY <1>3, <1>7, <1>8, <1>9, <1>10, <1>11, <1>12, <1>13, <1>14, <1>15, StepKinds DEF Claims

LEMMA ClaimsStep == Claims /\ [Next]_vars => Claims'
  <1> SUFFICES ASSUME Claims, [Next]_vars PROVE Claims'
    OBVIOUS
  <1>1. Control' /\ VersionsInv' /\ OwnersInv'
    BY ControlStep, VersionsStep, OwnersStep DEF Claims
  <1>2. Truth'
    BY RecordedStep, UnrecordedStep, OpenVersionStep, ScopeStep, CopiedStep DEF Truth
  <1> QED BY <1>1, <1>2 DEF Claims

LEMMA ClaimsInit == Init => Claims
  <1> SUFFICES ASSUME Init PROVE Claims
    OBVIOUS
  <1>1. /\ \A i \in ID : bin[i] = Missing
        /\ backup = Missing /\ index = Missing /\ open = NoFile /\ todo = {} /\ pc = "off"
        /\ scanned = [p \in Path |-> Absent] /\ DOMAIN entries = {}
        /\ src = [p \in Path |-> 1] /\ newest = [p \in Path |-> 1]
    BY DEF Init, NothingScanned, EmptyCache
  <1>2. DOMAIN Index = {}
    BY <1>1 DEF Index, EmptyCache
  <1>3. VersionsInv
    BY <1>1 DEF VersionsInv, Says
  <1>4. OwnersInv
    BY <1>1 DEF OwnersInv
  <1>5. \A p \in Path : \A v : ~Records(p, v) /\ ~BacksUp(p, v)
    BY <1>2 DEF Records, BacksUp
  <1>6. RecordedInv /\ UnrecordedInv
    BY <1>1, <1>5 DEF RecordedInv, UnrecordedInv
  <1>7. OpenVersionInv /\ ScopeInv /\ ScannedInv
    BY <1>1 DEF OpenVersionInv, ScopeInv, ScannedInv
  <1> QED BY ControlInit, <1>3, <1>4, <1>6, <1>7 DEF Claims, Truth

(* The cache tells the truth about the destination at every instant, so     *)
(* after every kill, abort, recovery and restore: what the next process     *)
(* would skip is there, unless the file was begun to be copied again, its   *)
(* last copy returned true over a part of it (FileCopier.cpp takes any      *)
(* result of copy_file_range that is not negative) or a source lost its ID. *)
THEOREM CacheTruthfulUnlessLostAlways == Spec => []CacheTruthfulUnlessLost
  <1>1. ASSUME Claims, NEW p \in Path \ (recopied \cup short), UpToDate(p) PROVE dest[p] = src[p] \/ indexLost
    <2>1. Records(p, src[p])
      BY <1>1 DEF UpToDate, Records, Says, Entries, EmptyCache
    <2> QED BY <1>1, <2>1 DEF Claims, Truth, RecordedInv
  <1>2. Claims => CacheTruthfulUnlessLost
    BY <1>1 DEF CacheTruthfulUnlessLost
  <1> QED BY ClaimsInit, ClaimsStep, <1>2, PTL DEF Spec

(* A run or a recovery that reports success has copied what it scanned: the *)
(* files still as they were scanned are in the destination, but for those   *)
(* whose copy was refused or ended short, that were begun to be copied      *)
(* again, or of a source that lost its ID.                                  *)
THEOREM SuccessIsCopiedAlways == Spec => []SuccessIsCopied
  <1>1. ASSUME Claims, pc \in {"removeFailure", "recoverRemoveFailure"}, ~indexLost,
               NEW p \in Path \ (refused \cup recopied \cup short), scanned[p] # Absent, scanned[p] = src[p]
        PROVE  dest[p] = src[p]
    <2>1. ~ToBeCopied(p)
      BY <1>1 DEF Claims, Control, Progress, QuietInv, ToBeCopied
    <2> QED BY <1>1, <2>1 DEF Claims, Truth, ScannedInv
  <1>2. Claims => SuccessIsCopied
    BY <1>1 DEF SuccessIsCopied
  <1> QED BY ClaimsInit, ClaimsStep, <1>2, PTL DEF Spec
=============================================================================
