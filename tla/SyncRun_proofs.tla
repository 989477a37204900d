--------------------------- MODULE SyncRun_proofs ---------------------------
(* A run of Recovery goes through its sources as SyncRun says, whatever is  *)
(* interrupted and for any sources and configurations.                      *)
EXTENDS Recovery, TLAPS

RunStages == [s \in Source |-> StageIs(s)]

(* The names Recovery and SyncRun give to the stages of a source.           *)
Name ==
  [w \in {"index", "jobSave", "queued", "copy", "save", "done"} |->
     CASE w = "index" -> "scanned" [] w = "jobSave" -> "unchanged" [] w = "queued" -> "queued"
       [] w = "copy" -> "copying" [] w = "save" -> "saving" [] w = "done" -> "done"]

(* Between two steps of a run only the current source is copied or saved,   *)
(* and a source that is not configured has nothing left to do.              *)
Syncing ==
  pc = "sync" =>
    /\ stage \in [Source -> DOMAIN Name]
    /\ \A s \in Source : stage[s] \in {"copy", "save"} => s = current
    /\ \A s \in Source \ config : stage[s] = "done"

RunInv ==
  /\ config \subseteq Source
  /\ pc # "off" => config # {}
  /\ current \in Source \cup {NoSource}
  /\ Syncing

LEMMA InitRun == Init => RunInv /\ Run!Init
  BY DEF Init, RunInv, Syncing, Run!Init, Run!AllOut, RunIs, StageIs

LEMMA OffIsOut ==
  ASSUME RunIs = "off"
  PROVE  RunStages = Run!AllOut
  BY DEF RunStages, StageIs, Run!AllOut

(* A process that ends is a run that ends, or nothing to SyncRun.           *)
LEMMA ExitIsExit ==
  ASSUME Exit
  PROVE  RunInv' /\ [Run!Next]_(Run!vars)
  <1>1. RunInv'
    BY DEF Exit, FreshProcess, RunInv, Syncing
  <1>2. RunIs' = "off" /\ RunStages' = Run!AllOut
    BY DEF Exit, RunIs, RunStages, StageIs, Run!AllOut
  <1>3. CASE RunIs = "off"
    BY <1>1, <1>2, <1>3, OffIsOut DEF Run!vars, RunStages, Run!AllOut
  <1>4. CASE RunIs # "off"
    <2>1. Run!Exit
      BY <1>2, <1>4 DEF Run!Exit, RunStages, Run!AllOut
    <2> QED BY <1>1, <2>1 DEF Run!Next
  <1> QED BY <1>3, <1>4

(* What changes neither where the run is nor the stages is a stutter.       *)
LEMMA Stutter ==
  ASSUME RunInv, UNCHANGED <<pc, config, stage, current>>
  PROVE  RunInv' /\ [Run!Next]_(Run!vars)
  <1>1. RunInv'
    BY DEF RunInv, Syncing
  <1>2. RunIs' = RunIs
    BY DEF RunIs
  <1>3. \A s : StageIs(s)' = StageIs(s)
    BY <1>2 DEF StageIs
  <1> QED BY <1>1, <1>2, <1>3 DEF Run!vars

(* Steps outside a run: a process starts, or recovers.                      *)
LEMMA Outside ==
  ASSUME RunInv, RunIs = "off", RunIs' = "off", pc' # "off",
         config' \subseteq Source, config' # {}, current' \in Source \cup {NoSource}
  PROVE  RunInv' /\ [Run!Next]_(Run!vars)
  <1>1. RunInv'
    BY DEF RunInv, Syncing, RunIs
  <1>2. RunStages = Run!AllOut /\ RunStages' = Run!AllOut
    BY DEF RunStages, StageIs, Run!AllOut
  <1> QED BY <1>1, <1>2 DEF Run!vars, RunStages

(* A source goes on from one stage to the next.                             *)
LEMMA Goes ==
  ASSUME RunInv, pc = "sync", UNCHANGED <<pc, config>>,
         NEW s \in Source, NEW w \in DOMAIN Name,
         stage[s] # "done", stage' = [stage EXCEPT ![s] = w],
         current' \in Source \cup {NoSource}, w \in {"copy", "save"} => current' = s,
         \A r \in Source \ {s} : stage[r] \in {"copy", "save"} => r = current'
  PROVE  /\ RunInv'
         /\ RunIs = "sync" /\ RunIs' = "sync"
         /\ RunStages[s] = Name[stage[s]]
         /\ RunStages' = [RunStages EXCEPT ![s] = Name[w]]
  <1>1. RunIs = "sync" /\ RunIs' = "sync"
    BY DEF RunIs
  <1>2. stage \in [Source -> DOMAIN Name] /\ s \in config
    BY DEF RunInv, Syncing
  <1>3. RunInv'
    BY <1>2 DEF RunInv, Syncing
  <1>4. \A r \in Source : StageIs(r) = IF r \in config THEN Name[stage[r]] ELSE "out"
    BY <1>1, <1>2 DEF StageIs, Name
  <1>5. \A r \in Source : StageIs(r)' = IF r \in config THEN Name[stage'[r]] ELSE "out"
    <2>1. stage' \in [Source -> DOMAIN Name]
      BY <1>2
    <2> QED BY <1>1, <2>1 DEF StageIs, Name
  <1>6. RunStages' = [RunStages EXCEPT ![s] = Name[w]]
    BY <1>2, <1>4, <1>5 DEF RunStages
  <1> QED BY <1>1, <1>2, <1>3, <1>4, <1>6 DEF RunStages

(* The steps of one source, and its copies.                                 *)
LEMMA SourceRuns ==
  ASSUME RunInv, NEW s \in Source, SourceStep(s)
  PROVE  RunInv' /\ [Run!Next]_(Run!vars)
  <1> USE DEF process, disk, users, history
  <1> DEFINE Moves(from, to) ==
        /\ RunIs = "sync" /\ RunIs' = "sync"
        /\ RunStages[s] = from
        /\ RunStages' = [RunStages EXCEPT ![s] = to]
  <1>1. CASE AddToIndex(s)
    BY <1>1, Stutter DEF AddToIndex
  <1>2. CASE QueueCopies(s)
    <2>1. RunInv' /\ Moves("scanned", "queued")
      BY <1>2, Goes DEF QueueCopies, At, Become, Name, RunInv, Syncing
    <2>2. Run!Compare(s)
      BY <2>1 DEF Run!Compare, Run!Move, RunStages
    <2> QED BY <2>1, <2>2 DEF Run!Next, Run!Progress
  <1>3. CASE NothingToCopy(s)
    <2>1. RunInv' /\ Moves("scanned", "unchanged")
      BY <1>3, Goes DEF NothingToCopy, At, Become, Name, RunInv, Syncing
    <2>2. Run!Compare(s)
      BY <2>1 DEF Run!Compare, Run!Move, RunStages
    <2> QED BY <2>1, <2>2 DEF Run!Next, Run!Progress
  <1>4. CASE SaveUnchanged(s)
    <2>1. RunInv' /\ Moves("unchanged", "done")
      BY <1>4, Goes DEF SaveUnchanged, At, Become, Name, RunInv, Syncing
    <2>2. Run!SaveUnchanged(s)
      BY <2>1 DEF Run!SaveUnchanged, Run!Move, RunStages
    <2> QED BY <2>1, <2>2 DEF Run!Next, Run!Progress
  <1>5. CASE TakeTask(s)
    <2>1. \A r \in Source : stage[r] \notin {"copy", "save"}
      BY <1>5, RecoveryAssumption DEF TakeTask, At, RunInv, Syncing
    <2>2. RunInv' /\ Moves("queued", "copying")
      BY <1>5, <2>1, Goes DEF TakeTask, At, Become, Name, RunInv, Syncing
    <2>3. Run!At("copying") \cup Run!At("saving") = {}
      <3>1. stage \in [Source -> DOMAIN Name]
        BY <1>5 DEF TakeTask, At, RunInv, Syncing
      <3>2. \A r \in Source : StageIs(r) \notin {"copying", "saving"}
        BY <1>5, <2>1, <3>1 DEF StageIs, TakeTask, At, RunIs
      <3> QED BY <3>2 DEF Run!At
    <2>4. Run!TakeTask(s)
      BY <2>2, <2>3 DEF Run!TakeTask, Run!Move, RunStages
    <2> QED BY <2>2, <2>4 DEF Run!Next, Run!Progress
  <1>6. CASE RecoverySkips(s) \/ RecoverSource(s)
    <2>1. /\ RunIs = "off" /\ RunIs' = "off" /\ pc # "off" /\ pc' # "off"
          /\ config' = config /\ current' \in {s, current}
      BY <1>6 DEF RecoverySkips, RecoverSource, RunIs
    <2> QED BY <2>1, Outside DEF RunInv
  <1> QED BY <1>1, <1>2, <1>3, <1>4, <1>5, <1>6 DEF SourceStep

LEMMA CopyRuns ==
  ASSUME RunInv, GiveUpSource \/ MarkCopied \/ SaveCopied
  PROVE  RunInv' /\ [Run!Next]_(Run!vars)
  <1> USE DEF process, disk, users, history
  <1> DEFINE Moves(from, to) ==
        /\ RunIs = "sync" /\ RunIs' = "sync"
        /\ RunStages[current] = from
        /\ RunStages' = [RunStages EXCEPT ![current] = to]
  <1>1. /\ pc = "sync" /\ UNCHANGED <<pc, config>> /\ current \in Source
        /\ stage[current] \in {"copy", "save"}
        /\ \A r \in Source \ {current} : stage[r] \notin {"copy", "save"}
    <2>1. pc = "sync" /\ UNCHANGED <<pc, config>> /\ current # NoSource
          /\ stage[current] \in {"copy", "save"}
      BY DEF GiveUpSource, MarkCopied, SaveCopied, CopiesDone, CopyingNow, At
    <2> QED BY <2>1 DEF RunInv, Syncing
  <1>2. CASE GiveUpSource
    <2>1. RunInv' /\ Moves("copying", "done")
      BY <1>1, <1>2, Goes DEF GiveUpSource, CopiesDone, CopyingNow, At, Become, Name
    <2>2. Run!EndCopies(current)
      BY <2>1 DEF Run!EndCopies, Run!Move, RunStages
    <2> QED BY <1>1, <2>1, <2>2 DEF Run!Next, Run!Progress
  <1>3. CASE MarkCopied
    <2>1. RunInv' /\ Moves("copying", "saving")
      BY <1>1, <1>3, Goes DEF MarkCopied, CopiesDone, CopyingNow, At, Become, Name
    <2>2. Run!EndCopies(current)
      BY <2>1 DEF Run!EndCopies, Run!Move, RunStages
    <2> QED BY <1>1, <2>1, <2>2 DEF Run!Next, Run!Progress
  <1>4. CASE SaveCopied
    <2>1. RunInv' /\ Moves("saving", "done")
      BY <1>1, <1>4, Goes DEF SaveCopied, At, Become, Name
    <2>2. Run!SaveCopied(current)
      BY <2>1 DEF Run!SaveCopied, Run!Move, RunStages
    <2> QED BY <1>1, <2>1, <2>2 DEF Run!Next, Run!Progress
  <1> QED BY <1>2, <1>3, <1>4

(* The steps of the main thread.                                            *)
LEMMA BeginRuns ==
  ASSUME RunInv, CreateFailure
  PROVE  RunInv' /\ [Run!Next]_(Run!vars)
  <1>1. /\ pc = "createFailure" /\ pc' = "scan" /\ config' = config /\ current' = current
        /\ config \in (SUBSET Source) \ {{}}
    BY DEF CreateFailure, process, RunInv
  <1>2. RunInv' /\ RunIs = "off" /\ RunIs' = "scan"
    BY <1>1 DEF RunInv, Syncing, RunIs
  <1>3. RunStages' = [s \in Source |-> IF s \in config THEN "unscanned" ELSE "out"]
    BY <1>1, <1>2 DEF RunStages, StageIs
  <1>4. Run!Begin
    BY <1>1, <1>2, <1>3 DEF Run!Begin, RunStages
  <1> QED BY <1>2, <1>4 DEF Run!Next

LEMMA ScanRuns ==
  ASSUME RunInv, ScanSources
  PROVE  RunInv' /\ [Run!Next]_(Run!vars)
  <1>1. /\ pc = "scan" /\ pc' = "reset" /\ config' = config /\ current' = current
        /\ config # {} /\ config \subseteq Source
    BY DEF ScanSources, RunInv
  <1>2. RunInv' /\ RunIs = "scan" /\ RunIs' = "scan"
    BY <1>1 DEF RunInv, Syncing, RunIs
  <1>3. /\ \A s \in Source : StageIs(s) = IF s \in config THEN "unscanned" ELSE "out"
        /\ \A s \in Source : StageIs(s)' = IF s \in config THEN "scanned" ELSE "out"
    BY <1>1, <1>2 DEF StageIs
  <1>4. Run!At("unscanned") = config
    BY <1>1, <1>3 DEF Run!At
  <1>5. RunStages' = [s \in Source |-> IF s \in config THEN "scanned" ELSE RunStages[s]]
    BY <1>3 DEF RunStages
  <1>6. Run!Scan
    BY <1>1, <1>2, <1>4, <1>5 DEF Run!Scan, RunStages
  <1> QED BY <1>2, <1>6 DEF Run!Next, Run!Progress

LEMMA ResetRuns ==
  ASSUME RunInv, ResetCopiedFlags
  PROVE  RunInv' /\ [Run!Next]_(Run!vars)
  <1>1. /\ pc = "reset" /\ pc' = "sync" /\ config' = config /\ current' = current
        /\ stage' = [s \in Source |-> IF s \in config THEN "index" ELSE "done"]
    BY DEF ResetCopiedFlags
  <1>2. RunIs = "scan" /\ RunIs' = "sync"
    BY <1>1 DEF RunIs
  <1>3. /\ \A s \in Source : StageIs(s) = IF s \in config THEN "scanned" ELSE "out"
        /\ \A s \in Source : StageIs(s)' = IF s \in config THEN "scanned" ELSE "out"
    BY <1>1, <1>2 DEF StageIs
  <1>4. RunInv'
    BY <1>1 DEF RunInv, Syncing, Name
  <1>5. Run!ScansJoined
    BY <1>2, <1>3 DEF Run!ScansJoined, Run!At
  <1> QED BY <1>4, <1>5 DEF Run!Next, Run!Progress

LEMMA DoneRuns ==
  ASSUME RunInv, SyncDone
  PROVE  RunInv' /\ [Run!Next]_(Run!vars)
  <1>1. /\ pc = "sync" /\ pc' = "removeFailure" /\ config' = config /\ current' = current
        /\ \A s \in Source : stage[s] = "done"
    BY DEF SyncDone, process
  <1>2. RunInv' /\ RunIs = "sync" /\ RunIs' = "ended"
    BY <1>1 DEF RunInv, Syncing, RunIs
  <1>3. /\ \A s \in Source : StageIs(s) = IF s \in config THEN "done" ELSE "out"
        /\ \A s \in Source : StageIs(s)' = IF s \in config THEN "done" ELSE "out"
    BY <1>1, <1>2 DEF StageIs
  <1>4. Run!WaitUntilDone
    BY <1>2, <1>3 DEF Run!WaitUntilDone, Run!At
  <1> QED BY <1>2, <1>4 DEF Run!Next, Run!Progress

(* Markers and the backup: the run has ended and its process has not.       *)
LEMMA EndRuns ==
  ASSUME RunInv, pc \in {"removeFailure", "createSuccess", "removeBackup"},
         pc' \in {"createSuccess", "removeBackup", "copyBackup"}, config' = config, current' = current
  PROVE  RunInv' /\ [Run!Next]_(Run!vars)
  <1>1. RunInv' /\ RunIs = "ended" /\ RunIs' = "ended"
    BY DEF RunInv, Syncing, RunIs
  <1>2. \A s \in Source : StageIs(s)' = StageIs(s)
    BY <1>1 DEF StageIs
  <1> QED BY <1>1, <1>2 DEF Run!vars

LEMMA ProcessRuns ==
  ASSUME RunInv, ProcessStep
  PROVE  RunInv' /\ [Run!Next]_(Run!vars)
  <1> USE DEF process, disk, users, history
  <1>1. CASE BeginRun \/ RemoveSuccess \/ BeginRecovery \/ RecoverySucceeds \/ RecoveryMarksCopied
    <2>1. RunIs = "off" /\ RunIs' = "off" /\ pc # "off" /\ pc' # "off" /\ config' = config
          /\ current' \in {current, NoSource}
      BY <1>1 DEF BeginRun, RemoveSuccess, BeginRecovery, RecoverySucceeds, RecoveryMarksCopied, RunIs
    <2> QED BY <2>1, Outside DEF RunInv
  <1>2. CASE RemoveFailure \/ CreateSuccess \/ RemoveBackup
    <2>1. CASE pc \in {"removeFailure", "createSuccess", "removeBackup"} /\ ~Exit
      <3>1. /\ pc' \in {"createSuccess", "removeBackup", "copyBackup"}
            /\ config' = config /\ current' = current
        BY <1>2, <2>1 DEF RemoveFailure, CreateSuccess, RemoveBackup
      <3> QED BY <2>1, <3>1, EndRuns
    <2>2. CASE pc = "recoverRemoveFailure"
      <3>1. pc' = "recoverCreateSuccess" /\ config' = config /\ current' = current
        BY <1>2, <2>2 DEF RemoveFailure, CreateSuccess, RemoveBackup
      <3> QED BY <2>2, <3>1, Outside DEF RunIs, RunInv
    <2>3. CASE Exit
      BY <2>3, ExitIsExit
    <2> QED BY <1>2, <2>1, <2>2, <2>3 DEF RemoveFailure, CreateSuccess, RemoveBackup
  <1>3. CASE CopyBackup \/ RecoveryFails \/ RecoveryCreatesSuccess
    BY <1>3, ExitIsExit DEF CopyBackup, RecoveryFails, RecoveryCreatesSuccess
  <1>4. CASE FinishCopy \/ \E p \in Path : OpenDestination(p) \/ CopyRefused(p)
    <2>1. UNCHANGED <<pc, config, stage, current>>
      BY <1>4 DEF FinishCopy, OpenDestination, CopyRefused
    <2> QED BY <2>1, Stutter
  <1> QED BY <1>1, <1>2, <1>3, <1>4, BeginRuns, ScanRuns, ResetRuns, DoneRuns, SourceRuns, CopyRuns
         DEF ProcessStep

LEMMA NextRuns ==
  ASSUME RunInv, [Next]_vars
  PROVE  RunInv' /\ [Run!Next]_(Run!vars)
  <1>1. CASE Edit \/ UNCHANGED vars \/ \E p \in Path : CopyRefused(p)
    <2>1. UNCHANGED <<pc, config, stage, current>>
      BY <1>1 DEF Edit, CopyRefused, vars, process
    <2> QED BY <2>1, Stutter
  <1>2. ASSUME NEW c \in Configs, Start(c) PROVE RunInv' /\ [Run!Next]_(Run!vars)
    <2>1. /\ RunIs = "off" /\ RunIs' = "off" /\ pc' = "decide"
          /\ config' \subseteq Source /\ config' # {} /\ current' = NoSource
      BY <1>2, RecoveryAssumption DEF Start, FreshProcess, RunIs
    <2> QED BY <2>1, Outside
  <1>3. CASE Kill \/ Abort
    BY <1>3, ExitIsExit DEF Kill, Abort
  <1> QED BY <1>1, <1>2, <1>3, ProcessRuns DEF Next, Starts

(* Initial states and steps of Recovery are those of SyncRun, or stutters:  *)
(* the runs that are interrupted, recovered and repeated in Recovery go     *)
(* through their sources as HDDSync's do (ControlFlow.cpp, Run;             *)
(* HDDCopyQueue.cpp, CopyThreadLoop).                                       *)
THEOREM ImplementsSyncRunSafety == Spec => Run!Safety
  <1>1. RunInv /\ [Next]_vars => RunInv' /\ [Run!Next]_(Run!vars)
    BY NextRuns
  <1> QED BY InitRun, <1>1, PTL DEF Spec, Run!Safety
=============================================================================
