------------------------------ MODULE Recovery ------------------------------
(***************************************************************************)
(* The life of the cache directory over many processes: a process starts,  *)
(* checks the directory (FailureDetect::CheckCacheIntegrity), runs a       *)
(* synchronisation in HDD mode or a recovery (RunFailureRecovery), saves   *)
(* a backup and ends; it may be killed between any two steps, or end       *)
(* itself in HandleCopyFailure.  The next process finds what is on disk.   *)
(*                                                                         *)
(* A run is described source by source (stage): the jobs and the copy      *)
(* thread work concurrently, at most one source is copied at a time, and   *)
(* the main thread goes on when all are done; HDDSync shows that the       *)
(* threads, the queues and the pending count bring this about.  The pool   *)
(* has a thread for every source.                                          *)
(*                                                                         *)
(* Index.bin, State.bin and the bins are truncated and written in place.   *)
(* The write is one action; a process that ends when a thread is about to  *)
(* write leaves the old file or any prefix of the new one.  Entries are    *)
(* written in the order of a hash map: a prefix is any part.               *)
(***************************************************************************)
EXTENDS Naturals, FiniteSets, MetaDataCache

CONSTANTS
  Source,      \* the sources a configuration may name
  Path,        \* the files that may exist in them
  SourceOf,    \* SourceOf[p]: the source file p belongs to
  Configs,     \* the sets of sources users put in the configuration
  MaxMiss,     \* StaleEntries
  BackUp,      \* EnableBackupCopyAfterRun
  Restore,     \* EnableCacheRestoreFromBackup
  Editable,    \* bound: the files users modify and remove
  Faults,      \* "kill", "abort" (HandleCopyFailure), "refuse" (copy not begun),
               \* "short" (copied in part, and taken for copied)
  MaxVersion,  \* bound: versions a file may have
  MaxFaults,   \* bound: faults
  Absent, Torn, Missing, NoFile, NoSource \* values outside the other sets

Version == 1 .. MaxVersion

ID == 1 .. Cardinality(Source)

ASSUME RecoveryAssumption ==
  /\ IsFiniteSet(Source)
  /\ SourceOf \in [Path -> Source]
  /\ Configs \subseteq (SUBSET Source) \ {{}}
  /\ Editable \subseteq Path
  /\ MaxMiss \in Nat /\ MaxVersion \in Nat \ {0} /\ MaxFaults \in Nat
  /\ {BackUp, Restore} \subseteq BOOLEAN
  /\ Faults \subseteq {"kill", "abort", "refuse", "short"}
  /\ Absent # Torn /\ Absent \notin Version /\ Torn \notin Version
  /\ NoSource \notin Source /\ NoFile \notin [path : Path, version : Version]
  /\ Missing \notin UNION {[S -> ID] : S \in SUBSET Source}

VARIABLES
  src,     \* src[p]: the version of p in its source, or Absent
  newest,  \* newest[p]: the newest version p ever had
  dest,    \* dest[p]: the copy of p: a version, Absent or Torn
  markers, \* which of .Failure and .Success exist
  index,   \* Index.bin: source -> ID, or Missing
  state,   \* State.bin: the flags, and is the file whole; or Missing
  bin,     \* bin[i]: <i>.bin, the entries and is the last one whole; or Missing
  created, \* does the directory exist?
  backup,  \* the copy of the directory in .BackupCache, or Missing
  pc,      \* where the main thread is; "off" between two processes
  config,  \* the sources of this process's configuration
  scanned, \* what was scanned: the version of each file found
  stage,   \* stage[s]: how far the run is with source s
  todo,    \* the files queued for copying
  current, \* the source being copied
  failed,  \* did a copy of that source return false (in recovery: a Load)?
  open,    \* the file whose destination is truncated and not complete
  entries, \* HDDCopyStateCache.Entries
  faults,  \* history: faults so far
  refused, \* history: the files whose copy returned false in this process
  recopied, \* history: recorded files that were begun to be copied again, unfinished
  short,    \* history: the files whose last copy returned true over a part of them
  indexLost \* history: did Index.bin ever lose the ID of a source?

disk == <<markers, index, state, bin, created>>
users == <<src, newest>>
process == <<config, scanned, stage, todo, current, failed, open, entries, refused>>
history == <<faults, recopied, short, indexLost>>

vars == <<users, dest, disk, backup, pc, process, history>>

-----------------------------------------------------------------------------
(* The files of the cache directory. *)

Part(f, S) == [x \in S |-> f[x]]

(* LoadIndex and LoadCopiedState: what there is to read is read.           *)
Index == IF index = Missing THEN EmptyCache ELSE index

Flags == IF state = Missing THEN EmptyCache ELSE state.flags

(* LoadCopiedState's result: a missing file is no error.                   *)
StateLoads == IF state = Missing THEN TRUE ELSE state.whole

(* Load: a prefix that ends between two entries is read without an error,  *)
(* one that ends within an entry is kept, with an error.                   *)
Entries(i) == IF bin[i] = Missing THEN EmptyCache ELSE bin[i].entries

BinLoads(i) == IF bin[i] = Missing THEN TRUE ELSE bin[i].whole

WholeState(flags) == [flags |-> flags, whole |-> TRUE]

WholeBin(cache) == [entries |-> cache, whole |-> TRUE]

(* What a write of these contents may leave when it is cut short.          *)
TornIndex(f) == {Part(f, S) : S \in SUBSET DOMAIN f}

TornState(flags) ==
  {WholeState(flags)} \cup
  {[flags |-> Part(flags, S), whole |-> FALSE] : S \in (SUBSET DOMAIN flags) \ {DOMAIN flags}} \cup
  {[flags |-> EmptyCache, whole |-> FALSE]}

TornBin(cache) ==
  {WholeBin(cache)} \cup
  {[entries |-> Part(cache, S), whole |-> w] :
     S \in (SUBSET DOMAIN cache) \ {DOMAIN cache}, w \in BOOLEAN}

-----------------------------------------------------------------------------
FilesOf(s) == {p \in Path : SourceOf[p] = s}

Found == {p \in Path : scanned[p] # Absent}

Fresh(s) == Part(scanned, Found \cap FilesOf(s))

NothingScanned == [p \in Path |-> Absent]

NoStage == [s \in Source |-> "none"]

(* The memory of a process: what a new one starts with.                    *)
FreshProcess ==
  /\ scanned' = NothingScanned /\ stage' = NoStage /\ todo' = {}
  /\ current' = NoSource /\ failed' = FALSE /\ open' = NoFile
  /\ entries' = EmptyCache /\ refused' = {}

Exit == pc' = "off" /\ config' = {} /\ FreshProcess

Init ==
  /\ src = [p \in Path |-> 1] /\ newest = src
  /\ dest = [p \in Path |-> Absent]
  /\ markers = {} /\ index = Missing /\ state = Missing
  /\ bin = [i \in ID |-> Missing]
  /\ created = FALSE /\ backup = Missing
  /\ pc = "off" /\ config = {}
  /\ scanned = NothingScanned /\ stage = NoStage /\ todo = {}
  /\ current = NoSource /\ failed = FALSE /\ open = NoFile
  /\ entries = EmptyCache /\ refused = {}
  /\ faults = 0 /\ recopied = {} /\ short = {} /\ indexLost = FALSE

-----------------------------------------------------------------------------
(* The users of the source. *)
Modify(p) ==
  /\ newest[p] < MaxVersion
  /\ src' = [src EXCEPT ![p] = newest[p] + 1]
  /\ newest' = [newest EXCEPT ![p] = @ + 1]

Remove(p) ==
  /\ src[p] # Absent
  /\ src' = [src EXCEPT ![p] = Absent]
  /\ UNCHANGED newest

Edit ==
  /\ \E p \in Editable : Modify(p) \/ Remove(p)
  /\ UNCHANGED <<dest, disk, backup, pc, process, history>>

-----------------------------------------------------------------------------
(* Starting: ConfigParser reads the destination and CheckCacheIntegrity    *)
(* looks at the directory.                                                 *)
Intact == markers # {} /\ index # Missing /\ state # Missing

(* Copying the backup over the directory leaves the files it does not      *)
(* contain as they are.                                                    *)
RestoreBackup ==
  LET Over(b, d) == IF b = Missing THEN d ELSE b
  IN  /\ markers' = markers \cup backup.markers
      /\ index' = Over(backup.index, index)
      /\ state' = Over(backup.state, state)
      /\ bin' = [i \in ID |-> Over(backup.bin[i], bin[i])]

NoteLoss == indexLost' = (indexLost \/ (index # Missing /\ ~(DOMAIN index \subseteq DOMAIN index')))

(* A process that finds the directory broken and nothing to restore it     *)
(* from exits at once and changes nothing: there is no action for it.      *)
Start(c) ==
  /\ pc = "off"
  /\ \/ /\ created => Intact
        /\ UNCHANGED <<markers, index, state, bin>>
     \/ /\ created /\ ~Intact /\ Restore /\ backup # Missing
        /\ RestoreBackup
  /\ created' = TRUE
  /\ config' = c /\ FreshProcess
  /\ NoteLoss
  /\ pc' = "decide"
  /\ UNCHANGED <<users, dest, backup, faults, recopied, short>>

(* ControlFlow::Run: no .Failure, so this process synchronises. *)
BeginRun ==
  /\ pc = "decide" /\ "Failure" \notin markers
  /\ pc' = "removeSuccess"
  /\ UNCHANGED <<users, dest, disk, backup, process, history>>

(* MarkFailure: one marker is removed, then the other is created. *)
RemoveSuccess ==
  /\ pc = "removeSuccess"
  /\ markers' = markers \ {"Success"}
  /\ pc' = "createFailure"
  /\ UNCHANGED <<users, dest, index, state, bin, created, backup, process, history>>

MutCreateFailure ==
  /\ pc = "createFailure"
  /\ pc' = "scan"
  /\ UNCHANGED <<users, dest, disk, backup, process, history>>

CreateFailure ==
  /\ pc = "createFailure"
  /\ markers' = markers \cup {"Failure"}
  /\ pc' = "scan"
  /\ UNCHANGED <<users, dest, index, state, bin, created, backup, process, history>>

ScanSources ==
  /\ pc = "scan"
  /\ scanned' = [p \in Path |-> IF SourceOf[p] \in config THEN src[p] ELSE Absent]
  /\ pc' = "reset"
  /\ UNCHANGED <<users, dest, disk, backup, config, stage, todo, current, failed, open, entries,
                 refused, history>>

FlagsReset == [i \in DOMAIN Flags |-> FALSE]

ResetCopiedFlags ==
  /\ pc = "reset"
  /\ state' = WholeState(FlagsReset)
  /\ stage' = [s \in Source |-> IF s \in config THEN "index" ELSE "done"]
  /\ pc' = "sync"
  /\ UNCHANGED <<users, dest, markers, index, bin, created, backup, config, scanned, todo, current,
                 failed, open, entries, refused, history>>

-----------------------------------------------------------------------------
(* UpdateCacheForSource, a job per source. *)
At(s, where) == pc = "sync" /\ stage[s] = where

Become(s, where) == stage' = [stage EXCEPT ![s] = where]

MutIndexWith(s) ==
  [t \in DOMAIN Index \cup {s} |-> IF t \in DOMAIN Index THEN Index[t] ELSE Cardinality(config)]

MutIndexBeyond(s) ==
  [t \in DOMAIN Index \cup {s} |-> IF t \in DOMAIN Index THEN Index[t] ELSE Cardinality(DOMAIN Index) + 2]

IndexWith(s) ==
  [t \in DOMAIN Index \cup {s} |-> IF t \in DOMAIN Index THEN Index[t] ELSE Cardinality(DOMAIN Index) + 1]

AddToIndex(s) ==
  /\ At(s, "index") /\ s \notin DOMAIN Index
  /\ index' = IndexWith(s)
  /\ UNCHANGED <<users, dest, markers, state, bin, created, backup, pc, process, history>>

ToCopy(s) == FilesToCopy(Entries(index[s]), Fresh(s))

QueueCopies(s) ==
  /\ At(s, "index") /\ s \in DOMAIN Index
  /\ ToCopy(s) # {}
  /\ todo' = todo \cup ToCopy(s)
  /\ Become(s, "queued")
  /\ UNCHANGED <<users, dest, disk, backup, pc, config, scanned, current, failed, open, entries,
                 refused, history>>

NothingToCopy(s) ==
  /\ At(s, "index") /\ s \in DOMAIN Index
  /\ ToCopy(s) = {}
  /\ Become(s, "jobSave")
  /\ UNCHANGED <<users, dest, disk, backup, pc, config, scanned, todo, current, failed, open,
                 entries, refused, history>>

CacheOf(s) == MarkVisited(Entries(index[s]), DOMAIN Fresh(s))

Refreshed(s) == Refresh(CacheOf(s), Fresh(s), MaxMiss)

SaveUnchanged(s) ==
  /\ At(s, "jobSave")
  /\ bin' = [bin EXCEPT ![index[s]] = WholeBin(Refreshed(s))]
  /\ Become(s, "done")
  /\ UNCHANGED <<users, dest, markers, index, state, created, backup, pc, config, scanned, todo,
                 current, failed, open, entries, refused, history>>

-----------------------------------------------------------------------------
(* Copying: the copy thread of a run, or the main thread of a recovery. *)
MutTakeTask(s) ==
  /\ At(s, "queued") /\ current = NoSource
  /\ current' = s /\ failed' = FALSE
  /\ Become(s, "copy")
  /\ bin' = [bin EXCEPT ![index[s]] = WholeBin(Refreshed(s))]
  /\ UNCHANGED <<users, dest, markers, index, state, created, backup, pc, config, scanned, todo,
                 open, entries, refused, history>>

TakeTask(s) ==
  /\ At(s, "queued") /\ current = NoSource
  /\ current' = s /\ failed' = FALSE
  /\ Become(s, "copy")
  /\ UNCHANGED <<users, dest, disk, backup, pc, config, scanned, todo, open, entries, refused,
                 history>>

CopyingNow == current # NoSource /\ (pc = "recoverCopy" \/ At(current, "copy"))

(* In recovery the scanner still holds the files of earlier sources. *)
Copies == IF pc = "recoverCopy" THEN todo ELSE todo \cap FilesOf(current)

Copying(p) == CopyingNow /\ open = NoFile /\ p \in Copies

(* A run remembers that a copy failed; a recovery ignores it. *)
CopyRefused(p) ==
  /\ Copying(p)
  /\ \/ src[p] = Absent /\ UNCHANGED faults
     \/ "refuse" \in Faults /\ faults < MaxFaults /\ faults' = faults + 1
  /\ todo' = todo \ {p}
  /\ refused' = refused \cup {p}
  /\ failed' = IF pc = "recoverCopy" THEN failed ELSE TRUE
  /\ UNCHANGED <<users, dest, disk, backup, pc, config, scanned, stage, current, open, entries,
                 recopied, short, indexLost>>

(* The backup of the cache records the file as it is now.                  *)
BackedUp(p) ==
  /\ backup # Missing /\ SourceOf[p] \in DOMAIN Index
  /\ LET b == backup.bin[Index[SourceOf[p]]]
     IN  b # Missing /\ p \in DOMAIN b.entries /\ b.entries[p].hash = src[p]

OpenDestination(p) ==
  /\ Copying(p) /\ src[p] # Absent
  /\ dest' = [dest EXCEPT ![p] = Torn]
  /\ open' = [path |-> p, version |-> src[p]]
  /\ recopied' = IF SourceOf[p] # current \/ BackedUp(p) THEN recopied \cup {p} ELSE recopied
  /\ short' = short \ {p}
  /\ UNCHANGED <<users, disk, backup, pc, config, scanned, stage, todo, current, failed, entries,
                 refused, faults, indexLost>>

Unedited(p) == src[p] \in {open.version, Absent}

MayEndShort == "short" \in Faults /\ faults < MaxFaults

(* What a copy that returns true leaves: the version that was opened; of a *)
(* file edited under it, the new one or a mixture; and a part, since only  *)
(* a negative result of copy_file_range counts as a failure.               *)
Outcomes(p) ==
  {open.version} \cup (IF Unedited(p) THEN {} ELSE {src[p], Torn})
                 \cup (IF MayEndShort THEN {Torn} ELSE {})

FinishCopy ==
  /\ open # NoFile
  /\ \E v \in Outcomes(open.path) :
       /\ dest' = [dest EXCEPT ![open.path] = v]
       /\ IF v = Torn /\ Unedited(open.path)
          THEN short' = short \cup {open.path} /\ faults' = faults + 1
          ELSE UNCHANGED <<short, faults>>
  /\ todo' = todo \ {open.path}
  /\ open' = NoFile
  /\ recopied' = recopied \ {open.path}
  /\ UNCHANGED <<users, disk, backup, pc, config, scanned, stage, current, failed, entries,
                 refused, indexLost>>

CopiesDone == CopyingNow /\ open = NoFile /\ Copies = {}

MutGiveUpSource ==
  /\ CopiesDone /\ pc = "sync" /\ failed
  /\ Become(current, "save")
  /\ UNCHANGED <<users, dest, disk, backup, pc, config, scanned, todo, current, failed, open,
                 entries, refused, history>>

(* A run: one failure, and nothing of the source is recorded. *)
GiveUpSource ==
  /\ CopiesDone /\ pc = "sync" /\ failed
  /\ Become(current, "done") /\ current' = NoSource
  /\ UNCHANGED <<users, dest, disk, backup, pc, config, scanned, todo, failed, open, entries,
                 refused, history>>

FlagsWith(s) ==
  [i \in DOMAIN Flags \cup {index[s]} |-> IF i = index[s] THEN TRUE ELSE Flags[i]]

MarkCopied ==
  /\ CopiesDone /\ pc = "sync" /\ ~failed
  /\ state' = WholeState(FlagsWith(current))
  /\ Become(current, "save")
  /\ UNCHANGED <<users, dest, markers, index, bin, created, backup, pc, config, scanned, todo,
                 current, failed, open, entries, refused, history>>

(* UpdateEntry for the fresh files, RemoveStaleEntries, and Save, on the    *)
(* cache the copy thread keeps for every source of the run.                *)
EntriesAfter == Refresh(entries, Fresh(current), MaxMiss)

SaveCopied ==
  /\ current # NoSource /\ At(current, "save")
  /\ entries' = EntriesAfter
  /\ bin' = [bin EXCEPT ![index[current]] = WholeBin(EntriesAfter)]
  /\ Become(current, "done") /\ current' = NoSource
  /\ UNCHANGED <<users, dest, markers, index, state, created, backup, pc, config, scanned, todo,
                 failed, open, refused, history>>

MutSyncDone ==
  /\ pc = "sync" /\ \A s \in Source : stage[s] \notin {"index", "jobSave"}
  /\ pc' = "removeFailure"
  /\ UNCHANGED <<users, dest, disk, backup, process, history>>

SyncDone ==
  /\ pc = "sync" /\ \A s \in Source : stage[s] = "done"
  /\ pc' = "removeFailure"
  /\ UNCHANGED <<users, dest, disk, backup, process, history>>

-----------------------------------------------------------------------------
(* MarkSuccess, at the end of a run or of a recovery (where the caller     *)
(* marks success once more, which changes nothing).                        *)
RemoveFailure ==
  /\ pc \in {"removeFailure", "recoverRemoveFailure"}
  /\ markers' = markers \ {"Failure"}
  /\ pc' = IF pc = "removeFailure" THEN "createSuccess" ELSE "recoverCreateSuccess"
  /\ UNCHANGED <<users, dest, index, state, bin, created, backup, process, history>>

CreateSuccess ==
  /\ pc = "createSuccess"
  /\ markers' = markers \cup {"Success"}
  /\ IF BackUp THEN pc' = "removeBackup" /\ UNCHANGED process ELSE Exit
  /\ UNCHANGED <<users, dest, index, state, bin, created, backup, history>>

RemoveBackup ==
  /\ pc = "removeBackup"
  /\ backup' = Missing
  /\ pc' = "copyBackup"
  /\ UNCHANGED <<users, dest, disk, process, history>>

CopyBackup ==
  /\ pc = "copyBackup"
  /\ backup' = [markers |-> markers, index |-> index, state |-> state, bin |-> bin]
  /\ Exit
  /\ UNCHANGED <<users, dest, disk, history>>

RecoveryCreatesSuccess ==
  /\ pc = "recoverCreateSuccess"
  /\ markers' = markers \cup {"Success"}
  /\ Exit
  /\ UNCHANGED <<users, dest, index, state, bin, created, backup, history>>

-----------------------------------------------------------------------------
(* RunFailureRecovery, once the user has typed Continue. *)
PendingSources ==
  {s \in config \cap DOMAIN Index : ~(Index[s] \in DOMAIN Flags /\ Flags[Index[s]])}

BeginRecovery ==
  /\ pc = "decide" /\ "Failure" \in markers /\ StateLoads
  /\ stage' = [s \in Source |-> IF s \in PendingSources THEN "pending" ELSE "done"]
  /\ pc' = "recover"
  /\ UNCHANGED <<users, dest, disk, backup, config, scanned, todo, current, failed, open, entries,
                 refused, history>>

(* "Failed to load copy state file", or overallSuccess was set to false.   *)
RecoveryFails ==
  /\ \/ pc = "decide" /\ "Failure" \in markers /\ ~StateLoads
     \/ pc = "recover" /\ failed /\ \A s \in Source : stage[s] = "done"
  /\ Exit
  /\ UNCHANGED <<users, dest, disk, backup, history>>

RecoverySkips(s) ==
  /\ pc = "recover" /\ stage[s] = "pending"
  /\ ~BinLoads(index[s])
  /\ failed' = TRUE
  /\ Become(s, "done")
  /\ UNCHANGED <<users, dest, disk, backup, pc, config, scanned, todo, current, open, entries,
                 refused, history>>

(* The scanner is not cleared: what it found in earlier sources is         *)
(* compared with the cache of this one and queued again.                   *)
RecoverSource(s) ==
  /\ pc = "recover" /\ stage[s] = "pending"
  /\ BinLoads(index[s])
  /\ scanned' = [p \in Path |-> IF SourceOf[p] = s THEN src[p] ELSE scanned[p]]
  /\ todo' = FilesToCopy(Entries(index[s]), Part(scanned', {p \in Path : scanned'[p] # Absent}))
  /\ current' = s
  /\ pc' = "recoverCopy"
  /\ UNCHANGED <<users, dest, disk, backup, config, stage, failed, open, entries, refused, history>>

RecoveryMarksCopied ==
  /\ pc = "recoverCopy" /\ CopiesDone
  /\ state' = WholeState(FlagsWith(current))
  /\ Become(current, "done") /\ current' = NoSource
  /\ pc' = "recover"
  /\ UNCHANGED <<users, dest, markers, index, bin, created, backup, config, scanned, todo, failed,
                 open, entries, refused, history>>

RecoverySucceeds ==
  /\ pc = "recover" /\ ~failed /\ \A s \in Source : stage[s] = "done"
  /\ pc' = "recoverRemoveFailure"
  /\ UNCHANGED <<users, dest, disk, backup, process, history>>

-----------------------------------------------------------------------------
(* The end of a process at any moment.  Files about to be written are old, *)
(* or a prefix of the new ones.                                            *)
IndexLeft == {index} \cup UNION {TornIndex(IndexWith(s)) :
                                   s \in {t \in Source : At(t, "index") /\ t \notin DOMAIN Index}}

StateLeft ==
  {state} \cup
    IF pc = "reset" THEN TornState(FlagsReset)
    ELSE IF CopiesDone /\ (pc = "recoverCopy" \/ ~failed) THEN TornState(FlagsWith(current))
    ELSE {}

Writing(i) ==
  {s \in Source : (At(s, "jobSave") \/ At(s, "save")) /\ index[s] = i}

BinLeft(i) ==
  {bin[i]} \cup UNION {TornBin(IF stage[s] = "save" THEN EntriesAfter ELSE Refreshed(s)) :
                         s \in Writing(i)}

BinsLeft == {b \in [ID -> UNION {BinLeft(i) : i \in ID}] : \A i \in ID : b[i] \in BinLeft(i)}

Fault == faults < MaxFaults /\ faults' = faults + 1

Kill ==
  /\ "kill" \in Faults /\ Fault
  /\ pc # "off"
  /\ index' \in IndexLeft /\ state' \in StateLeft /\ bin' \in BinsLeft
  /\ NoteLoss
  /\ Exit
  /\ UNCHANGED <<users, dest, markers, created, backup, recopied, short>>

(* HandleCopyFailure: the copy broke off, or file_size threw because the   *)
(* file is gone.  State.bin is loaded and saved, and the process exits     *)
(* under its other threads.                                                *)
Abort ==
  /\ \/ open # NoFile /\ "abort" \in Faults /\ Fault
     \/ (\E p \in Path : Copying(p) /\ src[p] = Absent) /\ UNCHANGED faults
  /\ state' = WholeState(Flags)
  /\ index' \in IndexLeft /\ bin' \in BinsLeft
  /\ NoteLoss
  /\ Exit
  /\ UNCHANGED <<users, dest, markers, created, backup, recopied, short>>

-----------------------------------------------------------------------------
SourceStep(s) ==
  \/ AddToIndex(s) \/ QueueCopies(s) \/ NothingToCopy(s) \/ SaveUnchanged(s)
  \/ TakeTask(s)
  \/ RecoverySkips(s) \/ RecoverSource(s)

ProcessStep ==
  \/ BeginRun \/ RemoveSuccess \/ CreateFailure \/ ScanSources \/ ResetCopiedFlags
  \/ \E s \in Source : SourceStep(s)
  \/ \E p \in Path : OpenDestination(p) \/ (src[p] = Absent /\ CopyRefused(p))
  \/ FinishCopy \/ GiveUpSource \/ MarkCopied \/ SaveCopied \/ SyncDone
  \/ RemoveFailure \/ CreateSuccess \/ RemoveBackup \/ CopyBackup
  \/ BeginRecovery \/ RecoveryFails \/ RecoveryMarksCopied \/ RecoverySucceeds
  \/ RecoveryCreatesSuccess

Starts == \E c \in Configs : Start(c)

Next ==
  \/ Edit
  \/ Starts
  \/ ProcessStep
  \/ \E p \in Path : CopyRefused(p)
  \/ Kill \/ Abort

(* A process runs on, and the program is started again and again (by cron, *)
(* or by a user who types Continue).  Nobody has to edit, and nothing has  *)
(* to fail.                                                                *)
Spec == Init /\ [][Next]_vars /\ WF_vars(ProcessStep) /\ WF_vars(Starts)

-----------------------------------------------------------------------------
Caches == Cache(Path, Version, MaxMiss)

IndexFile == (UNION {[S -> ID] : S \in SUBSET Source}) \cup {Missing}

StateFile ==
  [flags : UNION {[S -> BOOLEAN] : S \in SUBSET ID}, whole : BOOLEAN] \cup {Missing}

BinFile == [entries : Caches, whole : BOOLEAN] \cup {Missing}

(* Every variable has the values the code gives it.                        *)
TypeOK ==
  /\ src \in [Path -> Version \cup {Absent}]
  /\ newest \in [Path -> 0 .. MaxVersion]
  /\ dest \in [Path -> Version \cup {Absent, Torn}]
  /\ markers \subseteq {"Failure", "Success"}
  /\ index \in IndexFile /\ state \in StateFile /\ bin \in [ID -> BinFile]
  /\ created \in BOOLEAN
  /\ \/ backup = Missing
     \/ /\ backup.markers \subseteq {"Failure", "Success"}
        /\ backup.index \in IndexFile /\ backup.state \in StateFile
        /\ backup.bin \in [ID -> BinFile]
  /\ pc \in {"off", "decide", "removeSuccess", "createFailure", "scan", "reset", "sync",
            "removeFailure", "createSuccess", "removeBackup", "copyBackup", "recover",
            "recoverCopy", "recoverRemoveFailure", "recoverCreateSuccess"}
  /\ config \in Configs \cup {{}}
  /\ scanned \in [Path -> Version \cup {Absent}]
  /\ stage \in [Source -> {"none", "index", "queued", "copy", "save", "jobSave",
                          "pending", "done"}]
  /\ todo \subseteq Path
  /\ current \in Source \cup {NoSource}
  /\ failed \in BOOLEAN
  /\ open \in [path : Path, version : Version] \cup {NoFile}
  /\ entries \in Caches
  /\ faults \in 0 .. MaxFaults
  /\ refused \subseteq Path /\ recopied \subseteq Path /\ short \subseteq Path
  /\ indexLost \in BOOLEAN

(* The next run would skip p, and p is not being copied now.               *)
UpToDate(p) ==
  LET s == SourceOf[p]
  IN  /\ open # NoFile => open.path # p
      /\ s \in DOMAIN Index
      /\ p \in DOMAIN Entries(Index[s])
      /\ Entries(Index[s])[p].hash = src[p]

(* The cache reflects the true state of the destination, at every instant  *)
(* and so after every crash, abort, recovery and restore: what the next    *)
(* run would skip is in the destination.                                   *)
CacheTruthful == \A p \in Path : UpToDate(p) => dest[p] = src[p]

(* The same, but for recorded files that were begun to be copied again and *)
(* not finished: by a recovery, on behalf of another source, or while only *)
(* the backup recorded them, which may come back; and but for files whose  *)
(* copy ended short.  And as long as no source lost its ID (it may get     *)
(* another's, and the old bin of that one).                                *)
CacheTruthfulUnlessLost ==
  \A p \in Path \ (recopied \cup short) : UpToDate(p) => dest[p] = src[p] \/ indexLost

(* A run or a recovery that reports success has every file it scanned in   *)
(* the destination, unless it was edited since, its copy was refused or    *)
(* one of the three losses above happened.                                 *)
SuccessIsCopied ==
  pc \in {"removeFailure", "recoverRemoveFailure"} /\ ~indexLost =>
    \A p \in Path \ (refused \cup recopied \cup short) :
      scanned[p] # Absent /\ scanned[p] = src[p] => dest[p] = src[p]

(* What a process changes in the destination and in the cache, it changes  *)
(* while .Failure exists: whenever it ends, the next one can see it.       *)
ChangesAreMarked ==
  [][pc # "off" /\ <<dest, index, state, bin>>' # <<dest, index, state, bin>>
       => "Failure" \in markers]_vars

(* Two sources get one ID, and so one bin and one flag, only after a source *)
(* lost its own.                                                           *)
IDsDistinct == indexLost \/ \A s, t \in DOMAIN Index : Index[s] = Index[t] => s = t

(* A run at the grain of SyncRun.                                          *)
RunIs ==
  CASE pc \in {"scan", "reset"} -> "scan"
    [] pc = "sync" -> "sync"
    [] pc \in {"removeFailure", "createSuccess", "removeBackup", "copyBackup"} -> "ended"
    [] OTHER -> "off"

StageIs(s) ==
  CASE RunIs = "off" \/ s \notin config -> "out"
    [] RunIs # "off" /\ s \in config ->
         CASE pc = "scan" -> "unscanned"
           [] pc = "reset" \/ (pc = "sync" /\ stage[s] = "index") -> "scanned"
           [] pc = "sync" /\ stage[s] = "jobSave" -> "unchanged"
           [] pc = "sync" /\ stage[s] = "copy" -> "copying"
           [] pc = "sync" /\ stage[s] = "save" -> "saving"
           [] pc = "sync" /\ stage[s] = "queued" -> "queued"
           [] OTHER -> "done"

Run == INSTANCE SyncRun WITH run <- RunIs, stage <- [s \in Source |-> StageIs(s)]

(* A run of this module goes through its sources as SyncRun says, which    *)
(* HDDSync implements with its threads: what is shown here of a run that   *)
(* is interrupted holds for theirs.                                        *)
ImplementsSyncRun == Run!Spec

(* What a crash can leave that no later process repairs: nothing to start  *)
(* from, and no backup ...                                                 *)
NothingToRestore == created /\ pc = "off" /\ ~Intact /\ ~(Restore /\ backup # Missing)

(* ... a recovery that cannot read State.bin or a bin it needs ...         *)
Unreadable ==
  /\ "Failure" \in markers
  /\ \/ ~StateLoads
     \/ \E s \in DOMAIN Index :
          ~BinLoads(Index[s]) /\ ~(Index[s] \in DOMAIN Flags /\ Flags[Index[s]])

(* ... or sources that share IDs.                                          *)
Damaged == NothingToRestore \/ Unreadable \/ indexLost

InSync == \A p \in Path \ (recopied \cup short) : src[p] # Absent => dest[p] = src[p]

(* When users stop editing and nothing fails any more, the destination     *)
(* ends up as the source and stays so, but for files that were copied short *)
(* or begun to be copied again, whatever was interrupted or refused before, *)
(* unless that left damage no later process repairs.                       *)
EventuallyInSyncUnlessDamaged == <>[](InSync \/ Damaged)

(* With a backup of the cache, and only crashes, the destination does.     *)
BackupRecovers == backup # Missing ~> InSync
=============================================================================
