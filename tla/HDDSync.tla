------------------------------- MODULE HDDSync -------------------------------
(***************************************************************************)
(* A synchronisation run in HDD mode: ControlFlow::Run, the jobs it gives  *)
(* to the thread pool (scan a source; MetaDataCache::UpdateCacheForSource  *)
(* with the HDD branch of SyncEngine::Sync), and the copy thread of        *)
(* HDDCopyQueue with FileCopier::PerformFileCopy.  Several runs follow     *)
(* each other; files change at any moment.                                 *)
(*                                                                         *)
(* The pool is used through its contract (WorkPool, which ThreadPool       *)
(* implements).  A section executed under HDDCQ_Mutex or IndexMutex is one *)
(* action.  What only the running thread can see (a job's local cache, the *)
(* bin of the source it works on) is read in the action that uses it.      *)
(*                                                                         *)
(* The content of a file is its version.  The IDs of Index.bin are         *)
(* abstracted to the sources they name.  A copy is two actions, because    *)
(* the destination is truncated long before it is complete.                *)
(*                                                                         *)
(* HandleCopyFailure ends the process: alive becomes FALSE; what the next  *)
(* start makes of it is modelled in Recovery.                              *)
(***************************************************************************)
EXTENDS Naturals, Sequences, FiniteSets, MetaDataCache

CONSTANTS
  Source,      \* the configured sources
  Path,        \* the files that may exist in them
  SourceOf,    \* SourceOf[p]: the source file p belongs to
  Worker,      \* the threads of the pool
  MaxMiss,     \* StaleEntries
  DeleteStale, \* DeleteStaleFromDest
  TopFolder,   \* DestinationTopFolderInsteadOfFullPath
  Edits,       \* what users do to the sources: "modify", "remove", "reappear"
  Faults,      \* what may go wrong with a copy: "refuse", "abort", "short"
  MaxVersion,  \* bound: versions a file may have
  MaxRuns,     \* bound: runs of the program
  Absent, Torn, NoJob, NoFile, NoTask \* values outside the other sets

Version == 1 .. MaxVersion

Job == [kind : {"scan", "update"}, source : Source]

Task == [source : Source, todo : SUBSET Path,
         fresh : UNION {[P -> Version] : P \in SUBSET Path}, failed : BOOLEAN]

OpenFile == [path : Path, version : Version]

ASSUME HDDAssumption ==
  /\ IsFiniteSet(Source) /\ IsFiniteSet(Path) /\ Source # {}
  /\ Worker # {}
  /\ SourceOf \in [Path -> Source]
  /\ MaxMiss \in Nat /\ MaxRuns \in Nat /\ MaxVersion \in Nat \ {0}
  /\ DeleteStale \in BOOLEAN /\ TopFolder \in BOOLEAN
  /\ Edits \subseteq {"modify", "remove", "reappear"}
  /\ Faults \subseteq {"refuse", "abort", "short"}
  /\ Absent # Torn /\ Absent \notin Version /\ Torn \notin Version
  /\ NoJob \notin Job /\ NoTask \notin Task /\ NoFile \notin OpenFile

VARIABLES
  src,     \* src[p]: the version of p in its source, or Absent
  newest,  \* newest[p]: the newest version p ever had
  dest,    \* dest[p]: the copy of p: a version, Absent or Torn
  bin,     \* bin[s]: the saved cache of s (<ID>.bin)
  index,   \* the sources Index.bin has an ID for
  copied,  \* the sources State.bin flags as copied
  marker,  \* "none", "Failure" or "Success": the marker file
  mpc,     \* where the main thread is in ControlFlow::Run
  left,    \* the sources its present loop has not submitted yet
  scanned, \* PerSourceResults: path -> version for the files found, per source
  queue, running, \* the pool (WorkPool)
  wpc,     \* wpc[w]: where worker w is in its job
  copyQueue,    \* HDDGlobalCopyQueue
  pending,      \* HDDPendingSources
  allSubmitted, \* HDDAllSourcesSubmitted
  hddRunning,   \* HDDRunning
  waiters,      \* the threads blocked in HDD_CV.wait: "main", "copier"
  cpc,     \* where the copy thread is in CopyThreadLoop
  task,    \* the source it works on: files left, fresh files, any failure
  open,    \* the file whose destination is truncated and not complete
  entries, \* HDDCopyStateCache.Entries
  alive,   \* has HandleCopyFailure not ended the process?
  runs,    \* history: completed and started runs
  missed,  \* history: missed[p], the scans without p since a saved cache had it
  refused, \* history: the files whose copy returned false in this run
  short    \* history: the files whose last copy returned true over a part of them

disk == <<dest, bin, index, copied, marker>>
files == <<src, newest>>
main == <<mpc, left, runs>>
pool == <<queue, running>>
hdd == <<copyQueue, pending, allSubmitted, hddRunning, waiters>>
copier == <<cpc, task, open, entries>>
results == <<scanned, missed, short>>

vars == <<files, disk, main, results, pool, wpc, hdd, copier, refused, alive>>

Pool == INSTANCE WorkPool WITH joining <- mpc \in {"joinScan", "joinUpdate"}

FilesOf(s) == {p \in Path : SourceOf[p] = s}

Fresh(s) == [p \in {q \in FilesOf(s) : scanned[q] # Absent} |-> scanned[p]]

Init ==
  /\ src \in [Path -> {Absent, 1}]
  /\ newest = [p \in Path |-> IF src[p] = Absent THEN 0 ELSE 1]
  /\ dest = [p \in Path |-> Absent]
  /\ bin = [s \in Source |-> EmptyCache]
  /\ index = {} /\ copied = {} /\ marker = "none"
  /\ mpc = "idle" /\ left = {} /\ runs = 0
  /\ scanned = [p \in Path |-> Absent]
  /\ missed = [p \in Path |-> 0]
  /\ Pool!Init
  /\ wpc = [w \in Worker |-> "idle"]
  /\ copyQueue = <<>> /\ pending = 0 /\ allSubmitted = FALSE /\ hddRunning = FALSE
  /\ waiters = {}
  /\ cpc = "none" /\ task = NoTask /\ open = NoFile /\ entries = EmptyCache
  /\ refused = {} /\ short = {} /\ alive = TRUE

-----------------------------------------------------------------------------
(* The users of the source: a file changes, disappears, comes back as it   *)
(* was (a disk mounted again) or is created.                               *)
Modify(p) ==
  /\ newest[p] < MaxVersion
  /\ src' = [src EXCEPT ![p] = newest[p] + 1]
  /\ newest' = [newest EXCEPT ![p] = @ + 1]
  /\ UNCHANGED <<disk, main, results, pool, wpc, hdd, copier, refused>>

Remove(p) ==
  /\ src[p] # Absent
  /\ src' = [src EXCEPT ![p] = Absent]
  /\ UNCHANGED <<newest, disk, main, results, pool, wpc, hdd, copier, refused>>

Reappear(p) ==
  /\ src[p] = Absent /\ newest[p] > 0
  /\ src' = [src EXCEPT ![p] = newest[p]]
  /\ UNCHANGED <<newest, disk, main, results, pool, wpc, hdd, copier, refused>>

Edit ==
  \E p \in Path :
    \/ "modify" \in Edits /\ Modify(p)
    \/ "remove" \in Edits /\ Remove(p)
    \/ "reappear" \in Edits /\ Reappear(p)

-----------------------------------------------------------------------------
(* ControlFlow::Run, the main thread. *)

(* A new process: its queues and its HDDCopyStateCache are empty. *)
StartRun ==
  /\ mpc = "idle" /\ runs < MaxRuns
  /\ marker' = "Failure"
  /\ mpc' = "scan" /\ left' = Source /\ runs' = runs + 1
  /\ pending' = 0 /\ allSubmitted' = FALSE /\ hddRunning' = FALSE
  /\ cpc' = "none" /\ entries' = EmptyCache
  /\ refused' = {}
  /\ UNCHANGED <<files, dest, bin, index, copied, results, pool, wpc, copyQueue, waiters,
                 task, open>>

SubmitScan(s) ==
  /\ mpc = "scan" /\ s \in left
  /\ left' = left \ {s}
  /\ mpc' = mpc
  /\ Pool!Submit([kind |-> "scan", source |-> s])
  /\ UNCHANGED <<files, disk, runs, results, wpc, hdd, copier, refused>>

MutJoinScans ==
  /\ mpc = "scan" /\ left = {}
  /\ mpc' = "reset"
  /\ UNCHANGED <<files, disk, left, runs, results, pool, wpc, hdd, copier, refused>>

JoinScans ==
  /\ mpc = "scan" /\ left = {}
  /\ mpc' = "joinScan"
  /\ Pool!JoinCall
  /\ UNCHANGED <<files, disk, left, runs, results, wpc, hdd, copier, refused>>

ScansJoined ==
  /\ mpc = "joinScan"
  /\ mpc' = "reset"
  /\ Pool!JoinReturn
  /\ UNCHANGED <<files, disk, left, runs, results, wpc, hdd, copier, refused>>

ResetCopiedFlags ==
  /\ mpc = "reset"
  /\ copied' = {}
  /\ mpc' = "start"
  /\ UNCHANGED <<files, dest, bin, index, marker, left, runs, results, pool, wpc, hdd, copier,
                 refused>>

StartCopyThread ==
  /\ mpc = "start"
  /\ hddRunning' = TRUE
  /\ cpc' = "loop"
  /\ mpc' = "update" /\ left' = Source
  /\ UNCHANGED <<files, disk, runs, results, pool, wpc, copyQueue, pending, allSubmitted, waiters,
                 task, open, entries, refused>>

IncrementPendingSources ==
  /\ mpc = "update" /\ left # {}
  /\ pending' = pending + 1
  /\ mpc' = "submit"
  /\ UNCHANGED <<files, disk, left, runs, results, pool, wpc, copyQueue, allSubmitted, hddRunning,
                 waiters, copier, refused>>

SubmitUpdate(s) ==
  /\ mpc = "submit" /\ s \in left
  /\ left' = left \ {s}
  /\ mpc' = "update"
  /\ Pool!Submit([kind |-> "update", source |-> s])
  /\ UNCHANGED <<files, disk, runs, results, wpc, hdd, copier, refused>>

MutJoinUpdates ==
  /\ mpc = "update" /\ left = {}
  /\ mpc' = "markAll"
  /\ UNCHANGED <<files, disk, left, runs, results, pool, wpc, hdd, copier, refused>>

JoinUpdates ==
  /\ mpc = "update" /\ left = {}
  /\ mpc' = "joinUpdate"
  /\ Pool!JoinCall
  /\ UNCHANGED <<files, disk, left, runs, results, wpc, hdd, copier, refused>>

UpdatesJoined ==
  /\ mpc = "joinUpdate"
  /\ mpc' = "markAll"
  /\ Pool!JoinReturn
  /\ UNCHANGED <<files, disk, left, runs, results, wpc, hdd, copier, refused>>

MarkAllSourcesSubmitted ==
  /\ mpc = "markAll"
  /\ allSubmitted' = TRUE
  /\ waiters' = {}
  /\ mpc' = "wait"
  /\ UNCHANGED <<files, disk, left, runs, results, pool, wpc, copyQueue, pending, hddRunning,
                 copier, refused>>

MutAllDone == allSubmitted

(* WaitUntilDone's predicate. *)
AllDone == pending = 0 /\ copyQueue = <<>> /\ allSubmitted

MainWaits ==
  /\ mpc = "wait" /\ "main" \notin waiters
  /\ ~AllDone
  /\ waiters' = waiters \cup {"main"}
  /\ UNCHANGED <<files, disk, main, results, pool, wpc, copyQueue, pending, allSubmitted,
                 hddRunning, copier, refused>>

WaitUntilDone ==
  /\ mpc = "wait" /\ "main" \notin waiters
  /\ AllDone
  /\ mpc' = "stop"
  /\ UNCHANGED <<files, disk, left, runs, results, pool, wpc, hdd, copier, refused>>

Stop ==
  /\ mpc = "stop"
  /\ hddRunning' = FALSE
  /\ mpc' = "stopNotify"
  /\ UNCHANGED <<files, disk, left, runs, results, pool, wpc, copyQueue, pending, allSubmitted,
                 waiters, copier, refused>>

StopNotifies ==
  /\ mpc = "stopNotify"
  /\ waiters' = {}
  /\ mpc' = "joinThread"
  /\ UNCHANGED <<files, disk, left, runs, results, pool, wpc, copyQueue, pending, allSubmitted,
                 hddRunning, copier, refused>>

JoinCopyThread ==
  /\ mpc = "joinThread" /\ cpc = "exited"
  /\ mpc' = "success"
  /\ UNCHANGED <<files, disk, left, runs, results, pool, wpc, hdd, copier, refused>>

MarkSuccess ==
  /\ mpc = "success"
  /\ marker' = "Success"
  /\ mpc' = "idle"
  /\ UNCHANGED <<files, dest, bin, index, copied, left, runs, results, pool, wpc, hdd, copier,
                 refused>>

-----------------------------------------------------------------------------
(* The jobs of the pool. *)

TakeJob(w) ==
  /\ UNCHANGED main
  /\ Pool!Take(w)
  /\ wpc' = [wpc EXCEPT ![w] = IF Head(queue).kind = "scan" THEN "scan" ELSE "index"]
  /\ UNCHANGED <<files, disk, results, hdd, copier, refused>>

EndJob(w) ==
  /\ UNCHANGED main
  /\ Pool!Finish(w)
  /\ wpc' = [wpc EXCEPT ![w] = "idle"]

Goto(w, pc) ==
  /\ wpc' = [wpc EXCEPT ![w] = pc]
  /\ UNCHANGED pool

(* FileScanner::Scan, then the results moved under ResultMutex. *)
Scan(w) ==
  /\ wpc[w] = "scan"
  /\ LET S == FilesOf(running[w].source) IN
       /\ scanned' = [p \in Path |-> IF p \in S THEN src[p] ELSE scanned[p]]
       /\ missed' = [p \in Path |-> IF p \in S /\ src[p] = Absent THEN missed[p] + 1
                                    ELSE missed[p]]
  /\ EndJob(w)
  /\ UNCHANGED <<files, disk, short, hdd, copier, refused>>

IndexLocked == \E w \in Worker : wpc[w] = "indexing"

(* UpdateCacheForSource under IndexMutex: the source has an ID, or         *)
(* SaveIndex truncates Index.bin and writes it again.                      *)
FindID(w) ==
  /\ wpc[w] = "index" /\ ~IndexLocked
  /\ running[w].source \in index
  /\ Goto(w, "sync")
  /\ UNCHANGED <<files, disk, main, results, hdd, copier, refused>>

TruncateIndex(w) ==
  /\ wpc[w] = "index" /\ ~IndexLocked
  /\ running[w].source \notin index
  /\ Goto(w, "indexing")
  /\ UNCHANGED <<files, disk, main, results, hdd, copier, refused>>

WriteIndex(w) ==
  /\ wpc[w] = "indexing"
  /\ index' = index \cup {running[w].source}
  /\ Goto(w, "sync")
  /\ UNCHANGED <<files, dest, bin, copied, marker, main, results, hdd, copier, refused>>

(* SyncEngine::Sync on the cache loaded from the source's bin: something   *)
(* is new or changed, and SubmitCopyQueue pushes it, notifying after the   *)
(* unlock ...                                                              *)
SubmitCopyQueue(w) ==
  LET s == running[w].source
      P == FilesToCopy(bin[s], Fresh(s))
  IN  /\ wpc[w] = "sync" /\ P # {}
      /\ copyQueue' = Append(copyQueue, [source |-> s, todo |-> P, fresh |-> Fresh(s),
                                         failed |-> FALSE])
      /\ Goto(w, "notify")
      /\ UNCHANGED <<files, disk, main, results, pending, allSubmitted, hddRunning, waiters, copier,
                     refused>>

NotifyOne(w) ==
  /\ wpc[w] = "notify"
  /\ IF waiters = {} THEN UNCHANGED waiters
     ELSE \E t \in waiters : waiters' = waiters \ {t}
  /\ EndJob(w)
  /\ UNCHANGED <<files, disk, results, copyQueue, pending, allSubmitted, hddRunning, copier,
                 refused>>

MutDecrementQuietly ==
  /\ pending' = IF pending > 0 THEN pending - 1 ELSE pending
  /\ UNCHANGED <<copyQueue, allSubmitted, hddRunning, waiters>>

(* DecrementPendingSources, on behalf of a job or of the copy thread. *)
DecrementPendingSources ==
  /\ pending' = IF pending > 0 THEN pending - 1 ELSE pending
  /\ waiters' = {}
  /\ UNCHANGED <<copyQueue, allSubmitted, hddRunning>>

(* ... or nothing is, and the job ages and saves the cache itself, after   *)
(* it has counted the source as done.                                      *)
NothingToCopy(w) ==
  /\ wpc[w] = "sync"
  /\ LET s == running[w].source IN FilesToCopy(bin[s], Fresh(s)) = {}
  /\ DecrementPendingSources
  /\ Goto(w, "age")
  /\ UNCHANGED <<files, disk, main, results, copier, refused>>

(* RemoveStaleEntries' calls of DeleteStaleFromDestination: it builds the  *)
(* full-path name even in top-folder mode, where nothing is stored there.  *)
DestWithout(P) ==
  [p \in Path |-> IF DeleteStale /\ ~TopFolder /\ p \in P THEN Absent ELSE dest[p]]

CacheOf(s) == MarkVisited(bin[s], DOMAIN Fresh(s))

AgeUnchanged(w) ==
  /\ wpc[w] = "age"
  /\ LET s == running[w].source
     IN  dest' = DestWithout(StaleAfter(CacheOf(s), Fresh(s), MaxMiss))
  /\ Goto(w, "save")
  /\ UNCHANGED <<files, bin, index, copied, marker, main, results, hdd, copier, refused>>

Recorded(P) == missed' = [p \in Path |-> IF p \in P THEN 0 ELSE missed[p]]

SaveUnchanged(w) ==
  /\ wpc[w] = "save"
  /\ LET s == running[w].source
     IN  /\ bin' = [bin EXCEPT ![s] = Refresh(CacheOf(s), Fresh(s), MaxMiss)]
         /\ Recorded(DOMAIN Fresh(s))
  /\ EndJob(w)
  /\ UNCHANGED <<files, dest, index, copied, marker, scanned, short, hdd, copier, refused>>

-----------------------------------------------------------------------------
(* HDDCopyQueue::CopyThreadLoop, the copy thread. *)

CopierWakes == cpc = "loop" /\ "copier" \notin waiters

(* The predicate of its wait. *)
CopierMayGo == copyQueue # <<>> \/ (pending = 0 /\ allSubmitted)

CopierWaits ==
  /\ CopierWakes /\ ~CopierMayGo
  /\ waiters' = waiters \cup {"copier"}
  /\ UNCHANGED <<files, disk, main, results, pool, wpc, copyQueue, pending, allSubmitted,
                 hddRunning, copier, refused>>

TakeTask ==
  /\ CopierWakes /\ copyQueue # <<>>
  /\ task' = Head(copyQueue)
  /\ copyQueue' = Tail(copyQueue)
  /\ cpc' = "copy"
  /\ UNCHANGED <<files, disk, main, results, pool, wpc, pending, allSubmitted, hddRunning, waiters,
                 open, entries, refused>>

(* At the head of the loop, or after the wait with nothing left. *)
CopierExits ==
  /\ CopierWakes
  /\ \/ ~hddRunning
     \/ copyQueue = <<>> /\ CopierMayGo
  /\ cpc' = "exited"
  /\ UNCHANGED <<files, disk, main, results, pool, wpc, hdd, task, open, entries, refused>>

Copying(p) == cpc = "copy" /\ open = NoFile /\ p \in task.todo

(* PerformFileCopy returns false for p. *)
CopyFails(p) ==
  /\ task' = [task EXCEPT !.todo = @ \ {p}, !.failed = TRUE]
  /\ UNCHANGED <<files, disk, main, results, pool, wpc, hdd, cpc, open, entries>>

(* The source or the destination cannot be opened; a file that vanished    *)
(* after file_size cannot be opened either.                                *)
CopyRefused(p) ==
  /\ Copying(p)
  /\ "refuse" \in Faults \/ src[p] = Absent
  /\ CopyFails(p)
  /\ refused' = refused \cup {p}

(* GetPathFromSourceID takes no lock: while a job rewrites Index.bin it    *)
(* may not find the source, and in top-folder mode the destination built   *)
(* from the empty root is a directory, which cannot be opened for writing. *)
RootNotFound(p) ==
  /\ Copying(p)
  /\ TopFolder /\ IndexLocked
  /\ CopyFails(p)
  /\ refused' = refused \cup {p}

OpenDestination(p) ==
  /\ Copying(p) /\ src[p] # Absent
  /\ dest' = [dest EXCEPT ![p] = Torn]
  /\ open' = [path |-> p, version |-> src[p]]
  /\ short' = short \ {p}
  /\ UNCHANGED <<files, bin, index, copied, marker, main, scanned, missed, pool, wpc, hdd, cpc, task,
                 entries, refused>>

Unedited(p) == src[p] \in {open.version, Absent}

(* What a copy that returns true leaves: the version that was opened; of a *)
(* file edited under it, the new one or a mixture; and a part, since only  *)
(* a negative result of copy_file_range counts as a failure.               *)
Outcomes(p) ==
  IF dest[p] = Absent THEN {Absent} \* deleted under the copy
  ELSE {open.version} \cup (IF Unedited(p) THEN {} ELSE {src[p], Torn})
                      \cup (IF "short" \in Faults THEN {Torn} ELSE {})

FinishCopy ==
  /\ open # NoFile
  /\ \E v \in Outcomes(open.path) :
       /\ dest' = [dest EXCEPT ![open.path] = v]
       /\ short' = IF v = Torn /\ Unedited(open.path) THEN short \cup {open.path} ELSE short
  /\ task' = [task EXCEPT !.todo = @ \ {open.path}]
  /\ open' = NoFile
  /\ UNCHANGED <<files, bin, index, copied, marker, main, scanned, missed, pool, wpc, hdd, cpc,
                 entries, refused>>

(* HandleCopyFailure: the copy broke off, or file_size threw because the   *)
(* file is gone.  State.bin is loaded and saved as it is, and the process  *)
(* exits.                                                                  *)
ExitOnFailure ==
  /\ \/ open # NoFile /\ "abort" \in Faults
     \/ \E p \in Path : Copying(p) /\ src[p] = Absent
  /\ alive' = FALSE
  /\ UNCHANGED <<files, disk, main, results, pool, wpc, hdd, copier, refused>>

MutGiveUpSource ==
  /\ cpc = "copy" /\ task.todo = {} /\ task.failed
  /\ cpc' = "loop" /\ task' = NoTask
  /\ UNCHANGED <<files, disk, main, results, pool, wpc, hdd, open, entries, refused>>

GiveUpSource ==
  /\ cpc = "copy" /\ task.todo = {} /\ task.failed
  /\ DecrementPendingSources
  /\ cpc' = "loop" /\ task' = NoTask
  /\ UNCHANGED <<files, disk, main, results, pool, wpc, open, entries, refused>>

MutMarkCopied ==
  /\ cpc = "copy" /\ task.todo = {}
  /\ copied' = copied \cup {task.source}
  /\ cpc' = "age"
  /\ UNCHANGED <<files, dest, bin, index, marker, main, results, pool, wpc, hdd, task, open, entries,
                 refused>>

MarkCopied ==
  /\ cpc = "copy" /\ task.todo = {} /\ ~task.failed
  /\ copied' = copied \cup {task.source}
  /\ cpc' = "age"
  /\ UNCHANGED <<files, dest, bin, index, marker, main, results, pool, wpc, hdd, task, open, entries,
                 refused>>

(* UpdateEntry for the fresh files, RemoveStaleEntries, and then Save, on  *)
(* the cache the copy thread keeps for every source of the run.            *)
AgeCopied ==
  /\ cpc = "age"
  /\ entries' = Refresh(entries, task.fresh, MaxMiss)
  /\ dest' = DestWithout(StaleAfter(entries, task.fresh, MaxMiss))
  /\ cpc' = "save"
  /\ UNCHANGED <<files, bin, index, copied, marker, main, results, pool, wpc, hdd, task, open,
                 refused>>

SaveCopied ==
  /\ cpc = "save"
  /\ bin' = [bin EXCEPT ![task.source] = entries]
  /\ Recorded(DOMAIN task.fresh)
  /\ cpc' = "decrement"
  /\ UNCHANGED <<files, dest, index, copied, marker, main, scanned, short, pool, wpc, hdd, task,
                 open, entries, refused>>

SourceDone ==
  /\ cpc = "decrement"
  /\ DecrementPendingSources
  /\ cpc' = "loop" /\ task' = NoTask
  /\ UNCHANGED <<files, disk, main, results, pool, wpc, open, entries, refused>>

-----------------------------------------------------------------------------
MainStep ==
  \/ \E s \in Source : SubmitScan(s) \/ SubmitUpdate(s)
  \/ JoinScans \/ ScansJoined \/ ResetCopiedFlags \/ StartCopyThread
  \/ IncrementPendingSources \/ JoinUpdates \/ UpdatesJoined
  \/ MarkAllSourcesSubmitted \/ MainWaits \/ WaitUntilDone
  \/ Stop \/ StopNotifies \/ JoinCopyThread \/ MarkSuccess

JobStep(w) ==
  \/ TakeJob(w) \/ Scan(w) \/ FindID(w) \/ TruncateIndex(w) \/ WriteIndex(w)
  \/ SubmitCopyQueue(w) \/ NotifyOne(w) \/ NothingToCopy(w)
  \/ AgeUnchanged(w) \/ SaveUnchanged(w)

CopierStep ==
  \/ CopierWaits \/ TakeTask \/ CopierExits
  \/ \E p \in Path : CopyRefused(p) \/ RootNotFound(p) \/ OpenDestination(p)
  \/ FinishCopy
  \/ GiveUpSource \/ MarkCopied \/ AgeCopied \/ SaveCopied \/ SourceDone

SpuriousWake(t) ==
  /\ t \in waiters
  /\ waiters' = waiters \ {t}
  /\ UNCHANGED <<files, disk, main, results, pool, wpc, copyQueue, pending, allSubmitted, hddRunning,
                 copier, refused>>

Next ==
  /\ alive
  /\ \/ /\ \/ Edit
           \/ StartRun \/ MainStep
           \/ \E w \in Worker : JobStep(w)
           \/ CopierStep
           \/ \E t \in {"main", "copier"} : SpuriousWake(t)
        /\ UNCHANGED alive
     \/ ExitOnFailure

(* The threads of a started run keep running.  Nobody has to start a run,  *)
(* edit a file or make a copy fail.                                        *)
Fairness ==
  /\ WF_vars(MainStep /\ alive /\ UNCHANGED alive)
  /\ \A w \in Worker : WF_vars(JobStep(w) /\ alive /\ UNCHANGED alive)
  /\ WF_vars(CopierStep /\ alive /\ UNCHANGED alive)

Spec == Init /\ [][Next]_vars /\ Fairness

-----------------------------------------------------------------------------
Content == Version \cup {Absent, Torn}

SourceCache(P) == Cache(P, Version, MaxMiss)

(* Every variable has the values the code gives it.                        *)
TypeOK ==
  /\ src \in [Path -> Version \cup {Absent}]
  /\ newest \in [Path -> 0 .. MaxVersion]
  /\ dest \in [Path -> Content]
  /\ bin \in [Source -> SourceCache(Path)]
  /\ entries \in SourceCache(Path)
  /\ index \subseteq Source /\ copied \subseteq Source /\ left \subseteq Source
  /\ marker \in {"none", "Failure", "Success"}
  /\ mpc \in {"idle", "scan", "joinScan", "reset", "start", "update", "submit", "joinUpdate",
             "markAll", "wait", "stop", "stopNotify", "joinThread", "success"}
  /\ alive \in BOOLEAN
  /\ scanned \in [Path -> Version \cup {Absent}]
  /\ queue \in Seq(Job)
  /\ running \in [Worker -> Job \cup {NoJob}]
  /\ wpc \in [Worker -> {"idle", "scan", "index", "indexing", "sync", "notify", "age", "save"}]
  /\ copyQueue \in Seq(Task)
  /\ pending \in Nat
  /\ allSubmitted \in BOOLEAN /\ hddRunning \in BOOLEAN
  /\ waiters \subseteq {"main", "copier"}
  /\ cpc \in {"none", "loop", "copy", "age", "save", "decrement", "exited"}
  /\ task \in Task \cup {NoTask}
  /\ open \in OpenFile \cup {NoFile}
  /\ runs \in 0 .. MaxRuns
  /\ missed \in [Path -> 0 .. MaxRuns]
  /\ refused \subseteq Path /\ short \subseteq Path

(* Where a source that was counted and is not done can be.                 *)
WithPool(s) ==
  \/ \E i \in DOMAIN queue : queue[i] = [kind |-> "update", source |-> s]
  \/ \E w \in Worker : wpc[w] \in {"index", "indexing", "sync"} /\ running[w].source = s

WithCopier(s) ==
  \/ \E i \in DOMAIN copyQueue : copyQueue[i].source = s
  \/ task # NoTask /\ task.source = s

(* HDDPendingSources counts the sources that are neither settled nor given *)
(* up, each exactly once: neither copied twice nor waited for in vain.     *)
PendingCounts ==
  /\ pending = Cardinality({s \in Source : WithPool(s) \/ WithCopier(s)})
               + (IF mpc = "submit" THEN 1 ELSE 0)
  /\ \A s \in Source : ~(WithPool(s) /\ WithCopier(s))

(* WaitUntilDone returns, and .Success replaces .Failure, only when nothing *)
(* is queued, running, being copied or still to be saved; a job that has    *)
(* already decremented the count but not saved its cache is waited for too. *)
Settled ==
  mpc \in {"stop", "stopNotify", "joinThread", "success"} =>
    /\ Pool!Idle
    /\ copyQueue = <<>> /\ pending = 0
    /\ task = NoTask /\ open = NoFile /\ cpc \in {"loop", "exited"}

(* Is the cache of s aged, its stale files deleted, and not saved?         *)
Saving(s) ==
  \/ \E w \in Worker : wpc[w] = "save" /\ running[w].source = s
  \/ cpc = "save" /\ task.source = s

(* The cache reflects the true state of the destination: a file whose next *)
(* hash would equal the cached one, and so would be skipped, is in the     *)
(* destination as it is in the source, unless its copy ended short.  At    *)
(* every instant, so also when HandleCopyFailure exits, but while stale    *)
(* files are deleted and the cache that says so is not yet saved.          *)
CacheTruthful ==
  \A p \in Path :
    LET s == SourceOf[p]
        c == bin[s]
    IN  p \in DOMAIN c /\ c[p].hash = src[p] /\ ~Saving(s) => dest[p] = src[p] \/ p \in short

(* A source State.bin flags as copied has all its scanned files, unless    *)
(* edited since or copied short, in the destination: recovery skips it.    *)
CopiedFlagTruthful ==
  mpc \notin {"scan", "joinScan", "reset"} =>
    \A p \in Path :
      SourceOf[p] \in copied /\ scanned[p] # Absent /\ scanned[p] = src[p]
        => dest[p] = src[p] \/ p \in short

(* After a run that ended with .Success every scanned file is in the       *)
(* destination, but for those edited and those whose copy was refused or   *)
(* ended short.                                                            *)
SuccessCopiesAll ==
  mpc = "idle" =>
    \A p \in Path \ (refused \cup short) :
      scanned[p] # Absent /\ scanned[p] = src[p] => dest[p] = src[p]

(* A file leaves the destination only when more than StaleEntries scans    *)
(* did not find it since a run recorded it (not always in succession: a    *)
(* run that finds it and gives its source up records nothing).             *)
DeletesOnlyStale ==
  [][\A p \in Path : dest[p] # Absent /\ dest'[p] = Absent => missed[p] > MaxMiss]_vars

(* The run without its threads, as SyncRun describes it.                   *)
RunIs ==
  CASE ~alive \/ mpc = "idle" -> "off"
    [] alive /\ mpc \in {"scan", "joinScan", "reset"} -> "scan"
    [] alive /\ mpc \in {"stop", "stopNotify", "joinThread", "success"} -> "ended"
    [] OTHER -> "sync"

Unscanned(s) ==
  \/ s \in left
  \/ \E i \in DOMAIN queue : queue[i] = [kind |-> "scan", source |-> s]
  \/ \E w \in Worker : wpc[w] = "scan" /\ running[w].source = s

WithTask(s, where) == task # NoTask /\ task.source = s /\ cpc \in where

StageIs(s) ==
  CASE RunIs = "off" -> "out"
    [] RunIs = "scan" -> IF Unscanned(s) THEN "unscanned" ELSE "scanned"
    [] RunIs = "ended" -> "done"
    [] OTHER ->
         CASE mpc = "start" \/ s \in left \/ WithPool(s) -> "scanned"
           [] \E i \in DOMAIN copyQueue : copyQueue[i].source = s -> "queued"
           [] WithTask(s, {"copy"}) -> "copying"
           [] WithTask(s, {"age", "save"}) -> "saving"
           [] \E w \in Worker : wpc[w] \in {"age", "save"} /\ running[w].source = s -> "unchanged"
           [] OTHER -> "done"

Run == INSTANCE SyncRun WITH run <- RunIs, stage <- [s \in Source |-> StageIs(s)]

(* Jobs, copy thread and main thread together do what SyncRun says: no     *)
(* source is compared before all are scanned, two are never copied at a    *)
(* time, and the wait ends only when every source is saved or given up     *)
(* (that it does end is RunEnds).                                          *)
ImplementsSyncRun == Run!Safety

(* A started run ends: nobody misses the last notification of HDD_CV.      *)
RunEnds == mpc = "scan" ~> mpc = "idle" \/ ~alive
=============================================================================
