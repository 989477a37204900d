# A verification development of DupliCron

DupliCron copies the files of several source directories to one destination and
remembers, in a cache per source, which versions it copied. These modules model
the parts of the program (`Source Code/src`, `Source Code/include`) where
threads, failures and successive runs meet; TLC checks them on small instances
and TLAPS proves the central facts for every value of the constants. Paths below
are relative to `Source Code/src` unless they name `README.md`, which is the
repository's.

## 1. Inventory

| Component | State | Operations | Interacts with |
|---|---|---|---|
| **ThreadPool** | `Jobs`, `ThreadPoolActiveJobs`, `ThreadPoolStop`, one mutex, one condition variable | `Submit`, `WorkerThread`, `Join`, destructor | ControlFlow (scans, updates), SSDCopyQueue (copies) |
| **ControlFlow** | `PerSourceResults`, the run's pool, the chosen copy queue | `Run`: marker, scans, updates, waiting, marker; recovery branch; cache backup | everything |
| **FileScanner** | the list of files found | `Scan` | ControlFlow, FailureDetect |
| **FileHasher** | none | hashes of path, size and mtime, in chunks over a pool | SyncEngine |
| **SyncEngine** | the lists of new and changed files | `Sync`: compares, queues copies, or ages and saves the cache | MetaDataCache, both copy queues |
| **MetaDataCache** | `Entries` and `<ID>.bin`; `State.bin` (copied flags); `Index.bin` (source to ID); destination index | `Load`, `Save`, `UpdateEntry`, `MarkVisited`, `RemoveStaleEntries`, `UpdateCacheForSource`, copied flags, IDs | SyncEngine, copy queues, FileCopier |
| **HDDCopyQueue** | `HDDGlobalCopyQueue`, `HDDPendingSources`, `HDDAllSourcesSubmitted`, `HDDRunning`, one mutex, one condition variable, `HDDCopyStateCache` | `SubmitCopyQueue`, `Increment`/`DecrementPendingSources`, `MarkAllSourcesSubmitted`, `WaitUntilDone`, `Start`, `Stop`, `CopyThreadLoop` | pool jobs, main thread, one copy thread |
| **SSDCopyQueue** | `SSDSourceStatusMap`, `SSDLargeFileQueue`, `SSDPendingSources`, flags, three mutexes, two condition variables, `SSDCopyStateCache` | `Initialize`, `SubmitCopyQueues`, `ProcessSmallFiles`, `LargeFileWorker`, `MarkQueueDoneAndCheck`, `WaitUntilDone`, `Stop`; modes Sequential, Parallel, Balanced, GodSpeed | pool jobs, main thread, up to three kinds of copying threads |
| **FileCopier** | none in memory; the destination | `PerformFileCopy`, `DeleteStaleFromDestination`, `HandleCopyFailure` (ends the process) | copy queues, FailureDetect |
| **FailureDetect** | marker files `.Failure` and `.Success` | `MarkFailure`, `MarkSuccess`, `CheckCacheIntegrity`, `RunFailureRecovery` | ControlFlow, MetaDataCache |
| **ConfigParser, ConfigGlobal** | the configuration | parsing, validation | all (values only) |
| **Logger** | log buffer and files | `Init`, log, flush, `CleanupOldLogs` | all |
| **main, TimeUtils** | none | entry point, clock conversion | |

What is hard, and what makes each part correct:

* **ThreadPool.** `Submit` notifies after its unlock; the job counter is
  decremented outside the mutex; `Join` reads the queue and then the counter
  without a lock. Correct: no job is lost, run twice, or still running when `Join`
  returns; the destructor runs what is queued and returns.
* **The HDD pipeline.** Jobs on the pool, the main thread and the copy thread share one counter and
  one condition variable with two kinds of waiters. Copies may be refused, break off
  (which ends the process), end short without an error, or race with users who edit the files. Correct:
  `.Success` only when all is settled; every run ends; what the cache and the
  copied flags claim is in the destination; nothing is deleted but what several
  scans missed.
* **The SSD pipeline.** As above, and a source has two queues (small, large) that end in either order on
  different threads; the last one saves the source, exactly once. A count of files processed decides that the
  small queue is done. Two mutexes guard what one wait depends on.
* **Caches over several runs.** An entry lives for many runs: miss counts, entries
  of deleted files, and a cache object shared by all sources of a run.
* **Crashes and restarts.** Bins, index, state and markers are written in place;
  the next process decides from them whether to run, recover or restore a backup. Correct: what it changes is marked
  as unfinished; what the caches claim is true after any crash; no two sources get one ID; in the end the destination
  is as the source.
* **Starting.** The parser acts while it reads (it restores the cache when it meets the destination),
  numbers are narrowed to 16 bits, and paths are compared component by component or as strings. Correct: accepted sources are
  apart from each other and from the destination, the order of lines does not matter, no number is zero, each
  file is found once, hashed once, and has a destination of its own.

`PROJECT.json` lists each hazard at its line, with the properties that cover it.

## 2. Modules and how they correspond to the code

| Module | Models |
|---|---|
| `WorkPool` | what `ThreadPool` promises: the abstract specification the pipelines are built on |
| `ThreadPool` | `ThreadPool.cpp`, completely; implements `WorkPool` |
| `SyncRun` | what an HDD run does source by source, without threads: the abstract specification that `HDDSync` and `Recovery` implement |
| `MetaDataCache` | the entries of one cache as a function path -> (hash, visited, miss) and the operations on it |
| `HDDSync` | `ControlFlow::Run`, `UpdateCacheForSource`, the HDD branch of `SyncEngine::Sync`, `HDDCopyQueue`, `FileCopier`, in successive runs |
| `SSDSync` | the copy phase of a run in the four SSD modes |
| `Recovery` | the cache directory over many processes: `CheckCacheIntegrity`, the choice between run and recovery, an HDD run, `RunFailureRecovery`, the backup, with a kill or an abort anywhere |
| `Paths` | paths as sequences of components, the file system, `IsParentDirectory`, `GetFinalDestPath` |
| `ConfigParser` | `ConfigParser::Parse`: the effect of one line, and the tests at the end of the file |
| `FileHasher` | the division of n files into chunks for the hashing threads |
| `Startup` | a process from its start to its hashes: `Logger::Init`, the parser, `CleanupOldLogs`, `FileScanner::Scan`, `FileHasher::HashFiles` |
| `*_proofs` | theorems about the module of that name (`SyncRun_proofs`: that `Recovery` implements `SyncRun`) |
| `MC*` | the instances TLC checks |

`HDDSync` and `SSDSync` are built on `WorkPool` and `MetaDataCache`; `Recovery` on
`MetaDataCache`; `Startup` on `ConfigParser` (which extends `Paths`) and `FileHasher`. A process is
`Startup`, then `Recovery`, whose runs have in `HDDSync` their threads.

**Atomicity.** A section executed under a mutex is one action, what the code does
outside is an action of its own. A thread blocked on a condition variable is in
`waiting` (`ThreadPool`), `waiters` (`HDDSync`), `mainWaits` or `lpc = "waiting"`
(`SSDSync`); a notification, or a spurious wakeup at any time, takes it out, and it
evaluates its predicate again. The wait of `LargeFileWorker` is split into the test of
the predicate and the blocking, because the notifier does not hold its mutex. Reads
of what only one thread can write at that time (a job's cache, loaded from its own source's
bin) happen in the action that uses them.

**ThreadPool.** `jobs`, `active`, `stop` are the members; `wpc` and `running` say where
a worker is; `unnotified` counts the `Submit` calls between their unlock and `notify_one`;
`joinPc` holds the position between the two unlocked reads of `Join`. `submitted`, `finished` and
`joinDebt` are history.

**MetaDataCache.** `FilesToCopy`, `MarkVisited`, `UpdateEntries`, `Stale`,
`RemoveStaleEntries` are the methods of the same or a similar name; `Refresh` is the
sequence a synchronised source goes through. A hash is the version it was
computed from.

**HDDSync.** The main thread (`mpc`, `left`) follows `Run` statement by statement;
a pool thread (`wpc`) scans, or finds its source's ID and runs `Sync`; the copy
thread (`cpc`, `task`, `open`) follows `CopyThreadLoop`. A copy is two actions
(the destination is truncated; the copy completes) and its outcome depends on what users did in
between: old version, new version or a mixture (`Torn`). The copy of a file nobody edits may end `Torn`, too (`Outcomes`): `PerformFileCopy` makes one
`copy_file_range` and takes every result that is not negative for a complete copy. `short` is history, the files whose last copy ended that way;
`refused` those of which a copy returned false. `RemoveStaleEntries` with
its deletions, and `Save`, are two actions. `ExitOnFailure` is `HandleCopyFailure`:
the process is gone and nothing happens after it.

**SSDSync.** `mode` is chosen in the initial state. `inMap`, `smallDone`,
`largeDone` are `SSDSourceStatusMap`; `FlagsBecome` is `MarkQueueDoneAndCheck` with its
three outcomes (source gone from the map, a flag missing, source saved and counted). `processed` is the
`filesProcessed` counter of a source. Files submitted to a pool that copies (`smallQueue`) are
taken in any order by a thread of that pool: `SmallFileThreadPool` in Parallel and Balanced
mode, a pool of the source's own in GodSpeed mode. `GodJobMarks` is the second time the large queue of a
source is marked done. The run starts where the scans are joined; what earlier runs
left is a choice of the initial state (`Before`). Only the small files can end short: a large file here is one that `dd` copies, whose failure is seen (2 GiB in `SyncEngine.cpp:19` and
`FileCopier.cpp:137`). A file does not cross that size by an edit.

**SyncRun.** `run` and `stage` follow one run: all sources are scanned before any is compared; a
source is saved unchanged, or queued, copied (one at a time) and saved, or given up; the main
thread goes on when all are done. `HDDSync` maps the position of the main thread to `run`, and a source's place in the
pool, the copy queue, the copy thread or nowhere to its `stage` (`RunIs`, `StageIs`).

**Recovery.** `markers`, `index`, `state` and `bin` are the files `.Failure`/`.Success`, `Index.bin`, `State.bin` and
`<ID>.bin`; `backup` is `.BackupCache`. `Start` is `CheckCacheIntegrity`: a directory that is missing, complete, or
restored; when it is broken and nothing can be restored the process exits and changes nothing, so there is no
action. `BeginRun` to `CopyBackup` are `ControlFlow::Run`, and `stage` is the stage of `SyncRun`.
`BeginRecovery` to `RecoveryCreatesSuccess` are `RunFailureRecovery`, with its scanner that is not
cleared (`scanned` keeps earlier sources) and its copies whose results are ignored. `Kill` ends a process
between any two steps; a file that a thread is about to write is then old or a prefix of the new one, and entries are
written in a hash map's order, so that a prefix is any part (`TornIndex`, `TornState`, `TornBin`). `whole` says whether `Load`
reads a file without an error: a bin that ends between two entries does. `Abort` is `HandleCopyFailure`: it rewrites `State.bin` from
what it can load and exits under the other threads, which may be writing. A copy that ends short counts among the faults (`MayEndShort`).

**Startup.** `ReadLine` applies `Effect`, one line's branch of `Parse`, to what was parsed so far. A line is its length, the position of its first `=`, which the code keeps in an `unsigned short` (`SplitAt`), and the key and the value
found before and after the place where the code splits it: the first `=`, or another place if that lies beyond 65535 or there is none. A line that is too short
for its split ends the process (`dead`), any other one counts with what is found there, a known key included. A path with a trailing slash has an
empty last component, as `std::filesystem` has it. `stack` is `DirStack` of each scanning job; `hashed` counts how often
each file was hashed.

**External code.** The condition variables, `std::filesystem` and streams are modelled
by what the program relies on, inside the actions that call them.

## 3. What the runs check

Passing runs:

| Run | Instance | What it shows |
|---|---|---|
| `thread_pool` | 2 workers, 3 jobs | every interleaving of `Submit`, workers, `Join` and destructor. Type, exact counter, soundness of `Join`, no job lost or run twice, draining destructor; every job runs, the destructor returns; refinement of `WorkPool` |
| `hdd_threads` | 2 sources with a file each, 2 pool threads, top-folder mode, one run, modified files, refused, broken and short copies | the pending count is exact, `.Success` only when settled, its claim holds but for refused and short copies, the threads implement `SyncRun`, every run ends |
| `hdd_history` | 1 source, 2 files, 4 runs, `StaleEntries` 1, files modified, removed and back, refused, broken and short copies, the two files symmetric | cache and flags never claim what the destination does not have, but for files whose last copy ended short; a file is deleted only after enough missed scans |
| `ssd_modes` | 4 modes, 2 sources with 2 (one large) and 1 files, one file edited during the run, refused, broken and short copies | each source is saved once and after its last copy, the count does not wrap, waiting ends only when all copies did, and nobody is forgotten but for a refused copy of the shared pool |
| `recovery` | 2 sources with a file each, one of them edited once, backup and restore on, any number of processes, 2 faults among kill, abort, refusal and short copy | IDs stay distinct, changes are marked, cache and success are truthful (but for short copies and the two losses below), runs implement `SyncRun`, and the destination ends up as the source unless the directory is damaged or a copy ended short |
| `startup` | files of up to 4 out of 20 lines (two of them split in the wrong place), 6 directories and 5 files, the clock before or after the old logs | sources and destination apart, numbers usable, unknown lines refused, the order of lines, exact scans, no two files with one destination, each file hashed once, the right logs kept |

Runs in which TLC finds a violation of what the documentation says (the finding in `PROJECT.json` quotes the line):

| Run | Violated | Because |
|---|---|---|
| `hdd_live_delete` | `DeletesOnlyStale` | `HDDCopyStateCache` is shared by all sources and aged once per source: with two sources live files are deleted |
| `ssd_lost_wakeup` | `RunEnds` | predicate and notification under different mutexes |
| `ssd_refused_hangs` | `RunEnds` | a refused copy is not counted in `filesProcessed` |
| `ssd_failed_cached` | `CacheTruthful` | refused copies are recorded as copied |
| `recovery_tears_copied` | `CacheTruthful` | recovery copies files of other sources again, and one such copy breaks off |
| `recovery_stuck` | `BackupRecovers` | a torn `State.bin` exists, so it is not restored, and every later recovery fails to read it |

`DeletesOnlyStale` therefore passes with one source and fails with two;
`SuccessCopiesAll` and `SuccessIsCopied` exempt the files whose copy returned false, and all that relate caches, flags, success and the
destination exempt those whose last copy ended short (`short`; see below): of these the program claims what is not there;
`CacheTruthful` passes in HDD mode without crashes, in SSD mode holds only in the form
`CacheTruthfulUnlessRefused`, and with recoveries in the form `CacheTruthfulUnlessLost`, which exempts the files
of which a copy was begun again and not finished (`recopied`: by a recovery on behalf of another source, the run above, or while only
the backup recorded the file as it is) and whatever follows the loss of a source's ID.

**What a crash leaves for ever** is named in `Recovery`, and
`EventuallyInSyncUnlessDamaged` says that there is nothing else: no complete directory and nothing to restore it from (`NothingToRestore`: a kill in the
first run, before `State.bin` exists, or with the backup or its restore switched off; `README.md:81` assumes that the first run does not fail);
`State.bin` or a needed bin that cannot be read while `.Failure` exists (`Unreadable`); and an `Index.bin` that lost a
source (`indexLost`: the next new source gets an ID that is in use).

**Observed while modelling, without a run of their own.**

* A copy that ends short is a success (`FileCopier.cpp:304-313`). There is one `copy_file_range`, and only a negative result is an error: when the disk fills part-way, when a
  file is longer than the 0x7ffff000 bytes the kernel copies at once and below the 2 GiB from which `dd` is used, or on a network or FUSE mount, the destination
  is a truncated file, `PerformFileCopy` returns true, the file is recorded with the scanned hash, its source is flagged, the run writes `.Success`, and every later run skips
  the file until it changes. `README.md:25` says that metadata is updated "only after a file has been physically and verifiably copied", `README.md:58` that copies "are verified per source before
  being marked complete", `README.md:83` that when the space runs out "the sync will stop and mark pending files as incomplete". The models have this outcome, and without `short` in them
  `CacheTruthful`, `CopiedFlagTruthful`, `SuccessCopiesAll`, `CacheTruthfulUnlessRefused`, `CacheTruthfulUnlessLost`, `SuccessIsCopied` and `EventuallyInSyncUnlessDamaged` are all violated. With the
  exemption they say that the harm is confined to those files, and to them only until their next copy.
* A line without `=`, or with its first `=` beyond the character 65535, may be accepted, since all blanks are stripped from what is taken for its key (`ConfigParser.cpp:158-170`):
  `Source`, 65529 blanks, one character, `/a` is a source without any `=`, and `ThreadCount 3`, blanks, and the first `=` at 65547 is split at 11 and sets 3. The message for a line without `=` (line 161) is never issued.
  `AcceptedLinesKnown` says how long such a line must be.
* The sample configurations are refused by the parser: `README.md:255-256` use `GodSpeedSourceThreadCount` and `GodSpeedWorkerThreadCount`, `README.md:278` `SourceThreadCount`, none of which is
  a key of `Parse`; one unknown key stops the program. `OtherLines` of the instance has such a line.
* The copy thread saves a cache it never loaded over a source's bin (`HDDCopyQueue.cpp:136`): entries of removed files are lost and
  their copies stay in the destination for ever, although `README.md:10` promises their cleanup. It is the other side of `hdd_live_delete`.
* One failed file of a source, and none of its copies is recorded (`HDDCopyQueue.cpp:123`): they are repeated, although
  `README.md:28` says "without reprocessing successful files".
* `GetPathFromSourceID` reads `Index.bin` without the lock under which it is rewritten (`MetaDataCache.cpp:495`): in top-folder mode a copy is made to a
  path without its root and fails (`RootNotFound`); the run still reports success.
* A run killed between `MarkFailure` and `ResetCopiedFlags` leaves the flags of the run before: the recovery skips all
  copied sources and reports success. The next run copies what is missing.
* A backup that is older than what happened since can claim a torn file (`FailureDetect.cpp:120`): a kill tears a source's bin, which loses a file that the backup
  records; the recovery opens that file again and is killed; the copy of the next recovery is refused, which `RunFailureRecovery` ignores; a kill between the removal of
  `.Failure` and the writing of `.Success` leaves no marker, and the next process restores the backup. From then on the cache claims the torn file. It takes four
  faults, or three if configurations differ, more than the run `recovery` allows: the attempt to prove `CacheTruthfulUnlessLost` found it, and `recopied` now names these files, too.
* `README.md:145` says the order of lines does not matter. `EnableCacheRestoreFromBackup` counts only above the destination's line, and `Mode` and
  `ThreadCount` overwrite each other; `OrderIndependent` names these cases (`Contested`) and shows that there are no others.
* A source written with a trailing slash is not seen to contain another source or the destination (`ConfigParser.cpp:112`), and has no
  name in top-folder mode; `AcceptedApart` and `NoCollision` exempt it.
* A line without `=` that is shorter than 65536 characters ends the process with an exception (`substr`, line 158 and after) instead of the error message.
* An exclude that is not written as the scan writes paths excludes nothing (`ScanExact`).
* Numbers are taken modulo 65536. `MaxLogFiles` counts by name: after the clock stepped back the process removes its own log.
* At the end of its input `ControlFlow.cpp:51` asks for `Continue` for ever.

**Bounds.** Two workers (`hdd_*`, `thread_pool`) are enough for one to be asleep or in the middle
of a job while the other acts; two sources for everything that depends on another source's progress;
two files in a source for a partial failure; four runs with `StaleEntries` 1 for an
entry to be recorded, missed, and deleted (the misses need not be successive); versions up to 2 for a file to differ from its copy
and come back as it was. `ssd_modes` has one thread in the run's pool and
two in each copying pool: the copying pools' threads and `SSDLargeFileThread` are
what interleaves with the submitting job. In `hdd_threads` files are only modified, as what is removed and comes back is for `hdd_history` and changes nothing in how threads meet. A refused, breaking or short copy is possible at every copy. In `recovery`, two faults are enough for a run and the recovery that follows it to be interrupted, or for a recovery
and the process after it; two sources for one to be pending while the other is flagged; a short copy is one of the two, so that it meets one crash, abort or refusal, before or after it. There a file is modified or removed, not both (`OneEdit`), and
nothing is claimed of what follows the loss of an ID (`IndexKept`). In `startup`, four lines are enough for two sources, a destination and
one line that interferes; the tree has equal names in two directories and a destination within a source. `MaxRuns`,
`MaxVersion`, `Editable`, `Edited` and `MaxFaults` bound what users and faults do, `MaxLines` the file; nothing else the program does is
bounded. Deadlock is not checked because the program stops: the pool is
destroyed, the last run ends, or the process exits. That it does not stop earlier is what `RunEnds`,
`DestructorReturns` and `EveryJobRuns` say.

**Fairness.** In `HDDSync`, `SSDSync` and `ThreadPool`, weak fairness of each started thread (main, each pool thread, the copy
thread, each copying thread, each GodSpeed job): the operating system keeps running a thread that can
run. None for users' edits, for a run's start, for faults, for spurious wakeups, for the calls of `Submit`, `Join` and the
destructor. Weak fairness is enough because a thread that found its predicate
true holds the mutex when it acts. In `ThreadPool` the notification after the unlock is fair
too, being a step of the thread that submits. In `Recovery`, weak fairness of the process, whose threads run, and of starting it, by cron or by a
user who types `Continue`; none for edits and faults. `EventuallyInSyncUnlessDamaged` is thus about what happens once both have stopped. In
`SyncRun`, weak fairness of everything but `Begin` and `Exit`; `Recovery` implements it with that fairness, `HDDSync` its safety part
(`RunEnds` is the rest).

## 4. What is proved

`ThreadPool_proofs`, from `PoolAssumption` (finitely many workers, at least one, and `NoJob` is not a job):

* The inductive invariant is `IInv == TypeOK /\ CounterExact /\ Accounting /\ Shutdown /\ JoinSound`.
  `JoinSound` is not inductive: `Join` only sees a zero.
  `CounterExact` makes a zero mean an empty queue and no worker between its pop and
  its decrement (`ZeroMeansIdle`), `Accounting` makes that mean that every submitted job has finished.
  `TypeOK` needs `CounterExact` for the decrement. `Shutdown` relates the destructor's phases
  to the workers' exits, and gives `DestructorDrains`.
* `TypeCorrect`, `CounterIsExact`, `JoinIsSound`, `DestructorDrainsQueue`, `NoJobRunsTwice`: the
  properties of the run `thread_pool`, for every instance.
* `ImplementsWorkPoolSafety`: initial states and steps of `ThreadPool` map to those of `WorkPool` (a step or a stutter).
* The pool's waits. `NoWakeupIsLost`: while a worker is blocked, there are at most as many queued jobs as notifications due and awake workers together
  (`NoLostWakeup`), which covers a notification that wakes nobody or a worker that finds the queue empty. `PoolNeverStuck`: hence, while the counter is not zero or the destructor joins, a thread
  can move. `PoolStepsAreFinite`: besides blocking, waking and polling, each step goes down in a lexicographic order (the destructor's phase, the queue's length, the workers'
  positions, the notifications due, `Join`), unless the owner makes a new call.

`MetaDataCache_proofs`, without assumptions on the cache but those stated in each theorem: what a scan found is never deleted when the
cache is updated first (`FreshNeverStale`); what is deleted was missed more than
`StaleEntries` times (`StaleMissedLongEnough`); after a refresh the scan is recorded
(`RefreshRecordsScan`), a second one copies nothing (`SecondRunCopiesNothing`), and miss counts stay bounded (`RefreshType`).
`hdd_live_delete` does not contradict them: there the cache of one source
is aged with another source's scan.

`HDDSync_proofs`, from `HDDAssumption` (among others that there is a source: the parser refuses a file without one, `ConfigParser.cpp:532`). The invariant grows in
layers, each inductive with those before it:

* `Control == TypeOK /\ Places`: a source is in one place (to be submitted, in a job, in the copy queue, with the copy thread, or done), a thread's position says what it
  runs, and the count is the number of sources in some place. `PendingCounts` alone is not inductive, because it does not say that a job that is about to submit has not been
  counted down yet. It gives `TypeCorrect` (so the 16-bit count never wraps), `PendingCountsAlways` and `SettledAlways`.
* `Data`: what is cached is at most as new as what was scanned, that at most as new as the newest version, and so is an open copy: a claim
  that an edit made obsolete can never come true again. Also what a task lists and what the shared copy cache holds.
* `Truth`: what is cached or was scanned and is still the newest version is in the destination, but for what is being copied or deleted
  by the step that saves next and for files whose last copy ended short: `short` is left only when the file is opened for a new copy, and then nothing is claimed of it until that ends. It gives `CacheTruthfulAlways`, `CopiedFlagTruthfulAlways` and `SuccessCopiesAllAlways`.
* `MissInv`: an entry's miss count is at most the number of scans that missed its file, and less until the entry is aged, for `DeletesOnlyStaleAlways`.
* `Truth` and `MissInv` are inductive only under `OwnFilesOnly` (one source, or nothing is deleted, which top-folder mode never does): otherwise the copy thread deletes live files of other
  sources, the bug of the run `hdd_live_delete`. The theorems state it as their hypothesis.
* `ImplementsSyncRunAlways`: with `Control` and `Data`, each step of a thread is one step of `SyncRun` or a stutter. No hypothesis is needed: what is done source by source is right
  even where what is deleted is not.
* Why a run ends, from `Control` alone and so without that hypothesis. `NoWakeupIsLost` (`Wakeups`): a blocked copy thread has an empty queue or a job about to notify it, a blocked main thread a source that is not
  done, and when `Stop` changes `HDDRunning` without the mutex, the copy thread has been told of the last source and nobody sleeps. `RunNeverStuck`: a started run always has a thread whose guard holds, that waits for `IndexMutex`, for the pool and for the copy
  thread included. `RunStepsAreFinite`: each step but blocking, waking and edits goes down in a lexicographic order of numbers and finite sets (phase, sources to submit, jobs, queue
  of the copy thread, its position, its files). `RunEnds` follows by fairness; that last step is TLC's.

`SSDSync_proofs`, from `SSDAssumption`, for the four modes together:

* `Control == TypeOK /\ Places`. Here a source's two queues can be with different threads, so the parts say, for each queue, in which single place it is, who will mark it
  done, and how `filesProcessed` counts the small files that are neither queued nor being copied nor refused in the shared pool. This gives `TypeCorrect`, `PendingCountsAlways`,
  `SavedAfterLastCopyAlways`, `SettledAlways` and `NoSourceForgottenAlways`, the last because a source still in the map has a queue whose place names its future marker.
* `Truth`, with the files copied short exempt, gives `CacheTruthfulUnlessRefusedAlways` and `SuccessCopiesAllAlways`, under `LiveFilesKept`: nothing is deleted, or there are at most `StaleEntries + 1` sources.
  `SSDCopyStateCache` is shared, too, and aged once per saved source, so with more sources it drops files just copied, and deletes them.
* `HangsOnlyThroughTheDefects`, from `Control` and `Wakeups`: a process that has not ended has a thread that can move, or `SSDLargeFileThread` missed its notification (`WakeupLost`, the run
  `ssd_lost_wakeup`), or a refused copy was not counted (`CopyNotCounted`, the run `ssd_refused_hangs`). There is no third way, and in GodSpeed mode there is none.
  `CopyStepsAreFinite`: the moves are finitely many in every mode, by a lexicographic order as in `HDDSync_proofs`.

`Recovery_proofs`, from `RecoveryAssumption` (finitely many sources, every file in one of them, no configuration without sources):

* `IDsAreDistinct`. A new ID is the number of entries plus one, so distinctness is not inductive alone: the invariant `IDInv` adds that the IDs are at most
  as many as the sources (`Numbered`), for the index and for the backup that may come back. A torn index either lost an ID or is whole or as before (`TornNumbered`).
* `ChangesMarked`. `MarkInv`: in every phase that writes, `.Failure` exists; it needs that an open copy belongs to the current source (`OpenInv`), so that
  nothing can be torn or completed in another phase, and that there is a bin for each ID and nothing else (`BinsInv`), so that a kill then changes none.
* `TypeCorrect`, `CacheTruthfulUnlessLostAlways`, `SuccessIsCopiedAlways`, from `Claims == Control /\ VersionsInv /\ OwnersInv /\ Truth`. `Control` adds to the above how far a
  process is (`Progress`). `VersionsInv` bounds every version a bin, the backup, a scan or an open copy knows by the newest; `OwnersInv` says that a bin belongs to one source, and to
  the same one in the backup. `Truth` says of the bins *and of the backup* that what they record as it is in the source is in the destination, or its last copy ended short: without the backup's part
  a restore breaks it. It also says that what is being copied is not recorded, and which scanned files are not to be copied any more. The proof goes fact by fact rather than action by action where most actions leave
  a fact alone (`StepKinds`): `RecordsStep` says for every step, torn files included, which records can appear.

`SyncRun_proofs`, from the same: `ImplementsSyncRunSafety`. The invariant `RunInv` says that only the current source is copied or saved and that a source that is not
configured has nothing to do; each action is then one step of `SyncRun`, or none (`Goes`, `Stutter`, `Outside`, `ExitIsExit`).

`FileHasher_proofs`: `ChunksPartition` (every index is in exactly one chunk, for all numbers of files and threads).

`Startup_proofs`, from `PathsAssumption` (names are not empty, and what is above an existing path is a directory), `ConfigAssumption` (the values that stand for none are no numbers
and no directories) and `StartupAssumption` (the lines' values are of the kinds the code distinguishes, finitely many old logs):

* `NumbersAreUsable`, by the effect of each kind of line, and `EachFileHashedOnce`, whose invariant says that a file is hashed exactly when the chunk that contains it has ended (`IInv`).
* `AcceptedLinesAreKnown` and `AcceptedAreApart`, from `ConfigInv`: a line that has no known key where it is split leaves an error, one too short for its split ends the process, and errors stay; two sources differ
  where both have a name, and a file that starts a run passed the tests at its end (`Checked`). `IsParentDirectory` stops at the end of the shorter path,
  which is why it covers nesting in both directions (`WithinIsNested`).
* `OrderDecidesNothing`: if a file is accepted and not `Contested`, every order of its lines is accepted, too, with the same configuration. The step is `NeighboursCommute`: a line that leaves neither an error nor a skipped source is an update that asks nothing of the other lines but that its source is not nested and the
  destination is the first (`AdmittedIs`, `QuietIsAdmitted`), and such updates commute unless they contend.
  For whole files, the configuration after the first `n` lines of an accepted file is a function of the *set* of these lines (`ConfigOf`), by induction over `n`: if it failed anywhere, there would be a least
  such `n`. Any other order of the lines meets the same conditions, line by line (`Orderly`), so it is accepted with the same configuration. `ParsedInv` ties this to the file `ReadLine` has read.
* `LogsAreKept`: the rank of a time among the logs numbers them from 1 (`OldestOf`), so that the loop removes as many as are too many, and the oldest.
* `ScanIsExact`, from `ScanInv`: what was found is to be found, and every file still to be found lies within a path of the stack. An entry of a directory is one name longer, so that an
  exclude above it is above the directory or the entry itself (`EntryIs`, `EntryClear`), and every file lies within one of the entries (`ReachedByEntry`).
* `NoneCollide`, from `ConfigInv` and `ScanInv`: two sources with a common file would be nested; in top-folder mode the first name below the destination is the source's (`PlacedTop`).

Every invariant of a passing run is the subject of a theorem. Only model-checked is liveness (`EveryJobRuns`, `DestructorReturns`, `RunEnds`, `EventuallyInSyncUnlessDamaged`) with the fairness parts of the refinements
(`ImplementsWorkPool`, `ImplementsSyncRun` of `Recovery`): the proof system reasons neither about fairness nor about `ENABLED`. For `RunEnds`, `EveryJobRuns` and `DestructorReturns` it proves what fairness acts on, that
somebody can move and that the moves are finitely many (their guards written out, `MainMoves`, `JobMoves`, ..., in place of `ENABLED`); for `EventuallyInSyncUnlessDamaged` nothing of the kind.

## 5. What is assumed or left out

* Two versions of a file differ in size or modification time, and hashes do not collide: `FileHasher`
  hashes path, size and mtime. An edit within the clock's resolution that keeps the size is invisible to the program.
* A scan of a source sees it at one instant (`HDDSync`, `Recovery`); in `Startup` the tree does not change.
* `Startup` reads one file of the lines of the instance; how characters are trimmed is left out. `RunFailureRecovery` parses the file a second time, which repeats the
  check of the directory and changes nothing more.
* `Recovery`: a kill in the middle of copying the backup or restoring it, the loss of writes the operating system had not yet stored, SSD mode, top-folder mode and
  `DeleteStale` are left out. With `DeleteStale` a process that ends between the deletion of a stale file and the save of its cache leaves a cache that claims it
  (`MetaDataCache.cpp:207`); `CacheTruthful` of `HDDSync` excludes that window.
* Not modelled: symbolic links and directory errors (`FileScanner`), Windows branches and the creation of directories (`FileCopier`), the destination index
  (`DestinationIndex.bin`, which numbers the destinations and so names the cache directory of a run, `FailureDetect.cpp:79-82`: every run modelled here has one destination), failing writes of the bins, what is written to the log, `main`, `TimeUtils`, and the vendored Blake3.
* `HDDSync` and `SSDSync` stop when the process exits; `Recovery` goes on from there.
* `SSDSync`: several runs, top-folder mode, destructors (a GodSpeed job may still run when `WaitUntilDone` has returned).
* `README.md:327`, `333` and `348` say that only one source is copied at a time; in Parallel and Balanced mode all sources share
  `SmallFileThreadPool`. No run is about it: the sentence is about scheduling, not about a state.

## 6. Plan

Written so far: the pool and its contract, the cache, the HDD and SSD pipelines, crashes and recovery, `SyncRun` with its two implementations, parsing, scanning and hashing; and a
proof of every safety property that a passing run checks, and of what makes a run end but for the fairness.
What is left, in the order of what it adds:

1. Proofs: sharper hypotheses (`OwnFilesOnly` and `LiveFilesKept` are sufficient, the latter up to the number of sources), and what several runs in SSD mode keep.
2. Several SSD runs, with a recovery after them; the destructor of `SSDCopyQueue` and the late GodSpeed job.
3. `Recovery` with `DeleteStale`, and with a kill within the backup's copy and its restore.
