------------------------------- MODULE SSDSync -------------------------------
(***************************************************************************)
(* The copy phase of a run in SSD mode: the SSD branch of ControlFlow::Run *)
(* from SSDCopy.Initialize on, the SSD branch of SyncEngine::Sync, and     *)
(* SSDCopyQueue with its four modes.                                       *)
(*                                                                         *)
(* It starts where the scans are joined.  What earlier runs left is a      *)
(* choice of the initial state: each file is new, changed, unchanged or    *)
(* gone since the source was last saved.  Full-path mode only, so the      *)
(* source's ID and root have no effect and Index.bin is left out.          *)
(*                                                                         *)
(* The pool of the run is used through its contract, WorkPool.  Of the     *)
(* pools that copy files only what their callers rely on is kept: a        *)
(* submitted job is taken by a free thread of its pool, in no particular   *)
(* order.  A section under SSDQueueMutex is one action.                    *)
(***************************************************************************)
EXTENDS Naturals, Sequences, FiniteSets, MetaDataCache

CONSTANTS
  Source, Path, SourceOf, \* as in HDDSync
  Large,       \* the files of at least LARGE_FILE_THRESHOLD bytes
  Modes,       \* the values of SSDMode to consider
  Worker,      \* the threads of the run's pool
  Thread,      \* the threads of a pool that copies files
  MaxGod,      \* GodSpeedParallelSourcesCount
  MaxMiss, DeleteStale, \* StaleEntries, DeleteStaleFromDest
  Before,      \* how files may be found: "new", "same", "changed", "gone"
  Edited,      \* bound: the files users may change or remove meanwhile
  Faults,      \* what may go wrong with a copy: "refuse", "abort", "short"
  MaxVersion,  \* bound: versions a file may have
  Shared,      \* names SmallFileThreadPool
  LargeThread, \* names SSDLargeFileThread
  Absent, Torn, NoJob, NoCopy, NoTask \* values outside the other sets

Version == 1 .. MaxVersion

SmallThread == (Source \cup {Shared}) \X Thread

CopyThread == SmallThread \cup {LargeThread}

LargeTask == [source : Source, todo : SUBSET Path]

CopyState == [path : Path, stage : {"start", "mark"}, version : {0}]
               \cup [path : Path, stage : {"open"}, version : Version]

ASSUME SSDAssumption ==
  /\ IsFiniteSet(Source) /\ IsFiniteSet(Path)
  /\ Worker # {} /\ Thread # {}
  /\ SourceOf \in [Path -> Source]
  /\ Large \subseteq Path
  /\ Modes \subseteq {"Sequential", "Parallel", "Balanced", "GodSpeed"}
  /\ MaxGod \in Nat \ {0} /\ MaxMiss \in Nat /\ MaxVersion \in Nat \ {0, 1}
  /\ DeleteStale \in BOOLEAN
  /\ Before \subseteq {"new", "same", "changed", "gone"}
  /\ Edited \subseteq Path
  /\ Faults \subseteq {"refuse", "abort", "short"}
  /\ Shared \notin Source
  /\ Absent # Torn /\ Absent \notin Version /\ Torn \notin Version
  /\ NoJob \notin Source /\ NoTask \notin LargeTask /\ NoCopy \notin CopyState
  /\ LargeThread \notin SmallThread

Job == Source

VARIABLES
  mode,       \* CopyMode
  src, newest, dest, bin, copied, scanned, \* as in HDDSync
  mpc, left,  \* the main thread
  queue, running, wpc, \* the run's pool and where its threads are
  pending, allSubmitted, largeRunning, \* SSDPendingSources, SSDAllSourcesSubmitted, SSDLargeFileThreadRunning
  mainWaits,  \* is the main thread blocked in SSDSourcesDoneCV.wait?
  inMap, smallDone, largeDone, \* the keys of SSDSourceStatusMap, and their flags
  processed,  \* filesProcessed, per source
  smallQueue, \* the files submitted to SmallFileThreadPool or to a per-source pool
  godQueue,   \* the sources submitted to GodSpeedSourcePool
  godRunning, \* those whose job has submitted its files and not returned
  largeQueue, \* SSDLargeFileQueue
  lpc,        \* where SSDLargeFileThread is in LargeFileWorker
  largeTask,  \* the source it works on and the files left, or NoTask
  copying,    \* copying[t]: the copy thread t is making, or NoCopy
  entries,    \* SSDCopyStateCache.Entries
  refused,    \* history: the files whose copy returned false
  short,      \* history: the files whose copy returned true over a part of them
  alive       \* has HandleCopyFailure not ended the process?

files == <<src, newest>>
disk == <<dest, short, bin, copied, entries>>
main == <<mpc, left>>
pool == <<queue, running>>
counts == <<pending, allSubmitted, mainWaits>>
status == <<inMap, smallDone, largeDone>>
small == <<processed, smallQueue, godQueue, godRunning>>
large == <<largeRunning, largeQueue, lpc, largeTask>>

vars == <<mode, scanned, files, disk, main, pool, wpc, counts, status, small, large, copying,
          refused, alive>>

Pool == INSTANCE WorkPool WITH joining <- mpc = "join"

FilesOf(s) == {p \in Path : SourceOf[p] = s}

Fresh(s) == [p \in {q \in FilesOf(s) : scanned[q] # Absent} |-> scanned[p]]

ToCopy(s) == FilesToCopy(bin[s], Fresh(s))

(* SyncEngine::Sync's two queues of a source. *)
LargeFiles(s) ==
  CASE mode = "Sequential" -> ToCopy(s)
    [] mode = "Balanced"   -> ToCopy(s) \cap Large
    [] OTHER               -> {}

SmallFiles(s) == ToCopy(s) \ LargeFiles(s)

(* What the latest save of its source knows of a file: nothing, the present *)
(* version, an older one, or one of a file that is gone.                    *)
Init ==
  /\ mode \in Modes
  /\ \E was \in [Path -> Before] :
       /\ src = [p \in Path |-> CASE was[p] = "gone"    -> Absent
                                [] was[p] = "changed" -> 2
                                [] OTHER              -> 1]
       /\ newest = [p \in Path |-> IF was[p] = "changed" THEN 2 ELSE 1]
       /\ dest = [p \in Path |-> IF was[p] = "new" THEN Absent ELSE 1]
       /\ bin = [s \in Source |->
                   [p \in {q \in FilesOf(s) : was[q] # "new"} |-> Entry(1, FALSE, 0)]]
  /\ scanned = src
  /\ copied = {} /\ entries = EmptyCache
  /\ mpc = "update" /\ left = Source
  /\ Pool!Init /\ wpc = [w \in Worker |-> "idle"]
  /\ pending = 0 /\ allSubmitted = FALSE /\ mainWaits = FALSE
  /\ inMap = {} /\ smallDone = {} /\ largeDone = {}
  /\ processed = [s \in Source |-> 0]
  /\ smallQueue = {} /\ godQueue = {} /\ godRunning = {}
  /\ largeRunning = TRUE /\ largeQueue = <<>> /\ largeTask = NoTask
  /\ lpc = IF mode \in {"Balanced", "Sequential"} THEN "check" ELSE "none"
  /\ copying = [t \in CopyThread |-> NoCopy]
  /\ refused = {} /\ short = {} /\ alive = TRUE

(* A user changes or removes a file after it was scanned. *)
Edit ==
  /\ \E p \in Edited :
       \/ /\ newest[p] < MaxVersion
          /\ src' = [src EXCEPT ![p] = newest[p] + 1]
          /\ newest' = [newest EXCEPT ![p] = @ + 1]
       \/ /\ src[p] # Absent
          /\ src' = [src EXCEPT ![p] = Absent]
          /\ UNCHANGED newest
  /\ UNCHANGED <<mode, scanned, disk, main, pool, wpc, counts, status, small, large, copying,
                 refused>>

-----------------------------------------------------------------------------
(* The main thread. *)
IncrementPendingSources ==
  /\ mpc = "update" /\ left # {}
  /\ pending' = pending + 1
  /\ mpc' = "submit"
  /\ UNCHANGED <<left, allSubmitted, mainWaits, pool>>

SubmitUpdate(s) ==
  /\ mpc = "submit" /\ s \in left
  /\ left' = left \ {s}
  /\ mpc' = "update"
  /\ Pool!Submit(s)
  /\ UNCHANGED counts

JoinUpdates ==
  /\ mpc = "update" /\ left = {}
  /\ mpc' = "join"
  /\ Pool!JoinCall
  /\ UNCHANGED <<left, counts>>

UpdatesJoined ==
  /\ mpc = "join"
  /\ mpc' = "markAll"
  /\ Pool!JoinReturn
  /\ UNCHANGED <<left, counts>>

MarkAllSourcesSubmitted ==
  /\ mpc = "markAll"
  /\ allSubmitted' = TRUE /\ mainWaits' = FALSE
  /\ mpc' = "wait"
  /\ UNCHANGED <<left, pending, pool>>

MutAllDone == allSubmitted

(* The predicate of SSDSourcesDoneCV's wait. *)
AllDone == pending = 0 /\ largeQueue = <<>> /\ allSubmitted

MainBlocks ==
  /\ mpc = "wait" /\ ~mainWaits /\ ~AllDone
  /\ mainWaits' = TRUE
  /\ UNCHANGED <<main, pending, allSubmitted, pool>>

WaitUntilDone ==
  /\ mpc = "wait" /\ ~mainWaits /\ AllDone
  /\ mpc' = "stop"
  /\ UNCHANGED <<left, counts, pool>>

MainRuns ==
  /\ \/ IncrementPendingSources \/ JoinUpdates \/ UpdatesJoined
     \/ \E s \in Source : SubmitUpdate(s)
     \/ MarkAllSourcesSubmitted \/ MainBlocks \/ WaitUntilDone
  /\ UNCHANGED <<mode, scanned, files, disk, wpc, status, small, large, copying, refused>>

(* Stop: the flag under SSDQueueMutex, then notify_all, then the join. *)
Stop ==
  /\ mpc = "stop"
  /\ largeRunning' = FALSE
  /\ mpc' = "stopNotify"
  /\ UNCHANGED <<mode, scanned, files, disk, left, pool, wpc, counts, status, small, largeQueue,
                 lpc, largeTask, copying, refused>>

StopNotifies ==
  /\ mpc = "stopNotify"
  /\ lpc' = IF lpc = "waiting" THEN "check" ELSE lpc
  /\ mpc' = "joinThread"
  /\ UNCHANGED <<mode, scanned, files, disk, left, pool, wpc, counts, status, small, largeRunning,
                 largeQueue, largeTask, copying, refused>>

JoinLargeFileThread ==
  /\ mpc = "joinThread" /\ lpc \in {"none", "exited"}
  /\ mpc' = "done"
  /\ UNCHANGED <<mode, scanned, files, disk, left, pool, wpc, counts, status, small, large,
                 copying, refused>>

MainStep == MainRuns \/ Stop \/ StopNotifies \/ JoinLargeFileThread

-----------------------------------------------------------------------------
DestWithout(P) == [p \in Path |-> IF DeleteStale /\ p \in P THEN Absent ELSE dest[p]]

MutKeepInMap(s, sd, ld) ==
  \/ /\ s \notin inMap
     /\ UNCHANGED <<disk, counts, status>>
  \/ /\ s \in inMap /\ s \notin sd \cap ld
     /\ smallDone' = sd /\ largeDone' = ld
     /\ UNCHANGED <<disk, counts, inMap>>
  \/ /\ s \in inMap \cap sd \cap ld
     /\ entries' = Refresh(entries, Fresh(s), MaxMiss)
     /\ dest' = DestWithout(StaleAfter(entries, Fresh(s), MaxMiss))
     /\ bin' = [bin EXCEPT ![s] = entries']
     /\ copied' = copied \cup {s}
     /\ smallDone' = sd /\ largeDone' = ld /\ UNCHANGED inMap
     /\ pending' = pending - 1
     /\ mainWaits' = (mainWaits /\ ~(pending' = 0 /\ allSubmitted))
     /\ UNCHANGED <<allSubmitted, short>>

(* MarkQueueDoneAndCheck, wholly under SSDQueueMutex, when the flags become *)
(* sd and ld.  The source may be gone from the map; one of its flags may    *)
(* still be missing; or it is saved, forgotten and counted.                 *)
FlagsBecome(s, sd, ld) ==
  \/ /\ s \notin inMap
     /\ UNCHANGED <<disk, counts, status>>
  \/ /\ s \in inMap /\ s \notin sd \cap ld
     /\ smallDone' = sd /\ largeDone' = ld
     /\ UNCHANGED <<disk, counts, inMap>>
  \/ /\ s \in inMap \cap sd \cap ld
     /\ entries' = Refresh(entries, Fresh(s), MaxMiss)
     /\ dest' = DestWithout(StaleAfter(entries, Fresh(s), MaxMiss))
     /\ bin' = [bin EXCEPT ![s] = entries']
     /\ copied' = copied \cup {s}
     /\ inMap' = inMap \ {s} /\ smallDone' = sd \ {s} /\ largeDone' = ld \ {s}
     /\ pending' = pending - 1
     /\ mainWaits' = (mainWaits /\ ~(pending' = 0 /\ allSubmitted))
     /\ UNCHANGED <<allSubmitted, short>>

MutSmallQueueDone(s) == FlagsBecome(s, smallDone \cup {s}, largeDone \cup {s})

SmallQueueDone(s) == FlagsBecome(s, smallDone \cup {s}, largeDone)

LargeQueueDone(s) == FlagsBecome(s, smallDone, largeDone \cup {s})

-----------------------------------------------------------------------------
(* A job of the run's pool: UpdateCacheForSource up to SyncEngine::Sync,   *)
(* and SubmitCopyQueues.                                                   *)
Goto(w, pc) == wpc' = [wpc EXCEPT ![w] = pc] /\ UNCHANGED pool

EndJob(w) == Pool!Finish(w) /\ wpc' = [wpc EXCEPT ![w] = "idle"]

TakeJob(w) ==
  /\ Pool!Take(w)
  /\ wpc' = [wpc EXCEPT ![w] = "sync"]
  /\ UNCHANGED <<disk, counts, status, small, large>>

NothingToCopy(w) ==
  /\ wpc[w] = "sync" /\ ToCopy(running[w]) = {}
  /\ pending' = IF pending > 0 THEN pending - 1 ELSE pending
  /\ mainWaits' = FALSE
  /\ Goto(w, "save")
  /\ UNCHANGED <<allSubmitted, disk, status, small, large>>

SaveUnchanged(w) ==
  /\ wpc[w] = "save"
  /\ LET s == running[w]
         c == MarkVisited(bin[s], DOMAIN Fresh(s))
     IN  /\ dest' = DestWithout(StaleAfter(c, Fresh(s), MaxMiss))
         /\ bin' = [bin EXCEPT ![s] = Refresh(c, Fresh(s), MaxMiss)]
  /\ EndJob(w)
  /\ UNCHANGED <<short, copied, entries, counts, status, small, large>>

(* SubmitCopyQueues: the source enters the map ... *)
EnterMap(w) ==
  /\ wpc[w] = "sync" /\ ToCopy(running[w]) # {}
  /\ inMap' = inMap \cup {running[w]}
  /\ Goto(w, "small")
  /\ UNCHANGED <<smallDone, largeDone, disk, counts, small, large>>

(* ... its small files, if any, go to a pool that copies them (or to the   *)
(* job that will do that) ...                                              *)
SubmitSmallFiles(w) ==
  /\ wpc[w] = "small"
  /\ LET s == running[w]
     IN  \/ /\ SmallFiles(s) = {}
            /\ SmallQueueDone(s)
            /\ UNCHANGED small
         \/ /\ SmallFiles(s) # {} /\ mode \in {"Parallel", "Balanced"}
            /\ smallQueue' = smallQueue \cup SmallFiles(s)
            /\ UNCHANGED <<processed, godQueue, godRunning, disk, counts, status>>
         \/ /\ SmallFiles(s) # {} /\ mode = "GodSpeed"
            /\ godQueue' = godQueue \cup {s}
            /\ UNCHANGED <<processed, smallQueue, godRunning, disk, counts, status>>
  /\ Goto(w, "large")
  /\ UNCHANGED large

NotifyLargeQueue == lpc' = IF lpc = "waiting" THEN "check" ELSE lpc

(* ... and its large files to SSDLargeFileThread, notified under a mutex   *)
(* other than the one that thread tests its predicate under.               *)
SubmitLargeFiles(w) ==
  /\ wpc[w] = "large"
  /\ LET s == running[w]
     IN  \/ /\ LargeFiles(s) = {}
            /\ LargeQueueDone(s)
            /\ UNCHANGED large
         \/ /\ LargeFiles(s) # {}
            /\ largeQueue' = Append(largeQueue, s)
            /\ NotifyLargeQueue
            /\ UNCHANGED <<largeRunning, largeTask, disk, counts, status>>
  /\ EndJob(w)
  /\ UNCHANGED small

JobStep(w) ==
  /\ UNCHANGED <<mode, scanned, files, main, copying, refused>>
  /\ \/ TakeJob(w) \/ NothingToCopy(w) \/ SaveUnchanged(w)
     \/ EnterMap(w) \/ SubmitSmallFiles(w) \/ SubmitLargeFiles(w)

-----------------------------------------------------------------------------
(* GodSpeed: a job per source submits the files to the source's own pool,  *)
(* and then marks the large queue done (a second time).                    *)
GodJobSubmits(s) ==
  /\ s \in godQueue /\ Cardinality(godRunning) < MaxGod
  /\ godQueue' = godQueue \ {s}
  /\ godRunning' = godRunning \cup {s}
  /\ smallQueue' = smallQueue \cup SmallFiles(s)
  /\ UNCHANGED <<processed, disk, counts, status>>

GodJobMarks(s) ==
  /\ s \in godRunning
  /\ LargeQueueDone(s)
  /\ godRunning' = godRunning \ {s}
  /\ UNCHANGED <<processed, smallQueue, godQueue>>

GodStep(s) ==
  /\ GodJobSubmits(s) \/ GodJobMarks(s)
  /\ UNCHANGED <<mode, scanned, files, main, pool, wpc, large, copying, refused>>

-----------------------------------------------------------------------------
(* LargeFileWorker.  It evaluates its predicate with SSDLargeQueueMutex,   *)
(* which no other thread takes, and blocks afterwards.                     *)
LargeGoto(pc) == lpc' = pc /\ UNCHANGED <<largeRunning, largeQueue, largeTask>>

NothingForLarge ==
  /\ lpc = "check" /\ largeQueue = <<>> /\ largeRunning
  /\ LargeGoto("block")
  /\ UNCHANGED <<disk, counts, status>>

LargeBlocks ==
  /\ lpc = "block"
  /\ LargeGoto("waiting")
  /\ UNCHANGED <<disk, counts, status>>

LargeExits ==
  /\ lpc = "check" /\ largeQueue = <<>> /\ ~largeRunning
  /\ LargeGoto("exited")
  /\ UNCHANGED <<disk, counts, status>>

TakeLargeQueue ==
  /\ lpc = "check" /\ largeQueue # <<>>
  /\ largeTask' = [source |-> Head(largeQueue), todo |-> LargeFiles(Head(largeQueue))]
  /\ largeQueue' = Tail(largeQueue)
  /\ lpc' = "work"
  /\ UNCHANGED <<largeRunning, disk, counts, status>>

LargeMarks ==
  /\ lpc = "work" /\ largeTask.todo = {} /\ copying[LargeThread] = NoCopy
  /\ LargeQueueDone(largeTask.source)
  /\ lpc' = "check" /\ largeTask' = NoTask
  /\ UNCHANGED <<largeRunning, largeQueue>>

LargeStep ==
  /\ \/ NothingForLarge \/ LargeBlocks \/ LargeExits \/ TakeLargeQueue \/ LargeMarks
  /\ UNCHANGED <<mode, scanned, files, main, pool, wpc, small, copying, refused>>

LargeSpuriousWake ==
  /\ lpc = "waiting"
  /\ LargeGoto("check")
  /\ UNCHANGED <<mode, scanned, files, disk, main, pool, wpc, counts, status, small, copying,
                 refused>>

-----------------------------------------------------------------------------
(* One copy by thread t: FileCopier::PerformFileCopy, and what the small   *)
(* file jobs and the loop of LargeFileWorker make of its result.           *)
Copy(p, stage, version) == [path |-> p, stage |-> stage, version |-> version]

Becomes(t, c) == copying' = [copying EXCEPT ![t] = c]

StartSmall(t) ==
  /\ t # LargeThread /\ copying[t] = NoCopy
  /\ \E p \in smallQueue :
       /\ t[1] = IF mode = "GodSpeed" THEN SourceOf[p] ELSE Shared
       /\ smallQueue' = smallQueue \ {p}
       /\ Becomes(t, Copy(p, "start", 0))
  /\ UNCHANGED <<disk, counts, status, processed, godQueue, godRunning, largeTask, refused>>

StartLarge(t) ==
  /\ t = LargeThread /\ copying[t] = NoCopy /\ lpc = "work"
  /\ \E p \in largeTask.todo :
       /\ largeTask' = [largeTask EXCEPT !.todo = @ \ {p}]
       /\ Becomes(t, Copy(p, "start", 0))
  /\ UNCHANGED <<disk, counts, status, small, refused>>

MutCounted(t) ==
  LET p == copying[t].path
      s == SourceOf[p]
  IN  IF t = LargeThread THEN Becomes(t, NoCopy) /\ UNCHANGED processed
      ELSE /\ processed' = [processed EXCEPT ![s] = @ + 1]
           /\ Becomes(t, IF processed[s] = Cardinality(SmallFiles(s)) THEN Copy(p, "mark", 0)
                         ELSE NoCopy)

(* ++filesProcessed: the job that reaches the number of files marks the    *)
(* source.                                                                 *)
Counted(t) ==
  LET p == copying[t].path
      s == SourceOf[p]
  IN  IF t = LargeThread THEN Becomes(t, NoCopy) /\ UNCHANGED processed
      ELSE /\ processed' = [processed EXCEPT ![s] = @ + 1]
           /\ Becomes(t, IF processed'[s] = Cardinality(SmallFiles(s)) THEN Copy(p, "mark", 0)
                         ELSE NoCopy)

OpenDestination(t) ==
  LET p == copying[t].path
  IN  /\ copying[t].stage = "start" /\ src[p] # Absent
      /\ dest' = [dest EXCEPT ![p] = Torn]
      /\ Becomes(t, Copy(p, "open", src[p]))
      /\ UNCHANGED <<short, bin, copied, entries, counts, status, small, largeTask, refused>>

(* In Parallel and Balanced mode a job whose copy failed does not count.   *)
CopyRefused(t) ==
  LET p == copying[t].path
  IN  /\ copying[t].stage = "start"
      /\ "refuse" \in Faults \/ src[p] = Absent
      /\ refused' = refused \cup {p}
      /\ IF t # LargeThread /\ mode \in {"Parallel", "Balanced"}
         THEN Becomes(t, NoCopy) /\ UNCHANGED processed
         ELSE Counted(t)
      /\ UNCHANGED <<disk, counts, status, smallQueue, godQueue, godRunning, largeTask>>

Unedited(c) == src[c.path] \in {c.version, Absent}

(* As in HDDSync; dd, which copies the large files, does not end short     *)
(* without an error.                                                       *)
Outcomes(c) ==
  IF dest[c.path] = Absent THEN {Absent}
  ELSE {c.version} \cup (IF Unedited(c) THEN {} ELSE {src[c.path], Torn})
                   \cup (IF "short" \in Faults /\ c.path \notin Large THEN {Torn} ELSE {})

FinishCopy(t) ==
  LET c == copying[t]
  IN  /\ c.stage = "open"
      /\ \E v \in Outcomes(c) :
           /\ dest' = [dest EXCEPT ![c.path] = v]
           /\ short' = IF v = Torn /\ Unedited(c) THEN short \cup {c.path} ELSE short
      /\ Counted(t)
      /\ UNCHANGED <<bin, copied, entries, counts, status, smallQueue, godQueue, godRunning,
                     largeTask, refused>>

LastFileMarks(t) ==
  /\ copying[t].stage = "mark"
  /\ SmallQueueDone(SourceOf[copying[t].path])
  /\ Becomes(t, NoCopy)
  /\ UNCHANGED <<small, largeTask, refused>>

CopyStep(t) ==
  /\ \/ StartSmall(t) \/ StartLarge(t)
     \/ /\ copying[t] # NoCopy
        /\ OpenDestination(t) \/ CopyRefused(t) \/ FinishCopy(t) \/ LastFileMarks(t)
  /\ UNCHANGED <<mode, scanned, files, main, pool, wpc, largeRunning, largeQueue, lpc>>

(* The copy broke off, or file_size threw: HandleCopyFailure exits. *)
ExitOnFailure ==
  /\ \E t \in CopyThread : copying[t] # NoCopy /\
       \/ copying[t].stage = "open" /\ "abort" \in Faults
       \/ copying[t].stage = "start" /\ src[copying[t].path] = Absent
  /\ alive' = FALSE
  /\ UNCHANGED <<mode, scanned, files, disk, main, pool, wpc, counts, status, small, large,
                 copying, refused>>

-----------------------------------------------------------------------------
MainSpuriousWake ==
  /\ mainWaits /\ mainWaits' = FALSE
  /\ UNCHANGED <<mode, scanned, files, disk, main, pool, wpc, pending, allSubmitted, status, small,
                 large, copying, refused>>

Next ==
  /\ alive
  /\ \/ /\ \/ Edit \/ MainStep \/ LargeStep
           \/ LargeSpuriousWake \/ MainSpuriousWake
           \/ \E w \in Worker : JobStep(w)
           \/ \E s \in Source : GodStep(s)
           \/ \E t \in CopyThread : CopyStep(t)
        /\ UNCHANGED alive
     \/ ExitOnFailure

Live(A) == A /\ alive /\ UNCHANGED alive

(* Every started thread keeps running.  No wakeup is spurious for ever.    *)
Fairness ==
  /\ WF_vars(Live(MainStep))
  /\ \A w \in Worker : WF_vars(Live(JobStep(w)))
  /\ \A s \in Source : WF_vars(Live(GodStep(s)))
  /\ WF_vars(Live(LargeStep))
  /\ \A t \in CopyThread : WF_vars(Live(CopyStep(t)))

Spec == Init /\ [][Next]_vars /\ Fairness

-----------------------------------------------------------------------------
(* Every variable has the values the code gives it.                        *)
TypeOK ==
  /\ mode \in Modes
  /\ src \in [Path -> Version \cup {Absent}]
  /\ newest \in [Path -> 0 .. MaxVersion]
  /\ dest \in [Path -> Version \cup {Absent, Torn}]
  /\ bin \in [Source -> Cache(Path, Version, MaxMiss)]
  /\ entries \in Cache(Path, Version, MaxMiss)
  /\ copied \subseteq Source /\ left \subseteq Source
  /\ scanned \in [Path -> Version \cup {Absent}]
  /\ mpc \in {"update", "submit", "join", "markAll", "wait", "stop", "stopNotify", "joinThread", "done"}
  /\ queue \in Seq(Source)
  /\ running \in [Worker -> Source \cup {NoJob}]
  /\ wpc \in [Worker -> {"idle", "sync", "save", "small", "large"}]
  /\ pending \in Nat
  /\ {allSubmitted, mainWaits, largeRunning, alive} \subseteq BOOLEAN
  /\ inMap \subseteq Source /\ smallDone \subseteq inMap /\ largeDone \subseteq inMap
  /\ processed \in [Source -> 0 .. Cardinality(Path)]
  /\ smallQueue \subseteq Path /\ godQueue \subseteq Source /\ godRunning \subseteq Source
  /\ largeQueue \in Seq(Source)
  /\ lpc \in {"none", "check", "block", "waiting", "work", "exited"}
  /\ largeTask \in LargeTask \cup {NoTask}
  /\ copying \in [CopyThread -> CopyState \cup {NoCopy}]
  /\ refused \subseteq Path /\ short \subseteq Path

(* SSDPendingSources, which is decremented without a test, is exactly the  *)
(* number of sources submitted and neither saved nor found unchanged: it   *)
(* cannot wrap, and WaitUntilDone cannot return early.                     *)
PendingCounts ==
  pending = Cardinality({s \in Source : \/ s \in inMap
                                        \/ \E i \in DOMAIN queue : queue[i] = s
                                        \/ \E w \in Worker : running[w] = s /\ wpc[w] = "sync"})
            + (IF mpc = "submit" THEN 1 ELSE 0)

InCopy(p) == p \in smallQueue \/ \E t \in CopyThread : copying[t] # NoCopy /\ copying[t].path = p

Working(p) ==
  \/ InCopy(p)
  \/ largeTask # NoTask /\ p \in largeTask.todo
  \/ SourceOf[p] \in godQueue \/ \E i \in DOMAIN largeQueue : largeQueue[i] = SourceOf[p]

(* A source is saved and flagged as copied only after its last copy, in    *)
(* whichever order its small and large queues end.                         *)
SavedAfterLastCopy == \A p \in Path : SourceOf[p] \in copied => ~Working(p)

(* When WaitUntilDone has returned no file is queued or being copied.      *)
Settled ==
  mpc \in {"stop", "stopNotify", "joinThread", "done"} => \A p \in Path : ~Working(p)

(* The caches reflect the destination, but for the files whose copy was    *)
(* refused or ended short.                                                 *)
CacheTruthfulUnlessRefused ==
  \A p \in Path \ (refused \cup short) :
    LET c == bin[SourceOf[p]]
    IN  p \in DOMAIN c /\ c[p].hash = src[p] => dest[p] = src[p]

(* After the run every scanned file is in the destination, but for those   *)
(* edited and those whose copy was refused or ended short.                 *)
SuccessCopiesAll ==
  mpc = "done" =>
    \A p \in Path \ (refused \cup short) :
      scanned[p] # Absent /\ scanned[p] = src[p] => dest[p] = src[p]

SubmitterAt(s, pcs) == \E w \in Worker : running[w] = s /\ wpc[w] \in pcs

(* Each flag a source in the map still misses will be set by somebody: the *)
(* job that submits it, a pool, a copying thread or SSDLargeFileThread.    *)
(* The exception is a failed copy of SmallFileThreadPool, which nobody     *)
(* counts.                                                                 *)
NoSourceForgotten ==
  \A s \in inMap :
    /\ \/ s \in smallDone
       \/ SubmitterAt(s, {"small"}) \/ s \in godQueue
       \/ \E p \in SmallFiles(s) : InCopy(p)
       \/ mode \in {"Parallel", "Balanced"} /\ SmallFiles(s) \cap refused # {}
    /\ \/ s \in largeDone
       \/ SubmitterAt(s, {"small", "large"})
       \/ \E i \in DOMAIN largeQueue : largeQueue[i] = s
       \/ largeTask # NoTask /\ largeTask.source = s

(* A file whose copy failed is excluded from the metadata update: the cache *)
(* reflects the true state of the destination.                             *)
CacheTruthful ==
  \A p \in Path :
    LET c == bin[SourceOf[p]]
    IN  p \in DOMAIN c /\ c[p].hash = src[p] => dest[p] = src[p]

(* A run ends.                                                             *)
RunEnds == <>(mpc = "done" \/ ~alive)
=============================================================================
