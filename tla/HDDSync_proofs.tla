---------------------------- MODULE HDDSync_proofs ----------------------------
(***************************************************************************)
(* Proofs about HDDSync for any sources, files, pool threads, edits and    *)
(* faults.  The invariant grows in layers, each inductive with the ones    *)
(* below it: Control (types; in which single place a source is: left to    *)
(* submit, in a job, queued, with the copy thread; what the count counts), *)
(* Data (how the versions in caches, scans and tasks relate), Truth (what  *)
(* is in the destination) and MissInv (what miss counts stand for).  Truth *)
(* and MissInv need OwnFilesOnly.  Then comes the refinement of SyncRun,   *)
(* from Control and Data, and last, from Control, what makes a run end: no *)
(* wakeup is lost (Wakeups), so that some thread can always move           *)
(* (NeverStuck), and there are finitely many moves (RunIsFinite).          *)
(***************************************************************************)
EXTENDS HDDSync, MetaDataCache_proofs, FiniteSetTheorems, TLAPS

-----------------------------------------------------------------------------
(* Jobs.  A thread's program counter tells what it is running.             *)
WorkersInv ==
  \A w \in Worker :
    /\ wpc[w] = "idle" <=> running[w] = NoJob
    /\ wpc[w] # "idle" => running[w].kind = IF wpc[w] = "scan" THEN "scan" ELSE "update"

(* Before a Join returns there are jobs of one kind only, afterwards none. *)
JobKind ==
  CASE mpc \in {"scan", "joinScan"} -> "scan"
    [] mpc \in {"update", "submit", "joinUpdate"} -> "update"
    [] OTHER -> "none"

PhaseInv ==
  /\ \A i \in DOMAIN queue : queue[i].kind = JobKind
  /\ \A w \in Worker : running[w] # NoJob => running[w].kind = JobKind

JobQueued(s) == \E i \in DOMAIN queue : queue[i].source = s

Runs(w, s) == running[w] # NoJob /\ running[w].source = s

(* A source is submitted once, so it has one job.                          *)
JobsOnce ==
  /\ \A i, j \in DOMAIN queue : queue[i].source = queue[j].source => i = j
  /\ \A v, w \in Worker : \A s \in Source : Runs(v, s) /\ Runs(w, s) => v = w
  /\ \A s \in Source : JobQueued(s) => \A w \in Worker : ~Runs(w, s)
  /\ \A s \in left : ~JobQueued(s) /\ \A w \in Worker : ~Runs(w, s)
  /\ mpc \notin {"scan", "update", "submit"} => left = {}

-----------------------------------------------------------------------------
(* The copy thread.  A source is queued once, and no job works on it then  *)
(* but to notify.                                                          *)
TasksOnce ==
  /\ \A i, j \in DOMAIN copyQueue : copyQueue[i].source = copyQueue[j].source => i = j
  /\ task # NoTask => \A i \in DOMAIN copyQueue : copyQueue[i].source # task.source
  /\ \A s \in Source : WithCopier(s) =>
       s \notin left /\ ~JobQueued(s) /\ \A w \in Worker : Runs(w, s) => wpc[w] = "notify"

CopierInv ==
  /\ task # NoTask <=> cpc \in {"copy", "age", "save", "decrement"}
  /\ open # NoFile => cpc = "copy" /\ open.path \in task.todo
  /\ cpc = "none" => mpc \in {"idle", "scan", "joinScan", "reset", "start"}

(* Outside the synchronising phases nothing is pending.                    *)
Syncing == {"update", "submit", "joinUpdate", "markAll", "wait"}

QuietInv == mpc \notin Syncing => copyQueue = <<>> /\ task = NoTask /\ pending = 0

(* A file is missed at most once by each scan.                             *)
MissedInv ==
  \A p \in Path :
    /\ missed[p] <= runs
    /\ mpc \in {"scan", "joinScan"} /\ Unscanned(SourceOf[p]) => missed[p] < runs

(* What HDDPendingSources counts.                                          *)
Counted == {s \in Source : WithPool(s) \/ WithCopier(s)}

CountInv == pending = Cardinality(Counted) + (IF mpc = "submit" THEN 1 ELSE 0)

Places ==
  /\ WorkersInv /\ PhaseInv /\ JobsOnce /\ TasksOnce /\ CopierInv /\ QuietInv /\ MissedInv
  /\ CountInv

Control == TypeOK /\ Places

-----------------------------------------------------------------------------
(* Versions.  A source has the newest version of a file or none, and what  *)
(* is cached, scanned or open is at most as new: whatever claims to be the *)
(* newest version is obsolete for ever after the next edit.                *)
VersionsInv ==
  \A p \in Path :
    LET c == bin[SourceOf[p]]
    IN  /\ src[p] # Absent => src[p] = newest[p]
        /\ scanned[p] # Absent => scanned[p] <= newest[p]
        /\ p \in DOMAIN c => c[p].hash <= newest[p]
        /\ p \in DOMAIN c /\ scanned[p] # Absent => c[p].hash <= scanned[p]

(* A source that is not yet compared with its cache in this run.           *)
Waiting(s) == s \in left \/ WithPool(s)

(* A task holds the scan of its source, and what differs from the cache.   *)
IsTask(t) ==
  /\ t.fresh = Fresh(t.source)
  /\ t.todo \subseteq FilesToCopy(bin[t.source], Fresh(t.source))

TasksInv ==
  /\ \A i \in DOMAIN copyQueue : IsTask(copyQueue[i]) /\ ~copyQueue[i].failed
  /\ task # NoTask => task.fresh = Fresh(task.source)
  /\ cpc = "copy" => IsTask(task)
  /\ cpc \in {"age", "save", "decrement"} => task.todo = {} /\ ~task.failed
  /\ open # NoFile => scanned[open.path] <= open.version /\ open.version <= newest[open.path]

UnchangedInv ==
  \A w \in Worker : wpc[w] \in {"age", "save"} =>
    FilesToCopy(bin[running[w].source], Fresh(running[w].source)) = {}

Scanning == {"scan", "joinScan", "reset"}

(* A refused copy is remembered by the task, so its source is given up.    *)
RefusedInv ==
  /\ mpc \in Scanning \cup {"start"} => refused = {}
  /\ \A p \in refused : LET s == SourceOf[p] IN
       /\ ~Waiting(s) /\ s \notin copied
       /\ \A i \in DOMAIN copyQueue : copyQueue[i].source # s
       /\ task # NoTask /\ task.source = s => task.failed

CopiedInv ==
  /\ mpc = "start" => copied = {}
  /\ cpc \in {"age", "save", "decrement"} => task.source \in copied
  /\ mpc \notin Scanning => \A s \in copied :
       /\ ~Waiting(s)
       /\ \A i \in DOMAIN copyQueue : copyQueue[i].source # s
       /\ task # NoTask /\ task.source = s => cpc # "copy"

(* The copy thread's cache holds what was copied in this run.              *)
EntriesInv ==
  /\ mpc \in Scanning \cup {"start"} => entries = EmptyCache
  /\ \A p \in DOMAIN entries :
       SourceOf[p] \in copied /\ scanned[p] # Absent /\ entries[p].hash = scanned[p]

Data ==
  /\ VersionsInv /\ TasksInv /\ UnchangedInv /\ RefusedInv /\ CopiedInv /\ EntriesInv

-----------------------------------------------------------------------------
(* The destination.  A cached version that is still the newest one is      *)
(* there, but for a short copy and for what is being deleted by the job    *)
(* that saves the cache next ...                                           *)
BeingDeleted(p) ==
  \E w \in Worker :
    LET s == running[w].source
    IN  wpc[w] = "save" /\ s = SourceOf[p] /\ p \in StaleAfter(CacheOf(s), Fresh(s), MaxMiss)

CachedInv ==
  \A p \in Path :
    LET c == bin[SourceOf[p]]
    IN  p \in DOMAIN c /\ c[p].hash = newest[p] /\ ~BeingDeleted(p) =>
          dest[p] = newest[p] \/ p \in short

(* ... and so is a scanned one, once its source is compared and unless its *)
(* copy is still to be made or was refused.                                *)
ToBeCopied(p) ==
  \/ Waiting(SourceOf[p])
  \/ \E i \in DOMAIN copyQueue : copyQueue[i].source = SourceOf[p] /\ p \in copyQueue[i].todo
  \/ task # NoTask /\ task.source = SourceOf[p] /\ p \in task.todo

ScannedInv ==
  mpc \notin Scanning \cup {"start"} =>
    \A p \in Path \ refused :
      scanned[p] # Absent /\ scanned[p] = newest[p] /\ ~ToBeCopied(p) =>
        dest[p] = newest[p] \/ p \in short

OpenInv == open # NoFile => dest[open.path] = Torn

Truth == CachedInv /\ ScannedInv /\ OpenInv

(* No run deletes a file of another source: there is one source, or        *)
(* nothing is deleted.                                                     *)
OwnFilesOnly == DeleteStale /\ ~TopFolder => \A s, t \in Source : s = t

(* What DeletesOnlyStale needs: a file is missed by at least as many scans *)
(* as its entry says, and by one more until the entry is aged.             *)
NotAged(p) ==
  LET s == SourceOf[p]
  IN  \/ mpc \in {"scan", "joinScan"} /\ ~Unscanned(s)
      \/ mpc \in {"reset", "start"}
      \/ mpc \notin Scanning /\ Waiting(s)
      \/ \E w \in Worker : wpc[w] \in {"age", "save"} /\ running[w].source = s

MissInv ==
  /\ \A p \in Path : LET c == bin[SourceOf[p]] IN
       p \in DOMAIN c =>
         /\ c[p].miss <= missed[p]
         /\ scanned[p] = Absent /\ NotAged(p) => c[p].miss < missed[p]
  /\ cpc = "save" => \A p \in DOMAIN entries : SourceOf[p] = task.source => entries[p].miss = 0

-----------------------------------------------------------------------------
(* Sequences: what is in a queue after a push and after a pop.             *)
LEMMA AppendIs ==
  ASSUME NEW S, NEW q \in Seq(S), NEW e \in S
  PROVE  /\ Append(q, e) \in Seq(S)
         /\ DOMAIN Append(q, e) = DOMAIN q \cup {Len(q) + 1}
         /\ Len(q) + 1 \notin DOMAIN q
         /\ \A i \in DOMAIN q : Append(q, e)[i] = q[i]
         /\ Append(q, e)[Len(q) + 1] = e
  OBVIOUS

LEMMA TailIs ==
  ASSUME NEW S, NEW q \in Seq(S), q # <<>>
  PROVE  /\ Tail(q) \in Seq(S) /\ Head(q) \in S
         /\ 1 \in DOMAIN q /\ Head(q) = q[1]
         /\ \A i \in DOMAIN Tail(q) : i + 1 \in DOMAIN q /\ i + 1 # 1 /\ Tail(q)[i] = q[i + 1]
         /\ \A i \in DOMAIN q \ {1} : i - 1 \in DOMAIN Tail(q) /\ Tail(q)[i - 1] = q[i]
         /\ DOMAIN q \subseteq Int /\ DOMAIN Tail(q) \subseteq Int
  OBVIOUS

LEMMA SeqElement ==
  ASSUME NEW S, NEW q \in Seq(S), NEW i \in DOMAIN q
  PROVE  q[i] \in S
  OBVIOUS

-----------------------------------------------------------------------------
(* Types.                                                                  *)
LEMMA FreshType ==
  ASSUME TypeOK, NEW s \in Source
  PROVE  \E P \in SUBSET Path : Fresh(s) \in [P -> Version] /\ P = {p \in FilesOf(s) : scanned[p] # Absent}
  <1> DEFINE P == {p \in FilesOf(s) : scanned[p] # Absent}
  <1>1. P \in SUBSET Path /\ \A p \in P : scanned[p] \in Version
    BY DEF FilesOf, TypeOK
  <1>2. Fresh(s) = [p \in P |-> scanned[p]]
    BY DEF Fresh
  <1> QED BY <1>1, <1>2

LEMMA CacheOfType ==
  ASSUME TypeOK, NEW s \in Source
  PROVE  CacheOf(s) \in SourceCache(Path)
  <1>1. PICK P \in SUBSET Path : bin[s] \in [P -> [hash : Version, visited : BOOLEAN, miss : 0 .. MaxMiss]]
    BY DEF TypeOK, SourceCache, Cache
  <1>2. MaxMiss \in Nat
    BY HDDAssumption
  <1>3. CacheOf(s) \in [P -> [hash : Version, visited : BOOLEAN, miss : 0 .. MaxMiss]]
    BY <1>1, <1>2 DEF CacheOf, MarkVisited, Entry
  <1> QED BY <1>3 DEF SourceCache, Cache

LEMMA EmptyCacheType == EmptyCache \in SourceCache(Path)
  <1>1. EmptyCache \in [{} -> [hash : Version, visited : BOOLEAN, miss : 0 .. MaxMiss]]
    BY DEF EmptyCache
  <1> QED BY <1>1 DEF SourceCache, Cache

LEMMA DestWithoutType ==
  ASSUME TypeOK, NEW P
  PROVE  DestWithout(P) \in [Path -> Content]
  BY DEF DestWithout, TypeOK, Content

LEMMA TypeInit == Init => TypeOK
  <1> SUFFICES ASSUME Init PROVE TypeOK
    OBVIOUS
  <1>1. 1 \in Version /\ 0 .. MaxVersion # {} /\ 0 \in 0 .. MaxRuns
    BY HDDAssumption DEF Version
  <1>2. src \in [Path -> Version \cup {Absent}] /\ newest \in [Path -> 0 .. MaxVersion]
    BY <1>1, HDDAssumption DEF Init
  <1>3. bin \in [Source -> SourceCache(Path)] /\ entries \in SourceCache(Path)
    BY EmptyCacheType DEF Init
  <1>4. queue \in Seq(Job) /\ running \in [Worker -> Job \cup {NoJob}]
    BY DEF Init, Pool!Init
  <1>5. /\ dest \in [Path -> Content] /\ scanned \in [Path -> Version \cup {Absent}]
        /\ runs \in 0 .. MaxRuns /\ missed \in [Path -> 0 .. MaxRuns]
    BY <1>1 DEF Init, Content
  <1>6. copyQueue \in Seq(Task) /\ pending \in Nat
    BY DEF Init
  <1> QED BY <1>2, <1>3, <1>4, <1>5, <1>6 DEF Init, TypeOK

LEMMA TypeMain ==
  ASSUME TypeOK, StartRun \/ MainStep, UNCHANGED alive
  PROVE  TypeOK'
  <1> USE DEF TypeOK, files, disk, main, pool, hdd, copier, results
  <1>1. CASE StartRun
    <2>1. runs' \in 0 .. MaxRuns
      BY <1>1, HDDAssumption DEF StartRun
    <2>2. entries' \in SourceCache(Path)
      BY <1>1, EmptyCacheType DEF StartRun
    <2> QED BY <1>1, <2>1, <2>2 DEF StartRun
  <1>2. ASSUME NEW s \in Source, SubmitScan(s) PROVE TypeOK'
    <2>1. Append(queue, [kind |-> "scan", source |-> s]) \in Seq(Job)
      BY DEF Job
    <2> QED BY <1>2, <2>1 DEF SubmitScan, Pool!Submit
  <1>3. ASSUME NEW s \in Source, SubmitUpdate(s) PROVE TypeOK'
    <2>1. Append(queue, [kind |-> "update", source |-> s]) \in Seq(Job)
      BY DEF Job
    <2> QED BY <1>3, <2>1 DEF SubmitUpdate, Pool!Submit
  <1>4. CASE JoinScans \/ JoinUpdates
    BY <1>4 DEF JoinScans, JoinUpdates, Pool!JoinCall
  <1>5. CASE ScansJoined \/ UpdatesJoined
    BY <1>5 DEF ScansJoined, UpdatesJoined, Pool!JoinReturn
  <1>6. CASE ResetCopiedFlags \/ StartCopyThread
    BY <1>6 DEF ResetCopiedFlags, StartCopyThread
  <1>7. CASE IncrementPendingSources
    BY <1>7 DEF IncrementPendingSources
  <1>8. CASE MarkAllSourcesSubmitted \/ MainWaits
    BY <1>8 DEF MarkAllSourcesSubmitted, MainWaits
  <1>9. CASE WaitUntilDone \/ Stop \/ StopNotifies
    BY <1>9 DEF WaitUntilDone, Stop, StopNotifies
  <1>10. CASE JoinCopyThread \/ MarkSuccess
    BY <1>10 DEF JoinCopyThread, MarkSuccess
  <1> QED BY <1>1, <1>2, <1>3, <1>4, <1>5, <1>6, <1>7, <1>8, <1>9, <1>10
     DEF MainStep

(* What a thread that runs a job runs.                                     *)
LEMMA JobIs ==
  ASSUME TypeOK, WorkersInv, NEW w \in Worker, wpc[w] # "idle"
  PROVE  /\ running[w] \in Job /\ running[w] # NoJob /\ running[w].source \in Source
         /\ wpc[w] = "scan" => running[w] = [kind |-> "scan", source |-> running[w].source]
         /\ wpc[w] # "scan" => running[w] = [kind |-> "update", source |-> running[w].source]
  BY DEF TypeOK, WorkersInv, Job

LEMMA DecrementType ==
  ASSUME pending \in Nat
  PROVE  (IF pending > 0 THEN pending - 1 ELSE pending) \in Nat
  OBVIOUS

LEMMA TypeJob ==
  ASSUME Control, NEW w \in Worker, JobStep(w), UNCHANGED alive, missed' \in [Path -> 0 .. MaxRuns]
  PROVE  TypeOK'
  <1> USE DEF TypeOK, files, disk, main, pool, hdd, copier, results, Goto, EndJob, Pool!Finish
  <1>0. TypeOK /\ WorkersInv
    BY DEF Control, Places
  <1>1. CASE TakeJob(w)
    <2>1. Head(queue) \in Job /\ Tail(queue) \in Seq(Job)
      BY <1>0, <1>1, TailIs DEF TakeJob, Pool!Take
    <2> QED BY <1>0, <1>1, <2>1 DEF TakeJob, Pool!Take
  <1>2. CASE Scan(w)
    <2>1. scanned' \in [Path -> Version \cup {Absent}]
      BY <1>0, <1>2 DEF Scan
    <2> QED BY <1>0, <1>2, <2>1 DEF Scan
  <1>3. CASE FindID(w) \/ TruncateIndex(w)
    <2>1. CASE FindID(w)
      BY <1>0, <2>1 DEF FindID
    <2>2. CASE TruncateIndex(w)
      BY <1>0, <2>2 DEF TruncateIndex
    <2> QED BY <1>3, <2>1, <2>2
  <1>4. CASE WriteIndex(w)
    <2>1. running[w].source \in Source
      BY <1>0, <1>4, JobIs DEF WriteIndex
    <2> QED BY <1>0, <1>4, <2>1 DEF WriteIndex
  <1>5. CASE SubmitCopyQueue(w)
    <2> DEFINE s == running[w].source
               t == [source |-> s, todo |-> FilesToCopy(bin[s], Fresh(s)), fresh |-> Fresh(s), failed |-> FALSE]
    <2>1. s \in Source
      BY <1>0, <1>5, JobIs DEF SubmitCopyQueue
    <2>2. PICK P \in SUBSET Path : Fresh(s) \in [P -> Version]
      BY <1>0, <2>1, FreshType
    <2>3. FilesToCopy(bin[s], Fresh(s)) \subseteq Path
      BY <2>2 DEF FilesToCopy
    <2>4. Fresh(s) \in UNION {[Q -> Version] : Q \in SUBSET Path}
      BY <2>2
    <2>5. t \in Task
      BY <2>1, <2>3, <2>4 DEF Task
    <2> HIDE DEF s
    <2>6. Append(copyQueue, t) \in Seq(Task)
      BY <1>0, <2>5, AppendIs
    <2>7. copyQueue' = Append(copyQueue, t)
      BY <1>5 DEF SubmitCopyQueue, s
    <2> HIDE DEF t
    <2> QED BY <1>0, <1>5, <2>6, <2>7 DEF SubmitCopyQueue
  <1>6. CASE NotifyOne(w)
    <2>1. waiters' \subseteq {"main", "copier"}
      BY <1>0, <1>6 DEF NotifyOne
    <2> QED BY <1>0, <1>6, <2>1 DEF NotifyOne
  <1>7. CASE NothingToCopy(w)
    BY <1>0, <1>7, DecrementType DEF NothingToCopy, DecrementPendingSources
  <1>8. CASE AgeUnchanged(w)
    <2>1. dest' \in [Path -> Content]
      BY <1>0, <1>8, DestWithoutType DEF AgeUnchanged
    <2> QED BY <1>0, <1>8, <2>1 DEF AgeUnchanged
  <1>9. CASE SaveUnchanged(w)
    <2> DEFINE s == running[w].source
    <2>1. s \in Source
      BY <1>0, <1>9, JobIs DEF SaveUnchanged
    <2>2. PICK P \in SUBSET Path : Fresh(s) \in [P -> Version]
      BY <1>0, <2>1, FreshType
    <2>3. CacheOf(s) \in SourceCache(Path)
      BY <1>0, <2>1, CacheOfType
    <2>4. Refresh(CacheOf(s), Fresh(s), MaxMiss) \in SourceCache(Path)
      BY <2>2, <2>3, RefreshType, HDDAssumption DEF SourceCache
    <2>5. bin' \in [Source -> SourceCache(Path)]
      BY <1>0, <1>9, <2>1, <2>4 DEF SaveUnchanged
    <2> HIDE DEF s
    <2> QED BY <1>0, <1>9, <2>5 DEF SaveUnchanged
  <1> QED BY <1>1, <1>2, <1>3, <1>4, <1>5, <1>6, <1>7, <1>8, <1>9 DEF JobStep

LEMMA TypeCopier ==
  ASSUME Control, CopierStep, UNCHANGED alive, missed' \in [Path -> 0 .. MaxRuns]
  PROVE  TypeOK'
  <1> USE DEF TypeOK, files, disk, main, pool, hdd, copier, results
  <1>0. TypeOK /\ CopierInv
    BY DEF Control, Places
  <1>1. CASE CopierWaits \/ CopierExits
    <2>1. CASE CopierWaits
      BY <1>0, <2>1 DEF CopierWaits
    <2>2. CASE CopierExits
      BY <1>0, <2>2 DEF CopierExits
    <2> QED BY <1>1, <2>1, <2>2
  <1>2. CASE TakeTask
    <2>1. Head(copyQueue) \in Task /\ Tail(copyQueue) \in Seq(Task)
      BY <1>0, <1>2, TailIs DEF TakeTask
    <2> QED BY <1>0, <1>2, <2>1 DEF TakeTask
  <1>3. cpc # "loop" /\ cpc # "none" /\ cpc # "exited" => task \in Task
    BY <1>0 DEF CopierInv
  <1>4. ASSUME NEW p \in Path, CopyRefused(p) \/ RootNotFound(p) PROVE TypeOK'
    <2>1. task \in Task
      BY <1>3, <1>4 DEF CopyRefused, RootNotFound, Copying
    <2>2. [task EXCEPT !.todo = @ \ {p}, !.failed = TRUE] \in Task
      BY <2>1 DEF Task
    <2> QED BY <1>0, <1>4, <2>2 DEF CopyRefused, RootNotFound, CopyFails
  <1>5. ASSUME NEW p \in Path, OpenDestination(p) PROVE TypeOK'
    <2>1. src[p] \in Version
      BY <1>0, <1>5 DEF OpenDestination
    <2>2. [path |-> p, version |-> src[p]] \in OpenFile
      BY <2>1 DEF OpenFile
    <2>3. dest' \in [Path -> Content]
      BY <1>0, <1>5 DEF OpenDestination, Content
    <2> QED BY <1>0, <1>5, <2>2, <2>3 DEF OpenDestination
  <1>6. CASE FinishCopy
    <2>1. open \in OpenFile /\ open.path \in Path /\ open.version \in Version
      BY <1>0, <1>6 DEF FinishCopy, OpenFile
    <2>2. Outcomes(open.path) \subseteq Content
      BY <1>0, <2>1 DEF Outcomes, Unedited, Content
    <2>3. dest' \in [Path -> Content]
      BY <1>0, <1>6, <2>1, <2>2 DEF FinishCopy
    <2>4. task \in Task
      BY <1>0, <1>3, <1>6 DEF FinishCopy, CopierInv
    <2>5. [task EXCEPT !.todo = @ \ {open.path}] \in Task
      BY <2>4 DEF Task
    <2> QED BY <1>0, <1>6, <2>3, <2>5 DEF FinishCopy
  <1>7. CASE GiveUpSource \/ SourceDone
    BY <1>0, <1>7, DecrementType DEF GiveUpSource, SourceDone, DecrementPendingSources
  <1>8. CASE MarkCopied
    <2>1. task.source \in Source
      BY <1>3, <1>8 DEF MarkCopied, Task
    <2> QED BY <1>0, <1>8, <2>1 DEF MarkCopied
  <1>9. CASE AgeCopied
    <2>1. PICK P \in SUBSET Path : task.fresh \in [P -> Version]
      BY <1>3, <1>9 DEF AgeCopied, Task
    <2>2. Refresh(entries, task.fresh, MaxMiss) \in SourceCache(Path)
      BY <1>0, <2>1, RefreshType, HDDAssumption DEF SourceCache
    <2>3. dest' \in [Path -> Content]
      BY <1>0, <1>9, DestWithoutType DEF AgeCopied
    <2> QED BY <1>0, <1>9, <2>2, <2>3 DEF AgeCopied
  <1>10. CASE SaveCopied
    <2>1. task.source \in Source
      BY <1>3, <1>10 DEF SaveCopied, Task
    <2>2. bin' \in [Source -> SourceCache(Path)]
      BY <1>0, <1>10, <2>1 DEF SaveCopied
    <2> QED BY <1>0, <1>10, <2>2 DEF SaveCopied
  <1> QED BY <1>1, <1>2, <1>4, <1>5, <1>6, <1>7, <1>8, <1>9, <1>10 DEF CopierStep

LEMMA TypeEdit ==
  ASSUME TypeOK, Edit, UNCHANGED alive
  PROVE  TypeOK'
  <1> USE DEF TypeOK, disk, main, pool, hdd, copier, results
  <1>1. ASSUME NEW p \in Path, Modify(p) PROVE TypeOK'
    <2>1. newest[p] + 1 \in Version /\ newest[p] + 1 \in 0 .. MaxVersion
      BY <1>1, HDDAssumption DEF Modify, Version
    <2> QED BY <1>1, <2>1 DEF Modify
  <1>2. ASSUME NEW p \in Path, Remove(p) PROVE TypeOK'
    BY <1>2 DEF Remove
  <1>3. ASSUME NEW p \in Path, Reappear(p) PROVE TypeOK'
    <2>1. newest[p] \in Version
      BY <1>3, HDDAssumption DEF Reappear, Version
    <2> QED BY <1>3, <2>1 DEF Reappear
  <1> QED BY <1>1, <1>2, <1>3 DEF Edit

-----------------------------------------------------------------------------
(* Counting.                                                               *)
LEMMA CountedFinite == IsFiniteSet(Counted) /\ Cardinality(Counted) \in Nat
  BY HDDAssumption, FS_Subset, FS_CardinalityType DEF Counted

LEMMA CountKept ==
  ASSUME CountInv, \A s \in Source : (WithPool(s) \/ WithCopier(s))' <=> WithPool(s) \/ WithCopier(s),
         UNCHANGED pending, mpc = "submit" <=> mpc' = "submit"
  PROVE  CountInv'
  <1>1. Counted' = Counted
    BY DEF Counted
  <1> QED BY <1>1 DEF CountInv

LEMMA CountRemoved ==
  ASSUME CountInv, NEW s \in Source, s \in Counted, ~(WithPool(s) \/ WithCopier(s))',
         \A r \in Source \ {s} : (WithPool(r) \/ WithCopier(r))' <=> WithPool(r) \/ WithCopier(r),
         DecrementPendingSources, mpc = "submit" <=> mpc' = "submit"
  PROVE  CountInv'
  <1>1. Counted' = Counted \ {s}
    BY DEF Counted
  <1>2. Cardinality(Counted') = Cardinality(Counted) - 1 /\ Cardinality(Counted) \in Nat
    BY <1>1, CountedFinite, FS_RemoveElement
  <1>3. Cardinality(Counted) # 0
    BY CountedFinite, FS_EmptySet
  <1>4. pending > 0 /\ pending' = pending - 1
    BY <1>2, <1>3 DEF CountInv, DecrementPendingSources
  <1> QED BY <1>2, <1>4 DEF CountInv

LEMMA NothingCounted ==
  ASSUME CountInv, pending = 0, NEW s \in Source
  PROVE  ~WithPool(s) /\ ~WithCopier(s)
  <1>1. Cardinality(Counted) = 0
    BY CountedFinite DEF CountInv
  <1>2. Counted = {}
    BY <1>1, CountedFinite, FS_EmptySet
  <1> QED BY <1>2 DEF Counted

-----------------------------------------------------------------------------
(* Places.                                                                 *)
LEMMA PlacesFrame ==
  ASSUME Places, UNCHANGED <<main, pool, wpc, copyQueue, pending, cpc, task, open, missed>>
  PROVE  Places'
  <1> USE DEF main, pool
  <1>1. WorkersInv' /\ PhaseInv'
    BY DEF Places, WorkersInv, PhaseInv, JobKind
  <1>2. JobsOnce' /\ TasksOnce'
    BY DEF Places, JobsOnce, TasksOnce, JobQueued, Runs, WithCopier
  <1>3. CopierInv' /\ QuietInv' /\ MissedInv'
    BY DEF Places, CopierInv, QuietInv, MissedInv, Unscanned
  <1>4. CountInv'
    BY DEF Places, CountInv, Counted, WithPool, WithCopier
  <1> QED BY <1>1, <1>2, <1>3, <1>4 DEF Places

(* Between two rounds of jobs the pool is empty.                           *)
LEMMA PoolEmpty ==
  ASSUME Control, JobKind = "none"
  PROVE  /\ queue = <<>> /\ \A w \in Worker : running[w] = NoJob /\ wpc[w] = "idle"
         /\ \A s : ~JobQueued(s) /\ ~WithPool(s) /\ \A w \in Worker : ~Runs(w, s)
  <1>1. ASSUME NEW i \in DOMAIN queue PROVE queue[i].kind \in {"scan", "update"}
    <2>1. queue \in Seq(Job)
      BY DEF Control, TypeOK
    <2>2. queue[i] \in Job
      BY <2>1, SeqElement
    <2> QED BY <2>2 DEF Job
  <1>2. DOMAIN queue = {}
    BY <1>1 DEF Control, Places, PhaseInv
  <1>3. queue = <<>>
    BY <1>2 DEF Control, TypeOK
  <1>4. \A w \in Worker : running[w] = NoJob
    BY DEF Control, Places, PhaseInv, TypeOK, Job
  <1>5. \A w \in Worker : wpc[w] = "idle"
    BY <1>4 DEF Control, Places, WorkersInv
  <1> QED BY <1>2, <1>3, <1>4, <1>5 DEF JobQueued, WithPool, Runs

LEMMA StartPlaces ==
  ASSUME Control, StartRun
  PROVE  Places'
  <1>1. /\ mpc = "idle" /\ mpc' = "scan" /\ left' = Source /\ runs' = runs + 1 /\ pending' = 0
        /\ cpc' = "none" /\ UNCHANGED <<pool, wpc, copyQueue, task, open, missed>>
    BY DEF StartRun, results
  <1>2. /\ queue = <<>> /\ \A w \in Worker : running[w] = NoJob /\ wpc[w] = "idle"
        /\ queue' = <<>> /\ \A w \in Worker : running'[w] = NoJob /\ wpc'[w] = "idle"
    BY <1>1, PoolEmpty DEF JobKind, pool
  <1>3. copyQueue = <<>> /\ task = NoTask /\ copyQueue' = <<>> /\ task' = NoTask
    BY <1>1 DEF Control, Places, QuietInv, Syncing
  <1>4. open' = NoFile
    BY <1>1, <1>3 DEF Control, Places, CopierInv
  <1>5. WorkersInv' /\ PhaseInv' /\ JobsOnce' /\ TasksOnce'
    BY <1>1, <1>2, <1>3 DEF WorkersInv, PhaseInv, JobsOnce, TasksOnce, JobQueued, Runs, WithCopier
  <1>6. CopierInv' /\ QuietInv'
    BY <1>1, <1>3, <1>4 DEF CopierInv, QuietInv
  <1>7. MissedInv'
    <2>1. \A p \in Path : missed[p] \in Nat /\ missed[p] <= runs /\ runs \in Nat
      BY DEF Control, Places, MissedInv, TypeOK
    <2> QED BY <1>1, <2>1 DEF MissedInv
  <1>8. CountInv'
    <2>1. Counted' = {}
      BY <1>2, <1>3 DEF Counted, WithPool, WithCopier
    <2> QED BY <1>1, <2>1, FS_EmptySet DEF CountInv
  <1> QED BY <1>5, <1>6, <1>7, <1>8 DEF Places

(* A push to the pool.                                                     *)
LEMMA PushedJobs ==
  ASSUME TypeOK, NEW j \in Job, queue' = Append(queue, j)
  PROVE  /\ \A s : JobQueued(s)' <=> JobQueued(s) \/ s = j.source
         /\ \A x : (\E i \in DOMAIN queue : queue[i] = x)' <=> (\E i \in DOMAIN queue : queue[i] = x) \/ x = j
         /\ (\A i \in DOMAIN queue : queue[i].kind = j.kind) => \A i \in DOMAIN queue' : queue'[i].kind = j.kind
  <1>1. queue \in Seq(Job)
    BY DEF TypeOK
  <1> QED BY <1>1, AppendIs DEF JobQueued

LEMMA SubmitPlaces ==
  ASSUME Control, NEW s \in Source, NEW k \in {"scan", "update"}, JobKind = k,
         s \in left, left' = left \ {s}, queue' = Append(queue, [kind |-> k, source |-> s]),
         UNCHANGED <<running, wpc, copyQueue, pending, cpc, task, open, missed, runs>>,
         \/ k = "scan" /\ mpc = "scan" /\ mpc' = "scan"
         \/ k = "update" /\ mpc = "submit" /\ mpc' = "update"
  PROVE  Places'
  <1> DEFINE j == [kind |-> k, source |-> s]
  <1>0. TypeOK /\ Places
    BY DEF Control
  <1>1. j \in Job /\ j.source = s /\ j.kind = k
    BY DEF Job
  <1>2. /\ \A r : JobQueued(r)' <=> JobQueued(r) \/ r = s
        /\ \A x : (\E i \in DOMAIN queue : queue[i] = x)' <=> (\E i \in DOMAIN queue : queue[i] = x) \/ x = j
        /\ (\A i \in DOMAIN queue : queue[i].kind = k) => \A i \in DOMAIN queue' : queue'[i].kind = k
    BY <1>0, <1>1, PushedJobs
  <1>3. ~JobQueued(s) /\ (\A w \in Worker : ~Runs(w, s)) /\ ~WithCopier(s)
    BY <1>0 DEF Places, JobsOnce, TasksOnce
  <1>4. JobKind' = k
    BY DEF JobKind
  <1>5. WorkersInv' /\ PhaseInv'
    BY <1>0, <1>2, <1>4 DEF Places, WorkersInv, PhaseInv
  <1>6. JobsOnce'
    <2>1. \A h, i \in DOMAIN queue' : queue'[h].source = queue'[i].source => h = i
      <3>1. /\ DOMAIN queue' = DOMAIN queue \cup {Len(queue) + 1}
            /\ \A i \in DOMAIN queue : queue'[i] = queue[i]
            /\ queue'[Len(queue) + 1] = j
        BY <1>0, <1>1, AppendIs DEF TypeOK
      <3>2. \A i \in DOMAIN queue : queue[i].source # s
        BY <1>3 DEF JobQueued
      <3>3. \A h, i \in DOMAIN queue : queue[h].source = queue[i].source => h = i
        BY <1>0 DEF Places, JobsOnce
      <3> QED BY <1>1, <3>1, <3>2, <3>3
    <2>2. \A v \in Worker : \A r : Runs(v, r)' <=> Runs(v, r)
      BY DEF Runs
    <2>3. mpc' \notin {"scan", "update", "submit"} => left' = {}
      OBVIOUS
    <2> QED BY <1>0, <1>2, <1>3, <2>1, <2>2, <2>3 DEF Places, JobsOnce
  <1>7. TasksOnce'
    <2>1. \A r : WithCopier(r)' <=> WithCopier(r)
      BY DEF WithCopier
    <2>2. \A v \in Worker : \A r : Runs(v, r)' <=> Runs(v, r)
      BY DEF Runs
    <2> QED BY <1>0, <1>2, <1>3, <2>1, <2>2 DEF Places, TasksOnce
  <1>8. CopierInv' /\ QuietInv'
    BY <1>0 DEF Places, CopierInv, QuietInv, Syncing
  <1>9. MissedInv'
    <2>1. k = "scan" => \A r \in Source : Unscanned(r)' => Unscanned(r)
      BY <1>2 DEF Unscanned
    <2>2. \A p \in Path : SourceOf[p] \in Source
      BY HDDAssumption
    <2> QED BY <1>0, <2>1, <2>2 DEF Places, MissedInv
  <1>10. CountInv'
    <2>1. \A r \in Source : WithCopier(r)' <=> WithCopier(r)
      BY DEF WithCopier
    <2>2. CASE k = "scan"
      <3>1. \A r \in Source : WithPool(r)' <=> WithPool(r)
        BY <1>2, <2>2 DEF WithPool
      <3> QED BY <1>0, <2>1, <2>2, <3>1, CountKept DEF Places
    <2>3. CASE k = "update"
      <3>1. \A r \in Source : WithPool(r)' <=> WithPool(r) \/ r = s
        BY <1>2, <2>3 DEF WithPool
      <3>2. ~WithPool(s)
        BY <1>0, <1>3 DEF WithPool, JobQueued, Runs, Places, WorkersInv
      <3>3. Counted' = Counted \cup {s} /\ s \notin Counted
        BY <1>3, <2>1, <3>1, <3>2 DEF Counted
      <3>4. Cardinality(Counted') = Cardinality(Counted) + 1 /\ Cardinality(Counted) \in Nat
        BY <3>3, CountedFinite, FS_AddElement
      <3> QED BY <1>0, <2>3, <3>4 DEF Places, CountInv
    <2> QED BY <2>2, <2>3
  <1> QED BY <1>5, <1>6, <1>7, <1>8, <1>9, <1>10 DEF Places

(* A step of the main thread that only goes on.                            *)
LEMMA MainGoesOn ==
  ASSUME Control, UNCHANGED <<left, pool, wpc, copyQueue, pending, cpc, task, open, missed, runs>>,
         JobKind' = JobKind \/ Pool!Idle,
         mpc' \notin {"scan", "update", "submit"} => left = {},
         mpc' \in {"scan", "joinScan"} => mpc \in {"scan", "joinScan"},
         mpc' \notin Syncing => copyQueue = <<>> /\ task = NoTask /\ pending = 0,
         cpc = "none" => mpc' \in {"idle", "scan", "joinScan", "reset", "start"},
         mpc # "submit" /\ mpc' # "submit"
  PROVE  Places'
  <1> USE DEF pool
  <1>0. TypeOK /\ Places
    BY DEF Control
  <1>1. WorkersInv' /\ CopierInv' /\ QuietInv'
    BY <1>0 DEF Places, WorkersInv, CopierInv, QuietInv
  <1>2. PhaseInv'
    BY <1>0 DEF Places, PhaseInv, Pool!Idle
  <1>3. JobsOnce'
    <2>1. /\ \A s : JobQueued(s)' <=> JobQueued(s)
          /\ \A w \in Worker : \A s : Runs(w, s)' <=> Runs(w, s)
      BY DEF JobQueued, Runs
    <2> QED BY <1>0, <2>1 DEF Places, JobsOnce
  <1>4. TasksOnce'
    BY <1>0 DEF Places, TasksOnce, JobQueued, Runs, WithCopier
  <1>5. MissedInv'
    BY <1>0 DEF Places, MissedInv, Unscanned
  <1>6. CountInv'
    <2>1. \A s \in Source : (WithPool(s) \/ WithCopier(s))' <=> WithPool(s) \/ WithCopier(s)
      BY DEF WithPool, WithCopier
    <2> QED BY <1>0, <2>1, CountKept DEF Places
  <1> QED BY <1>1, <1>2, <1>3, <1>4, <1>5, <1>6 DEF Places

LEMMA StartCopyPlaces ==
  ASSUME Control, StartCopyThread
  PROVE  Places'
  <1>0. TypeOK /\ Places
    BY DEF Control
  <1>1. /\ mpc = "start" /\ mpc' = "update" /\ left' = Source /\ cpc' = "loop"
        /\ UNCHANGED <<pool, wpc, copyQueue, pending, task, open, missed, runs>>
    BY DEF StartCopyThread, results
  <1>2. /\ queue' = <<>> /\ \A w \in Worker : running'[w] = NoJob /\ wpc'[w] = "idle"
        /\ queue = <<>> /\ \A w \in Worker : running[w] = NoJob /\ wpc[w] = "idle"
    BY <1>1, PoolEmpty DEF JobKind, pool
  <1>3. copyQueue' = <<>> /\ task' = NoTask /\ pending' = 0
    BY <1>0, <1>1 DEF Places, QuietInv, Syncing
  <1>4. open' = NoFile
    BY <1>0, <1>1, <1>3 DEF Places, CopierInv
  <1>5. WorkersInv' /\ PhaseInv' /\ JobsOnce' /\ TasksOnce'
    BY <1>1, <1>2, <1>3 DEF WorkersInv, PhaseInv, JobsOnce, TasksOnce, JobQueued, Runs, WithCopier
  <1>6. CopierInv' /\ QuietInv' /\ MissedInv'
    BY <1>0, <1>1, <1>3, <1>4 DEF CopierInv, QuietInv, MissedInv, Places, Syncing
  <1>7. CountInv'
    <2>1. Counted' = {}
      BY <1>2, <1>3 DEF Counted, WithPool, WithCopier
    <2> QED BY <1>1, <1>3, <2>1, FS_EmptySet DEF CountInv
  <1> QED BY <1>5, <1>6, <1>7 DEF Places

LEMMA CountedNext ==
  ASSUME Control, IncrementPendingSources
  PROVE  Places'
  <1>0. TypeOK /\ Places
    BY DEF Control
  <1>1. /\ mpc = "update" /\ mpc' = "submit" /\ pending' = pending + 1
        /\ UNCHANGED <<left, runs, pool, wpc, copyQueue, cpc, task, open, missed>>
    BY DEF IncrementPendingSources, copier, results
  <1> USE DEF pool
  <1>2. WorkersInv' /\ PhaseInv' /\ CopierInv' /\ QuietInv' /\ MissedInv'
    BY <1>0, <1>1 DEF Places, WorkersInv, PhaseInv, JobKind, CopierInv, QuietInv, MissedInv, Syncing
  <1>3. JobsOnce' /\ TasksOnce'
    BY <1>0, <1>1 DEF Places, JobsOnce, TasksOnce, JobQueued, Runs, WithCopier
  <1>4. CountInv'
    <2>1. Counted' = Counted
      BY <1>1 DEF Counted, WithPool, WithCopier
    <2> QED BY <1>0, <1>1, <2>1, CountedFinite DEF Places, CountInv
  <1> QED BY <1>2, <1>3, <1>4 DEF Places

(* The end of the wait: nothing is counted, so no task is left.            *)
LEMMA NothingLeft ==
  ASSUME Control, pending = 0
  PROVE  copyQueue = <<>> /\ task = NoTask
  <1>0. TypeOK /\ CountInv
    BY DEF Control, Places
  <1>1. ASSUME task # NoTask PROVE FALSE
    <2>1. task.source \in Source
      BY <1>0, <1>1 DEF TypeOK, Task
    <2>2. WithCopier(task.source)
      BY <1>1 DEF WithCopier
    <2> QED BY <1>0, <2>1, <2>2, NothingCounted
  <1>2. ASSUME copyQueue # <<>> PROVE FALSE
    <2>1. copyQueue \in Seq(Task)
      BY <1>0 DEF TypeOK
    <2>2. copyQueue[1] \in Task /\ 1 \in DOMAIN copyQueue
      BY <1>2, <2>1, TailIs
    <2>3. copyQueue[1].source \in Source
      BY <2>2 DEF Task
    <2>4. WithCopier(copyQueue[1].source)
      BY <2>2 DEF WithCopier
    <2> QED BY <1>0, <2>3, <2>4, NothingCounted
  <1> QED BY <1>1, <1>2

LEMMA MainPlaces ==
  ASSUME Control, MainStep
  PROVE  Places'
  <1> USE DEF disk, main, results, hdd, copier
  <1>0. TypeOK /\ Places
    BY DEF Control
  <1>1. ASSUME NEW s \in Source, SubmitScan(s) PROVE Places'
    <2> SUFFICES ASSUME TRUE PROVE
           /\ JobKind = "scan" /\ s \in left /\ left' = left \ {s}
           /\ queue' = Append(queue, [kind |-> "scan", source |-> s])
           /\ UNCHANGED <<running, wpc, copyQueue, pending, cpc, task, open, missed, runs>>
           /\ mpc = "scan" /\ mpc' = "scan"
      BY SubmitPlaces
    <2> QED BY <1>1 DEF SubmitScan, Pool!Submit, JobKind
  <1>2. ASSUME NEW s \in Source, SubmitUpdate(s) PROVE Places'
    <2> SUFFICES ASSUME TRUE PROVE
           /\ JobKind = "update" /\ s \in left /\ left' = left \ {s}
           /\ queue' = Append(queue, [kind |-> "update", source |-> s])
           /\ UNCHANGED <<running, wpc, copyQueue, pending, cpc, task, open, missed, runs>>
           /\ mpc = "submit" /\ mpc' = "update"
      BY SubmitPlaces
    <2> QED BY <1>2 DEF SubmitUpdate, Pool!Submit, JobKind
  <1>3. left = {} \/ mpc \in {"scan", "update", "submit"}
    BY <1>0 DEF Places, JobsOnce
  <1>4. mpc \notin Syncing => copyQueue = <<>> /\ task = NoTask /\ pending = 0
    BY <1>0 DEF Places, QuietInv
  <1>5. cpc = "none" => mpc \in {"idle", "scan", "joinScan", "reset", "start"}
    BY <1>0 DEF Places, CopierInv
  <1>6. CASE JoinScans
    BY <1>6, <1>4, <1>5, MainGoesOn DEF JoinScans, Pool!JoinCall, pool, JobKind, Syncing
  <1>7. CASE ScansJoined
    BY <1>7, <1>3, <1>4, MainGoesOn DEF ScansJoined, Pool!JoinReturn, pool, JobKind, Syncing
  <1>8. CASE ResetCopiedFlags
    BY <1>8, <1>3, <1>4, MainGoesOn DEF ResetCopiedFlags, JobKind, Syncing
  <1>9. CASE StartCopyThread
    BY <1>9, StartCopyPlaces
  <1>10. CASE IncrementPendingSources
    BY <1>10, CountedNext
  <1>11. CASE JoinUpdates
    BY <1>11, <1>5, MainGoesOn DEF JoinUpdates, Pool!JoinCall, pool, JobKind, Syncing
  <1>12. CASE UpdatesJoined
    BY <1>12, <1>3, <1>5, MainGoesOn DEF UpdatesJoined, Pool!JoinReturn, pool, JobKind, Syncing
  <1>13. CASE MarkAllSourcesSubmitted
    BY <1>13, <1>3, <1>5, MainGoesOn DEF MarkAllSourcesSubmitted, JobKind, Syncing
  <1>14. CASE MainWaits
    BY <1>0, <1>14, PlacesFrame DEF MainWaits
  <1>15. CASE WaitUntilDone
    BY <1>15, <1>3, <1>5, NothingLeft, MainGoesOn DEF WaitUntilDone, AllDone, JobKind, Syncing
  <1>16. CASE Stop
    BY <1>16, <1>3, <1>4, <1>5, MainGoesOn DEF Stop, JobKind, Syncing
  <1>17. CASE StopNotifies
    BY <1>17, <1>3, <1>4, <1>5, MainGoesOn DEF StopNotifies, JobKind, Syncing
  <1>18. CASE JoinCopyThread
    BY <1>18, <1>3, <1>4, <1>5, MainGoesOn DEF JoinCopyThread, JobKind, Syncing
  <1>19. CASE MarkSuccess
    BY <1>19, <1>3, <1>4, MainGoesOn DEF MarkSuccess, JobKind, Syncing
  <1> QED BY <1>1, <1>2, <1>6, <1>7, <1>8, <1>9, <1>10, <1>11, <1>12, <1>13, <1>14, <1>15, <1>16,
             <1>17, <1>18, <1>19 DEF MainStep

-----------------------------------------------------------------------------
(* A queued job is one of the kind that the phase has.                     *)
LEMMA QueuedIs ==
  ASSUME TypeOK, PhaseInv, NEW s, NEW k
  PROVE  (\E i \in DOMAIN queue : queue[i] = [kind |-> k, source |-> s]) <=> JobQueued(s) /\ JobKind = k
  <1>1. ASSUME NEW i \in DOMAIN queue
        PROVE  queue[i] = [kind |-> JobKind, source |-> queue[i].source]
    <2>1. queue \in Seq(Job)
      BY DEF TypeOK
    <2>2. queue[i] \in Job
      BY <2>1, SeqElement
    <2> QED BY <2>2 DEF Job, PhaseInv
  <1>2. JobQueued(s) => \E i \in DOMAIN queue : queue[i] = [kind |-> JobKind, source |-> s]
    BY <1>1 DEF JobQueued
  <1>3. ASSUME NEW i \in DOMAIN queue, queue[i] = [kind |-> k, source |-> s]
        PROVE  JobQueued(s) /\ JobKind = k
    BY <1>3 DEF JobQueued, PhaseInv
  <1> QED BY <1>2, <1>3

(* The pool passes a job to a thread.                                      *)
LEMMA TakenJob ==
  ASSUME Control, NEW w \in Worker, TakeJob(w)
  PROVE  LET s == Head(queue).source IN
           /\ s \in Source /\ Head(queue) = [kind |-> JobKind, source |-> s]
           /\ JobKind \in {"scan", "update"} /\ JobKind' = JobKind
           /\ queue' \in Seq(Job) /\ PhaseInv'
           /\ JobQueued(s) /\ (\A r : Runs(w, r) => FALSE) /\ wpc[w] = "idle"
           /\ wpc' = [wpc EXCEPT ![w] = IF JobKind = "scan" THEN "scan" ELSE "index"]
           /\ \A r : JobQueued(r)' <=> JobQueued(r) /\ r # s
           /\ \A v \in Worker : \A r : Runs(v, r)' <=> Runs(v, r) \/ (v = w /\ r = s)
           /\ running' = [running EXCEPT ![w] = Head(queue)]
  <1> DEFINE s == Head(queue).source
  <1>0. /\ running \in [Worker -> Job \cup {NoJob}]
        /\ TypeOK /\ Places /\ queue \in Seq(Job) /\ queue # <<>> /\ running[w] = NoJob
        /\ queue' = Tail(queue) /\ running' = [running EXCEPT ![w] = Head(queue)]
        /\ wpc' = [wpc EXCEPT ![w] = IF Head(queue).kind = "scan" THEN "scan" ELSE "index"]
        /\ mpc' = mpc
    BY DEF Control, TakeJob, Pool!Take, TypeOK, main
  <1>1. /\ Tail(queue) \in Seq(Job) /\ Head(queue) \in Job
        /\ 1 \in DOMAIN queue /\ Head(queue) = queue[1]
        /\ \A i \in DOMAIN Tail(queue) : i + 1 \in DOMAIN queue /\ i + 1 # 1 /\ Tail(queue)[i] = queue[i + 1]
        /\ \A i \in DOMAIN queue \ {1} : i - 1 \in DOMAIN Tail(queue) /\ Tail(queue)[i - 1] = queue[i]
    BY <1>0, TailIs
  <1>2. Head(queue).kind = JobKind /\ s \in Source /\ Head(queue) = [kind |-> JobKind, source |-> s]
        /\ JobKind \in {"scan", "update"}
    BY <1>0, <1>1 DEF Places, PhaseInv, Job
  <1>3. Head(queue) # NoJob
    BY <1>1, HDDAssumption
  <1>4. JobQueued(s) /\ (\A r : ~Runs(w, r)) /\ wpc[w] = "idle"
    BY <1>0, <1>1 DEF JobQueued, Runs, Places, WorkersInv
  <1>5. ASSUME NEW r PROVE JobQueued(r)' <=> JobQueued(r) /\ r # s
    <2>1. \A i, j \in DOMAIN queue : queue[i].source = queue[j].source => i = j
      BY <1>0 DEF Places, JobsOnce
    <2>2. ASSUME NEW i \in DOMAIN queue', queue'[i].source = r
          PROVE  JobQueued(r) /\ r # s
      <3>1. i + 1 \in DOMAIN queue /\ i + 1 # 1 /\ queue[i + 1].source = r
        BY <1>0, <1>1, <2>2
      <3> QED BY <1>1, <2>1, <3>1 DEF JobQueued
    <2>3. ASSUME NEW i \in DOMAIN queue, queue[i].source = r, r # s
          PROVE  JobQueued(r)'
      <3>1. i # 1
        BY <1>1, <2>3
      <3>2. i - 1 \in DOMAIN queue' /\ queue'[i - 1].source = r
        BY <1>0, <1>1, <2>3, <3>1
      <3> QED BY <3>2 DEF JobQueued
    <2> QED BY <2>2, <2>3 DEF JobQueued
  <1>6. ASSUME NEW v \in Worker, NEW r
        PROVE  Runs(v, r)' <=> Runs(v, r) \/ (v = w /\ r = s)
    <2>1. running'[v] = IF v = w THEN Head(queue) ELSE running[v]
      BY <1>0
    <2>2. CASE v = w
      BY <1>0, <1>3, <2>1, <2>2 DEF Runs
    <2>3. CASE v # w
      <3>1. running'[v] = running[v]
        BY <2>1, <2>3
      <3> QED BY <2>3, <3>1 DEF Runs
    <2> QED BY <2>2, <2>3
  <1>7. JobKind' = JobKind
    BY <1>0 DEF JobKind
  <1>8. PhaseInv'
    <2>1. \A v \in Worker : running'[v] # NoJob => running'[v].kind = JobKind
      BY <1>0, <1>2 DEF Places, PhaseInv, TypeOK
    <2>2. \A i \in DOMAIN queue' : queue'[i].kind = JobKind
      BY <1>0, <1>1 DEF Places, PhaseInv
    <2> QED BY <1>7, <2>1, <2>2 DEF PhaseInv
  <1> QED BY <1>0, <1>1, <1>2, <1>4, <1>5, <1>6, <1>7, <1>8

LEMMA TakePlaces ==
  ASSUME Control, NEW w \in Worker, TakeJob(w)
  PROVE  /\ Places'
         /\ \A r \in Source : WithPool(r)' <=> WithPool(r)
         /\ \A r \in Source : Unscanned(r)' <=> Unscanned(r)
  <1> DEFINE s == Head(queue).source
  <1>0. /\ TypeOK /\ Places
        /\ UNCHANGED <<mpc, left, runs, missed, copyQueue, pending, cpc, task, open>>
    BY DEF Control, TakeJob, main, hdd, copier, results
  <1>1. /\ s \in Source /\ Head(queue) = [kind |-> JobKind, source |-> s]
        /\ JobKind \in {"scan", "update"} /\ JobKind' = JobKind
        /\ queue' \in Seq(Job) /\ PhaseInv'
        /\ JobQueued(s) /\ (\A r : ~Runs(w, r)) /\ wpc[w] = "idle"
        /\ wpc' = [wpc EXCEPT ![w] = IF JobKind = "scan" THEN "scan" ELSE "index"]
        /\ \A r : JobQueued(r)' <=> JobQueued(r) /\ r # s
        /\ \A v \in Worker : \A r : Runs(v, r)' <=> Runs(v, r) \/ (v = w /\ r = s)
        /\ running' = [running EXCEPT ![w] = Head(queue)]
    BY TakenJob
  <1> HIDE DEF s
  <1>2. /\ DOMAIN running = Worker /\ DOMAIN wpc = Worker
        /\ running'[w] = [kind |-> JobKind, source |-> s] /\ running'[w].source = s
        /\ running'[w].kind = JobKind /\ running'[w] # NoJob
        /\ wpc'[w] = IF JobKind = "scan" THEN "scan" ELSE "index"
        /\ \A v \in Worker : v # w => running'[v] = running[v] /\ wpc'[v] = wpc[v]
    <2>1. running \in [Worker -> Job \cup {NoJob}] /\ DOMAIN wpc = Worker
      BY <1>0 DEF TypeOK
    <2>2. [kind |-> JobKind, source |-> s] # NoJob
      BY <1>1, HDDAssumption DEF Job
    <2> QED BY <1>1, <2>1, <2>2
  <1>10. WorkersInv'
    <2>1. ASSUME NEW v \in Worker
          PROVE  /\ wpc'[v] = "idle" <=> running'[v] = NoJob
                 /\ wpc'[v] # "idle" => running'[v].kind = IF wpc'[v] = "scan" THEN "scan" ELSE "update"
      <3>1. CASE v = w
        BY <1>1, <1>2, <3>1
      <3>2. CASE v # w
        BY <1>0, <1>2, <3>2 DEF Places, WorkersInv
      <3> QED BY <3>1, <3>2
    <2> QED BY <2>1 DEF WorkersInv
  <1>3. JobsOnce'
    <2>1. \A i, j \in DOMAIN queue' : queue'[i].source = queue'[j].source => i = j
      <3>1. queue \in Seq(Job) /\ queue # <<>> /\ queue' = Tail(queue)
        BY <1>0 DEF TakeJob, Pool!Take, TypeOK
      <3>2. \A i \in DOMAIN queue' : i \in Int /\ i + 1 \in DOMAIN queue /\ queue'[i] = queue[i + 1]
        BY <3>1, TailIs
      <3>3. \A i, j \in DOMAIN queue : queue[i].source = queue[j].source => i = j
        BY <1>0 DEF Places, JobsOnce
      <3>4. ASSUME NEW i \in DOMAIN queue', NEW j \in DOMAIN queue', queue'[i].source = queue'[j].source
            PROVE  i = j
        <4>1. i + 1 = j + 1
          BY <3>2, <3>3, <3>4
        <4> QED BY <3>2, <4>1
      <3> QED BY <3>4
    <2>2. /\ \A v, u \in Worker : \A r \in Source : Runs(v, r) /\ Runs(u, r) => v = u
          /\ \A r \in Source : JobQueued(r) => \A v \in Worker : ~Runs(v, r)
          /\ \A r \in left : ~JobQueued(r) /\ \A v \in Worker : ~Runs(v, r)
          /\ mpc \notin {"scan", "update", "submit"} => left = {}
      BY <1>0 DEF Places, JobsOnce
    <2>3. \A v, u \in Worker : \A r \in Source : Runs(v, r)' /\ Runs(u, r)' => v = u
      BY <1>1, <2>2
    <2>4. \A r \in Source : JobQueued(r)' => \A v \in Worker : ~Runs(v, r)'
      BY <1>1, <2>2
    <2>5. \A r \in left' : ~JobQueued(r)' /\ \A v \in Worker : ~Runs(v, r)'
      BY <1>0, <1>1, <2>2
    <2>6. mpc' \notin {"scan", "update", "submit"} => left' = {}
      BY <1>0, <2>2
    <2> QED BY <2>1, <2>3, <2>4, <2>5, <2>6 DEF JobsOnce
  <1>4. TasksOnce'
    <2>1. \A r : WithCopier(r)' <=> WithCopier(r)
      BY <1>0 DEF WithCopier
    <2>2. \A r \in Source : WithCopier(r) =>
            r \notin left /\ ~JobQueued(r) /\ \A v \in Worker : Runs(v, r) => wpc[v] = "notify"
      BY <1>0 DEF Places, TasksOnce
    <2>3. \A r \in Source : WithCopier(r)' =>
            r \notin left' /\ ~JobQueued(r)' /\ \A v \in Worker : Runs(v, r)' => wpc'[v] = "notify"
      BY <1>0, <1>1, <2>1, <2>2 DEF TypeOK
    <2> QED BY <1>0, <2>3 DEF Places, TasksOnce
  <1>5. CopierInv' /\ QuietInv'
    BY <1>0 DEF Places, CopierInv, QuietInv
  <1>6. TypeOK /\ PhaseInv
    BY <1>0 DEF Places
  <1>7. \A r, k : (\E i \in DOMAIN queue : queue[i] = [kind |-> k, source |-> r]) <=> JobQueued(r) /\ JobKind = k
    BY <1>6, QueuedIs
  <1>8. ASSUME NEW r, NEW k
        PROVE  (\E i \in DOMAIN queue' : queue'[i] = [kind |-> k, source |-> r]) => JobQueued(r)' /\ JobKind = k
    BY <1>1 DEF JobQueued, PhaseInv
  <1>9. ASSUME NEW r, JobQueued(r)'
        PROVE  \E i \in DOMAIN queue' : queue'[i] = [kind |-> JobKind, source |-> r]
    <2>1. PICK i \in DOMAIN queue' : queue'[i].source = r
      BY <1>9 DEF JobQueued
    <2>2. queue'[i] \in Job
      BY <1>1, SeqElement
    <2> QED BY <1>1, <2>1, <2>2 DEF Job, PhaseInv
  <1>11. ASSUME NEW r \in Source, NEW k \in {"scan", "update"}, NEW pcs,
                "idle" \notin pcs, (IF JobKind = "scan" THEN "scan" ELSE "index") \in pcs <=> JobKind = k
         PROVE  LET Has == (\E i \in DOMAIN queue : queue[i] = [kind |-> k, source |-> r])
                           \/ \E v \in Worker : wpc[v] \in pcs /\ running[v].source = r
                IN  Has' <=> Has
    <2> DEFINE Queued == \E i \in DOMAIN queue : queue[i] = [kind |-> k, source |-> r]
               Busy == \E v \in Worker : wpc[v] \in pcs /\ running[v].source = r
    <2>1. Queued <=> JobQueued(r) /\ JobKind = k
      BY <1>7
    <2>2. Queued' <=> JobQueued(r)' /\ JobKind = k
      <3>1. Queued' => JobQueued(r)' /\ JobKind = k
        BY <1>8
      <3>2. JobQueued(r)' /\ JobKind = k => Queued'
        BY <1>9
      <3> QED BY <3>1, <3>2
    <2>3. Busy' <=> Busy \/ (JobKind = k /\ r = s)
      <3>1. ASSUME NEW v \in Worker
            PROVE  wpc'[v] \in pcs /\ running'[v].source = r
                   <=> \/ wpc[v] \in pcs /\ running[v].source = r
                       \/ v = w /\ JobKind = k /\ r = s
        <4>1. CASE v = w
          BY <1>1, <1>2, <1>11, <4>1
        <4>2. CASE v # w
          BY <1>2, <4>2
        <4> QED BY <4>1, <4>2
      <3>2. ASSUME Busy' PROVE Busy \/ (JobKind = k /\ r = s)
        BY <3>1, <3>2
      <3>3. ASSUME Busy \/ (JobKind = k /\ r = s) PROVE Busy'
        BY <3>1, <3>3
      <3> QED BY <3>2, <3>3
    <2> HIDE DEF Queued, Busy
    <2>4. Queued' \/ Busy' <=> Queued \/ Busy
      BY <1>1, <2>1, <2>2, <2>3
    <2> QED BY <2>4 DEF Queued, Busy
  <1>12. \A r \in Source : WithPool(r)' <=> WithPool(r)
    <2>1. "idle" \notin {"index", "indexing", "sync"}
          /\ ((IF JobKind = "scan" THEN "scan" ELSE "index") \in {"index", "indexing", "sync"} <=> JobKind = "update")
      BY <1>1
    <2> QED BY <1>11, <2>1 DEF WithPool
  <1>13. \A r \in Source : Unscanned(r)' <=> Unscanned(r)
    <2>1. "idle" \notin {"scan"}
          /\ ((IF JobKind = "scan" THEN "scan" ELSE "index") \in {"scan"} <=> JobKind = "scan")
      BY <1>1
    <2>2. ASSUME NEW r \in Source
          PROVE  LET Has == (\E i \in DOMAIN queue : queue[i] = [kind |-> "scan", source |-> r])
                            \/ \E v \in Worker : wpc[v] \in {"scan"} /\ running[v].source = r
                 IN  Has' <=> Has
      BY <1>11, <2>1
    <2> QED BY <1>0, <2>2 DEF Unscanned
  <1>15. MissedInv'
    <2>1. \A p \in Path : SourceOf[p] \in Source
      BY HDDAssumption
    <2> QED BY <1>0, <1>13, <2>1 DEF Places, MissedInv
  <1>14. CountInv'
    <2>1. \A r \in Source : WithCopier(r)' <=> WithCopier(r)
      BY <1>0 DEF WithCopier
    <2> QED BY <1>0, <1>12, <2>1, CountKept DEF Places
  <1> QED BY <1>1, <1>3, <1>4, <1>5, <1>10, <1>12, <1>13, <1>14, <1>15 DEF Places

(* A thread that compares or saves a source goes on with it.               *)
LEMMA WorkerGoesOn ==
  ASSUME Control, NEW w \in Worker, wpc[w] \notin {"idle", "scan"},
         NEW pc, pc \notin {"idle", "scan"}, Goto(w, pc), UNCHANGED main, UNCHANGED missed
  PROVE  /\ WorkersInv' /\ PhaseInv' /\ JobsOnce' /\ MissedInv'
         /\ \A r : JobQueued(r)' <=> JobQueued(r)
         /\ \A v \in Worker : \A r : Runs(v, r)' <=> Runs(v, r)
         /\ \A v \in Worker : wpc'[v] = IF v = w THEN pc ELSE wpc[v]
         /\ running[w].source \in Source /\ Runs(w, running[w].source)
         /\ JobKind = "update" /\ ~JobQueued(running[w].source)
         /\ \A v \in Worker : Runs(v, running[w].source) => v = w
  <1> USE DEF main, pool, Goto
  <1>0. /\ TypeOK /\ Places /\ WorkersInv /\ PhaseInv /\ JobsOnce
        /\ \A v \in Worker : wpc'[v] = IF v = w THEN pc ELSE wpc[v]
    BY DEF Control, Places, TypeOK
  <1>1. /\ running[w] \in Job /\ running[w] # NoJob /\ running[w].source \in Source
        /\ running[w] = [kind |-> "update", source |-> running[w].source]
    BY <1>0, JobIs
  <1>2. Runs(w, running[w].source) /\ JobKind = "update"
    BY <1>0, <1>1 DEF Runs, PhaseInv
  <1>3. ~JobQueued(running[w].source) /\ \A v \in Worker : Runs(v, running[w].source) => v = w
    BY <1>0, <1>1, <1>2 DEF JobsOnce
  <1>4. WorkersInv'
    BY <1>0, <1>1 DEF WorkersInv
  <1>5. PhaseInv'
    BY <1>0 DEF PhaseInv, JobKind
  <1>6. /\ \A r : JobQueued(r)' <=> JobQueued(r)
        /\ \A v \in Worker : \A r : Runs(v, r)' <=> Runs(v, r)
    BY DEF JobQueued, Runs
  <1>7. JobsOnce'
    BY <1>0, <1>6 DEF JobsOnce
  <1>8. MissedInv'
    <2>1. \A r : Unscanned(r)' => Unscanned(r)
      BY <1>0 DEF Unscanned
    <2> QED BY <1>0, <2>1 DEF Places, MissedInv
  <1> QED BY <1>0, <1>1, <1>2, <1>3, <1>4, <1>5, <1>6, <1>7, <1>8

(* ... without a change of what it counts as.                              *)
LEMMA SamePlaces ==
  ASSUME Control, NEW w \in Worker, NEW pc, Goto(w, pc),
         \/ wpc[w] \in {"index", "indexing", "sync"} /\ pc \in {"index", "indexing", "sync"}
         \/ wpc[w] \in {"age", "save"} /\ pc \in {"age", "save"},
         UNCHANGED main, UNCHANGED missed, UNCHANGED <<copyQueue, pending, cpc, task, open>>
  PROVE  Places' /\ \A r \in Source : WithPool(r)' <=> WithPool(r)
  <1>0. Places
    BY DEF Control
  <1>1. /\ WorkersInv' /\ PhaseInv' /\ JobsOnce' /\ MissedInv'
        /\ \A r : JobQueued(r)' <=> JobQueued(r)
        /\ \A v \in Worker : \A r : Runs(v, r)' <=> Runs(v, r)
        /\ \A v \in Worker : wpc'[v] = IF v = w THEN pc ELSE wpc[v]
    <2>1. wpc[w] \notin {"idle", "scan"} /\ pc \notin {"idle", "scan"}
      OBVIOUS
    <2> QED BY <2>1, WorkerGoesOn
  <1>2. \A r : WithCopier(r)' <=> WithCopier(r)
    BY DEF WithCopier
  <1>3. TasksOnce'
    BY <1>0, <1>1, <1>2 DEF Places, TasksOnce, main
  <1>4. CopierInv' /\ QuietInv'
    BY <1>0 DEF Places, CopierInv, QuietInv, main
  <1>5. \A r \in Source : WithPool(r)' <=> WithPool(r)
    BY <1>1 DEF WithPool, pool, Goto
  <1>6. CountInv'
    BY <1>0, <1>2, <1>5, CountKept DEF Places, main
  <1> QED BY <1>1, <1>3, <1>4, <1>5, <1>6 DEF Places

LEMMA NothingToCopyPlaces ==
  ASSUME Control, NEW w \in Worker, NothingToCopy(w)
  PROVE  Places' /\ \A r \in Source : WithPool(r)' <=> WithPool(r) /\ r # running[w].source
  <1> PICK s : s = running[w].source
    OBVIOUS
  <1>0. /\ Places /\ wpc[w] = "sync" /\ Goto(w, "age") /\ DecrementPendingSources
        /\ UNCHANGED main /\ UNCHANGED missed /\ UNCHANGED <<pool, copyQueue, cpc, task, open>>
    BY DEF Control, NothingToCopy, Goto, DecrementPendingSources, copier, results
  <1>1. /\ WorkersInv' /\ PhaseInv' /\ JobsOnce' /\ MissedInv'
        /\ \A r : JobQueued(r)' <=> JobQueued(r)
        /\ \A v \in Worker : \A r : Runs(v, r)' <=> Runs(v, r)
        /\ \A v \in Worker : wpc'[v] = IF v = w THEN "age" ELSE wpc[v]
        /\ s \in Source /\ Runs(w, s) /\ JobKind = "update" /\ ~JobQueued(s)
        /\ \A v \in Worker : Runs(v, s) => v = w
    <2>1. wpc[w] \notin {"idle", "scan"}
      BY <1>0
    <2> QED BY <1>0, <2>1, WorkerGoesOn
  <1>2. \A r : WithCopier(r)' <=> WithCopier(r)
    BY <1>0 DEF WithCopier
  <1>3. TasksOnce'
    BY <1>0, <1>1, <1>2 DEF Places, TasksOnce, main
  <1>4. CopierInv'
    BY <1>0 DEF Places, CopierInv, main
  <1>5. QuietInv'
    BY <1>0, <1>1 DEF QuietInv, JobKind, Syncing, main
  <1>6. s \in Counted /\ ~WithCopier(s)
    BY <1>0, <1>1 DEF Counted, WithPool, Places, TasksOnce
  <1>7. ~WithPool(s)'
    <2>1. \A i \in DOMAIN queue : queue[i] # [kind |-> "update", source |-> s]
      BY <1>1 DEF JobQueued
    <2>2. \A v \in Worker : wpc'[v] \in {"index", "indexing", "sync"} => running[v].source # s
      BY <1>0, <1>1 DEF Runs, Places, WorkersInv
    <2> QED BY <1>0, <2>1, <2>2 DEF WithPool, pool
  <1>8. \A r \in Source \ {s} : WithPool(r)' <=> WithPool(r)
    BY <1>0, <1>1 DEF WithPool, pool
  <1>9. CountInv'
    <2>1. CountInv /\ mpc' = mpc
      BY <1>0 DEF Places, main
    <2>3. ~(WithPool(s) \/ WithCopier(s))'
      BY <1>2, <1>6, <1>7
    <2>2. \A r \in Source \ {s} : (WithPool(r) \/ WithCopier(r))' <=> WithPool(r) \/ WithCopier(r)
      BY <1>2, <1>8
    <2> QED BY <1>0, <1>1, <1>6, <2>1, <2>2, <2>3, CountRemoved
  <1>10. \A r \in Source : WithPool(r)' <=> WithPool(r) /\ r # running[w].source
    BY <1>7, <1>8
  <1> QED BY <1>1, <1>3, <1>4, <1>5, <1>9, <1>10 DEF Places

LEMMA SubmitCopyPlaces ==
  ASSUME Control, NEW w \in Worker, SubmitCopyQueue(w)
  PROVE  Places' /\ \A r \in Source : WithPool(r)' <=> WithPool(r) /\ r # running[w].source
  <1> PICK s : s = running[w].source
    OBVIOUS
  <1> DEFINE t == [source |-> s, todo |-> FilesToCopy(bin[s], Fresh(s)), fresh |-> Fresh(s), failed |-> FALSE]
  <1>0. /\ Places /\ wpc[w] = "sync" /\ Goto(w, "notify")
        /\ copyQueue' = Append(copyQueue, t)
        /\ UNCHANGED main /\ UNCHANGED missed /\ UNCHANGED <<pool, pending, cpc, task, open>>
    BY DEF Control, SubmitCopyQueue, Goto, copier, results
  <1>1. /\ WorkersInv' /\ PhaseInv' /\ JobsOnce' /\ MissedInv'
        /\ \A r : JobQueued(r)' <=> JobQueued(r)
        /\ \A v \in Worker : \A r : Runs(v, r)' <=> Runs(v, r)
        /\ \A v \in Worker : wpc'[v] = IF v = w THEN "notify" ELSE wpc[v]
        /\ s \in Source /\ Runs(w, s) /\ JobKind = "update" /\ ~JobQueued(s)
        /\ \A v \in Worker : Runs(v, s) => v = w
    <2>1. wpc[w] \notin {"idle", "scan"}
      BY <1>0
    <2> QED BY <1>0, <2>1, WorkerGoesOn
  <1>2. /\ DOMAIN copyQueue' = DOMAIN copyQueue \cup {Len(copyQueue) + 1}
        /\ \A i \in DOMAIN copyQueue : copyQueue'[i] = copyQueue[i]
        /\ copyQueue'[Len(copyQueue) + 1].source = s
    <2>1. t.source = s
      OBVIOUS
    <2>2. copyQueue \in Seq(Task \cup {t})
      BY DEF Control, TypeOK
    <2> HIDE DEF t
    <2> QED BY <1>0, <2>1, <2>2, AppendIs
  <1> HIDE DEF t
  <1>3. s \notin left /\ ~WithCopier(s) /\ s \in Counted /\ WithPool(s)
    BY <1>0, <1>1 DEF Counted, WithPool, Places, TasksOnce, JobsOnce
  <1>4. \A r : WithCopier(r)' <=> WithCopier(r) \/ r = s
    BY <1>0, <1>2 DEF WithCopier
  <1>5. TasksOnce'
    <2>1. \A i, j \in DOMAIN copyQueue' : copyQueue'[i].source = copyQueue'[j].source => i = j
      BY <1>0, <1>2, <1>3 DEF Places, TasksOnce, WithCopier
    <2>2. task' # NoTask => \A i \in DOMAIN copyQueue' : copyQueue'[i].source # task'.source
      BY <1>0, <1>2, <1>3 DEF Places, TasksOnce, WithCopier
    <2>3. \A r \in Source : WithCopier(r)' =>
            r \notin left' /\ ~JobQueued(r)' /\ \A v \in Worker : Runs(v, r)' => wpc'[v] = "notify"
      BY <1>0, <1>1, <1>3, <1>4 DEF Places, TasksOnce, main
    <2> QED BY <2>1, <2>2, <2>3 DEF TasksOnce
  <1>6. CopierInv'
    BY <1>0 DEF Places, CopierInv, main
  <1>7. QuietInv'
    BY <1>0, <1>1 DEF QuietInv, JobKind, Syncing, main
  <1>8. ~WithPool(s)'
    <2>1. \A i \in DOMAIN queue : queue[i] # [kind |-> "update", source |-> s]
      BY <1>1 DEF JobQueued
    <2>2. \A v \in Worker : wpc'[v] \in {"index", "indexing", "sync"} => running[v].source # s
      BY <1>0, <1>1 DEF Runs, Places, WorkersInv
    <2> QED BY <1>0, <2>1, <2>2 DEF WithPool, pool
  <1>9. \A r \in Source \ {s} : WithPool(r)' <=> WithPool(r)
    BY <1>0, <1>1 DEF WithPool, pool
  <1>10. \A r \in Source : (WithPool(r) \/ WithCopier(r))' <=> WithPool(r) \/ WithCopier(r)
    BY <1>3, <1>4, <1>9
  <1>11. CountInv'
    BY <1>0, <1>10, CountKept DEF Places, main
  <1>12. \A r \in Source : WithPool(r)' <=> WithPool(r) /\ r # running[w].source
    BY <1>8, <1>9
  <1> QED BY <1>1, <1>5, <1>6, <1>7, <1>11, <1>12 DEF Places

(* A job ends.                                                             *)
LEMMA WorkerEnds ==
  ASSUME Control, NEW w \in Worker, wpc[w] \in {"scan", "notify", "save"}, EndJob(w),
         UNCHANGED <<copyQueue, pending, cpc, task, open>>, MissedInv'
  PROVE  Places' /\ \A r \in Source : WithPool(r)' <=> WithPool(r)
  <1> USE DEF main
  <1>0. /\ TypeOK /\ Places /\ UNCHANGED <<mpc, left, runs, queue>>
        /\ running' = [running EXCEPT ![w] = NoJob] /\ wpc' = [wpc EXCEPT ![w] = "idle"]
    BY DEF Control, EndJob, Pool!Finish
  <1>1. /\ \A v \in Worker : running'[v] = IF v = w THEN NoJob ELSE running[v]
        /\ \A v \in Worker : wpc'[v] = IF v = w THEN "idle" ELSE wpc[v]
    BY <1>0 DEF TypeOK
  <1>2. WorkersInv' /\ PhaseInv'
    BY <1>0, <1>1 DEF Places, WorkersInv, PhaseInv, JobKind
  <1>3. /\ \A r : JobQueued(r)' <=> JobQueued(r)
        /\ \A v \in Worker : \A r : Runs(v, r)' => Runs(v, r) /\ v # w
    BY <1>0, <1>1 DEF JobQueued, Runs
  <1>4. JobsOnce'
    BY <1>0, <1>3 DEF Places, JobsOnce
  <1>5. \A r : WithCopier(r)' <=> WithCopier(r)
    BY DEF WithCopier
  <1>6. TasksOnce'
    BY <1>0, <1>1, <1>3, <1>5 DEF Places, TasksOnce
  <1>7. CopierInv' /\ QuietInv'
    BY <1>0 DEF Places, CopierInv, QuietInv
  <1>8. \A r \in Source : WithPool(r)' <=> WithPool(r)
    BY <1>0, <1>1 DEF WithPool
  <1>9. CountInv'
    BY <1>0, <1>5, <1>8, CountKept DEF Places
  <1> QED BY <1>2, <1>4, <1>6, <1>7, <1>8, <1>9 DEF Places

LEMMA MissedKept ==
  ASSUME Control, UNCHANGED <<mpc, left, runs>>, \A r : Unscanned(r)' => Unscanned(r),
         \A p \in Path : missed'[p] \in {0, missed[p]}
  PROVE  MissedInv'
  <1>1. \A p \in Path : missed[p] \in Nat /\ runs \in Nat
    BY DEF Control, TypeOK
  <1>2. MissedInv
    BY DEF Control, Places
  <1> QED BY <1>1, <1>2 DEF MissedInv

LEMMA ScanMissed ==
  ASSUME Control, NEW w \in Worker, Scan(w)
  PROVE  MissedInv'
  <1>0. /\ TypeOK /\ Places /\ UNCHANGED <<mpc, left, runs, queue>> /\ wpc[w] = "scan"
        /\ missed' = [p \in Path |-> IF p \in FilesOf(running[w].source) /\ src[p] = Absent
                                     THEN missed[p] + 1 ELSE missed[p]]
        /\ running' = [running EXCEPT ![w] = NoJob] /\ wpc' = [wpc EXCEPT ![w] = "idle"]
    BY DEF Control, Scan, EndJob, Pool!Finish, main
  <1>1. /\ \A v \in Worker : running'[v] = IF v = w THEN NoJob ELSE running[v]
        /\ \A v \in Worker : wpc'[v] = IF v = w THEN "idle" ELSE wpc[v]
    BY <1>0 DEF TypeOK
  <1>2. WorkersInv /\ PhaseInv /\ JobsOnce /\ MissedInv
    BY <1>0 DEF Places
  <1>3. PICK s \in Source : s = running[w].source
    BY <1>0, <1>2, JobIs
  <1>4. JobKind = "scan" /\ Runs(w, s)
    <2>1. running[w] # NoJob /\ running[w].kind = "scan"
      BY <1>0, <1>2, JobIs DEF WorkersInv
    <2> QED BY <1>2, <1>3, <2>1 DEF PhaseInv, Runs
  <1>5. mpc \in {"scan", "joinScan"}
    BY <1>4 DEF JobKind
  <1>6. Unscanned(s)
    BY <1>0, <1>3 DEF Unscanned
  <1>7. ~Unscanned(s)'
    <2>1. s \notin left /\ ~JobQueued(s)
      BY <1>2, <1>4 DEF JobsOnce
    <2>2. \A i \in DOMAIN queue : queue[i] # [kind |-> "scan", source |-> s]
      BY <2>1 DEF JobQueued
    <2>3. \A v \in Worker : wpc'[v] = "scan" => running'[v].source # s
      BY <1>1, <1>2, <1>4 DEF JobsOnce, Runs, WorkersInv
    <2> QED BY <1>0, <2>1, <2>2, <2>3 DEF Unscanned
  <1>8. \A r : Unscanned(r)' => Unscanned(r)
    BY <1>0, <1>1 DEF Unscanned
  <1>9. ASSUME NEW p \in Path
        PROVE  /\ missed'[p] <= runs'
               /\ mpc' \in {"scan", "joinScan"} /\ Unscanned(SourceOf[p])' => missed'[p] < runs'
    <2>0. missed[p] \in Nat /\ runs \in Nat
      BY <1>0 DEF TypeOK
    <2>1. CASE SourceOf[p] = s
      <3>1. missed[p] < runs
        BY <1>2, <1>5, <1>6, <2>1 DEF MissedInv
      <3> QED BY <1>0, <1>7, <2>0, <2>1, <3>1
    <2>2. CASE SourceOf[p] # s
      <3>1. missed'[p] = missed[p]
        BY <1>0, <1>3, <2>2 DEF FilesOf
      <3> QED BY <1>0, <1>2, <1>8, <3>1 DEF MissedInv
    <2> QED BY <2>1, <2>2
  <1> QED BY <1>9 DEF MissedInv

LEMMA JobPlaces ==
  ASSUME Control, NEW w \in Worker, JobStep(w)
  PROVE  Places'
  <1> USE DEF hdd, copier, results
  <1>1. CASE TakeJob(w)
    BY <1>1, TakePlaces
  <1>2. CASE Scan(w)
    BY <1>2, ScanMissed, WorkerEnds DEF Scan
  <1>3. CASE FindID(w)
    BY <1>3, SamePlaces DEF FindID
  <1>4. CASE TruncateIndex(w)
    BY <1>4, SamePlaces DEF TruncateIndex
  <1>5. CASE WriteIndex(w)
    BY <1>5, SamePlaces DEF WriteIndex
  <1>6. CASE SubmitCopyQueue(w)
    BY <1>6, SubmitCopyPlaces
  <1>7. CASE NothingToCopy(w)
    BY <1>7, NothingToCopyPlaces
  <1>8. CASE AgeUnchanged(w)
    BY <1>8, SamePlaces DEF AgeUnchanged
  <1>9. ASSUME NotifyOne(w) \/ SaveUnchanged(w) PROVE Places'
    <2>1. /\ wpc[w] \in {"notify", "save"} /\ EndJob(w)
          /\ UNCHANGED <<copyQueue, pending, cpc, task, open>>
      BY <1>9 DEF NotifyOne, SaveUnchanged
    <2>2. /\ UNCHANGED <<mpc, left, runs, queue>>
          /\ running' = [running EXCEPT ![w] = NoJob] /\ wpc' = [wpc EXCEPT ![w] = "idle"]
      BY <2>1 DEF EndJob, Pool!Finish, main
    <2>3. \A r : Unscanned(r)' => Unscanned(r)
      <3>1. /\ \A v \in Worker : running'[v] = IF v = w THEN NoJob ELSE running[v]
            /\ \A v \in Worker : wpc'[v] = IF v = w THEN "idle" ELSE wpc[v]
        BY <2>2 DEF Control, TypeOK
      <3> QED BY <2>2, <3>1 DEF Unscanned
    <2>4. \A p \in Path : missed'[p] \in {0, missed[p]}
      BY <1>9 DEF NotifyOne, SaveUnchanged, Recorded
    <2>5. MissedInv'
      BY <2>2, <2>3, <2>4, MissedKept
    <2> QED BY <2>1, <2>5, WorkerEnds
  <1> QED BY <1>1, <1>2, <1>3, <1>4, <1>5, <1>6, <1>7, <1>8, <1>9 DEF JobStep

-----------------------------------------------------------------------------
(* The copy thread works on the source it has.                             *)
LEMMA CopierGoesOn ==
  ASSUME Control, UNCHANGED <<main, pool, wpc, copyQueue, pending>>,
         task' # NoTask <=> task # NoTask, task # NoTask => task'.source = task.source,
         \A p \in Path : missed'[p] \in {0, missed[p]}, CopierInv'
  PROVE  Places'
  <1> USE DEF main, pool
  <1>0. TypeOK /\ Places
    BY DEF Control
  <1>1. WorkersInv' /\ PhaseInv' /\ JobsOnce'
    BY <1>0 DEF Places, WorkersInv, PhaseInv, JobsOnce, JobKind, JobQueued, Runs
  <1>2. \A r : WithCopier(r)' <=> WithCopier(r)
    BY DEF WithCopier
  <1>3. TasksOnce'
    <2>1. \A r \in Source : WithCopier(r)' =>
            r \notin left' /\ ~JobQueued(r)' /\ \A v \in Worker : Runs(v, r)' => wpc'[v] = "notify"
      BY <1>0, <1>2 DEF Places, TasksOnce, JobQueued, Runs
    <2> QED BY <1>0, <2>1 DEF Places, TasksOnce
  <1>4. QuietInv'
    BY <1>0 DEF Places, QuietInv
  <1>5. MissedInv'
    <2>1. \A r : Unscanned(r)' => Unscanned(r)
      BY DEF Unscanned
    <2> QED BY <2>1, MissedKept
  <1>6. CountInv'
    <2>1. \A r \in Source : WithPool(r)' <=> WithPool(r)
      BY DEF WithPool
    <2> QED BY <1>0, <1>2, <2>1, CountKept DEF Places
  <1> QED BY <1>1, <1>3, <1>4, <1>5, <1>6 DEF Places

LEMMA TakeTaskPlaces ==
  ASSUME Control, TakeTask
  PROVE  Places'
  <1> USE DEF main, pool, results
  <1>0. /\ TypeOK /\ Places /\ cpc = "loop" /\ cpc' = "copy" /\ copyQueue # <<>>
        /\ task' = Head(copyQueue) /\ copyQueue' = Tail(copyQueue)
        /\ UNCHANGED <<main, pool, wpc, pending, open, missed>>
    BY DEF Control, TakeTask, CopierWakes
  <1>1. /\ copyQueue \in Seq(Task) /\ 1 \in DOMAIN copyQueue /\ task' = copyQueue[1] /\ task' \in Task
        /\ \A i \in DOMAIN copyQueue' : i \in Int /\ i + 1 \in DOMAIN copyQueue /\ i + 1 # 1 /\ copyQueue'[i] = copyQueue[i + 1]
        /\ \A i \in DOMAIN copyQueue \ {1} : i - 1 \in DOMAIN copyQueue' /\ copyQueue'[i - 1] = copyQueue[i]
    <2>1. copyQueue \in Seq(Task)
      BY <1>0 DEF TypeOK
    <2> QED BY <1>0, <2>1, TailIs
  <1>2. task = NoTask /\ open = NoFile /\ task' # NoTask
    BY <1>0, <1>1, HDDAssumption DEF Places, CopierInv
  <1>3. \A i, j \in DOMAIN copyQueue : copyQueue[i].source = copyQueue[j].source => i = j
    BY <1>0 DEF Places, TasksOnce
  <1>4. WorkersInv' /\ PhaseInv' /\ JobsOnce'
    BY <1>0 DEF Places, WorkersInv, PhaseInv, JobsOnce, JobKind, JobQueued, Runs
  <1>5. \A r : WithCopier(r)' <=> WithCopier(r)
    <2>1. ASSUME NEW r, WithCopier(r)' PROVE WithCopier(r)
      BY <1>1, <2>1 DEF WithCopier
    <2>2. ASSUME NEW r, NEW i \in DOMAIN copyQueue, copyQueue[i].source = r PROVE WithCopier(r)'
      <3>1. CASE i = 1
        BY <1>1, <1>2, <2>2, <3>1 DEF WithCopier
      <3>2. CASE i # 1
        BY <1>1, <2>2, <3>2 DEF WithCopier
      <3> QED BY <3>1, <3>2
    <2> QED BY <1>2, <2>1, <2>2 DEF WithCopier
  <1>6. TasksOnce'
    <2>1. ASSUME NEW i \in DOMAIN copyQueue', NEW j \in DOMAIN copyQueue',
                 copyQueue'[i].source = copyQueue'[j].source
          PROVE  i = j
      <3>1. i + 1 = j + 1
        <4>1. i + 1 \in DOMAIN copyQueue /\ j + 1 \in DOMAIN copyQueue
          BY <1>1
        <4>2. copyQueue[i + 1].source = copyQueue[j + 1].source
          BY <1>1, <2>1
        <4> QED BY <1>3, <4>1, <4>2
      <3> QED BY <1>1, <3>1
    <2>2. \A i \in DOMAIN copyQueue' : copyQueue'[i].source # task'.source
      BY <1>1, <1>3
    <2>3. \A r \in Source : WithCopier(r)' =>
            r \notin left' /\ ~JobQueued(r)' /\ \A v \in Worker : Runs(v, r)' => wpc'[v] = "notify"
      BY <1>0, <1>5 DEF Places, TasksOnce, JobQueued, Runs
    <2> QED BY <2>1, <2>2, <2>3 DEF TasksOnce
  <1>7. CopierInv'
    BY <1>0, <1>2 DEF CopierInv
  <1>8. QuietInv'
    BY <1>0 DEF Places, QuietInv
  <1>9. MissedInv'
    BY <1>0 DEF Places, MissedInv, Unscanned
  <1>10. CountInv'
    <2>1. \A r \in Source : WithPool(r)' <=> WithPool(r)
      BY <1>0 DEF WithPool
    <2> QED BY <1>0, <1>5, <2>1, CountKept DEF Places
  <1> QED BY <1>4, <1>6, <1>7, <1>8, <1>9, <1>10 DEF Places

(* The copy thread is done with its source, or gives it up.                *)
LEMMA CopierDonePlaces ==
  ASSUME Control, GiveUpSource \/ SourceDone
  PROVE  Places'
  <1> USE DEF main, pool, results
  <1>0. /\ TypeOK /\ Places /\ cpc \in {"copy", "decrement"} /\ cpc' = "loop" /\ task' = NoTask
        /\ cpc = "copy" => task.todo = {}
        /\ UNCHANGED <<main, pool, wpc, copyQueue, open, missed>> /\ DecrementPendingSources
    BY DEF Control, GiveUpSource, SourceDone, DecrementPendingSources
  <1>1. task # NoTask /\ open = NoFile
    BY <1>0 DEF Places, CopierInv
  <1>2. PICK s \in Source : s = task.source
    BY <1>0, <1>1 DEF TypeOK, Task
  <1>3. WorkersInv' /\ PhaseInv' /\ JobsOnce'
    BY <1>0 DEF Places, WorkersInv, PhaseInv, JobsOnce, JobKind, JobQueued, Runs
  <1>4. \A i \in DOMAIN copyQueue : copyQueue[i].source # s
    BY <1>0, <1>1, <1>2 DEF Places, TasksOnce
  <1>5. WithCopier(s) /\ \A r : WithCopier(r)' <=> WithCopier(r) /\ r # s
    BY <1>0, <1>1, <1>2, <1>4 DEF WithCopier
  <1>6. TasksOnce'
    <2>1. \A r \in Source : WithCopier(r)' =>
            r \notin left' /\ ~JobQueued(r)' /\ \A v \in Worker : Runs(v, r)' => wpc'[v] = "notify"
      BY <1>0, <1>5 DEF Places, TasksOnce, JobQueued, Runs
    <2> QED BY <1>0, <2>1 DEF Places, TasksOnce
  <1>7. CopierInv'
    BY <1>0, <1>1 DEF CopierInv
  <1>8. QuietInv'
    BY <1>0, <1>1 DEF Places, QuietInv
  <1>9. MissedInv'
    BY <1>0 DEF Places, MissedInv, Unscanned
  <1>10. CountInv'
    <2>1. \A r \in Source : WithPool(r)' <=> WithPool(r)
      BY <1>0 DEF WithPool
    <2>2. ~WithPool(s)
      <3>1. ~JobQueued(s) /\ \A v \in Worker : Runs(v, s) => wpc[v] = "notify"
        BY <1>0, <1>5 DEF Places, TasksOnce
      <3>2. \A i \in DOMAIN queue : queue[i] # [kind |-> "update", source |-> s]
        BY <3>1 DEF JobQueued
      <3> QED BY <1>0, <3>1, <3>2 DEF WithPool, Runs, Places, WorkersInv
    <2>3. s \in Counted /\ ~(WithPool(s) \/ WithCopier(s))'
      BY <1>5, <2>1, <2>2 DEF Counted
    <2>4. \A r \in Source \ {s} : (WithPool(r) \/ WithCopier(r))' <=> WithPool(r) \/ WithCopier(r)
      BY <1>5, <2>1
    <2> QED BY <1>0, <2>3, <2>4, CountRemoved DEF Places
  <1> QED BY <1>3, <1>6, <1>7, <1>8, <1>9, <1>10 DEF Places

LEMMA CopierPlaces ==
  ASSUME Control, CopierStep
  PROVE  Places'
  <1> USE DEF main, results
  <1>0. TypeOK /\ Places /\ CopierInv
    BY DEF Control, Places
  <1>1. CASE CopierWaits
    BY <1>0, <1>1, PlacesFrame DEF CopierWaits, copier
  <1>2. CASE TakeTask
    BY <1>2, TakeTaskPlaces
  <1>3. CASE CopierExits
    <2>1. CopierInv'
      BY <1>0, <1>3 DEF CopierExits, CopierWakes, CopierInv
    <2> QED BY <1>3, <2>1, CopierGoesOn DEF CopierExits, hdd
  <1>4. ASSUME NEW p \in Path, CopyRefused(p) \/ RootNotFound(p) PROVE Places'
    <2>0. /\ cpc = "copy" /\ open = NoFile /\ cpc' = cpc /\ open' = open
          /\ task' = [task EXCEPT !.todo = @ \ {p}, !.failed = TRUE]
          /\ UNCHANGED <<main, pool, wpc, hdd, missed>>
      BY <1>4 DEF CopyRefused, RootNotFound, CopyFails, Copying
    <2>1. task # NoTask /\ task \in Task
      BY <1>0, <2>0 DEF CopierInv, TypeOK
    <2>2. task' \in Task /\ task'.source = task.source /\ task' # NoTask
      BY <2>0, <2>1, HDDAssumption DEF Task
    <2>3. CopierInv'
      BY <1>0, <2>0, <2>1, <2>2 DEF CopierInv
    <2> QED BY <2>0, <2>1, <2>2, <2>3, CopierGoesOn DEF hdd
  <1>5. ASSUME NEW p \in Path, OpenDestination(p) PROVE Places'
    <2>1. open'.path = p /\ task' = task /\ p \in task.todo /\ cpc = "copy" /\ cpc' = "copy"
      BY <1>5 DEF OpenDestination, Copying
    <2>2. CopierInv'
      BY <1>0, <2>1 DEF CopierInv
    <2> QED BY <1>5, <2>1, <2>2, CopierGoesOn DEF OpenDestination, hdd
  <1>6. CASE FinishCopy
    <2>0. /\ open # NoFile /\ open' = NoFile /\ cpc' = cpc
          /\ task' = [task EXCEPT !.todo = @ \ {open.path}]
          /\ UNCHANGED <<main, pool, wpc, hdd, missed>>
      BY <1>6 DEF FinishCopy
    <2>1. cpc = "copy" /\ task # NoTask /\ task \in Task
      BY <1>0, <2>0 DEF CopierInv, TypeOK
    <2>2. task' \in Task /\ task'.source = task.source /\ task' # NoTask
      BY <2>0, <2>1, HDDAssumption DEF Task
    <2>3. CopierInv'
      BY <1>0, <2>0, <2>1, <2>2 DEF CopierInv
    <2> QED BY <2>0, <2>1, <2>2, <2>3, CopierGoesOn DEF hdd
  <1>7. CASE GiveUpSource \/ SourceDone
    BY <1>7, CopierDonePlaces
  <1>8. CASE MarkCopied
    <2>1. CopierInv'
      BY <1>0, <1>8 DEF MarkCopied, CopierInv
    <2> QED BY <1>8, <2>1, CopierGoesOn DEF MarkCopied, hdd
  <1>9. CASE AgeCopied
    <2>1. CopierInv'
      BY <1>0, <1>9 DEF AgeCopied, CopierInv
    <2> QED BY <1>9, <2>1, CopierGoesOn DEF AgeCopied, hdd
  <1>10. CASE SaveCopied
    <2>1. CopierInv'
      BY <1>0, <1>10 DEF SaveCopied, CopierInv
    <2>2. \A p \in Path : missed'[p] \in {0, missed[p]}
      BY <1>10 DEF SaveCopied, Recorded
    <2> QED BY <1>10, <2>1, <2>2, CopierGoesOn DEF SaveCopied, hdd
  <1> QED BY <1>1, <1>2, <1>3, <1>4, <1>5, <1>6, <1>7, <1>8, <1>9, <1>10 DEF CopierStep

-----------------------------------------------------------------------------
(* Types and places together.                                              *)
LEMMA ControlInit == Init => Control
  <1> SUFFICES ASSUME Init PROVE Control
    OBVIOUS
  <1>1. TypeOK
    BY TypeInit
  <1>2. /\ mpc = "idle" /\ queue = <<>> /\ copyQueue = <<>> /\ pending = 0 /\ cpc = "none"
        /\ task = NoTask /\ open = NoFile /\ left = {} /\ runs = 0
        /\ \A w \in Worker : running[w] = NoJob /\ wpc[w] = "idle"
        /\ \A p \in Path : missed[p] = 0
    BY DEF Init, Pool!Init
  <1>3. WorkersInv /\ PhaseInv /\ JobsOnce /\ TasksOnce
    BY <1>2 DEF WorkersInv, PhaseInv, JobsOnce, TasksOnce, JobQueued, Runs, WithCopier
  <1>4. CopierInv /\ QuietInv /\ MissedInv
    BY <1>2 DEF CopierInv, QuietInv, MissedInv
  <1>5. CountInv
    <2>1. Counted = {}
      BY <1>2 DEF Counted, WithPool, WithCopier
    <2> QED BY <1>2, <2>1, FS_EmptySet DEF CountInv
  <1> QED BY <1>1, <1>3, <1>4, <1>5 DEF Control, Places

LEMMA MissedType ==
  ASSUME Control, Places', runs' \in 0 .. MaxRuns,
         missed' \in [Path -> Nat]
  PROVE  missed' \in [Path -> 0 .. MaxRuns]
  <1>1. \A p \in Path : missed'[p] <= runs'
    BY DEF Places, MissedInv
  <1>2. \A p \in Path : missed'[p] \in 0 .. MaxRuns
    BY <1>1, HDDAssumption
  <1> QED BY <1>2

LEMMA ControlStep == Control /\ [Next]_vars => Control'
  <1> SUFFICES ASSUME Control, [Next]_vars PROVE Control'
    OBVIOUS
  <1>0. TypeOK /\ Places /\ missed \in [Path -> Nat] /\ runs \in 0 .. MaxRuns
    <2>1. missed \in [Path -> 0 .. MaxRuns] /\ MaxRuns \in Nat
      BY HDDAssumption DEF Control, TypeOK
    <2>2. missed \in [Path -> Nat]
      BY <2>1
    <2> QED BY <2>2 DEF Control, TypeOK
  <1>1. CASE Edit /\ UNCHANGED alive
    <2>1. TypeOK'
      BY <1>0, <1>1, TypeEdit
    <2>2. UNCHANGED <<main, pool, wpc, copyQueue, pending, cpc, task, open, missed>>
      BY <1>1 DEF Edit, Modify, Remove, Reappear, results, hdd, copier
    <2> QED BY <1>0, <2>1, <2>2, PlacesFrame DEF Control
  <1>2. CASE (StartRun \/ MainStep) /\ UNCHANGED alive
    BY <1>0, <1>2, TypeMain, StartPlaces, MainPlaces DEF Control
  <1>3. ASSUME NEW w \in Worker, JobStep(w), UNCHANGED alive PROVE Control'
    <2>1. Places'
      BY <1>3, JobPlaces
    <2>2. UNCHANGED runs
      BY <1>3 DEF JobStep, TakeJob, Scan, FindID, TruncateIndex, WriteIndex, SubmitCopyQueue, NotifyOne,
                  NothingToCopy, AgeUnchanged, SaveUnchanged, EndJob, main
    <2>3. missed' \in [Path -> Nat]
      BY <1>0, <1>3 DEF JobStep, TakeJob, Scan, FindID, TruncateIndex, WriteIndex, SubmitCopyQueue, NotifyOne,
                        NothingToCopy, AgeUnchanged, SaveUnchanged, Recorded, results
    <2> QED BY <1>0, <1>3, <2>1, <2>2, <2>3, MissedType, TypeJob DEF Control
  <1>4. CASE CopierStep /\ UNCHANGED alive
    <2>1. Places'
      BY <1>4, CopierPlaces
    <2>2. UNCHANGED runs
      BY <1>4 DEF CopierStep, CopierWaits, TakeTask, CopierExits, CopyRefused, RootNotFound, CopyFails,
                  OpenDestination, FinishCopy, GiveUpSource, MarkCopied, AgeCopied, SaveCopied, SourceDone, main
    <2>3. missed' \in [Path -> Nat]
      <3>1. CASE SaveCopied
        BY <1>0, <3>1 DEF SaveCopied, Recorded
      <3>2. CASE ~SaveCopied
        <4>1. missed' = missed
          BY <1>4, <3>2
             DEF CopierStep, CopierWaits, TakeTask, CopierExits, CopyRefused, RootNotFound, CopyFails,
                 OpenDestination, FinishCopy, GiveUpSource, MarkCopied, AgeCopied, SourceDone, results
        <4> QED BY <1>0, <4>1
      <3> QED BY <3>1, <3>2
    <2> QED BY <1>0, <1>4, <2>1, <2>2, <2>3, MissedType, TypeCopier DEF Control
  <1>5. ASSUME NEW t, SpuriousWake(t), UNCHANGED alive PROVE Control'
    <2>1. TypeOK'
      BY <1>0, <1>5 DEF SpuriousWake, TypeOK, files, disk, main, results, pool, copier
    <2>2. UNCHANGED <<main, pool, wpc, copyQueue, pending, cpc, task, open, missed>>
      BY <1>5 DEF SpuriousWake, results, copier
    <2> QED BY <1>0, <2>1, <2>2, PlacesFrame DEF Control
  <1>6. CASE ExitOnFailure
    <2>1. TypeOK'
      <3>1. alive' = FALSE /\ UNCHANGED <<files, disk, main, results, pool, wpc, hdd, copier, refused>>
        BY <1>6 DEF ExitOnFailure
      <3>2. alive' \in BOOLEAN
        BY <3>1
      <3>3. UNCHANGED <<files, disk, main, results, pool, wpc, hdd, copier, refused>>
        BY <3>1
      <3> QED BY <1>0, <3>2, <3>3 DEF TypeOK, files, disk, main, results, pool, hdd, copier
    <2>2. UNCHANGED <<main, pool, wpc, copyQueue, pending, cpc, task, open, missed>>
      BY <1>6 DEF ExitOnFailure, results, hdd, copier
    <2> QED BY <1>0, <2>1, <2>2, PlacesFrame DEF Control
  <1>7. CASE UNCHANGED vars
    <2>1. TypeOK'
      BY <1>0, <1>7 DEF vars, TypeOK, files, disk, main, results, pool, hdd, copier
    <2>2. UNCHANGED <<main, pool, wpc, copyQueue, pending, cpc, task, open, missed>>
      BY <1>7 DEF vars, results, hdd, copier
    <2> QED BY <1>0, <2>1, <2>2, PlacesFrame DEF Control
  <1> QED BY <1>1, <1>2, <1>3, <1>4, <1>5, <1>6, <1>7 DEF Next

LEMMA ControlAlways == Spec => []Control
  <1>1. Init => Control
    BY ControlInit
  <1>2. Control /\ [Next]_vars => Control'
    BY ControlStep
  <1> QED BY <1>1, <1>2, PTL DEF Spec

(* Every variable keeps the values the code gives it: in particular        *)
(* HDDPendingSources never wraps, and a file is not missed by more scans   *)
(* than there were.                                                        *)
THEOREM TypeCorrect == Spec => []TypeOK
  <1>1. Control => TypeOK
    BY DEF Control
  <1> QED BY <1>1, ControlAlways, PTL

(* HDDPendingSources counts each source that is not done, and once.        *)
THEOREM PendingCountsAlways == Spec => []PendingCounts
  <1>1. Control => PendingCounts
    <2> SUFFICES ASSUME Control PROVE PendingCounts
      OBVIOUS
    <2>1. WorkersInv /\ TasksOnce /\ CountInv
      BY DEF Control, Places
    <2>2. ASSUME NEW s \in Source, WithPool(s), WithCopier(s) PROVE FALSE
      <3>1. ~JobQueued(s) /\ \A w \in Worker : Runs(w, s) => wpc[w] = "notify"
        BY <2>1, <2>2 DEF TasksOnce
      <3> QED BY <2>1, <2>2, <3>1 DEF WithPool, JobQueued, Runs, WorkersInv
    <2> QED BY <2>1, <2>2 DEF PendingCounts, CountInv, Counted
  <1> QED BY <1>1, ControlAlways, PTL

(* WaitUntilDone returns when, and only when, no job, queue entry, copy or *)
(* unsaved cache is left.                                                  *)
THEOREM SettledAlways == Spec => []Settled
  <1>1. Control => Settled
    <2> SUFFICES ASSUME Control, mpc \in {"stop", "stopNotify", "joinThread", "success"} PROVE
           /\ Pool!Idle /\ copyQueue = <<>> /\ pending = 0
           /\ task = NoTask /\ open = NoFile /\ cpc \in {"loop", "exited"}
      BY DEF Settled
    <2>1. Pool!Idle
      BY PoolEmpty DEF Pool!Idle, JobKind
    <2>2. copyQueue = <<>> /\ pending = 0 /\ task = NoTask
      BY DEF Control, Places, QuietInv, Syncing
    <2>3. open = NoFile /\ cpc \in {"loop", "exited"}
      BY <2>2 DEF Control, Places, CopierInv, TypeOK
    <2> QED BY <2>1, <2>2, <2>3
  <1> QED BY <1>1, ControlAlways, PTL

-----------------------------------------------------------------------------
(* Versions.                                                               *)
LEMMA FreshIs ==
  ASSUME NEW s
  PROVE  /\ DOMAIN Fresh(s) = {p \in Path : SourceOf[p] = s /\ scanned[p] # Absent}
         /\ \A p \in DOMAIN Fresh(s) : Fresh(s)[p] = scanned[p]
  BY DEF Fresh, FilesOf

LEMMA ToCopyIs ==
  ASSUME NEW s
  PROVE  FilesToCopy(bin[s], Fresh(s)) =
           {p \in Path : /\ SourceOf[p] = s /\ scanned[p] # Absent
                         /\ p \in DOMAIN bin[s] => bin[s][p].hash # scanned[p]}
  <1>1. FilesToCopy(bin[s], Fresh(s)) =
          {p \in DOMAIN Fresh(s) : p \in DOMAIN bin[s] => bin[s][p].hash # Fresh(s)[p]}
    BY DEF FilesToCopy, HasEntry
  <1>2. /\ DOMAIN Fresh(s) = {p \in Path : SourceOf[p] = s /\ scanned[p] # Absent}
        /\ \A p \in DOMAIN Fresh(s) : Fresh(s)[p] = scanned[p]
    BY FreshIs
  <1> QED BY <1>1, <1>2

LEMMA TypeIs ==
  ASSUME TypeOK
  PROVE  /\ \A p \in Path : /\ src[p] \in Version \cup {Absent} /\ scanned[p] \in Version \cup {Absent}
                            /\ newest[p] \in Nat /\ SourceOf[p] \in Source
                            /\ p \in DOMAIN bin[SourceOf[p]] => bin[SourceOf[p]][p].hash \in Version
         /\ \A s \in Source : DOMAIN bin[s] \subseteq Path
         /\ DOMAIN entries \subseteq Path /\ \A p \in DOMAIN entries : entries[p].hash \in Version
         /\ copyQueue \in Seq(Task) /\ \A i \in DOMAIN copyQueue : copyQueue[i] \in Task
         /\ task # NoTask => task \in Task
         /\ open # NoFile => open \in OpenFile /\ open.path \in Path /\ open.version \in Version
         /\ Version \subseteq Nat
  <1>1. \A p \in Path : SourceOf[p] \in Source
    BY HDDAssumption
  <1>2. \A p \in Path : src[p] \in Version \cup {Absent} /\ scanned[p] \in Version \cup {Absent} /\ newest[p] \in Nat
    BY HDDAssumption DEF TypeOK
  <1>3. \A s \in Source : DOMAIN bin[s] \subseteq Path /\ \A p \in DOMAIN bin[s] : bin[s][p].hash \in Version
    BY DEF TypeOK, SourceCache, Cache
  <1>4. DOMAIN entries \subseteq Path /\ \A p \in DOMAIN entries : entries[p].hash \in Version
    BY DEF TypeOK, SourceCache, Cache
  <1>5. copyQueue \in Seq(Task)
    BY DEF TypeOK
  <1>6. \A i \in DOMAIN copyQueue : copyQueue[i] \in Task
    BY <1>5, SeqElement
  <1>7. /\ task # NoTask => task \in Task
        /\ open # NoFile => open \in OpenFile /\ open.path \in Path /\ open.version \in Version
    BY DEF TypeOK, OpenFile
  <1>8. Version \subseteq Nat
    BY DEF Version
  <1> QED BY <1>1, <1>2, <1>3, <1>4, <1>5, <1>6, <1>7, <1>8

(* A task has only files of its source, and holds it alone.                *)
LEMMA TaskIs ==
  ASSUME Control, Data, task # NoTask
  PROVE  /\ task \in Task /\ task.source \in Source /\ task.todo \subseteq Path
         /\ ~Waiting(task.source) /\ mpc \in Syncing
         /\ \A i \in DOMAIN copyQueue : copyQueue[i].source # task.source
         /\ \A w \in Worker : wpc[w] \in {"age", "save"} => running[w].source # task.source
         /\ \A p \in task.todo : /\ SourceOf[p] = task.source /\ scanned[p] # Absent
                                 /\ p \in DOMAIN bin[task.source] => bin[task.source][p].hash # scanned[p]
  <1>0. TypeOK /\ Places
    BY DEF Control
  <1>1. task \in Task /\ task.source \in Source /\ task.todo \subseteq Path
    BY <1>0, TypeIs DEF Task
  <1>2. WithCopier(task.source)
    BY DEF WithCopier
  <1>3. /\ task.source \notin left /\ ~JobQueued(task.source)
        /\ \A w \in Worker : Runs(w, task.source) => wpc[w] = "notify"
    BY <1>0, <1>1, <1>2 DEF Places, TasksOnce
  <1>4. /\ ~Waiting(task.source)
        /\ \A w \in Worker : wpc[w] \in {"age", "save"} => running[w].source # task.source
    <2>1. \A i \in DOMAIN queue : queue[i] # [kind |-> "update", source |-> task.source]
      BY <1>3 DEF JobQueued
    <2>2. \A w \in Worker : wpc[w] # "idle" => running[w] # NoJob
      BY <1>0 DEF Places, WorkersInv
    <2> QED BY <1>3, <2>1, <2>2 DEF Waiting, WithPool, Runs
  <1>5. mpc \in Syncing
    BY <1>0 DEF Places, QuietInv
  <1>6. \A i \in DOMAIN copyQueue : copyQueue[i].source # task.source
    BY <1>0 DEF Places, TasksOnce
  <1>7. task.todo \subseteq FilesToCopy(bin[task.source], Fresh(task.source))
    <2>1. cpc \in {"copy", "age", "save", "decrement"}
      BY <1>0 DEF Places, CopierInv
    <2> QED BY <2>1 DEF Data, TasksInv, IsTask
  <1> QED BY <1>1, <1>4, <1>5, <1>6, <1>7, ToCopyIs

(* A source that is queued for copying holds likewise.                     *)
LEMMA QueuedTaskIs ==
  ASSUME Control, NEW i \in DOMAIN copyQueue
  PROVE  /\ copyQueue[i] \in Task /\ copyQueue[i].source \in Source /\ copyQueue[i] # NoTask
         /\ ~Waiting(copyQueue[i].source)
         /\ \A w \in Worker : wpc[w] \in {"age", "save"} => running[w].source # copyQueue[i].source
  <1>0. TypeOK /\ Places
    BY DEF Control
  <1> DEFINE s == copyQueue[i].source
  <1>1. copyQueue[i] \in Task /\ s \in Source /\ copyQueue[i] # NoTask
    BY <1>0, TypeIs, HDDAssumption DEF Task
  <1>2. WithCopier(s)
    BY DEF WithCopier
  <1>3. s \notin left /\ ~JobQueued(s) /\ \A w \in Worker : Runs(w, s) => wpc[w] = "notify"
    BY <1>0, <1>1, <1>2 DEF Places, TasksOnce
  <1> QED
    <2>1. \A j \in DOMAIN queue : queue[j] # [kind |-> "update", source |-> s]
      BY <1>3 DEF JobQueued
    <2>2. \A w \in Worker : wpc[w] # "idle" => running[w] # NoJob
      BY <1>0 DEF Places, WorkersInv
    <2> QED BY <1>1, <1>3, <2>1, <2>2 DEF Waiting, WithPool, Runs

(* Only in the synchronising phases does a thread save an unchanged cache. *)
LEMMA NobodySaves ==
  ASSUME Control, JobKind # "update", NEW w \in Worker
  PROVE  wpc[w] \in {"idle", "scan"}
  <1>1. WorkersInv /\ PhaseInv
    BY DEF Control, Places
  <1> QED BY <1>1 DEF WorkersInv, PhaseInv

LEMMA DataFrame ==
  ASSUME Control, Data, Control', VersionsInv',
         UNCHANGED <<scanned, bin, copied, entries, refused, copyQueue, cpc, task, open>>,
         \A p \in Path : newest[p] <= newest'[p],
         \A w \in Worker : wpc'[w] \in {"age", "save"} =>
           wpc[w] \in {"age", "save"} /\ running'[w].source = running[w].source,
         \A s \in Source : Waiting(s)' => Waiting(s),
         mpc' \in Scanning \cup {"start"} => mpc \in Scanning \cup {"start"},
         mpc' = "start" => mpc = "start",
         mpc' \notin Scanning => mpc \notin Scanning
  PROVE  Data'
  <1>0. TypeOK /\ TypeOK'
    BY DEF Control
  <1>1. \A s : Fresh(s)' = Fresh(s)
    BY DEF Fresh
  <1>2. TasksInv'
    <2>1. open' # NoFile => scanned'[open'.path] <= open'.version /\ open'.version <= newest'[open'.path]
      <3> SUFFICES ASSUME open # NoFile PROVE open.version <= newest'[open.path]
        BY DEF Data, TasksInv
      <3>1. open.path \in Path /\ open.version \in Nat
        BY <1>0, TypeIs
      <3>2. newest[open.path] \in Nat
        BY <1>0, <3>1, TypeIs
      <3>3. newest'[open.path] \in Nat
        BY <1>0, <3>1 DEF TypeOK
      <3>4. open.version <= newest[open.path] /\ newest[open.path] <= newest'[open.path]
        BY <3>1 DEF Data, TasksInv
      <3> QED BY <3>1, <3>2, <3>3, <3>4
    <2> QED BY <1>1, <2>1 DEF Data, TasksInv, IsTask
  <1>3. UnchangedInv'
    BY <1>1 DEF Data, UnchangedInv
  <1>4. RefusedInv' /\ CopiedInv'
    <2>1. refused \subseteq Path /\ copied \subseteq Source
      BY <1>0 DEF TypeOK
    <2>2. \A p \in Path : SourceOf[p] \in Source
      BY HDDAssumption
    <2> QED BY <2>1, <2>2 DEF Data, RefusedInv, CopiedInv
  <1>5. EntriesInv'
    BY DEF Data, EntriesInv
  <1> QED BY <1>2, <1>3, <1>4, <1>5 DEF Data

LEMMA DataEdit ==
  ASSUME Control, Data, Control', Edit
  PROVE  Data'
  <1>0. TypeOK /\ VersionsInv
    BY DEF Control, Data
  <1>1. UNCHANGED <<disk, main, results, pool, wpc, hdd, copier, refused>>
    BY DEF Edit, Modify, Remove, Reappear
  <1>2. ASSUME NEW p \in Path
        PROVE  newest[p] <= newest'[p] /\ (src'[p] # Absent => src'[p] = newest'[p])
    <2>1. ASSUME NEW q \in Path, Modify(q)
          PROVE  newest[p] <= newest'[p] /\ (src'[p] # Absent => src'[p] = newest'[p])
      BY <1>0, <2>1, TypeIs DEF Modify, VersionsInv, TypeOK
    <2>2. ASSUME NEW q \in Path, Remove(q)
          PROVE  newest[p] <= newest'[p] /\ (src'[p] # Absent => src'[p] = newest'[p])
      BY <1>0, <2>2, TypeIs DEF Remove, VersionsInv, TypeOK
    <2>3. ASSUME NEW q \in Path, Reappear(q)
          PROVE  newest[p] <= newest'[p] /\ (src'[p] # Absent => src'[p] = newest'[p])
      BY <1>0, <2>3, TypeIs DEF Reappear, VersionsInv, TypeOK
    <2> QED BY <2>1, <2>2, <2>3 DEF Edit
  <1>3. UNCHANGED <<scanned, bin, copied, entries, refused, copyQueue, cpc, task, open, mpc, left, queue, running, wpc>>
    BY <1>1 DEF disk, main, results, pool, hdd, copier
  <1>4. VersionsInv'
    <2>1. \A p \in Path : newest'[p] \in Nat /\ newest[p] \in Nat /\ SourceOf[p] \in Source
      BY <1>0, TypeIs DEF Control, TypeOK
    <2>2. \A p \in Path : /\ scanned[p] # Absent => scanned[p] \in Nat
                          /\ p \in DOMAIN bin[SourceOf[p]] => bin[SourceOf[p]][p].hash \in Nat
      BY <1>0, TypeIs
    <2> QED BY <1>0, <1>2, <1>3, <2>1, <2>2 DEF VersionsInv
  <1>5. \A s \in Source : Waiting(s)' => Waiting(s)
    BY <1>3 DEF Waiting, WithPool
  <1> QED BY <1>2, <1>3, <1>4, <1>5, DataFrame

LEMMA VersionsFrame ==
  ASSUME Data, UNCHANGED <<src, newest, scanned, bin>>
  PROVE  VersionsInv' /\ \A s : Fresh(s)' = Fresh(s)
  BY DEF Data, VersionsInv, Fresh

LEMMA DataStart ==
  ASSUME Control, Data, Control', StartRun
  PROVE  Data'
  <1>0. /\ Places /\ TypeOK /\ mpc = "idle" /\ mpc' = "scan" /\ entries' = EmptyCache /\ refused' = {} /\ cpc' = "none"
        /\ UNCHANGED <<src, newest, scanned, bin, copied, copyQueue, task, open, queue, running, wpc>>
    BY DEF Control, StartRun, files, results, pool
  <1>1. VersionsInv'
    BY <1>0, VersionsFrame
  <1>2. copyQueue' = <<>> /\ task' = NoTask
    BY <1>0 DEF Places, QuietInv, Syncing
  <1>3. open' = NoFile
    BY <1>0, <1>2 DEF Places, CopierInv
  <1>4. TasksInv'
    BY <1>0, <1>2, <1>3 DEF TasksInv
  <1>5. \A w \in Worker : wpc[w] \in {"idle", "scan"}
    BY <1>0, NobodySaves DEF JobKind
  <1>6. UnchangedInv'
    BY <1>0, <1>5 DEF UnchangedInv
  <1>7. RefusedInv' /\ CopiedInv' /\ EntriesInv'
    BY <1>0 DEF RefusedInv, CopiedInv, EntriesInv, EmptyCache, Scanning
  <1> QED BY <1>1, <1>4, <1>6, <1>7 DEF Data

(* What the steps of the main thread do to a source that waits.            *)
LEMMA MainWaiting ==
  ASSUME Control, MainStep, ~StartCopyThread
  PROVE  /\ \A s \in Source : Waiting(s)' => Waiting(s)
         /\ mpc # "scan" => \A s \in Source : Waiting(s) => Waiting(s)'
         /\ mpc = "scan" => \A s \in Source : Unscanned(s)' <=> Unscanned(s)
  <1> USE DEF main, pool
  <1>1. ASSUME NEW s \in Source, SubmitScan(s) \/ SubmitUpdate(s)
        PROVE  /\ \A r \in Source : Waiting(r)' => Waiting(r)
               /\ mpc # "scan" => \A r \in Source : Waiting(r) => Waiting(r)'
               /\ mpc = "scan" => \A r \in Source : Unscanned(r)' <=> Unscanned(r)
    <2>0. PICK k \in {"scan", "update"} :
            /\ k = "scan" => mpc = "scan" /\ mpc' = "scan"
            /\ k = "update" => mpc = "submit"
            /\ queue' = Append(queue, [kind |-> k, source |-> s])
            /\ s \in left /\ left' = left \ {s} /\ UNCHANGED <<running, wpc>>
      <3>1. CASE SubmitScan(s)
        BY <3>1 DEF SubmitScan, Pool!Submit
      <3>2. CASE SubmitUpdate(s)
        BY <3>2 DEF SubmitUpdate, Pool!Submit
      <3> QED BY <1>1, <3>1, <3>2
    <2>1. [kind |-> k, source |-> s] \in Job
      BY DEF Job
    <2>2. \A x : (\E i \in DOMAIN queue : queue[i] = x)' <=>
                 (\E i \in DOMAIN queue : queue[i] = x) \/ x = [kind |-> k, source |-> s]
      BY <2>0, <2>1, PushedJobs DEF Control
    <2>3. ASSUME NEW r \in Source
          PROVE  /\ WithPool(r)' <=> WithPool(r) \/ (k = "update" /\ r = s)
                 /\ Unscanned(r)' <=> \/ r \in left \ {s} \/ (k = "scan" /\ r = s)
                                      \/ \E i \in DOMAIN queue : queue[i] = [kind |-> "scan", source |-> r]
                                      \/ \E w \in Worker : wpc[w] = "scan" /\ running[w].source = r
      BY <2>0, <2>2 DEF WithPool, Unscanned
    <2> QED BY <2>0, <2>3 DEF Waiting, Unscanned
  <1>2. ASSUME ~(\E s \in Source : SubmitScan(s) \/ SubmitUpdate(s)) PROVE UNCHANGED <<left, queue, running, wpc>>
    BY <1>2 DEF MainStep, JoinScans, Pool!JoinCall, ScansJoined, Pool!JoinReturn, ResetCopiedFlags,
                IncrementPendingSources, JoinUpdates, UpdatesJoined, MarkAllSourcesSubmitted, MainWaits,
                WaitUntilDone, Stop, StopNotifies, JoinCopyThread, MarkSuccess
  <1> QED BY <1>1, <1>2 DEF Waiting, WithPool, Unscanned

LEMMA DataMain ==
  ASSUME Control, Data, Control', MainStep
  PROVE  Data'
  <1> USE DEF main, disk, files, results, hdd, copier
  <1>0. /\ TypeOK /\ Places
        /\ UNCHANGED <<src, newest, scanned, bin, entries, refused, copyQueue, task, open, wpc, running>>
    BY DEF Control, MainStep, SubmitScan, SubmitUpdate, Pool!Submit, JoinScans, Pool!JoinCall, ScansJoined,
           Pool!JoinReturn, ResetCopiedFlags, StartCopyThread, IncrementPendingSources, JoinUpdates,
           UpdatesJoined, MarkAllSourcesSubmitted, MainWaits, WaitUntilDone, Stop, StopNotifies,
           JoinCopyThread, MarkSuccess, pool
  <1>1. VersionsInv' /\ \A s : Fresh(s)' = Fresh(s)
    BY <1>0, VersionsFrame
  <1>2. CASE StartCopyThread
    <2>0. mpc = "start" /\ mpc' = "update" /\ cpc' = "loop" /\ copied' = copied
      BY <1>2 DEF StartCopyThread
    <2>1. copyQueue = <<>> /\ task = NoTask
      BY <1>0, <2>0 DEF Places, QuietInv, Syncing
    <2>2. open' = NoFile
      BY <1>0, <2>1 DEF Places, CopierInv
    <2>3. refused = {} /\ copied = {} /\ entries = EmptyCache
      BY <2>0 DEF Data, RefusedInv, CopiedInv, EntriesInv
    <2>4. TasksInv' /\ RefusedInv' /\ CopiedInv'
      BY <1>0, <2>0, <2>1, <2>2, <2>3 DEF TasksInv, RefusedInv, CopiedInv, Scanning
    <2>5. EntriesInv'
      BY <1>0, <2>0, <2>3 DEF EntriesInv, EmptyCache, Scanning
    <2>6. UnchangedInv'
      BY <1>0, <2>0, NobodySaves DEF UnchangedInv, JobKind
    <2> QED BY <1>1, <2>4, <2>5, <2>6 DEF Data
  <1>3. CASE ResetCopiedFlags
    <2>0. mpc = "reset" /\ mpc' = "start" /\ copied' = {} /\ cpc' = cpc
      BY <1>3 DEF ResetCopiedFlags
    <2>1. copyQueue = <<>> /\ task = NoTask
      BY <1>0, <2>0 DEF Places, QuietInv, Syncing
    <2>2. open' = NoFile /\ cpc' \notin {"copy", "age", "save", "decrement"}
      BY <1>0, <2>0, <2>1 DEF Places, CopierInv
    <2>3. refused = {} /\ entries = EmptyCache
      BY <2>0 DEF Data, RefusedInv, CopiedInv, EntriesInv, Scanning
    <2>4. TasksInv' /\ RefusedInv' /\ CopiedInv'
      BY <1>0, <2>0, <2>1, <2>2, <2>3 DEF TasksInv, RefusedInv, CopiedInv, Scanning
    <2>5. EntriesInv'
      BY <1>0, <2>0, <2>3 DEF EntriesInv, EmptyCache, Scanning
    <2>6. UnchangedInv'
      BY <1>0, <2>0, NobodySaves DEF UnchangedInv, JobKind
    <2> QED BY <1>1, <2>4, <2>5, <2>6 DEF Data
  <1>4. CASE ~StartCopyThread /\ ~ResetCopiedFlags
    <2>1. \A s \in Source : Waiting(s)' => Waiting(s)
      BY <1>4, MainWaiting
    <2>2. /\ UNCHANGED <<copied, cpc>>
          /\ mpc' \in Scanning \cup {"start"} => mpc \in Scanning \cup {"start"}
          /\ mpc' = "start" => mpc = "start"
          /\ mpc' \notin Scanning => mpc \notin Scanning
      BY <1>4 DEF MainStep, SubmitScan, SubmitUpdate, JoinScans, ScansJoined,
           IncrementPendingSources, JoinUpdates, UpdatesJoined, MarkAllSourcesSubmitted, MainWaits,
           WaitUntilDone, Stop, StopNotifies, JoinCopyThread, MarkSuccess, Scanning
    <2>3. \A p \in Path : newest[p] <= newest'[p]
      BY <1>0, TypeIs
    <2> QED BY <1>0, <1>1, <2>1, <2>2, <2>3, DataFrame
  <1> QED BY <1>2, <1>3, <1>4

(* A scan finds what is there, while nothing is compared or copied.        *)
LEMMA DataScan ==
  ASSUME Control, Data, Control', NEW w \in Worker, Scan(w)
  PROVE  Data'
  <1> USE DEF main, disk, files, results, hdd, copier
  <1>0. /\ TypeOK /\ Places /\ wpc[w] = "scan"
        /\ scanned' = [p \in Path |-> IF p \in FilesOf(running[w].source) THEN src[p] ELSE scanned[p]]
        /\ wpc' = [wpc EXCEPT ![w] = "idle"]
        /\ UNCHANGED <<src, newest, bin, entries, refused, copyQueue, task, open, cpc, copied, mpc, left, queue>>
    BY DEF Control, Scan, EndJob, Pool!Finish
  <1>1. JobKind = "scan"
    BY <1>0, JobIs DEF Places, WorkersInv, PhaseInv
  <1>2. mpc \in {"scan", "joinScan"}
    BY <1>1 DEF JobKind
  <1>3. copyQueue = <<>> /\ task = NoTask
    BY <1>0, <1>2 DEF Places, QuietInv, Syncing
  <1>4. open' = NoFile /\ cpc' \notin {"copy", "age", "save", "decrement"}
    BY <1>0, <1>3 DEF Places, CopierInv
  <1>5. refused = {} /\ entries = EmptyCache
    BY <1>2 DEF Data, RefusedInv, EntriesInv, Scanning
  <1>6. TasksInv' /\ RefusedInv' /\ CopiedInv' /\ EntriesInv'
    BY <1>0, <1>2, <1>3, <1>4, <1>5 DEF TasksInv, RefusedInv, CopiedInv, EntriesInv, EmptyCache, Scanning
  <1>7. UnchangedInv'
    BY <1>0, <1>1, NobodySaves DEF UnchangedInv, TypeOK
  <1>8. VersionsInv'
    <2> SUFFICES ASSUME NEW p \in Path
        PROVE  LET c == bin[SourceOf[p]] IN
                 /\ src[p] # Absent => src[p] = newest[p]
                 /\ scanned'[p] # Absent => scanned'[p] <= newest[p]
                 /\ p \in DOMAIN c => c[p].hash <= newest[p]
                 /\ p \in DOMAIN c /\ scanned'[p] # Absent => c[p].hash <= scanned'[p]
      BY <1>0 DEF VersionsInv
    <2>1. scanned'[p] = scanned[p] \/ scanned'[p] = src[p]
      BY <1>0
    <2>2. newest[p] \in Nat
      BY <1>0, TypeIs
    <2> QED BY <1>0, <2>1, <2>2 DEF Data, VersionsInv
  <1> QED BY <1>6, <1>7, <1>8 DEF Data

(* The steps of a job that leave caches and queue alone.                   *)
LEMMA DataJobGoesOn ==
  ASSUME Control, Data, Control', NEW w \in Worker,
         TakeJob(w) \/ FindID(w) \/ TruncateIndex(w) \/ WriteIndex(w) \/ NotifyOne(w) \/ AgeUnchanged(w)
  PROVE  Data'
  <1> USE DEF main, disk, files, results, hdd, copier
  <1>0. /\ TypeOK /\ DOMAIN wpc = Worker /\ DOMAIN running = Worker
        /\ UNCHANGED <<src, newest, scanned, bin, entries, refused, copyQueue, task, open, cpc, copied, mpc, left>>
    BY DEF Control, TypeOK, TakeJob, FindID, TruncateIndex, WriteIndex, NotifyOne, AgeUnchanged, EndJob
  <1>1. VersionsInv'
    BY <1>0, VersionsFrame
  <1>2. \A p \in Path : newest[p] <= newest'[p]
    BY <1>0, TypeIs
  <1>3. /\ \A r \in Source : WithPool(r)' => WithPool(r)
        /\ \A v \in Worker : wpc'[v] \in {"age", "save"} =>
             wpc[v] \in {"age", "save"} /\ running'[v].source = running[v].source
    <2>1. CASE TakeJob(w)
      <3>1. \A r \in Source : WithPool(r)' <=> WithPool(r)
        BY <2>1, TakePlaces
      <3>2. /\ \A v \in Worker : v # w => wpc'[v] = wpc[v] /\ running'[v] = running[v]
            /\ wpc'[w] \in {"scan", "index"}
        BY <1>0, <2>1 DEF TakeJob, Pool!Take
      <3> QED BY <3>1, <3>2
    <2>2. CASE FindID(w) \/ TruncateIndex(w) \/ WriteIndex(w)
      <3>1. PICK pc \in {"indexing", "sync"} : Goto(w, pc) /\ wpc[w] \in {"index", "indexing"}
        BY <2>2 DEF FindID, TruncateIndex, WriteIndex
      <3>2. \A r \in Source : WithPool(r)' <=> WithPool(r)
        BY <1>0, <2>2, <3>1, SamePlaces DEF FindID, TruncateIndex, WriteIndex
      <3>3. /\ \A v \in Worker : v # w => wpc'[v] = wpc[v]
            /\ wpc'[w] = pc /\ running' = running
        BY <1>0, <3>1 DEF Goto, pool
      <3> QED BY <3>2, <3>3
    <2>3. CASE NotifyOne(w)
      <3>1. /\ EndJob(w) /\ wpc[w] = "notify" /\ pending' = pending
        BY <2>3 DEF NotifyOne
      <3>2. \A r \in Source : WithPool(r)' <=> WithPool(r)
        BY <1>0, <3>1, WorkerEnds DEF Control, Places
      <3>3. \A v \in Worker : /\ v # w => wpc'[v] = wpc[v] /\ running'[v] = running[v]
                              /\ wpc'[w] = "idle"
        BY <1>0, <3>1 DEF EndJob, Pool!Finish
      <3> QED BY <3>2, <3>3
    <2>4. CASE AgeUnchanged(w)
      <3>1. Goto(w, "save") /\ wpc[w] = "age" /\ UNCHANGED <<pending, missed>>
        BY <2>4 DEF AgeUnchanged
      <3>2. \A r \in Source : WithPool(r)' <=> WithPool(r)
        BY <1>0, <2>4, <3>1, SamePlaces DEF AgeUnchanged
      <3>3. /\ \A v \in Worker : v # w => wpc'[v] = wpc[v]
            /\ running' = running
        BY <1>0, <3>1 DEF Goto, pool
      <3> QED BY <3>1, <3>2, <3>3
    <2> QED BY <2>1, <2>2, <2>3, <2>4
  <1>4. \A r \in Source : Waiting(r)' => Waiting(r)
    BY <1>0, <1>3 DEF Waiting
  <1> QED BY <1>0, <1>1, <1>2, <1>3, <1>4, DataFrame

(* The source that a job compares is not copied in this run.               *)
LEMMA ComparedIs ==
  ASSUME Control, Data, NEW w \in Worker, wpc[w] = "sync"
  PROVE  LET s == running[w].source IN
           /\ s \in Source /\ Waiting(s) /\ s \notin copied
           /\ \A p \in refused : SourceOf[p] # s
           /\ \A i \in DOMAIN copyQueue : copyQueue[i].source # s
           /\ task # NoTask => task.source # s
           /\ mpc \in {"update", "submit", "joinUpdate"}
           /\ \A v \in Worker : wpc[v] \in {"age", "save"} => running[v].source # s
  <1> DEFINE s == running[w].source
  <1>0. TypeOK /\ Places
    BY DEF Control
  <1>1. s \in Source /\ running[w] # NoJob /\ running[w].kind = "update"
    BY <1>0, JobIs DEF Places, WorkersInv
  <1>2. Waiting(s)
    BY DEF Waiting, WithPool
  <1>3. mpc \in {"update", "submit", "joinUpdate"}
    BY <1>0, <1>1 DEF Places, PhaseInv, JobKind
  <1>4. s \notin copied
    BY <1>2, <1>3 DEF Data, CopiedInv, Scanning
  <1>5. \A p \in refused : SourceOf[p] # s
    BY <1>2 DEF Data, RefusedInv
  <1>6. \A i \in DOMAIN copyQueue : copyQueue[i].source # s
    BY <1>2, QueuedTaskIs
  <1>7. task # NoTask => task.source # s
    BY <1>2, TaskIs
  <1>8. ASSUME NEW v \in Worker, wpc[v] \in {"age", "save"} PROVE running[v].source # s
    <2>1. running[v] # NoJob
      BY <1>0, <1>8 DEF Places, WorkersInv
    <2> QED BY <1>0, <1>1, <1>8, <2>1 DEF Places, JobsOnce, Runs
  <1> QED BY <1>1, <1>2, <1>3, <1>4, <1>5, <1>6, <1>7, <1>8

LEMMA DataNothingToCopy ==
  ASSUME Control, Data, Control', NEW w \in Worker, NothingToCopy(w)
  PROVE  Data'
  <1> USE DEF main, disk, files, results, hdd, copier
  <1>0. /\ TypeOK /\ wpc[w] = "sync" /\ Goto(w, "age") /\ DOMAIN wpc = Worker
        /\ FilesToCopy(bin[running[w].source], Fresh(running[w].source)) = {}
        /\ UNCHANGED <<src, newest, scanned, bin, entries, refused, copyQueue, task, open, cpc, copied, mpc, left>>
    BY DEF Control, TypeOK, NothingToCopy, DecrementPendingSources
  <1>1. VersionsInv' /\ \A s : Fresh(s)' = Fresh(s)
    BY <1>0, VersionsFrame
  <1>2. /\ \A v \in Worker : v # w => wpc'[v] = wpc[v]
        /\ running' = running
    BY <1>0 DEF Goto, pool
  <1>3. \A r \in Source : Waiting(r)' => Waiting(r)
    <2>1. \A r \in Source : WithPool(r)' => WithPool(r)
      BY NothingToCopyPlaces
    <2> QED BY <1>0, <2>1 DEF Waiting
  <1>4. UnchangedInv'
    <2> SUFFICES ASSUME NEW v \in Worker, wpc'[v] \in {"age", "save"}
        PROVE  FilesToCopy(bin[running[v].source], Fresh(running[v].source)) = {}
      BY <1>0, <1>1, <1>2 DEF UnchangedInv
    <2> QED BY <1>0, <1>2 DEF Data, UnchangedInv
  <1>5. TasksInv'
    BY <1>0, <1>1 DEF Data, TasksInv, IsTask
  <1>6. RefusedInv' /\ CopiedInv'
    <2>1. refused \subseteq Path /\ copied \subseteq Source /\ \A p \in Path : SourceOf[p] \in Source
      BY <1>0, HDDAssumption DEF TypeOK
    <2> QED BY <1>0, <1>3, <2>1 DEF Data, RefusedInv, CopiedInv
  <1>7. EntriesInv'
    BY <1>0 DEF Data, EntriesInv
  <1> QED BY <1>1, <1>4, <1>5, <1>6, <1>7 DEF Data

LEMMA DataSubmitCopy ==
  ASSUME Control, Data, Control', NEW w \in Worker, SubmitCopyQueue(w)
  PROVE  Data'
  <1> USE DEF main, disk, files, results, hdd, copier
  <1> PICK s : s = running[w].source
    OBVIOUS
  <1> DEFINE t == [source |-> s, todo |-> FilesToCopy(bin[s], Fresh(s)), fresh |-> Fresh(s), failed |-> FALSE]
  <1>0. /\ TypeOK /\ wpc[w] = "sync" /\ Goto(w, "notify") /\ DOMAIN wpc = Worker
        /\ copyQueue' = Append(copyQueue, t)
        /\ UNCHANGED <<src, newest, scanned, bin, entries, refused, task, open, cpc, copied, mpc, left>>
    BY DEF Control, TypeOK, SubmitCopyQueue
  <1>1. VersionsInv' /\ \A r : Fresh(r)' = Fresh(r)
    BY <1>0, VersionsFrame
  <1>2. /\ \A v \in Worker : v # w => wpc'[v] = wpc[v]
        /\ wpc'[w] = "notify" /\ running' = running
    BY <1>0 DEF Goto, pool
  <1>3. \A r \in Source : Waiting(r)' => Waiting(r)
    <2>1. \A r \in Source : WithPool(r)' => WithPool(r)
      BY SubmitCopyPlaces
    <2> QED BY <1>0, <2>1 DEF Waiting
  <1>4. /\ s \in Source /\ s \notin copied /\ \A p \in refused : SourceOf[p] # s
        /\ mpc \in {"update", "submit", "joinUpdate"}
    BY <1>0, ComparedIs
  <1>5. t.source = s /\ ~t.failed /\ t.fresh = Fresh(s) /\ t.todo = FilesToCopy(bin[s], Fresh(s))
    OBVIOUS
  <1> HIDE DEF t
  <1>6. \A i \in DOMAIN copyQueue' : (i \in DOMAIN copyQueue /\ copyQueue'[i] = copyQueue[i]) \/ copyQueue'[i] = t
    <2>1. copyQueue \in Seq(Task \cup {t})
      BY <1>0 DEF TypeOK
    <2> QED BY <1>0, <2>1, AppendIs
  <1>7. UnchangedInv'
    BY <1>0, <1>1, <1>2 DEF Data, UnchangedInv
  <1>8. TasksInv'
    <2>1. \A i \in DOMAIN copyQueue' : IsTask(copyQueue'[i]) /\ ~copyQueue'[i].failed
      BY <1>5, <1>6 DEF Data, TasksInv, IsTask
    <2>2. \A i \in DOMAIN copyQueue' : IsTask(copyQueue[i])' /\ ~copyQueue'[i].failed
      BY <1>0, <1>1, <2>1 DEF IsTask
    <2> QED BY <1>0, <1>1, <2>2 DEF Data, TasksInv, IsTask
  <1>9. RefusedInv'
    <2>1. refused \subseteq Path /\ \A p \in Path : SourceOf[p] \in Source
      BY <1>0, HDDAssumption DEF TypeOK
    <2> QED BY <1>0, <1>3, <1>4, <1>5, <1>6, <2>1 DEF Data, RefusedInv
  <1>10. CopiedInv'
    <2>1. copied \subseteq Source
      BY <1>0 DEF TypeOK
    <2> QED BY <1>0, <1>3, <1>4, <1>5, <1>6, <2>1 DEF Data, CopiedInv
  <1>11. EntriesInv'
    BY <1>0 DEF Data, EntriesInv
  <1> QED BY <1>1, <1>7, <1>8, <1>9, <1>10, <1>11 DEF Data

LEMMA CacheOfIs ==
  ASSUME NEW s
  PROVE  /\ DOMAIN CacheOf(s) = DOMAIN bin[s]
         /\ \A p \in DOMAIN bin[s] :
              /\ CacheOf(s)[p].hash = bin[s][p].hash
              /\ p \notin DOMAIN Fresh(s) => CacheOf(s)[p] = bin[s][p]
  BY DEF CacheOf, MarkVisited, Entry

(* What a job that saves works on.                                         *)
LEMMA SavedIs ==
  ASSUME Control, Data, NEW w \in Worker, wpc[w] \in {"age", "save"}
  PROVE  LET s == running[w].source IN
           /\ s \in Source
           /\ \A i \in DOMAIN copyQueue : copyQueue[i].source # s
           /\ task # NoTask => task.source # s
           /\ mpc \in {"update", "submit", "joinUpdate"}
           /\ ~Waiting(s)
           /\ \A v \in Worker : wpc[v] # "idle" /\ running[v].source = s => v = w
           /\ \A p \in DOMAIN Fresh(s) : p \in DOMAIN bin[s] /\ bin[s][p].hash = scanned[p]
  <1> DEFINE s == running[w].source
  <1>0. TypeOK /\ Places
    BY DEF Control
  <1>1. s \in Source /\ running[w] # NoJob /\ running[w].kind = "update"
    BY <1>0, JobIs DEF Places, WorkersInv
  <1>2. mpc \in {"update", "submit", "joinUpdate"}
    BY <1>0, <1>1 DEF Places, PhaseInv, JobKind
  <1>3. \A v \in Worker : wpc[v] # "idle" /\ running[v].source = s => v = w
    BY <1>0, <1>1 DEF Places, JobsOnce, Runs, WorkersInv
  <1>4. ~Waiting(s)
    <2>1. s \notin left /\ ~JobQueued(s)
      BY <1>0, <1>1 DEF Places, JobsOnce, Runs
    <2>2. \A j \in DOMAIN queue : queue[j] # [kind |-> "update", source |-> s]
      BY <2>1 DEF JobQueued
    <2> QED BY <1>3, <2>1, <2>2 DEF Waiting, WithPool
  <1>5. \A i \in DOMAIN copyQueue : copyQueue[i].source # s
    BY QueuedTaskIs
  <1>6. task # NoTask => task.source # s
    BY TaskIs
  <1>7. \A p \in DOMAIN Fresh(s) : p \in DOMAIN bin[s] /\ bin[s][p].hash = scanned[p]
    <2>1. FilesToCopy(bin[s], Fresh(s)) = {}
      BY DEF Data, UnchangedInv
    <2>2. {p \in Path : /\ SourceOf[p] = s /\ scanned[p] # Absent
                        /\ p \in DOMAIN bin[s] => bin[s][p].hash # scanned[p]} = {}
      BY <2>1, ToCopyIs
    <2>3. DOMAIN Fresh(s) = {p \in Path : SourceOf[p] = s /\ scanned[p] # Absent}
      BY FreshIs
    <2> HIDE DEF s
    <2> QED BY <2>2, <2>3
  <1> QED BY <1>1, <1>2, <1>3, <1>4, <1>5, <1>6, <1>7

LEMMA DataSaveUnchanged ==
  ASSUME Control, Data, Control', NEW w \in Worker, SaveUnchanged(w)
  PROVE  Data'
  <1> USE DEF main, disk, files, results, hdd, copier
  <1> PICK s : s = running[w].source
    OBVIOUS
  <1>0. /\ TypeOK /\ wpc[w] = "save" /\ EndJob(w) /\ DOMAIN wpc = Worker /\ DOMAIN running = Worker
        /\ bin' = [bin EXCEPT ![s] = Refresh(CacheOf(s), Fresh(s), MaxMiss)] /\ DOMAIN bin = Source
        /\ UNCHANGED <<src, newest, scanned, entries, refused, copyQueue, pending, task, open, cpc, copied, mpc, left>>
    BY DEF Control, TypeOK, SaveUnchanged, EndJob
  <1>1. /\ s \in Source /\ \A i \in DOMAIN copyQueue : copyQueue[i].source # s
        /\ task # NoTask => task.source # s
        /\ mpc \in {"update", "submit", "joinUpdate"}
        /\ \A v \in Worker : wpc[v] # "idle" /\ running[v].source = s => v = w
        /\ \A p \in DOMAIN Fresh(s) : p \in DOMAIN bin[s] /\ bin[s][p].hash = scanned[p]
    BY <1>0, SavedIs
  <1>2. /\ \A v \in Worker : v # w => wpc'[v] = wpc[v] /\ running'[v] = running[v]
        /\ wpc'[w] = "idle"
    BY <1>0 DEF EndJob, Pool!Finish
  <1>3. \A r \in Source : Waiting(r)' => Waiting(r)
    <2>1. \A r \in Source : WithPool(r)' => WithPool(r)
      BY <1>0, WorkerEnds DEF Control, Places
    <2> QED BY <1>0, <2>1 DEF Waiting
  <1>4. \A r : Fresh(r)' = Fresh(r)
    BY <1>0 DEF Fresh
  <1>5. /\ \A r \in Source \ {s} : bin'[r] = bin[r]
        /\ bin'[s] = Refresh(CacheOf(s), Fresh(s), MaxMiss)
    BY <1>0, <1>1
  <1>6. VersionsInv'
    <2> SUFFICES ASSUME NEW p \in Path
        PROVE  LET c == bin'[SourceOf[p]] IN
                 /\ src[p] # Absent => src[p] = newest[p]
                 /\ scanned[p] # Absent => scanned[p] <= newest[p]
                 /\ p \in DOMAIN c => c[p].hash <= newest[p]
                 /\ p \in DOMAIN c /\ scanned[p] # Absent => c[p].hash <= scanned[p]
      BY <1>0 DEF VersionsInv
    <2>0. SourceOf[p] \in Source /\ newest[p] \in Nat /\ (scanned[p] # Absent => scanned[p] \in Nat)
      BY <1>0, TypeIs
    <2>1. CASE SourceOf[p] # s
      BY <1>5, <2>0, <2>1 DEF Data, VersionsInv
    <2>2. CASE SourceOf[p] = s /\ p \in DOMAIN bin'[s]
      <3>1. \/ p \in DOMAIN Fresh(s) /\ bin'[s][p].hash = Fresh(s)[p]
            \/ p \in DOMAIN CacheOf(s) \ DOMAIN Fresh(s) /\ bin'[s][p].hash = CacheOf(s)[p].hash
        BY <1>5, <2>2, RefreshIs
      <3>2. CASE p \in DOMAIN Fresh(s) /\ bin'[s][p].hash = Fresh(s)[p]
        <4>1. bin'[s][p].hash = scanned[p] /\ scanned[p] # Absent
          <5>1. /\ DOMAIN Fresh(s) = {q \in Path : SourceOf[q] = s /\ scanned[q] # Absent}
                /\ \A q \in DOMAIN Fresh(s) : Fresh(s)[q] = scanned[q]
            BY FreshIs
          <5> QED BY <3>2, <5>1
        <4>2. scanned[p] <= newest[p]
          BY <4>1 DEF Data, VersionsInv
        <4> QED BY <2>0, <2>2, <4>1, <4>2 DEF Data, VersionsInv
      <3>3. CASE p \in DOMAIN CacheOf(s) \ DOMAIN Fresh(s) /\ bin'[s][p].hash = CacheOf(s)[p].hash
        BY <2>2, <3>3, CacheOfIs DEF Data, VersionsInv
      <3> QED BY <3>1, <3>2, <3>3
    <2>3. CASE SourceOf[p] = s /\ p \notin DOMAIN bin'[s]
      BY <2>3 DEF Data, VersionsInv
    <2> QED BY <2>1, <2>2, <2>3
  <1>7. TasksInv'
    <2>1. \A i \in DOMAIN copyQueue : IsTask(copyQueue[i])' /\ ~copyQueue[i].failed
      <3> SUFFICES ASSUME NEW i \in DOMAIN copyQueue PROVE IsTask(copyQueue[i])' /\ ~copyQueue[i].failed
        OBVIOUS
      <3>1. copyQueue[i].source \in Source \ {s}
        BY <1>1, QueuedTaskIs
      <3>2. bin'[copyQueue[i].source] = bin[copyQueue[i].source]
        BY <1>5, <3>1
      <3> QED BY <1>0, <1>4, <3>2 DEF Data, TasksInv, IsTask
    <2>2. cpc = "copy" => IsTask(task)'
      <3> SUFFICES ASSUME cpc = "copy" PROVE IsTask(task)'
        OBVIOUS
      <3>1. task # NoTask
        BY DEF Control, Places, CopierInv
      <3>2. task.source \in Source \ {s}
        BY <1>1, <3>1, TaskIs
      <3>3. bin'[task.source] = bin[task.source]
        BY <1>5, <3>2
      <3> QED BY <1>0, <1>4, <3>3 DEF Data, TasksInv, IsTask
    <2> QED BY <1>0, <1>4, <2>1, <2>2 DEF Data, TasksInv
  <1>8. UnchangedInv'
    <2> SUFFICES ASSUME NEW v \in Worker, wpc'[v] \in {"age", "save"}
        PROVE  FilesToCopy(bin'[running'[v].source], Fresh(running'[v].source)) = {}
      BY <1>4 DEF UnchangedInv
    <2>1. v # w /\ wpc[v] \in {"age", "save"} /\ running'[v] = running[v]
      BY <1>2
    <2>2. running[v].source \in Source \ {s}
      BY <1>1, <2>1, SavedIs
    <2> QED BY <1>5, <2>1, <2>2 DEF Data, UnchangedInv
  <1>9. RefusedInv' /\ CopiedInv'
    <2>1. refused \subseteq Path /\ copied \subseteq Source /\ \A p \in Path : SourceOf[p] \in Source
      BY <1>0, HDDAssumption DEF TypeOK
    <2> QED BY <1>0, <1>3, <2>1 DEF Data, RefusedInv, CopiedInv
  <1>10. EntriesInv'
    BY <1>0 DEF Data, EntriesInv
  <1> QED BY <1>6, <1>7, <1>8, <1>9, <1>10 DEF Data

(* The copy thread, caches apart.                                          *)
LEMMA CopierKeepsVersions ==
  ASSUME Control, Data, CopierStep
  PROVE  /\ UNCHANGED <<src, newest, scanned, mpc, left, queue, running, wpc>>
         /\ ~SaveCopied => VersionsInv' /\ UnchangedInv' /\ UNCHANGED bin
         /\ \A s : Fresh(s)' = Fresh(s)
         /\ \A s : Waiting(s)' <=> Waiting(s)
  <1> USE DEF main, disk, files, results, hdd, copier, pool
  <1>1. /\ UNCHANGED <<src, newest, scanned, mpc, left, queue, running, wpc>>
        /\ ~SaveCopied => UNCHANGED bin
    BY DEF CopierStep, CopierWaits, TakeTask, CopierExits, CopyRefused, RootNotFound, CopyFails, OpenDestination,
           FinishCopy, GiveUpSource, MarkCopied, AgeCopied, SaveCopied, SourceDone
  <1>2. \A s : Fresh(s)' = Fresh(s)
    BY <1>1 DEF Fresh
  <1>3. ~SaveCopied => VersionsInv'
    BY <1>1 DEF Data, VersionsInv
  <1>4. ~SaveCopied => UnchangedInv'
    BY <1>1, <1>2 DEF Data, UnchangedInv
  <1>5. \A s : Waiting(s)' <=> Waiting(s)
    BY <1>1 DEF Waiting, WithPool
  <1> QED BY <1>1, <1>2, <1>3, <1>4, <1>5

LEMMA DataTakeTask ==
  ASSUME Control, Data, Control', TakeTask
  PROVE  Data'
  <1> USE DEF main, disk, files, results, hdd, copier
  <1>0. /\ TypeOK /\ Places /\ cpc = "loop" /\ cpc' = "copy" /\ copyQueue # <<>>
        /\ task' = Head(copyQueue) /\ copyQueue' = Tail(copyQueue)
        /\ UNCHANGED <<bin, scanned, mpc, open, entries, copied, refused>>
    BY DEF Control, TakeTask, CopierWakes
  <1>1. /\ VersionsInv' /\ UnchangedInv'
        /\ \A s : Fresh(s)' = Fresh(s)
        /\ \A s : Waiting(s)' <=> Waiting(s)
    <2>1. ~SaveCopied
      BY <1>0 DEF SaveCopied
    <2> QED BY <2>1, CopierKeepsVersions DEF CopierStep
  <1>2. /\ 1 \in DOMAIN copyQueue /\ task' = copyQueue[1]
        /\ \A i \in DOMAIN copyQueue' : \E j \in DOMAIN copyQueue : copyQueue'[i] = copyQueue[j]
    <2>1. copyQueue \in Seq(Task)
      BY <1>0 DEF TypeOK
    <2> QED BY <1>0, <2>1, TailIs
  <1>3. task = NoTask /\ open = NoFile /\ mpc \in Syncing
    BY <1>0 DEF Places, CopierInv, QuietInv
  <1>4. IsTask(task') /\ ~task'.failed
    BY <1>2 DEF Data, TasksInv
  <1>5. TasksInv'
    <2>1. \A i \in DOMAIN copyQueue' : IsTask(copyQueue'[i]) /\ ~copyQueue'[i].failed
      BY <1>2 DEF Data, TasksInv
    <2>2. \A i \in DOMAIN copyQueue' : IsTask(copyQueue[i])' /\ ~copyQueue'[i].failed
      BY <1>0, <1>1, <2>1 DEF IsTask
    <2>3. IsTask(task)'
      BY <1>0, <1>1, <1>4 DEF IsTask
    <2> QED BY <1>0, <1>3, <2>2, <2>3 DEF TasksInv, IsTask
  <1>6. RefusedInv'
    <2>1. \A p \in refused : \A i \in DOMAIN copyQueue : copyQueue[i].source # SourceOf[p]
      BY DEF Data, RefusedInv
    <2> QED BY <1>0, <1>1, <1>2, <2>1 DEF Data, RefusedInv
  <1>7. CopiedInv'
    <2>1. \A s \in copied : \A i \in DOMAIN copyQueue : copyQueue[i].source # s
      BY <1>3 DEF Data, CopiedInv, Scanning, Syncing
    <2> QED BY <1>0, <1>1, <1>2, <1>3, <2>1 DEF Data, CopiedInv, Syncing, Scanning
  <1>8. EntriesInv'
    BY <1>0 DEF Data, EntriesInv
  <1> QED BY <1>1, <1>5, <1>6, <1>7, <1>8 DEF Data

(* The copy thread has no source any more, or waits for one.               *)
LEMMA DataNoTask ==
  ASSUME Control, Data, Control', CopierWaits \/ CopierExits \/ GiveUpSource \/ SourceDone
  PROVE  Data'
  <1> USE DEF main, disk, files, results, hdd, copier
  <1>0. /\ TypeOK /\ Places /\ cpc' \in {"loop", "exited"} /\ ~SaveCopied
        /\ UNCHANGED <<bin, scanned, mpc, open, entries, copied, refused, copyQueue>>
    BY DEF Control, CopierWaits, CopierExits, GiveUpSource, SourceDone, CopierWakes, SaveCopied, DecrementPendingSources
  <1>1. task' = NoTask /\ open' = NoFile
    BY <1>0 DEF Control, Places, CopierInv
  <1>2. /\ VersionsInv' /\ UnchangedInv'
        /\ \A s : Fresh(s)' = Fresh(s)
        /\ \A s : Waiting(s)' <=> Waiting(s)
    BY <1>0, CopierKeepsVersions DEF CopierStep
  <1>3. TasksInv'
    BY <1>0, <1>1, <1>2 DEF Data, TasksInv, IsTask
  <1>4. RefusedInv' /\ CopiedInv'
    BY <1>0, <1>1, <1>2 DEF Data, RefusedInv, CopiedInv
  <1>5. EntriesInv'
    BY <1>0 DEF Data, EntriesInv
  <1> QED BY <1>2, <1>3, <1>4, <1>5 DEF Data

(* A copy is refused, begins or ends.                                      *)
LEMMA DataCopy ==
  ASSUME Control, Data, Control', cpc = "copy", cpc' = "copy", ~SaveCopied, CopierStep,
         UNCHANGED <<entries, copied, copyQueue>>,
         task' \in Task, task'.source = task.source, task'.fresh = task.fresh, task'.todo \subseteq task.todo,
         refused' \ refused \subseteq task.todo, refused' \subseteq Path, refused \subseteq refused',
         task.failed => task'.failed, refused' # refused => task'.failed,
         open' \in {open, NoFile} \/ (open'.path \in task.todo /\ open'.version = src[open'.path] /\ src[open'.path] # Absent)
  PROVE  Data'
  <1>0. TypeOK /\ Places /\ task # NoTask /\ task \in Task
    BY TypeIs DEF Control, Places, CopierInv
  <1>1. /\ VersionsInv' /\ UnchangedInv' /\ UNCHANGED <<src, newest, scanned, mpc, bin>>
        /\ \A s : Fresh(s)' = Fresh(s)
        /\ \A s : Waiting(s)' <=> Waiting(s)
    BY CopierKeepsVersions
  <1>2. /\ task.source \in Source /\ task.todo \subseteq Path /\ ~Waiting(task.source) /\ mpc \in Syncing
        /\ \A i \in DOMAIN copyQueue : copyQueue[i].source # task.source
        /\ \A p \in task.todo : SourceOf[p] = task.source /\ scanned[p] # Absent
    BY <1>0, TaskIs
  <1>3. task.source \notin copied
    BY <1>0, <1>2 DEF Data, CopiedInv, Syncing, Scanning
  <1>4. task' # NoTask
    BY HDDAssumption
  <1>5. TasksInv'
    <2>1. IsTask(task)'
      BY <1>1 DEF Data, TasksInv, IsTask
    <2>2. open' # NoFile => scanned[open'.path] <= open'.version /\ open'.version <= newest[open'.path]
      <3>1. CASE open' \in {open, NoFile}
        BY <3>1 DEF Data, TasksInv
      <3>2. CASE open'.path \in task.todo /\ open'.version = src[open'.path] /\ src[open'.path] # Absent
        <4>1. open'.path \in Path /\ scanned[open'.path] # Absent
          BY <1>2, <3>2
        <4>2. src[open'.path] = newest[open'.path] /\ scanned[open'.path] <= newest[open'.path]
          BY <3>2, <4>1 DEF Data, VersionsInv
        <4>3. newest[open'.path] \in Nat
          BY <1>0, <4>1, TypeIs
        <4> QED BY <3>2, <4>2, <4>3
      <3> QED BY <3>1, <3>2
    <2> QED BY <1>1, <2>1, <2>2 DEF Data, TasksInv, IsTask
  <1>6. RefusedInv'
    <2>1. mpc' \notin Scanning \cup {"start"}
      BY <1>1, <1>2 DEF Syncing, Scanning
    <2>2. ASSUME NEW p \in refused'
          PROVE  LET s == SourceOf[p] IN
                   /\ ~Waiting(s)' /\ s \notin copied'
                   /\ \A i \in DOMAIN copyQueue' : copyQueue'[i].source # s
                   /\ task' # NoTask /\ task'.source = s => task'.failed
      <3>1. CASE p \in refused
        BY <1>0, <1>1, <3>1 DEF Data, RefusedInv
      <3>2. CASE p \notin refused
        <4>1. SourceOf[p] = task.source /\ task'.failed
          BY <1>2, <3>2
        <4> QED BY <1>1, <1>2, <1>3, <4>1
      <3> QED BY <3>1, <3>2
    <2> QED BY <2>1, <2>2 DEF RefusedInv
  <1>7. CopiedInv'
    BY <1>0, <1>1 DEF Data, CopiedInv
  <1>8. EntriesInv'
    BY <1>1 DEF Data, EntriesInv
  <1> QED BY <1>1, <1>5, <1>6, <1>7, <1>8 DEF Data

LEMMA DataMarkCopied ==
  ASSUME Control, Data, Control', MarkCopied
  PROVE  Data'
  <1> USE DEF main, disk, files, results, hdd, copier
  <1>0. /\ TypeOK /\ Places /\ cpc = "copy" /\ cpc' = "age" /\ task.todo = {} /\ ~task.failed
        /\ copied' = copied \cup {task.source} /\ ~SaveCopied
        /\ UNCHANGED <<bin, scanned, mpc, open, entries, refused, copyQueue, task>>
    BY DEF Control, MarkCopied, SaveCopied
  <1>1. task # NoTask /\ open = NoFile
    BY <1>0 DEF Places, CopierInv
  <1>2. /\ VersionsInv' /\ UnchangedInv'
        /\ \A s : Fresh(s)' = Fresh(s)
        /\ \A s : Waiting(s)' <=> Waiting(s)
    BY <1>0, CopierKeepsVersions DEF CopierStep
  <1>3. /\ ~Waiting(task.source) /\ mpc \in Syncing
        /\ \A i \in DOMAIN copyQueue : copyQueue[i].source # task.source
    BY <1>1, TaskIs
  <1>4. TasksInv'
    BY <1>0, <1>1, <1>2 DEF Data, TasksInv, IsTask
  <1>5. RefusedInv'
    <2>1. \A p \in refused : SourceOf[p] # task.source
      BY <1>0, <1>1 DEF Data, RefusedInv
    <2> QED BY <1>0, <1>2, <1>3, <2>1 DEF Data, RefusedInv
  <1>6. CopiedInv'
    BY <1>0, <1>2, <1>3 DEF Data, CopiedInv, Syncing, Scanning
  <1>7. EntriesInv'
    BY <1>0 DEF Data, EntriesInv
  <1> QED BY <1>2, <1>4, <1>5, <1>6, <1>7 DEF Data

LEMMA DataAgeCopied ==
  ASSUME Control, Data, Control', AgeCopied
  PROVE  Data'
  <1> USE DEF main, disk, files, results, hdd, copier
  <1>0. /\ TypeOK /\ Places /\ cpc = "age" /\ cpc' = "save" /\ ~SaveCopied
        /\ entries' = Refresh(entries, task.fresh, MaxMiss)
        /\ UNCHANGED <<bin, scanned, mpc, open, copied, refused, copyQueue, task>>
    BY DEF Control, AgeCopied, SaveCopied
  <1>1. task # NoTask /\ open = NoFile
    BY <1>0 DEF Places, CopierInv
  <1>2. /\ VersionsInv' /\ UnchangedInv'
        /\ \A s : Fresh(s)' = Fresh(s)
        /\ \A s : Waiting(s)' <=> Waiting(s)
    BY <1>0, CopierKeepsVersions DEF CopierStep
  <1>3. mpc \in Syncing
    BY <1>1, TaskIs
  <1>4. TasksInv'
    BY <1>0, <1>1, <1>2 DEF Data, TasksInv, IsTask
  <1>5. RefusedInv' /\ CopiedInv'
    BY <1>0, <1>2 DEF Data, RefusedInv, CopiedInv
  <1>6. EntriesInv'
    <2> PICK s : s = task.source
      OBVIOUS
    <2>0. s \in copied /\ task.fresh = Fresh(s)
      BY <1>0, <1>1 DEF Data, TasksInv, CopiedInv
    <2>1. /\ DOMAIN Fresh(s) = {p \in Path : SourceOf[p] = s /\ scanned[p] # Absent}
          /\ \A p \in DOMAIN Fresh(s) : Fresh(s)[p] = scanned[p]
      BY FreshIs
    <2>2. ASSUME NEW p \in DOMAIN entries'
          PROVE  SourceOf[p] \in copied /\ scanned[p] # Absent /\ entries'[p].hash = scanned[p]
      <3>1. \/ p \in DOMAIN Fresh(s) /\ entries'[p].hash = Fresh(s)[p]
            \/ p \in DOMAIN entries /\ entries'[p].hash = entries[p].hash
        BY <1>0, <2>0, <2>2, RefreshIs
      <3>2. CASE p \in DOMAIN Fresh(s) /\ entries'[p].hash = Fresh(s)[p]
        BY <2>0, <2>1, <3>2
      <3>3. CASE p \in DOMAIN entries /\ entries'[p].hash = entries[p].hash
        BY <3>3 DEF Data, EntriesInv
      <3> QED BY <3>1, <3>2, <3>3
    <2> QED BY <1>0, <1>3, <2>2 DEF EntriesInv, Syncing, Scanning
  <1> QED BY <1>2, <1>4, <1>5, <1>6 DEF Data

LEMMA DataSaveCopied ==
  ASSUME Control, Data, Control', SaveCopied
  PROVE  Data'
  <1> USE DEF main, disk, files, results, hdd, copier
  <1>0. /\ TypeOK /\ Places /\ cpc = "save" /\ cpc' = "decrement"
        /\ bin' = [bin EXCEPT ![task.source] = entries] /\ DOMAIN bin = Source
        /\ UNCHANGED <<src, newest, scanned, mpc, open, entries, copied, refused, copyQueue, task, wpc, running>>
    BY DEF Control, TypeOK, SaveCopied, pool
  <1>1. task # NoTask /\ open = NoFile
    BY <1>0 DEF Places, CopierInv
  <1>2. /\ \A s : Fresh(s)' = Fresh(s)
        /\ \A s : Waiting(s)' <=> Waiting(s)
    BY CopierKeepsVersions DEF CopierStep
  <1>3. /\ task.source \in Source
        /\ \A i \in DOMAIN copyQueue : copyQueue[i].source # task.source
        /\ \A w \in Worker : wpc[w] \in {"age", "save"} => running[w].source # task.source
    BY <1>1, TaskIs
  <1>4. /\ \A r \in Source : r # task.source => bin'[r] = bin[r]
        /\ bin'[task.source] = entries
    BY <1>0, <1>3
  <1>5. VersionsInv'
    <2> SUFFICES ASSUME NEW p \in Path
        PROVE  LET c == bin'[SourceOf[p]] IN
                 /\ src[p] # Absent => src[p] = newest[p]
                 /\ scanned[p] # Absent => scanned[p] <= newest[p]
                 /\ p \in DOMAIN c => c[p].hash <= newest[p]
                 /\ p \in DOMAIN c /\ scanned[p] # Absent => c[p].hash <= scanned[p]
      BY <1>0 DEF VersionsInv
    <2>0. SourceOf[p] \in Source /\ newest[p] \in Nat /\ (scanned[p] # Absent => scanned[p] \in Nat)
      BY <1>0, TypeIs
    <2>1. CASE SourceOf[p] # task.source
      BY <1>4, <2>0, <2>1 DEF Data, VersionsInv
    <2>2. CASE SourceOf[p] = task.source
      <3>1. p \in DOMAIN entries => scanned[p] # Absent /\ entries[p].hash = scanned[p]
        BY DEF Data, EntriesInv
      <3> QED BY <1>4, <2>0, <2>2, <3>1 DEF Data, VersionsInv
    <2> QED BY <2>1, <2>2
  <1>6. TasksInv'
    <2>1. \A i \in DOMAIN copyQueue : IsTask(copyQueue[i])' /\ ~copyQueue[i].failed
      <3> SUFFICES ASSUME NEW i \in DOMAIN copyQueue PROVE IsTask(copyQueue[i])' /\ ~copyQueue[i].failed
        OBVIOUS
      <3>1. copyQueue[i].source \in Source /\ copyQueue[i].source # task.source
        BY <1>3, QueuedTaskIs
      <3>2. bin'[copyQueue[i].source] = bin[copyQueue[i].source]
        BY <1>4, <3>1
      <3> QED BY <1>0, <1>2, <3>2 DEF Data, TasksInv, IsTask
    <2> QED BY <1>0, <1>1, <1>2, <2>1 DEF Data, TasksInv
  <1>7. UnchangedInv'
    <2> SUFFICES ASSUME NEW v \in Worker, wpc[v] \in {"age", "save"}
        PROVE  FilesToCopy(bin'[running[v].source], Fresh(running[v].source)) = {}
      BY <1>0, <1>2 DEF UnchangedInv
    <2>1. running[v].source \in Source /\ running[v].source # task.source
      BY <1>3, SavedIs
    <2> QED BY <1>4, <2>1 DEF Data, UnchangedInv
  <1>8. RefusedInv' /\ CopiedInv'
    BY <1>0, <1>2 DEF Data, RefusedInv, CopiedInv
  <1>9. EntriesInv'
    BY <1>0 DEF Data, EntriesInv
  <1> QED BY <1>5, <1>6, <1>7, <1>8, <1>9 DEF Data

LEMMA DataCopier ==
  ASSUME Control, Data, Control', CopierStep
  PROVE  Data'
  <1> USE DEF main, disk, files, results, hdd, copier
  <1>0. TypeOK /\ (cpc = "copy" => task # NoTask /\ task \in Task)
    BY DEF Control, Places, CopierInv, TypeOK
  <1>1. ASSUME NEW p \in Path, CopyRefused(p) \/ RootNotFound(p) PROVE Data'
    <2>1. /\ cpc = "copy" /\ cpc' = "copy" /\ ~SaveCopied /\ p \in task.todo
          /\ task' = [task EXCEPT !.todo = @ \ {p}, !.failed = TRUE]
          /\ refused' = refused \cup {p}
          /\ UNCHANGED <<entries, copied, copyQueue, open>>
      BY <1>1 DEF CopyRefused, RootNotFound, CopyFails, Copying, SaveCopied
    <2>2. refused \subseteq Path
      BY <1>0 DEF TypeOK
    <2>3. /\ task' \in Task /\ task'.source = task.source /\ task'.fresh = task.fresh
          /\ task'.todo \subseteq task.todo /\ task'.failed
      BY <1>0, <2>1 DEF Task
    <2>4. CopierStep
      BY <1>1 DEF CopierStep
    <2> QED BY <2>1, <2>2, <2>3, <2>4, DataCopy
  <1>2. ASSUME NEW p \in Path, OpenDestination(p) PROVE Data'
    <2>1. /\ cpc = "copy" /\ cpc' = "copy" /\ ~SaveCopied /\ p \in task.todo
          /\ open'.path \in task.todo /\ open'.version = src[open'.path] /\ src[open'.path] # Absent
          /\ UNCHANGED <<entries, copied, copyQueue, task, refused>>
      BY <1>2 DEF OpenDestination, Copying, SaveCopied
    <2>2. refused \subseteq Path
      BY <1>0 DEF TypeOK
    <2>3. CopierStep
      BY <1>2 DEF CopierStep
    <2> QED BY <1>0, <2>1, <2>2, <2>3, DataCopy
  <1>3. CASE FinishCopy
    <2>0. open # NoFile => cpc = "copy"
      BY DEF Control, Places, CopierInv
    <2>1. /\ cpc = "copy" /\ cpc' = "copy" /\ ~SaveCopied /\ open' = NoFile
          /\ task' = [task EXCEPT !.todo = @ \ {open.path}]
          /\ UNCHANGED <<entries, copied, copyQueue, refused>>
      BY <1>3, <2>0 DEF FinishCopy, SaveCopied
    <2>2. refused \subseteq Path
      BY <1>0 DEF TypeOK
    <2>3. /\ task' \in Task /\ task'.source = task.source /\ task'.fresh = task.fresh
          /\ task'.todo \subseteq task.todo /\ task'.failed = task.failed
      BY <1>0, <2>1 DEF Task
    <2>4. CopierStep
      BY <1>3 DEF CopierStep
    <2> QED BY <2>1, <2>2, <2>3, <2>4, DataCopy
  <1> QED BY <1>1, <1>2, <1>3, DataTakeTask, DataNoTask, DataMarkCopied, DataAgeCopied, DataSaveCopied
      DEF CopierStep

LEMMA DataInit == Init => Data
  <1> SUFFICES ASSUME Init PROVE Data
    OBVIOUS
  <1>1. /\ mpc = "idle" /\ copyQueue = <<>> /\ cpc = "none" /\ task = NoTask /\ open = NoFile
        /\ copied = {} /\ refused = {} /\ entries = EmptyCache
        /\ \A w \in Worker : wpc[w] = "idle"
        /\ \A p \in Path : /\ scanned[p] = Absent /\ bin[SourceOf[p]] = EmptyCache
                           /\ src[p] # Absent => src[p] = newest[p]
    BY HDDAssumption DEF Init
  <1>2. VersionsInv
    BY <1>1 DEF VersionsInv, EmptyCache
  <1>3. TasksInv /\ UnchangedInv
    BY <1>1 DEF TasksInv, UnchangedInv
  <1>4. RefusedInv /\ CopiedInv /\ EntriesInv
    BY <1>1 DEF RefusedInv, CopiedInv, EntriesInv, EmptyCache, Scanning
  <1> QED BY <1>2, <1>3, <1>4 DEF Data

(* A spurious wake-up or the end of the process.                           *)
LEMMA DataIdle ==
  ASSUME Control, Data, Control',
         UNCHANGED <<files, disk, main, results, pool, wpc, copyQueue, copier, refused>>
  PROVE  Data'
  <1>1. UNCHANGED <<src, newest, scanned, bin, copied, entries, refused, copyQueue, cpc, task, open, mpc, left, queue, running, wpc>>
    BY DEF files, disk, main, results, pool, copier
  <1>2. VersionsInv'
    BY <1>1, VersionsFrame
  <1>3. \A p \in Path : newest[p] <= newest'[p]
    BY <1>1, TypeIs DEF Control
  <1>4. \A s \in Source : Waiting(s)' => Waiting(s)
    BY <1>1 DEF Waiting, WithPool
  <1> QED BY <1>1, <1>2, <1>3, <1>4, DataFrame

LEMMA DataStep == Control /\ Data /\ [Next]_vars => Data'
  <1> SUFFICES ASSUME Control, Data, [Next]_vars PROVE Data'
    OBVIOUS
  <1>0. Control'
    BY ControlStep
  <1>1. ASSUME NEW w \in Worker, JobStep(w) PROVE Data'
    BY <1>0, <1>1, DataJobGoesOn, DataScan, DataSubmitCopy, DataNothingToCopy, DataSaveUnchanged DEF JobStep
  <1>2. ASSUME NEW t, SpuriousWake(t) PROVE Data'
    BY <1>0, <1>2, DataIdle DEF SpuriousWake
  <1>3. CASE ExitOnFailure
    BY <1>0, <1>3, DataIdle DEF ExitOnFailure, hdd
  <1>4. CASE UNCHANGED vars
    BY <1>0, <1>4, DataIdle DEF vars, hdd
  <1> QED BY <1>0, <1>1, <1>2, <1>3, <1>4, DataEdit, DataStart, DataMain, DataCopier DEF Next

-----------------------------------------------------------------------------
(* The destination.                                                        *)
LEMMA TruthFrame ==
  ASSUME Control, Data, Truth, UNCHANGED <<bin, scanned, dest, short>>,
         \A p \in Path : newest'[p] \in {newest[p], newest[p] + 1},
         open' \in {open, NoFile}, refused \subseteq refused',
         \A w \in Worker : wpc[w] = "save" => wpc'[w] = "save" /\ running'[w] = running[w],
         mpc' \notin Scanning \cup {"start"} =>
           /\ mpc \notin Scanning \cup {"start"}
           /\ \A p \in Path \ refused' : scanned[p] # Absent /\ scanned[p] = newest[p] /\ ToBeCopied(p)
                => ToBeCopied(p)' \/ dest[p] = newest[p] \/ p \in short
  PROVE  Truth'
  <1>0. TypeOK
    BY DEF Control
  <1>1. ASSUME NEW p \in Path
        PROVE  /\ newest[p] \in Nat /\ SourceOf[p] \in Source
               /\ scanned[p] # Absent => scanned[p] \in Nat /\ scanned[p] <= newest[p]
               /\ p \in DOMAIN bin[SourceOf[p]] =>
                    bin[SourceOf[p]][p].hash \in Nat /\ bin[SourceOf[p]][p].hash <= newest[p]
    BY <1>0, TypeIs DEF Data, VersionsInv
  <1>2. \A s : Fresh(s)' = Fresh(s) /\ CacheOf(s)' = CacheOf(s)
    BY DEF Fresh, CacheOf
  <1>3. \A p \in Path : BeingDeleted(p) => BeingDeleted(p)'
    BY <1>2 DEF BeingDeleted
  <1>4. CachedInv'
    <2> SUFFICES ASSUME NEW p \in Path, p \in DOMAIN bin[SourceOf[p]],
                        bin[SourceOf[p]][p].hash = newest'[p], ~BeingDeleted(p)'
        PROVE  dest[p] = newest'[p] \/ p \in short
      BY DEF CachedInv
    <2>1. newest'[p] = newest[p]
      BY <1>1
    <2> QED BY <1>3, <2>1 DEF Truth, CachedInv
  <1>5. ScannedInv'
    <2> SUFFICES ASSUME mpc' \notin Scanning \cup {"start"}, NEW p \in Path \ refused',
                        scanned[p] # Absent, scanned[p] = newest'[p], ~ToBeCopied(p)'
        PROVE  dest[p] = newest'[p] \/ p \in short
      BY DEF ScannedInv
    <2>1. newest'[p] = newest[p]
      BY <1>1
    <2> QED BY <2>1 DEF Truth, ScannedInv
  <1>6. OpenInv'
    BY DEF Truth, OpenInv
  <1> QED BY <1>4, <1>5, <1>6 DEF Truth

LEMMA TruthEdit ==
  ASSUME Control, Data, Truth, Edit
  PROVE  Truth'
  <1>1. UNCHANGED <<disk, main, results, pool, wpc, hdd, copier, refused>>
    BY DEF Edit, Modify, Remove, Reappear
  <1>2. UNCHANGED <<short, bin, scanned, dest, open, refused, wpc, running, mpc, left, queue, copyQueue, task>>
    BY <1>1 DEF disk, main, results, pool, hdd, copier
  <1>3. \A p \in Path : newest'[p] \in {newest[p], newest[p] + 1}
    BY DEF Edit, Modify, Remove, Reappear, Control, TypeOK
  <1>4. \A p \in Path : ToBeCopied(p)' <=> ToBeCopied(p)
    BY <1>2 DEF ToBeCopied, Waiting, WithPool
  <1> QED BY <1>2, <1>3, <1>4, TruthFrame

LEMMA TruthIdle ==
  ASSUME Control, Data, Truth, UNCHANGED <<files, disk, main, results, pool, wpc, copyQueue, copier, refused>>
  PROVE  Truth'
  <1>1. UNCHANGED <<short, bin, scanned, dest, newest, open, refused, wpc, running, mpc, left, queue, copyQueue, task>>
    BY DEF files, disk, main, results, pool, copier
  <1>2. \A p \in Path : ToBeCopied(p)' <=> ToBeCopied(p)
    BY <1>1 DEF ToBeCopied, Waiting, WithPool
  <1> QED BY <1>1, <1>2, TruthFrame

(* A run begins: whatever is cached stays cached.                          *)
LEMMA TruthStart ==
  ASSUME Control, Data, Truth, StartRun
  PROVE  Truth'
  <1>0. /\ mpc = "idle" /\ mpc' = "scan"
        /\ UNCHANGED <<short, newest, scanned, bin, dest, task, open, running, wpc>>
    BY DEF StartRun, files, results, pool
  <1>1. \A w \in Worker : wpc[w] # "save"
    BY <1>0, NobodySaves DEF JobKind
  <1>2. CachedInv'
    BY <1>0, <1>1 DEF Truth, CachedInv, BeingDeleted
  <1>3. ScannedInv'
    BY <1>0 DEF ScannedInv, Scanning
  <1>4. OpenInv'
    BY <1>0 DEF Truth, OpenInv
  <1> QED BY <1>2, <1>3, <1>4 DEF Truth

LEMMA TruthMain ==
  ASSUME Control, Data, Truth, MainStep
  PROVE  Truth'
  <1> USE DEF main, disk, files, results, hdd, copier
  <1>0. UNCHANGED <<short, dest, newest, scanned, bin, refused, copyQueue, task, open, wpc, running>>
    BY DEF MainStep, SubmitScan, SubmitUpdate, Pool!Submit, JoinScans, Pool!JoinCall, ScansJoined,
           Pool!JoinReturn, ResetCopiedFlags, StartCopyThread, IncrementPendingSources, JoinUpdates,
           UpdatesJoined, MarkAllSourcesSubmitted, MainWaits, WaitUntilDone, Stop, StopNotifies,
           JoinCopyThread, MarkSuccess, pool
  <1>1. CASE StartCopyThread
    <2>1. left' = Source
      BY <1>1 DEF StartCopyThread
    <2>2. \A p \in Path : ToBeCopied(p)'
      BY <2>1, HDDAssumption DEF ToBeCopied, Waiting
    <2>3. \A s : Fresh(s)' = Fresh(s) /\ CacheOf(s)' = CacheOf(s)
      BY <1>0 DEF Fresh, CacheOf
    <2>4. CachedInv'
      BY <1>0, <2>3 DEF Truth, CachedInv, BeingDeleted
    <2>5. ScannedInv' /\ OpenInv'
      BY <1>0, <2>2 DEF Truth, ScannedInv, OpenInv
    <2> QED BY <2>4, <2>5 DEF Truth
  <1>2. CASE ~StartCopyThread
    <2>1. mpc' \notin Scanning \cup {"start"} => mpc \notin Scanning \cup {"start"}
      BY <1>2 DEF MainStep, SubmitScan, SubmitUpdate, JoinScans, ScansJoined, ResetCopiedFlags,
           IncrementPendingSources, JoinUpdates, UpdatesJoined, MarkAllSourcesSubmitted, MainWaits,
           WaitUntilDone, Stop, StopNotifies, JoinCopyThread, MarkSuccess, Scanning
    <2>2. mpc # "scan" => \A s \in Source : Waiting(s) => Waiting(s)'
      BY <1>2, MainWaiting
    <2>3. mpc # "scan" => \A p \in Path : ToBeCopied(p) => ToBeCopied(p)'
      BY <1>0, <2>2, HDDAssumption DEF ToBeCopied
    <2>4. \A p \in Path : newest'[p] \in {newest[p], newest[p] + 1}
      BY <1>0
    <2> QED BY <1>0, <2>1, <2>3, <2>4, TruthFrame DEF Scanning
  <1> QED BY <1>1, <1>2

LEMMA TruthScan ==
  ASSUME Control, Data, Truth, NEW w \in Worker, Scan(w)
  PROVE  Truth'
  <1> USE DEF main, disk, files, hdd, copier
  <1>0. wpc[w] = "scan" /\ UNCHANGED <<short, newest, bin, dest, open, mpc>>
    BY DEF Scan, EndJob
  <1>1. JobKind = "scan"
    BY <1>0, JobIs DEF Control, Places, WorkersInv, PhaseInv
  <1>2. mpc \in {"scan", "joinScan"}
    BY <1>1 DEF JobKind
  <1>3. \A v \in Worker : wpc[v] # "save"
    BY <1>1, NobodySaves
  <1>4. CachedInv'
    BY <1>0, <1>3 DEF Truth, CachedInv, BeingDeleted
  <1>5. ScannedInv' /\ OpenInv'
    BY <1>0, <1>2 DEF Truth, ScannedInv, OpenInv, Scanning
  <1> QED BY <1>4, <1>5 DEF Truth

LEMMA TruthJobGoesOn ==
  ASSUME Control, Data, Truth, NEW w \in Worker,
         TakeJob(w) \/ FindID(w) \/ TruncateIndex(w) \/ WriteIndex(w) \/ NotifyOne(w)
  PROVE  Truth'
  <1> USE DEF main, disk, files, results, hdd, copier
  <1>0. /\ TypeOK /\ DOMAIN wpc = Worker /\ DOMAIN running = Worker
        /\ UNCHANGED <<short, dest, newest, scanned, bin, refused, copyQueue, task, open, mpc, left>>
    BY DEF Control, TypeOK, TakeJob, FindID, TruncateIndex, WriteIndex, NotifyOne, EndJob
  <1>1. /\ \A r \in Source : WithPool(r)' <=> WithPool(r)
        /\ \A v \in Worker : wpc[v] = "save" => wpc'[v] = "save" /\ running'[v] = running[v]
    <2>1. CASE TakeJob(w)
      <3>1. \A r \in Source : WithPool(r)' <=> WithPool(r)
        BY <2>1, TakePlaces
      <3>2. \A v \in Worker : v # w => wpc'[v] = wpc[v] /\ running'[v] = running[v]
        BY <1>0, <2>1 DEF TakeJob, Pool!Take
      <3>3. wpc[w] = "idle"
        BY <2>1, TakenJob
      <3> QED BY <3>1, <3>2, <3>3
    <2>2. CASE FindID(w) \/ TruncateIndex(w) \/ WriteIndex(w)
      <3>1. PICK pc \in {"indexing", "sync"} : Goto(w, pc) /\ wpc[w] \in {"index", "indexing"}
        BY <2>2 DEF FindID, TruncateIndex, WriteIndex
      <3>2. \A r \in Source : WithPool(r)' <=> WithPool(r)
        BY <1>0, <2>2, <3>1, SamePlaces DEF FindID, TruncateIndex, WriteIndex
      <3>3. /\ \A v \in Worker : v # w => wpc'[v] = wpc[v]
            /\ running' = running
        BY <1>0, <3>1 DEF Goto, pool
      <3> QED BY <3>1, <3>2, <3>3
    <2>3. CASE NotifyOne(w)
      <3>1. /\ EndJob(w) /\ wpc[w] = "notify" /\ UNCHANGED <<pending, cpc, missed>>
        BY <2>3 DEF NotifyOne
      <3>2. MissedInv'
        BY <2>3, JobPlaces DEF JobStep, Places
      <3>3. \A r \in Source : WithPool(r)' <=> WithPool(r)
        BY <1>0, <3>1, <3>2, WorkerEnds
      <3>4. \A v \in Worker : v # w => wpc'[v] = wpc[v] /\ running'[v] = running[v]
        BY <1>0, <3>1 DEF EndJob, Pool!Finish
      <3> QED BY <3>1, <3>3, <3>4
    <2> QED BY <2>1, <2>2, <2>3
  <1>2. \A p \in Path : ToBeCopied(p) => ToBeCopied(p)'
    BY <1>0, <1>1, HDDAssumption DEF ToBeCopied, Waiting
  <1>3. \A p \in Path : newest'[p] \in {newest[p], newest[p] + 1}
    BY <1>0
  <1> QED BY <1>0, <1>1, <1>2, <1>3, TruthFrame

(* A source is compared: a file is queued, or it is cached as scanned.     *)
LEMMA TruthCompared ==
  ASSUME Control, Data, Truth, NEW w \in Worker, SubmitCopyQueue(w) \/ NothingToCopy(w)
  PROVE  Truth'
  <1> USE DEF main, disk, files, results, hdd, copier
  <1> PICK s : s = running[w].source
    OBVIOUS
  <1>0. /\ TypeOK /\ DOMAIN wpc = Worker /\ wpc[w] = "sync" /\ (Goto(w, "notify") \/ Goto(w, "age"))
        /\ UNCHANGED <<short, dest, newest, scanned, bin, refused, task, open, mpc, left>>
    BY DEF Control, TypeOK, SubmitCopyQueue, NothingToCopy, DecrementPendingSources
  <1>1. /\ \A v \in Worker : v # w => wpc'[v] = wpc[v]
        /\ running' = running
    BY <1>0 DEF Goto, pool
  <1>2. \A r \in Source : WithPool(r)' <=> WithPool(r) /\ r # s
    BY NothingToCopyPlaces, SubmitCopyPlaces
  <1>3. s \in Source /\ mpc \notin Scanning \cup {"start"}
        /\ \A v \in Worker : wpc[v] \in {"age", "save"} => running[v].source # s
    BY <1>0, ComparedIs DEF Scanning
  <1>4. \/ copyQueue' = copyQueue /\ FilesToCopy(bin[s], Fresh(s)) = {}
        \/ \E t : /\ copyQueue' = Append(copyQueue, t) /\ t.source = s
                  /\ t.todo = FilesToCopy(bin[s], Fresh(s))
    BY DEF SubmitCopyQueue, NothingToCopy, DecrementPendingSources
  <1>5. /\ \A i \in DOMAIN copyQueue : i \in DOMAIN copyQueue' /\ copyQueue'[i] = copyQueue[i]
        /\ FilesToCopy(bin[s], Fresh(s)) # {} =>
             \E i \in DOMAIN copyQueue' : copyQueue'[i].source = s /\ copyQueue'[i].todo = FilesToCopy(bin[s], Fresh(s))
    <2>1. CASE copyQueue' = copyQueue /\ FilesToCopy(bin[s], Fresh(s)) = {}
      BY <2>1
    <2>2. ASSUME NEW t, copyQueue' = Append(copyQueue, t), t.source = s, t.todo = FilesToCopy(bin[s], Fresh(s))
          PROVE  /\ \A i \in DOMAIN copyQueue : i \in DOMAIN copyQueue' /\ copyQueue'[i] = copyQueue[i]
                 /\ \E i \in DOMAIN copyQueue' : copyQueue'[i].source = s /\ copyQueue'[i].todo = FilesToCopy(bin[s], Fresh(s))
      <3>1. copyQueue \in Seq(Task \cup {t})
        BY <1>0 DEF TypeOK
      <3>2. /\ DOMAIN copyQueue' = DOMAIN copyQueue \cup {Len(copyQueue) + 1}
            /\ \A i \in DOMAIN copyQueue : copyQueue'[i] = copyQueue[i]
            /\ copyQueue'[Len(copyQueue) + 1] = t
        BY <2>2, <3>1, AppendIs
      <3> QED BY <2>2, <3>2
    <2> QED BY <1>4, <2>1, <2>2
  <1>6. ASSUME NEW p \in Path, scanned[p] # Absent, scanned[p] = newest[p], ToBeCopied(p)
        PROVE  ToBeCopied(p)' \/ dest[p] = newest[p] \/ p \in short
    <2>1. CASE SourceOf[p] # s
      BY <1>0, <1>2, <1>5, <1>6, <2>1, HDDAssumption DEF ToBeCopied, Waiting
    <2>2. CASE SourceOf[p] = s /\ p \in FilesToCopy(bin[s], Fresh(s))
      BY <1>5, <2>2 DEF ToBeCopied
    <2>3. CASE SourceOf[p] = s /\ p \notin FilesToCopy(bin[s], Fresh(s))
      <3>1. p \in DOMAIN bin[s] /\ bin[s][p].hash = newest[p]
        BY <1>6, <2>3, ToCopyIs
      <3>2. ~BeingDeleted(p)
        BY <1>3, <2>3 DEF BeingDeleted
      <3> QED BY <2>3, <3>1, <3>2 DEF Truth, CachedInv
    <2> QED BY <2>1, <2>2, <2>3
  <1>7. \A p \in Path : newest'[p] \in {newest[p], newest[p] + 1}
    BY <1>0
  <1>8. \A v \in Worker : wpc[v] = "save" => wpc'[v] = "save" /\ running'[v] = running[v]
    BY <1>0, <1>1
  <1> QED BY <1>0, <1>3, <1>6, <1>7, <1>8, TruthFrame

LEMMA NothingDeleted ==
  ASSUME TypeOK, NEW P, ~(DeleteStale /\ ~TopFolder) \/ P = {}
  PROVE  DestWithout(P) = dest
  BY DEF DestWithout, TypeOK

(* Stale files are deleted: they are neither scanned nor open.             *)
LEMMA TruthAgeUnchanged ==
  ASSUME OwnFilesOnly, Control, Data, Truth, NEW w \in Worker, AgeUnchanged(w)
  PROVE  Truth'
  <1> USE DEF main, disk, files, results, hdd, copier
  <1> PICK s : s = running[w].source
    OBVIOUS
  <1> DEFINE P == StaleAfter(CacheOf(s), Fresh(s), MaxMiss)
  <1>0. /\ TypeOK /\ DOMAIN wpc = Worker /\ wpc[w] = "age" /\ Goto(w, "save") /\ dest' = DestWithout(P)
        /\ UNCHANGED <<short, newest, scanned, bin, refused, copyQueue, task, open, mpc, left, runs, pending, cpc, missed>>
    BY DEF Control, TypeOK, AgeUnchanged
  <1>1. /\ \A v \in Worker : v # w => wpc'[v] = wpc[v]
        /\ running' = running /\ wpc'[w] = "save"
    BY <1>0 DEF Goto, pool
  <1>2. s \in Source /\ (task # NoTask => task.source # s)
    BY <1>0, SavedIs
  <1>3. \A r \in Source : WithPool(r)' <=> WithPool(r)
    <2>1. Goto(w, "save") /\ wpc[w] = "age"
      BY <1>0
    <2>2. UNCHANGED <<copyQueue, pending, cpc, task, open>>
      BY <1>0
    <2>3. UNCHANGED main /\ UNCHANGED missed
      BY <1>0
    <2> QED BY <2>1, <2>2, <2>3, SamePlaces
  <1>4. \A p \in Path : ToBeCopied(p)' <=> ToBeCopied(p)
    BY <1>0, <1>3, HDDAssumption DEF ToBeCopied, Waiting
  <1>5. \A r : Fresh(r)' = Fresh(r) /\ CacheOf(r)' = CacheOf(r)
    BY <1>0 DEF Fresh, CacheOf
  <1>6. \A p \in Path : BeingDeleted(p) => BeingDeleted(p)'
    BY <1>0, <1>1, <1>5 DEF BeingDeleted
  <1>7. CASE ~(DeleteStale /\ ~TopFolder)
    <2>1. dest' = dest
      BY <1>0, <1>7, NothingDeleted
    <2>2. \A p \in Path : newest'[p] \in {newest[p], newest[p] + 1}
      BY <1>0
    <2>3. \A v \in Worker : wpc[v] = "save" => wpc'[v] = "save" /\ running'[v] = running[v]
      BY <1>0, <1>1
    <2> QED BY <1>0, <1>4, <2>1, <2>2, <2>3, TruthFrame
  <1>8. CASE DeleteStale /\ ~TopFolder
    <2>1. \A r \in Source : r = s
      BY <1>2, <1>8 DEF OwnFilesOnly
    <2>2. \A p \in Path : p \notin P => dest'[p] = dest[p]
      BY <1>0 DEF DestWithout
    <2>3. \A p \in P : p \in Path => scanned[p] = Absent
      <3>1. P \cap DOMAIN Fresh(s) = {}
        BY FreshNeverStale
      <3>2. DOMAIN Fresh(s) = {p \in Path : SourceOf[p] = s /\ scanned[p] # Absent}
        BY FreshIs
      <3>3. \A p \in Path : SourceOf[p] = s
        BY <2>1, HDDAssumption
      <3> HIDE DEF P
      <3> QED BY <3>1, <3>2, <3>3
    <2>4. \A p \in Path : p \in P => BeingDeleted(p)'
      <3>1. \A p \in Path : SourceOf[p] = s
        BY <2>1, HDDAssumption
      <3> QED BY <1>1, <1>5, <3>1 DEF BeingDeleted
    <2>5. task = NoTask /\ open = NoFile
      <3>1. task = NoTask
        BY <1>2, <2>1, TaskIs
      <3> QED BY <3>1 DEF Control, Places, CopierInv
    <2> HIDE DEF P
    <2>6. CachedInv'
      BY <1>0, <1>6, <2>2, <2>4 DEF Truth, CachedInv
    <2>7. ScannedInv'
      BY <1>0, <1>4, <2>2, <2>3 DEF Truth, ScannedInv
    <2>8. OpenInv'
      BY <1>0, <2>5 DEF OpenInv
    <2> QED BY <2>6, <2>7, <2>8 DEF Truth
  <1> QED BY <1>7, <1>8

LEMMA TruthSaveUnchanged ==
  ASSUME Control, Data, Truth, NEW w \in Worker, SaveUnchanged(w)
  PROVE  Truth'
  <1> USE DEF main, disk, files, results, hdd, copier
  <1> PICK s : s = running[w].source
    OBVIOUS
  <1>0. /\ TypeOK /\ wpc[w] = "save" /\ EndJob(w) /\ DOMAIN wpc = Worker /\ DOMAIN running = Worker
        /\ bin' = [bin EXCEPT ![s] = Refresh(CacheOf(s), Fresh(s), MaxMiss)] /\ DOMAIN bin = Source
        /\ UNCHANGED <<short, dest, newest, scanned, refused, copyQueue, pending, task, open, cpc, mpc, left>>
    BY DEF Control, TypeOK, SaveUnchanged, EndJob
  <1>1. /\ s \in Source /\ ~Waiting(s)
        /\ \A v \in Worker : wpc[v] # "idle" /\ running[v].source = s => v = w
        /\ \A p \in DOMAIN Fresh(s) : p \in DOMAIN bin[s] /\ bin[s][p].hash = scanned[p]
    BY <1>0, SavedIs
  <1>2. /\ \A v \in Worker : v # w => wpc'[v] = wpc[v] /\ running'[v] = running[v]
        /\ wpc'[w] = "idle"
    BY <1>0 DEF EndJob, Pool!Finish
  <1>3. \A r \in Source : WithPool(r)' <=> WithPool(r)
    <2>1. MissedInv'
      BY JobPlaces DEF JobStep, Places
    <2> QED BY <1>0, <2>1, WorkerEnds
  <1>4. \A r : Fresh(r)' = Fresh(r)
    BY <1>0 DEF Fresh
  <1>5. /\ \A r \in Source : r # s => bin'[r] = bin[r]
        /\ bin'[s] = Refresh(CacheOf(s), Fresh(s), MaxMiss)
    BY <1>0, <1>1
  <1>6. \A p \in Path : ToBeCopied(p)' <=> ToBeCopied(p)
    BY <1>0, <1>3, HDDAssumption DEF ToBeCopied, Waiting
  <1>7. ScannedInv' /\ OpenInv'
    BY <1>0, <1>6 DEF Truth, ScannedInv, OpenInv
  <1>8. ASSUME NEW p \in Path, p \in DOMAIN bin'[SourceOf[p]], bin'[SourceOf[p]][p].hash = newest[p], ~BeingDeleted(p)'
        PROVE  dest[p] = newest[p] \/ p \in short
    <2>1. CASE SourceOf[p] # s
      <3>0. SourceOf[p] \in Source
        BY HDDAssumption
      <3>1. bin'[SourceOf[p]] = bin[SourceOf[p]]
        BY <1>5, <2>1, <3>0
      <3>2. CacheOf(SourceOf[p])' = CacheOf(SourceOf[p])
        BY <1>0, <1>4, <3>1 DEF CacheOf
      <3>3. ~BeingDeleted(p)
        <4> SUFFICES ASSUME NEW v \in Worker, wpc[v] = "save", running[v].source = SourceOf[p],
                            p \in StaleAfter(CacheOf(SourceOf[p]), Fresh(SourceOf[p]), MaxMiss)
            PROVE  FALSE
          BY DEF BeingDeleted
        <4>1. v # w
          BY <2>1
        <4>2. wpc'[v] = "save" /\ running'[v].source = SourceOf[p]
          BY <1>2, <4>1
        <4> QED BY <1>0, <1>4, <1>8, <3>2, <4>2 DEF BeingDeleted
      <3> QED BY <1>8, <3>1, <3>3 DEF Truth, CachedInv
    <2>2. CASE SourceOf[p] = s
      <3>1. \/ p \in DOMAIN Fresh(s) /\ bin'[s][p].hash = Fresh(s)[p]
            \/ /\ p \in DOMAIN CacheOf(s) \ DOMAIN Fresh(s) /\ bin'[s][p].hash = CacheOf(s)[p].hash
               /\ p \notin StaleAfter(CacheOf(s), Fresh(s), MaxMiss)
        BY <1>5, <1>8, <2>2, RefreshIs
      <3>2. p \in DOMAIN bin[s] /\ bin[s][p].hash = bin'[s][p].hash
        <4>1. Fresh(s)[p] = scanned[p] \/ p \notin DOMAIN Fresh(s)
          BY FreshIs
        <4>2. p \in DOMAIN CacheOf(s) => p \in DOMAIN bin[s] /\ CacheOf(s)[p].hash = bin[s][p].hash
          BY CacheOfIs
        <4> QED BY <1>1, <3>1, <4>1, <4>2
      <3>3. p \notin StaleAfter(CacheOf(s), Fresh(s), MaxMiss)
        BY <3>1, FreshNeverStale
      <3>4. ~BeingDeleted(p)
        <4> SUFFICES ASSUME NEW v \in Worker, wpc[v] = "save", running[v].source = s,
                            p \in StaleAfter(CacheOf(running[v].source), Fresh(running[v].source), MaxMiss)
            PROVE  FALSE
          BY <2>2 DEF BeingDeleted
        <4> QED BY <3>3
      <3> QED BY <1>8, <2>2, <3>2, <3>4 DEF Truth, CachedInv
    <2> QED BY <2>1, <2>2
  <1>9. CachedInv'
    BY <1>0, <1>8 DEF CachedInv
  <1> QED BY <1>7, <1>9 DEF Truth

(* The copy thread takes a source, waits, or has no source any more.       *)
LEMMA TruthNoCopy ==
  ASSUME Control, Data, Truth,
         \/ CopierWaits \/ TakeTask \/ CopierExits \/ GiveUpSource \/ MarkCopied \/ SourceDone
         \/ \E p \in Path : CopyRefused(p) \/ RootNotFound(p)
  PROVE  Truth'
  <1> USE DEF main, disk, files, results, hdd, copier, pool
  <1>0. /\ TypeOK /\ Places
        /\ UNCHANGED <<short, bin, scanned, dest, newest, mpc, left, queue, running, wpc, open>>
    BY DEF Control, CopierWaits, TakeTask, CopierExits, GiveUpSource, MarkCopied, SourceDone,
           CopyRefused, RootNotFound, CopyFails
  <1>1. \A s : Waiting(s)' <=> Waiting(s)
    BY <1>0 DEF Waiting, WithPool
  <1>2. cpc = "decrement" => task.todo = {}
    BY DEF Data, TasksInv
  <1>3. task # NoTask <=> cpc \in {"copy", "age", "save", "decrement"}
    BY <1>0 DEF Places, CopierInv
  <1>4. /\ refused \subseteq refused'
        /\ \A p \in Path \ refused' : ToBeCopied(p) => ToBeCopied(p)'
    <2>1. CASE CopierWaits \/ CopierExits \/ MarkCopied
      <3>1. UNCHANGED <<copyQueue, task, refused>>
        BY <2>1 DEF CopierWaits, CopierExits, MarkCopied
      <3> QED BY <1>1, <3>1 DEF ToBeCopied
    <2>2. CASE GiveUpSource \/ SourceDone
      <3>1. UNCHANGED <<copyQueue, refused>> /\ task.todo = {}
        BY <1>2, <2>2 DEF GiveUpSource, SourceDone, DecrementPendingSources
      <3> QED BY <1>1, <3>1 DEF ToBeCopied
    <2>3. CASE TakeTask
      <3>1. /\ copyQueue # <<>> /\ cpc = "loop" /\ refused' = refused
            /\ task' = Head(copyQueue) /\ copyQueue' = Tail(copyQueue)
        BY <2>3 DEF TakeTask, CopierWakes
      <3>2. /\ copyQueue \in Seq(Task) /\ 1 \in DOMAIN copyQueue /\ task' = copyQueue[1] /\ task' \in Task
            /\ \A i \in DOMAIN copyQueue \ {1} : i - 1 \in DOMAIN copyQueue' /\ copyQueue'[i - 1] = copyQueue[i]
        <4>1. copyQueue \in Seq(Task)
          BY <1>0 DEF TypeOK
        <4> QED BY <3>1, <4>1, TailIs
      <3>3. task = NoTask /\ task' # NoTask
        BY <1>3, <3>1, <3>2, HDDAssumption
      <3>4. ASSUME NEW p \in Path, NEW i \in DOMAIN copyQueue, copyQueue[i].source = SourceOf[p], p \in copyQueue[i].todo
            PROVE  ToBeCopied(p)'
        <4>1. CASE i = 1
          BY <3>2, <3>3, <3>4, <4>1 DEF ToBeCopied
        <4>2. CASE i # 1
          BY <3>2, <3>4, <4>2 DEF ToBeCopied
        <4> QED BY <4>1, <4>2
      <3> QED BY <1>1, <3>1, <3>3, <3>4 DEF ToBeCopied
    <2>4. ASSUME NEW p \in Path, CopyRefused(p) \/ RootNotFound(p)
          PROVE  /\ refused \subseteq refused'
                 /\ \A q \in Path \ refused' : ToBeCopied(q) => ToBeCopied(q)'
      <3>1. /\ cpc = "copy" /\ task' = [task EXCEPT !.todo = @ \ {p}, !.failed = TRUE]
            /\ refused' = refused \cup {p} /\ copyQueue' = copyQueue
        BY <2>4 DEF CopyRefused, RootNotFound, CopyFails, Copying
      <3>2. task # NoTask /\ task \in Task
        BY <1>0, <1>3, <3>1, TypeIs
      <3>3. task' \in Task /\ task'.source = task.source /\ task'.todo = task.todo \ {p}
        BY <3>1, <3>2 DEF Task
      <3>4. task' # NoTask
        BY <3>3, HDDAssumption
      <3> QED BY <1>1, <3>1, <3>3, <3>4 DEF ToBeCopied
    <2> QED BY <2>1, <2>2, <2>3, <2>4
  <1>5. \A p \in Path : newest'[p] \in {newest[p], newest[p] + 1}
    BY <1>0
  <1>6. open' \in {open, NoFile} /\ UNCHANGED <<bin, scanned, dest>>
    BY <1>0
  <1>7. \A w \in Worker : wpc[w] = "save" => wpc'[w] = "save" /\ running'[w] = running[w]
    BY <1>0
  <1> QED BY <1>0, <1>4, <1>5, <1>6, <1>7, TruthFrame

(* A destination is truncated: the cached hash of the file is not that of  *)
(* its scan, so it is an old one.                                          *)
LEMMA TornIsOld ==
  ASSUME Control, Data, task # NoTask, NEW p \in task.todo
  PROVE  /\ p \in Path /\ SourceOf[p] = task.source /\ ToBeCopied(p)
         /\ p \in DOMAIN bin[SourceOf[p]] => bin[SourceOf[p]][p].hash # newest[p]
  <1>1. /\ task \in Task /\ task.source \in Source /\ p \in Path /\ SourceOf[p] = task.source /\ scanned[p] # Absent
        /\ p \in DOMAIN bin[task.source] => bin[task.source][p].hash # scanned[p]
    BY TaskIs
  <1>2. /\ scanned[p] \in Nat /\ newest[p] \in Nat
        /\ p \in DOMAIN bin[SourceOf[p]] => bin[SourceOf[p]][p].hash \in Nat
    BY <1>1, TypeIs DEF Control
  <1>3. /\ scanned[p] <= newest[p]
        /\ p \in DOMAIN bin[SourceOf[p]] => bin[SourceOf[p]][p].hash <= scanned[p]
    BY <1>1 DEF Data, VersionsInv
  <1>4. ToBeCopied(p)
    BY <1>1 DEF ToBeCopied
  <1>5. p \in DOMAIN bin[SourceOf[p]] => bin[SourceOf[p]][p].hash # newest[p]
    <2> DEFINE h == bin[SourceOf[p]][p].hash
    <2> SUFFICES ASSUME p \in DOMAIN bin[SourceOf[p]], h = newest[p] PROVE FALSE
      OBVIOUS
    <2>1. h \in Nat /\ h <= scanned[p] /\ h # scanned[p]
      BY <1>1, <1>2, <1>3
    <2> QED BY <1>2, <1>3, <2>1
  <1> QED BY <1>1, <1>4, <1>5

LEMMA TruthOpen ==
  ASSUME Control, Data, Truth, NEW p \in Path, OpenDestination(p)
  PROVE  Truth'
  <1> USE DEF main, disk, files, results, hdd, copier, pool
  <1>0. /\ TypeOK /\ Places /\ cpc = "copy" /\ p \in task.todo
        /\ dest' = [dest EXCEPT ![p] = Torn] /\ open'.path = p /\ DOMAIN dest = Path /\ short' = short \ {p}
        /\ UNCHANGED <<bin, scanned, newest, mpc, left, queue, running, wpc, task, copyQueue, refused>>
    BY DEF Control, TypeOK, OpenDestination, Copying
  <1>1. task # NoTask
    BY <1>0 DEF Places, CopierInv
  <1>2. \A q \in Path : q # p => dest'[q] = dest[q] /\ (q \in short' <=> q \in short)
    BY <1>0
  <1>3. /\ ToBeCopied(p)
        /\ p \in DOMAIN bin[SourceOf[p]] => bin[SourceOf[p]][p].hash # newest[p]
    BY <1>0, <1>1, TornIsOld
  <1>4. /\ \A s : Fresh(s)' = Fresh(s) /\ CacheOf(s)' = CacheOf(s)
        /\ \A q \in Path : ToBeCopied(q)' <=> ToBeCopied(q)
    BY <1>0 DEF Fresh, CacheOf, ToBeCopied, Waiting, WithPool
  <1>5. \A q \in Path : BeingDeleted(q)' <=> BeingDeleted(q)
    BY <1>0, <1>4 DEF BeingDeleted
  <1>6. CachedInv'
    BY <1>0, <1>2, <1>3, <1>5 DEF Truth, CachedInv
  <1>7. ScannedInv'
    BY <1>0, <1>2, <1>3, <1>4 DEF Truth, ScannedInv
  <1>8. OpenInv'
    BY <1>0 DEF OpenInv
  <1> QED BY <1>6, <1>7, <1>8 DEF Truth

(* A copy ends.  If the file is as it was scanned and is still the newest  *)
(* version, nobody edited it under the copy: it is whole or a short copy.  *)
LEMMA TruthFinish ==
  ASSUME Control, Data, Truth, FinishCopy
  PROVE  Truth'
  <1> USE DEF main, disk, files, results, hdd, copier, pool
  <1> PICK p : p = open.path
    OBVIOUS
  <1>0. /\ TypeOK /\ Places /\ open # NoFile /\ open' = NoFile /\ DOMAIN dest = Path
        /\ task' = [task EXCEPT !.todo = @ \ {p}]
        /\ UNCHANGED <<bin, scanned, newest, mpc, left, queue, running, wpc, copyQueue, refused>>
    BY DEF Control, TypeOK, FinishCopy
  <1>1. PICK v \in Outcomes(p) :
          /\ dest' = [dest EXCEPT ![p] = v]
          /\ short' = IF v = Torn /\ Unedited(p) THEN short \cup {p} ELSE short
    BY DEF FinishCopy
  <1>2. task # NoTask /\ p \in task.todo /\ task \in Task
    BY <1>0, TypeIs DEF Places, CopierInv
  <1>3. task' \in Task /\ task'.source = task.source /\ task'.todo = task.todo \ {p}
    BY <1>0, <1>2 DEF Task
  <1>4. task' # NoTask
    BY <1>3, HDDAssumption
  <1>5. /\ p \in Path
        /\ p \in DOMAIN bin[SourceOf[p]] => bin[SourceOf[p]][p].hash # newest[p]
    BY <1>2, TornIsOld
  <1>6. \A q \in Path : q # p => dest'[q] = dest[q] /\ (q \in short' <=> q \in short)
    BY <1>0, <1>1
  <1>7. scanned[p] # Absent /\ scanned[p] = newest[p] => dest'[p] = newest[p] \/ p \in short'
    <2> SUFFICES ASSUME scanned[p] # Absent, scanned[p] = newest[p] PROVE dest'[p] = newest[p] \/ p \in short'
      OBVIOUS
    <2>1. open.version = newest[p]
      <3>1. newest[p] \in Nat /\ open.version \in Nat
        BY <1>0, <1>5, TypeIs
      <3>2. scanned[p] <= open.version /\ open.version <= newest[p]
        BY <1>0 DEF Data, TasksInv
      <3> QED BY <3>1, <3>2
    <2>2. Unedited(p)
      BY <1>5, <2>1 DEF Data, VersionsInv, Unedited
    <2>3. dest[p] # Absent
      BY <1>0, HDDAssumption DEF Truth, OpenInv
    <2>4. v \in {open.version, Torn}
      BY <1>1, <2>2, <2>3 DEF Outcomes
    <2> QED BY <1>0, <1>1, <1>5, <2>1, <2>2, <2>4
  <1>8. \A s : Fresh(s)' = Fresh(s) /\ CacheOf(s)' = CacheOf(s)
    BY <1>0 DEF Fresh, CacheOf
  <1>9. \A q \in Path : BeingDeleted(q)' <=> BeingDeleted(q)
    BY <1>0, <1>8 DEF BeingDeleted
  <1>10. \A q \in Path : q # p /\ ToBeCopied(q) => ToBeCopied(q)'
    <2>1. \A s : Waiting(s)' <=> Waiting(s)
      BY <1>0 DEF Waiting, WithPool
    <2> QED BY <1>0, <1>3, <1>4, <2>1 DEF ToBeCopied
  <1>11. CachedInv'
    BY <1>0, <1>5, <1>6, <1>9 DEF Truth, CachedInv
  <1>12. ScannedInv'
    BY <1>0, <1>6, <1>7, <1>10 DEF Truth, ScannedInv
  <1>13. OpenInv'
    BY <1>0 DEF OpenInv
  <1> QED BY <1>11, <1>12, <1>13 DEF Truth

(* The copy thread ages its cache.  If it deletes at all, all files are    *)
(* its source's, and every entry was found by this run's scan.             *)
LEMMA NothingStaleCopied ==
  ASSUME OwnFilesOnly, Control, Data, cpc = "age"
  PROVE  DestWithout(StaleAfter(entries, task.fresh, MaxMiss)) = dest
  <1>0. TypeOK /\ Places
    BY DEF Control
  <1>1. CASE ~(DeleteStale /\ ~TopFolder)
    BY <1>0, <1>1, NothingDeleted
  <1>2. CASE DeleteStale /\ ~TopFolder
    <2>1. task # NoTask
      BY <1>0 DEF Places, CopierInv
    <2>2. task.source \in Source
      BY <2>1, TaskIs
    <2>3. \A p \in Path : SourceOf[p] = task.source
      BY <1>2, <2>2, HDDAssumption DEF OwnFilesOnly
    <2>4. task.fresh = Fresh(task.source)
      BY <2>1 DEF Data, TasksInv
    <2>5. DOMAIN entries \subseteq Path
      BY <1>0, TypeIs
    <2>6. \A p \in DOMAIN entries : p \in DOMAIN task.fresh
      <3>1. DOMAIN Fresh(task.source) = {p \in Path : SourceOf[p] = task.source /\ scanned[p] # Absent}
        BY FreshIs
      <3> QED BY <2>3, <2>4, <2>5, <3>1 DEF Data, EntriesInv
    <2>7. StaleAfter(entries, task.fresh, MaxMiss) \subseteq DOMAIN entries \cup DOMAIN task.fresh
      BY UpdatedDomain DEF StaleAfter, Stale
    <2>8. StaleAfter(entries, task.fresh, MaxMiss) \cap DOMAIN task.fresh = {}
      BY FreshNeverStale
    <2>9. StaleAfter(entries, task.fresh, MaxMiss) = {}
      BY <2>6, <2>7, <2>8
    <2> QED BY <1>0, <2>9, NothingDeleted
  <1> QED BY <1>1, <1>2

LEMMA TruthAgeCopied ==
  ASSUME OwnFilesOnly, Control, Data, Truth, AgeCopied
  PROVE  Truth'
  <1> USE DEF main, disk, files, results, hdd, copier, pool
  <1>0. /\ cpc = "age" /\ dest' = DestWithout(StaleAfter(entries, task.fresh, MaxMiss))
        /\ UNCHANGED <<short, bin, scanned, newest, mpc, left, queue, running, wpc, task, open, copyQueue, refused>>
    BY DEF AgeCopied
  <1>1. dest' = dest
    BY <1>0, NothingStaleCopied
  <1>2. \A p \in Path : ToBeCopied(p)' <=> ToBeCopied(p)
    BY <1>0 DEF ToBeCopied, Waiting, WithPool
  <1>3. \A p \in Path : newest'[p] \in {newest[p], newest[p] + 1}
    BY <1>0
  <1>4. \A w \in Worker : wpc[w] = "save" => wpc'[w] = "save" /\ running'[w] = running[w]
    BY <1>0
  <1> QED BY <1>0, <1>1, <1>2, <1>3, <1>4, TruthFrame

(* ... and saves it: what it holds was copied in this run.                 *)
LEMMA TruthSaveCopied ==
  ASSUME Control, Data, Truth, SaveCopied
  PROVE  Truth'
  <1> USE DEF main, disk, files, results, hdd, copier, pool
  <1> PICK s : s = task.source
    OBVIOUS
  <1>0. /\ TypeOK /\ Places /\ cpc = "save" /\ bin' = [bin EXCEPT ![s] = entries] /\ DOMAIN bin = Source
        /\ UNCHANGED <<short, dest, scanned, newest, mpc, left, queue, running, wpc, task, open, copyQueue, refused>>
    BY DEF Control, TypeOK, SaveCopied
  <1>1. task # NoTask
    BY <1>0 DEF Places, CopierInv
  <1>2. /\ s \in Source /\ ~Waiting(s) /\ mpc \in Syncing
        /\ \A i \in DOMAIN copyQueue : copyQueue[i].source # s
    BY <1>1, TaskIs
  <1>3. task.todo = {} /\ s \in copied
    BY <1>0 DEF Data, TasksInv, CopiedInv
  <1>4. \A r \in Source : r # s => bin'[r] = bin[r]
    BY <1>0
  <1>5. bin'[s] = entries
    BY <1>0, <1>2
  <1>6. \A p \in Path : ToBeCopied(p)' <=> ToBeCopied(p)
    BY <1>0 DEF ToBeCopied, Waiting, WithPool
  <1>7. ScannedInv' /\ OpenInv'
    BY <1>0, <1>6 DEF Truth, ScannedInv, OpenInv
  <1>8. ASSUME NEW p \in Path, p \in DOMAIN bin'[SourceOf[p]], bin'[SourceOf[p]][p].hash = newest[p], ~BeingDeleted(p)'
        PROVE  dest[p] = newest[p] \/ p \in short
    <2>0. SourceOf[p] \in Source
      BY HDDAssumption
    <2>1. CASE SourceOf[p] # s
      <3>1. bin'[SourceOf[p]] = bin[SourceOf[p]]
        BY <1>4, <2>0, <2>1
      <3>2. Fresh(SourceOf[p])' = Fresh(SourceOf[p]) /\ CacheOf(SourceOf[p])' = CacheOf(SourceOf[p])
        BY <1>0, <3>1 DEF Fresh, CacheOf
      <3>3. ~BeingDeleted(p)
        <4> SUFFICES ASSUME NEW v \in Worker, wpc[v] = "save", running[v].source = SourceOf[p],
                            p \in StaleAfter(CacheOf(SourceOf[p]), Fresh(SourceOf[p]), MaxMiss)
            PROVE  FALSE
          BY DEF BeingDeleted
        <4>1. wpc'[v] = "save" /\ running'[v].source = SourceOf[p]
          BY <1>0
        <4> QED BY <1>0, <1>8, <3>2, <4>1 DEF BeingDeleted
      <3> QED BY <1>8, <3>1, <3>3 DEF Truth, CachedInv
    <2>2. CASE SourceOf[p] = s
      <3>1. scanned[p] # Absent /\ scanned[p] = newest[p]
        BY <1>5, <1>8, <2>2 DEF Data, EntriesInv
      <3>2. p \notin refused
        BY <1>3, <2>2 DEF Data, RefusedInv
      <3>3. ~ToBeCopied(p)
        BY <1>2, <1>3, <2>2 DEF ToBeCopied
      <3>4. mpc \notin Scanning \cup {"start"}
        BY <1>2 DEF Syncing, Scanning
      <3> QED BY <3>1, <3>2, <3>3, <3>4 DEF Truth, ScannedInv
    <2> QED BY <2>1, <2>2
  <1>9. CachedInv'
    BY <1>0, <1>8 DEF CachedInv
  <1> QED BY <1>7, <1>9 DEF Truth

LEMMA TruthInit == Init => Truth
  <1> SUFFICES ASSUME Init PROVE Truth
    OBVIOUS
  <1>1. /\ mpc = "idle" /\ open = NoFile
        /\ \A p \in Path : bin[SourceOf[p]] = EmptyCache /\ scanned[p] = Absent
    BY HDDAssumption DEF Init
  <1>2. CachedInv
    BY <1>1 DEF CachedInv, EmptyCache
  <1> QED BY <1>1, <1>2 DEF Truth, ScannedInv, OpenInv

LEMMA TruthStep ==
  ASSUME OwnFilesOnly, Control, Data, Truth, [Next]_vars
  PROVE  Truth'
  <1>1. ASSUME NEW w \in Worker, JobStep(w) PROVE Truth'
    BY <1>1, TruthJobGoesOn, TruthScan, TruthCompared, TruthAgeUnchanged, TruthSaveUnchanged DEF JobStep
  <1>2. ASSUME NEW t, SpuriousWake(t) PROVE Truth'
    BY <1>2, TruthIdle DEF SpuriousWake
  <1>3. CASE ExitOnFailure
    BY <1>3, TruthIdle DEF ExitOnFailure, hdd
  <1>4. CASE UNCHANGED vars
    BY <1>4, TruthIdle DEF vars, hdd
  <1>5. CASE CopierStep
    BY <1>5, TruthNoCopy, TruthOpen, TruthFinish, TruthAgeCopied, TruthSaveCopied DEF CopierStep
  <1> QED BY <1>1, <1>2, <1>3, <1>4, <1>5, TruthEdit, TruthStart, TruthMain DEF Next

LEMMA TruthAlways ==
  ASSUME OwnFilesOnly
  PROVE  Spec => [](Control /\ Data /\ Truth)
  <1>1. Init => Control /\ Data /\ Truth
    BY ControlInit, DataInit, TruthInit
  <1>2. Control /\ Data /\ Truth /\ [Next]_vars => (Control /\ Data /\ Truth)'
    BY ControlStep, DataStep, TruthStep
  <1> QED BY <1>1, <1>2, PTL DEF Spec

(* The cache reflects the true state of the destination, whatever is       *)
(* edited, refused or broken off: what it says of a file is there, but for *)
(* a file whose last copy returned true over a part of it (FileCopier.cpp  *)
(* takes any result of copy_file_range that is not negative), and but      *)
(* while stale files are deleted and the cache is not yet saved            *)
(* (SyncEngine.cpp skips a file whose hash the cache has).                 *)
THEOREM CacheTruthfulAlways ==
  ASSUME OwnFilesOnly
  PROVE  Spec => []CacheTruthful
  <1>1. ASSUME Control, Data, Truth PROVE CacheTruthful
    <2> SUFFICES ASSUME NEW p \in Path, p \in DOMAIN bin[SourceOf[p]],
                        bin[SourceOf[p]][p].hash = src[p], ~Saving(SourceOf[p])
        PROVE  dest[p] = src[p] \/ p \in short
      BY DEF CacheTruthful
    <2>1. bin[SourceOf[p]][p].hash \in Version
      BY <1>1, TypeIs DEF Control
    <2>2. src[p] = newest[p]
      BY <1>1, <2>1, HDDAssumption DEF Data, VersionsInv
    <2>3. ~BeingDeleted(p)
      BY DEF BeingDeleted, Saving
    <2> QED BY <1>1, <2>2, <2>3 DEF Truth, CachedInv
  <1> QED BY <1>1, TruthAlways, PTL

(* A source flagged as copied in State.bin, which recovery skips, has all  *)
(* its files in the destination but for short copies (MetaDataCache.cpp,   *)
(* MarkCopied).                                                            *)
THEOREM CopiedFlagTruthfulAlways ==
  ASSUME OwnFilesOnly
  PROVE  Spec => []CopiedFlagTruthful
  <1>1. ASSUME Control, Data, Truth PROVE CopiedFlagTruthful
    <2> SUFFICES ASSUME mpc \notin Scanning, NEW p \in Path, SourceOf[p] \in copied,
                        scanned[p] # Absent, scanned[p] = src[p]
        PROVE  dest[p] = src[p] \/ p \in short
      BY DEF CopiedFlagTruthful, Scanning
    <2>1. src[p] = newest[p]
      BY <1>1 DEF Data, VersionsInv
    <2>2. p \notin refused /\ mpc # "start"
      BY <1>1 DEF Data, RefusedInv, CopiedInv
    <2>3. ~ToBeCopied(p)
      <3>1. /\ ~Waiting(SourceOf[p])
            /\ \A i \in DOMAIN copyQueue : copyQueue[i].source # SourceOf[p]
            /\ task # NoTask /\ task.source = SourceOf[p] => cpc # "copy"
        BY <1>1 DEF Data, CopiedInv
      <3>2. task # NoTask /\ cpc # "copy" => task.todo = {}
        BY <1>1 DEF Control, Places, CopierInv, Data, TasksInv
      <3> QED BY <3>1, <3>2 DEF ToBeCopied
    <2> QED BY <1>1, <2>1, <2>2, <2>3 DEF Truth, ScannedInv
  <1> QED BY <1>1, TruthAlways, PTL

(* A run that ended with .Success has copied every scanned file but those  *)
(* whose copy was refused or short and those edited since (ControlFlow.cpp, *)
(* Run).                                                                   *)
THEOREM SuccessCopiesAllAlways ==
  ASSUME OwnFilesOnly
  PROVE  Spec => []SuccessCopiesAll
  <1>1. ASSUME Control, Data, Truth PROVE SuccessCopiesAll
    <2> SUFFICES ASSUME mpc = "idle", NEW p \in Path \ (refused \cup short), scanned[p] # Absent, scanned[p] = src[p]
        PROVE  dest[p] = src[p]
      BY DEF SuccessCopiesAll
    <2>1. src[p] = newest[p]
      BY <1>1 DEF Data, VersionsInv
    <2>2. left = {} /\ copyQueue = <<>> /\ task = NoTask
      BY <1>1 DEF Control, Places, JobsOnce, QuietInv, Syncing
    <2>3. ~WithPool(SourceOf[p])
      BY <1>1 DEF Control, Places, PhaseInv, WorkersInv, JobKind, WithPool
    <2>4. ~ToBeCopied(p)
      BY <2>2, <2>3 DEF ToBeCopied, Waiting
    <2> QED BY <1>1, <2>1, <2>4 DEF Truth, ScannedInv, Scanning
  <1> QED BY <1>1, TruthAlways, PTL

-----------------------------------------------------------------------------
(* Misses.                                                                 *)
LEMMA MissFrame ==
  ASSUME MissInv, UNCHANGED <<bin, scanned, missed>>,
         \A p \in Path : NotAged(p)' => NotAged(p),
         cpc' = "save" => UNCHANGED <<cpc, entries, task>>
  PROVE  MissInv'
  BY DEF MissInv

(* Nobody moves.                                                           *)
LEMMA MissIdle ==
  ASSUME MissInv, UNCHANGED <<bin, scanned, missed, main, pool, wpc, copier>>
  PROVE  MissInv'
  <1>1. UNCHANGED <<mpc, left, queue, running, cpc, entries, task>>
    BY DEF main, pool, copier
  <1>2. \A p \in Path : NotAged(p)' => NotAged(p)
    BY <1>1 DEF NotAged, Unscanned, Waiting, WithPool
  <1> QED BY <1>1, <1>2, MissFrame

LEMMA MissStart ==
  ASSUME Control, MissInv, StartRun
  PROVE  MissInv'
  <1>0. /\ mpc = "idle" /\ mpc' = "scan" /\ left' = Source /\ cpc' = "none"
        /\ UNCHANGED <<bin, scanned, missed, running, wpc>>
    BY DEF StartRun, results, pool
  <1>1. \A w \in Worker : wpc[w] \notin {"age", "save"}
    BY <1>0, NobodySaves DEF JobKind
  <1>2. \A p \in Path : ~NotAged(p)'
    BY <1>0, <1>1, HDDAssumption DEF NotAged, Unscanned, Scanning
  <1> QED BY <1>0, <1>2, MissFrame

LEMMA MissMain ==
  ASSUME Control, MissInv, MainStep
  PROVE  MissInv'
  <1> USE DEF main, disk, files, results, hdd, copier
  <1>0. UNCHANGED <<bin, scanned, missed, wpc, running, task, entries>> /\ (cpc' = cpc \/ cpc' = "loop")
    BY DEF MainStep, SubmitScan, SubmitUpdate, Pool!Submit, JoinScans, Pool!JoinCall, ScansJoined,
           Pool!JoinReturn, ResetCopiedFlags, StartCopyThread, IncrementPendingSources, JoinUpdates,
           UpdatesJoined, MarkAllSourcesSubmitted, MainWaits, WaitUntilDone, Stop, StopNotifies,
           JoinCopyThread, MarkSuccess, pool
  <1>1. \A p \in Path : SourceOf[p] \in Source
    BY HDDAssumption
  <1>2. CASE StartCopyThread
    <2>1. mpc = "start"
      BY <1>2 DEF StartCopyThread
    <2>2. \A p \in Path : NotAged(p)
      BY <2>1 DEF NotAged
    <2> QED BY <1>0, <2>2, MissFrame
  <1>3. CASE ScansJoined
    <2>1. mpc = "joinScan" /\ queue = <<>> /\ \A w \in Worker : running[w] = NoJob
      BY <1>3 DEF ScansJoined, Pool!JoinReturn, Pool!Idle
    <2>2. left = {} /\ \A w \in Worker : wpc[w] = "idle"
      BY <2>1 DEF Control, Places, JobsOnce, WorkersInv
    <2>3. \A p \in Path : NotAged(p)
      BY <2>1, <2>2 DEF NotAged, Unscanned
    <2> QED BY <1>0, <2>3, MissFrame
  <1>4. CASE ~StartCopyThread /\ ~ScansJoined
    <2>1. \A s \in Source : Waiting(s)' => Waiting(s)
      BY <1>4, MainWaiting
    <2>2. /\ mpc' \in {"scan", "joinScan"} => mpc = "scan"
          /\ mpc' \in {"reset", "start"} => mpc \in {"reset", "start"}
          /\ mpc' \notin Scanning => mpc \notin Scanning \/ mpc' = "start"
      BY <1>4 DEF MainStep, SubmitScan, SubmitUpdate, JoinScans, ResetCopiedFlags,
           IncrementPendingSources, JoinUpdates, UpdatesJoined, MarkAllSourcesSubmitted, MainWaits,
           WaitUntilDone, Stop, StopNotifies, JoinCopyThread, MarkSuccess, Scanning
    <2>3. mpc = "scan" => \A s \in Source : Unscanned(s)' <=> Unscanned(s)
      BY <1>4, MainWaiting
    <2>4. ASSUME NEW p \in Path, NotAged(p)' PROVE NotAged(p)
      <3>1. CASE mpc' \in {"scan", "joinScan"} /\ ~Unscanned(SourceOf[p])'
        BY <1>1, <2>2, <2>3, <3>1 DEF NotAged
      <3>2. CASE mpc' \in {"reset", "start"}
        BY <2>2, <3>2 DEF NotAged
      <3>3. CASE mpc' \notin Scanning \cup {"start"} /\ Waiting(SourceOf[p])'
        BY <1>1, <2>1, <2>2, <3>3 DEF NotAged
      <3>4. CASE \E w \in Worker : wpc'[w] \in {"age", "save"} /\ running'[w].source = SourceOf[p]
        BY <1>0, <3>4 DEF NotAged
      <3> QED BY <2>4, <3>1, <3>2, <3>3, <3>4 DEF NotAged
    <2> QED BY <1>0, <2>4, MissFrame
  <1> QED BY <1>2, <1>3, <1>4

(* A scan misses the files that are not in the source.                     *)
LEMMA MissScan ==
  ASSUME Control, MissInv, NEW w \in Worker, Scan(w)
  PROVE  MissInv'
  <1> USE DEF main, disk, files, hdd, copier
  <1> PICK s : s = running[w].source
    OBVIOUS
  <1>0. /\ TypeOK /\ Places /\ wpc[w] = "scan" /\ UNCHANGED <<bin, mpc, left, queue, cpc, entries, task>>
        /\ scanned' = [p \in Path |-> IF p \in FilesOf(s) THEN src[p] ELSE scanned[p]]
        /\ missed' = [p \in Path |-> IF p \in FilesOf(s) /\ src[p] = Absent THEN missed[p] + 1 ELSE missed[p]]
        /\ running' = [running EXCEPT ![w] = NoJob] /\ wpc' = [wpc EXCEPT ![w] = "idle"]
        /\ DOMAIN wpc = Worker /\ DOMAIN running = Worker
    BY DEF Control, TypeOK, Scan, EndJob, Pool!Finish
  <1>1. s \in Source /\ running[w] # NoJob /\ running[w].kind = "scan"
    BY <1>0, JobIs DEF Places
  <1>2. mpc \in {"scan", "joinScan"}
    BY <1>0, <1>1 DEF Places, PhaseInv, JobKind
  <1>3. Unscanned(s)
    BY <1>0 DEF Unscanned
  <1>4. \A r \in Source : r # s /\ Unscanned(r) => Unscanned(r)'
    BY <1>0 DEF Unscanned
  <1>5. \A v \in Worker : wpc'[v] \notin {"age", "save"}
    <2>1. JobKind # "update"
      BY <1>2 DEF JobKind
    <2> QED BY <1>0, <2>1, NobodySaves
  <1>6. ASSUME NEW p \in Path, p \in DOMAIN bin[SourceOf[p]]
        PROVE  /\ bin[SourceOf[p]][p].miss <= missed'[p]
               /\ scanned'[p] = Absent /\ NotAged(p)' => bin[SourceOf[p]][p].miss < missed'[p]
    <2> DEFINE m == bin[SourceOf[p]][p].miss
    <2>0. m \in Nat /\ missed[p] \in Nat /\ SourceOf[p] \in Source
      BY <1>0, <1>6, HDDAssumption DEF TypeOK, SourceCache, Cache
    <2>1. m <= missed[p] /\ (scanned[p] = Absent /\ NotAged(p) => m < missed[p])
      BY <1>6 DEF MissInv
    <2> HIDE DEF m
    <2>2. CASE SourceOf[p] = s
      <3>1. p \in FilesOf(s)
        BY <2>2 DEF FilesOf
      <3> SUFFICES m <= missed'[p] /\ (scanned'[p] = Absent => m < missed'[p])
        BY DEF m
      <3>2. CASE src[p] = Absent
        BY <1>0, <2>0, <2>1, <3>1, <3>2
      <3>3. CASE src[p] # Absent
        BY <1>0, <2>0, <2>1, <3>1, <3>3
      <3> QED BY <3>2, <3>3
    <2>3. CASE SourceOf[p] # s
      <3>1. missed'[p] = missed[p] /\ scanned'[p] = scanned[p]
        BY <1>0, <2>3 DEF FilesOf
      <3>2. NotAged(p)' => NotAged(p)
        BY <1>0, <1>2, <1>4, <1>5, <2>0, <2>3 DEF NotAged, Scanning
      <3> QED BY <2>1, <3>1, <3>2 DEF m
    <2> QED BY <2>2, <2>3
  <1>7. cpc # "save"
    BY <1>0, <1>2 DEF Places, CopierInv, QuietInv, Syncing
  <1> QED BY <1>0, <1>6, <1>7 DEF MissInv

LEMMA MissJobGoesOn ==
  ASSUME Control, Data, MissInv, NEW w \in Worker,
         \/ TakeJob(w) \/ FindID(w) \/ TruncateIndex(w) \/ WriteIndex(w)
         \/ SubmitCopyQueue(w) \/ NotifyOne(w) \/ NothingToCopy(w) \/ AgeUnchanged(w)
  PROVE  MissInv'
  <1> USE DEF main, disk, files, results, hdd, copier
  <1>0. /\ TypeOK /\ Places /\ DOMAIN wpc = Worker /\ DOMAIN running = Worker
        /\ UNCHANGED <<bin, scanned, missed, mpc, left, cpc, entries, task>>
    BY DEF Control, TypeOK, TakeJob, FindID, TruncateIndex, WriteIndex, SubmitCopyQueue, NotifyOne, NothingToCopy,
           DecrementPendingSources, AgeUnchanged, EndJob
  <1>1. \A p \in Path : SourceOf[p] \in Source
    BY HDDAssumption
  <1>2. CASE TakeJob(w)
    <2>1. /\ \A r \in Source : WithPool(r)' <=> WithPool(r)
          /\ \A r \in Source : Unscanned(r)' <=> Unscanned(r)
      BY <1>2, TakePlaces
    <2>2. /\ wpc' = [wpc EXCEPT ![w] = IF JobKind = "scan" THEN "scan" ELSE "index"]
          /\ running' = [running EXCEPT ![w] = Head(queue)]
      BY <1>2, TakenJob
    <2>3. \A v \in Worker : wpc'[v] \in {"age", "save"} => wpc[v] \in {"age", "save"} /\ running'[v] = running[v]
      BY <1>0, <2>2
    <2>4. \A p \in Path : NotAged(p)' => NotAged(p)
      BY <1>0, <1>1, <2>1, <2>3 DEF NotAged, Waiting
    <2> QED BY <1>0, <2>4, MissFrame
  <1>3. CASE ~TakeJob(w)
    <2>1. wpc[w] \notin {"idle", "scan"}
      BY <1>3 DEF FindID, TruncateIndex, WriteIndex, SubmitCopyQueue, NotifyOne, NothingToCopy, AgeUnchanged
    <2>2. mpc \in {"update", "submit", "joinUpdate"}
      <3>1. running[w] # NoJob /\ running[w].kind = "update"
        BY <1>0, <2>1, JobIs DEF Places, WorkersInv
      <3> QED BY <1>0, <3>1 DEF Places, PhaseInv, JobKind
    <2>3. \A r \in Source : WithPool(r)' => WithPool(r)
      <3>1. CASE FindID(w) \/ TruncateIndex(w) \/ WriteIndex(w) \/ AgeUnchanged(w)
        <4>1. CASE AgeUnchanged(w)
          <5>1. Goto(w, "save") /\ wpc[w] = "age"
            BY <4>1 DEF AgeUnchanged
          <5>2. UNCHANGED main /\ UNCHANGED missed /\ UNCHANGED <<copyQueue, pending, cpc, task, open>>
            BY <4>1 DEF AgeUnchanged
          <5> QED BY <5>1, <5>2, SamePlaces
        <4>2. CASE FindID(w) \/ TruncateIndex(w) \/ WriteIndex(w)
          <5>1. PICK pc \in {"indexing", "sync"} : Goto(w, pc) /\ wpc[w] \in {"index", "indexing"}
            BY <4>2 DEF FindID, TruncateIndex, WriteIndex
          <5>2. UNCHANGED main /\ UNCHANGED missed /\ UNCHANGED <<copyQueue, pending, cpc, task, open>>
            BY <4>2 DEF FindID, TruncateIndex, WriteIndex
          <5> QED BY <5>1, <5>2, SamePlaces
        <4> QED BY <3>1, <4>1, <4>2
      <3>2. CASE SubmitCopyQueue(w) \/ NothingToCopy(w)
        BY <3>2, SubmitCopyPlaces, NothingToCopyPlaces
      <3>3. CASE NotifyOne(w)
        <4>1. /\ EndJob(w) /\ wpc[w] = "notify" /\ UNCHANGED <<copyQueue, pending, cpc, task, open>>
          BY <3>3 DEF NotifyOne
        <4>2. MissedInv'
          BY <3>3, JobPlaces DEF JobStep, Places
        <4> QED BY <4>1, <4>2, WorkerEnds
      <3> QED BY <1>3, <3>1, <3>2, <3>3
    <2>4. \A v \in Worker : v # w => wpc'[v] = wpc[v] /\ running'[v] = running[v]
      BY <1>0, <1>3 DEF FindID, TruncateIndex, WriteIndex, SubmitCopyQueue, NotifyOne, NothingToCopy, AgeUnchanged,
           Goto, EndJob, Pool!Finish, pool
    <2>5. wpc'[w] \in {"age", "save"} =>
            running'[w] = running[w] /\ (wpc[w] = "age" \/ (wpc[w] = "sync" /\ Waiting(running[w].source)))
      <3>1. wpc'[w] \in {"age", "save"} => NothingToCopy(w) \/ AgeUnchanged(w)
        BY <1>0, <1>3 DEF FindID, TruncateIndex, WriteIndex, SubmitCopyQueue, NotifyOne, Goto, EndJob
      <3>2. NothingToCopy(w) => wpc[w] = "sync" /\ running' = running
        BY DEF NothingToCopy, Goto, pool
      <3>3. AgeUnchanged(w) => wpc[w] = "age" /\ running' = running
        BY DEF AgeUnchanged, Goto, pool
      <3>4. wpc[w] = "sync" => Waiting(running[w].source)
        BY DEF Waiting, WithPool
      <3> QED BY <3>1, <3>2, <3>3, <3>4
    <2>6. ASSUME NEW p \in Path, NotAged(p)' PROVE NotAged(p)
      <3>1. mpc \notin Scanning \cup {"start"}
        BY <2>2 DEF Scanning
      <3>2. CASE Waiting(SourceOf[p])'
        BY <1>0, <1>1, <2>3, <3>1, <3>2 DEF NotAged, Waiting
      <3>3. ASSUME NEW v \in Worker, wpc'[v] \in {"age", "save"}, running'[v].source = SourceOf[p] PROVE NotAged(p)
        <4>1. CASE v # w
          BY <2>4, <3>3, <4>1 DEF NotAged
        <4>2. CASE v = w
          BY <2>5, <3>1, <3>3, <4>2 DEF NotAged
        <4> QED BY <4>1, <4>2
      <3> QED BY <1>0, <2>6, <3>1, <3>2, <3>3 DEF NotAged, Scanning
    <2> QED BY <1>0, <2>6, MissFrame
  <1> QED BY <1>2, <1>3

(* A job saves the cache it aged: what it did not find it missed once more *)
(* than the old entry says, and what it found is recorded.                 *)
LEMMA MissSaveUnchanged ==
  ASSUME Control, Data, MissInv, NEW w \in Worker, SaveUnchanged(w)
  PROVE  MissInv'
  <1> USE DEF main, disk, files, hdd, copier
  <1> PICK s : s = running[w].source
    OBVIOUS
  <1>0. /\ TypeOK /\ Places /\ wpc[w] = "save" /\ EndJob(w) /\ DOMAIN wpc = Worker /\ DOMAIN running = Worker
        /\ bin' = [bin EXCEPT ![s] = Refresh(CacheOf(s), Fresh(s), MaxMiss)] /\ DOMAIN bin = Source
        /\ missed' = [p \in Path |-> IF p \in DOMAIN Fresh(s) THEN 0 ELSE missed[p]]
        /\ UNCHANGED <<scanned, mpc, left, copyQueue, pending, cpc, entries, task, open>>
    BY DEF Control, TypeOK, SaveUnchanged, EndJob, Recorded
  <1>1. /\ s \in Source /\ ~Waiting(s) /\ mpc \in {"update", "submit", "joinUpdate"}
        /\ \A v \in Worker : wpc[v] # "idle" /\ running[v].source = s => v = w
        /\ task # NoTask => task.source # s
    BY <1>0, SavedIs
  <1>2. /\ \A v \in Worker : v # w => wpc'[v] = wpc[v] /\ running'[v] = running[v]
        /\ wpc'[w] = "idle"
    BY <1>0 DEF EndJob, Pool!Finish
  <1>3. \A r \in Source : WithPool(r)' <=> WithPool(r)
    <2>1. MissedInv'
      BY JobPlaces DEF JobStep, Places
    <2> QED BY <1>0, <2>1, WorkerEnds
  <1>4. DOMAIN Fresh(s) = {p \in Path : SourceOf[p] = s /\ scanned[p] # Absent}
    BY FreshIs
  <1>5. /\ \A r \in Source : r # s => bin'[r] = bin[r]
        /\ bin'[s] = Refresh(CacheOf(s), Fresh(s), MaxMiss)
    BY <1>0, <1>1
  <1>6. ASSUME NEW p \in Path, NotAged(p)' PROVE NotAged(p) /\ SourceOf[p] # s
    <2>0. SourceOf[p] \in Source /\ mpc \notin Scanning \cup {"start"}
      BY <1>1, HDDAssumption DEF Scanning
    <2>1. CASE Waiting(SourceOf[p])'
      BY <1>0, <1>1, <1>3, <2>0, <2>1 DEF NotAged, Waiting
    <2>2. ASSUME NEW v \in Worker, wpc'[v] \in {"age", "save"}, running'[v].source = SourceOf[p]
          PROVE  NotAged(p) /\ SourceOf[p] # s
      <3>1. v # w
        BY <1>2, <2>2
      <3> QED BY <1>1, <1>2, <2>2, <3>1 DEF NotAged
    <2> QED BY <1>0, <1>6, <2>0, <2>1, <2>2 DEF NotAged, Scanning
  <1>7. ASSUME NEW p \in Path, p \in DOMAIN bin'[SourceOf[p]]
        PROVE  /\ bin'[SourceOf[p]][p].miss <= missed'[p]
               /\ scanned'[p] = Absent /\ NotAged(p)' => bin'[SourceOf[p]][p].miss < missed'[p]
    <2>0. SourceOf[p] \in Source /\ missed[p] \in Nat
      BY <1>0, HDDAssumption DEF TypeOK
    <2>1. CASE SourceOf[p] # s
      <3>1. bin'[SourceOf[p]] = bin[SourceOf[p]]
        BY <1>5, <2>0, <2>1
      <3>2. missed'[p] = missed[p]
        BY <1>0, <1>4, <2>1
      <3> QED BY <1>0, <1>6, <1>7, <3>1, <3>2 DEF MissInv
    <2>2. CASE SourceOf[p] = s
      <3>1. ~NotAged(p)'
        BY <1>6, <2>2
      <3>2. \/ p \in DOMAIN Fresh(s) /\ bin'[s][p].miss = 0
            \/ /\ p \in DOMAIN CacheOf(s) \ DOMAIN Fresh(s)
               /\ bin'[s][p].miss \in {0, CacheOf(s)[p].miss + 1}
        BY <1>5, <1>7, <2>2, RefreshIs
      <3>3. CASE p \in DOMAIN Fresh(s) /\ bin'[s][p].miss = 0
        BY <1>0, <2>2, <3>1, <3>3
      <3>4. CASE p \in DOMAIN CacheOf(s) \ DOMAIN Fresh(s) /\ bin'[s][p].miss \in {0, CacheOf(s)[p].miss + 1}
        <4>1. p \in DOMAIN bin[s] /\ CacheOf(s)[p] = bin[s][p]
          BY <3>4, CacheOfIs
        <4>2. scanned[p] = Absent /\ NotAged(p)
          BY <1>0, <1>4, <2>2, <3>4 DEF NotAged
        <4>3. bin[s][p].miss < missed[p] /\ bin[s][p].miss \in Nat
          <5>1. bin[s][p].miss < missed[p]
            BY <2>2, <4>1, <4>2 DEF MissInv
          <5>2. bin[s][p].miss \in 0 .. MaxMiss
            BY <1>0, <1>1, <4>1 DEF TypeOK, SourceCache, Cache
          <5> QED BY <5>1, <5>2
        <4>4. missed'[p] = missed[p]
          BY <1>0, <3>4
        <4>5. bin'[s][p].miss <= missed'[p]
          BY <2>0, <3>4, <4>1, <4>3, <4>4
        <4> QED BY <2>2, <3>1, <4>5
      <3> QED BY <3>2, <3>3, <3>4
    <2> QED BY <2>1, <2>2
  <1>8. cpc' = "save" => \A p \in DOMAIN entries' : SourceOf[p] = task'.source => entries'[p].miss = 0
    BY <1>0 DEF MissInv
  <1> QED BY <1>7, <1>8 DEF MissInv

LEMMA MissAgeCopied ==
  ASSUME Control, Data, MissInv, AgeCopied
  PROVE  MissInv'
  <1> USE DEF main, disk, files, results, hdd, copier, pool
  <1>0. /\ TypeOK /\ cpc = "age" /\ entries' = Refresh(entries, task.fresh, MaxMiss)
        /\ UNCHANGED <<bin, scanned, missed, mpc, left, queue, running, wpc, task>>
    BY DEF Control, AgeCopied
  <1>1. task # NoTask
    BY <1>0 DEF Control, Places, CopierInv
  <1>2. task.fresh = Fresh(task.source)
    BY <1>1 DEF Data, TasksInv
  <1>3. DOMAIN Fresh(task.source) = {p \in Path : SourceOf[p] = task.source /\ scanned[p] # Absent}
    BY FreshIs
  <1>4. ASSUME NEW p \in DOMAIN entries', SourceOf[p] = task.source PROVE entries'[p].miss = 0
    <2>1. \/ p \in DOMAIN task.fresh /\ entries'[p].miss = 0
          \/ p \in DOMAIN entries \ DOMAIN task.fresh
      BY <1>0, <1>4, RefreshIs
    <2>2. p \in DOMAIN entries => p \in Path /\ scanned[p] # Absent
      BY <1>0, TypeIs DEF Data, EntriesInv
    <2> QED BY <1>2, <1>3, <1>4, <2>1, <2>2
  <1>5. \A p \in Path : NotAged(p)' => NotAged(p)
    BY <1>0 DEF NotAged, Unscanned, Waiting, WithPool
  <1> QED BY <1>0, <1>4, <1>5 DEF MissInv

LEMMA MissSaveCopied ==
  ASSUME Control, Data, MissInv, SaveCopied
  PROVE  MissInv'
  <1> USE DEF main, disk, files, hdd, copier, pool
  <1> PICK s : s = task.source
    OBVIOUS
  <1>0. /\ TypeOK /\ cpc = "save" /\ cpc' = "decrement"
        /\ bin' = [bin EXCEPT ![s] = entries] /\ DOMAIN bin = Source
        /\ missed' = [p \in Path |-> IF p \in DOMAIN task.fresh THEN 0 ELSE missed[p]]
        /\ UNCHANGED <<scanned, mpc, left, queue, running, wpc, task, entries>>
    BY DEF Control, TypeOK, SaveCopied, Recorded
  <1>1. task # NoTask
    BY <1>0 DEF Control, Places, CopierInv
  <1>2. s \in Source
    BY <1>1, TaskIs
  <1>3. task.fresh = Fresh(s)
    BY <1>1 DEF Data, TasksInv
  <1>4. DOMAIN task.fresh = {p \in Path : SourceOf[p] = s /\ scanned[p] # Absent}
    BY <1>3, FreshIs
  <1>5. \A p \in Path : NotAged(p)' => NotAged(p)
    BY <1>0 DEF NotAged, Unscanned, Waiting, WithPool
  <1>6. ASSUME NEW p \in Path, p \in DOMAIN bin'[SourceOf[p]]
        PROVE  /\ bin'[SourceOf[p]][p].miss <= missed'[p]
               /\ scanned'[p] = Absent /\ NotAged(p)' => bin'[SourceOf[p]][p].miss < missed'[p]
    <2>0. SourceOf[p] \in Source
      BY HDDAssumption
    <2>1. CASE SourceOf[p] # s
      <3>1. bin'[SourceOf[p]] = bin[SourceOf[p]]
        BY <1>0, <2>0, <2>1
      <3>2. missed'[p] = missed[p]
        BY <1>0, <1>4, <2>1
      <3> QED BY <1>0, <1>5, <1>6, <3>1, <3>2 DEF MissInv
    <2>2. CASE SourceOf[p] = s
      <3>1. bin'[s] = entries
        BY <1>0, <1>2
      <3>2. p \in DOMAIN entries /\ entries[p].miss = 0
        BY <1>0, <1>6, <2>2, <3>1 DEF MissInv
      <3>3. scanned[p] # Absent
        BY <3>2 DEF Data, EntriesInv
      <3>4. missed'[p] = 0
        BY <1>0, <1>4, <2>2, <3>3
      <3>5. bin'[SourceOf[p]][p].miss <= missed'[p]
        BY <2>2, <3>1, <3>2, <3>4
      <3>6. scanned'[p] # Absent
        BY <1>0, <3>3
      <3> QED BY <3>5, <3>6
    <2> QED BY <2>1, <2>2
  <1> QED BY <1>0, <1>6 DEF MissInv

LEMMA MissCopier ==
  ASSUME Control, Data, MissInv, CopierStep
  PROVE  MissInv'
  <1> USE DEF main, disk, files, results, hdd, copier, pool
  <1>1. CASE ~AgeCopied /\ ~SaveCopied
    <2>1. /\ UNCHANGED <<bin, scanned, missed, mpc, left, queue, running, wpc>> /\ cpc' # "save"
      <3>1. cpc # "save" \/ CopierWaits \/ TakeTask \/ CopierExits \/ MarkCopied \/ SourceDone \/ GiveUpSource
            \/ \E p \in Path : CopyRefused(p) \/ RootNotFound(p) \/ OpenDestination(p)
        BY <1>1 DEF CopierStep, FinishCopy, Control, Places, CopierInv
      <3> QED BY <1>1, <3>1 DEF CopierStep, CopierWakes, CopierWaits, TakeTask, CopierExits, CopyRefused, RootNotFound,
                CopyFails, Copying, OpenDestination, FinishCopy, GiveUpSource, MarkCopied, SourceDone
    <2>2. \A p \in Path : NotAged(p)' => NotAged(p)
      BY <2>1 DEF NotAged, Unscanned, Waiting, WithPool
    <2> QED BY <2>1, <2>2, MissFrame
  <1> QED BY <1>1, MissAgeCopied, MissSaveCopied

LEMMA MissInit == Init => MissInv
  <1> SUFFICES ASSUME Init PROVE MissInv
    OBVIOUS
  <1>1. cpc = "none" /\ \A p \in Path : bin[SourceOf[p]] = EmptyCache
    BY HDDAssumption DEF Init
  <1> QED BY <1>1 DEF MissInv, EmptyCache

LEMMA MissStep ==
  ASSUME Control, Data, MissInv, [Next]_vars
  PROVE  MissInv'
  <1>1. ASSUME NEW w \in Worker, JobStep(w) PROVE MissInv'
    BY <1>1, MissJobGoesOn, MissScan, MissSaveUnchanged DEF JobStep
  <1>2. CASE Edit \/ (\E t \in {"main", "copier"} : SpuriousWake(t)) \/ ExitOnFailure \/ UNCHANGED vars
    <2>1. UNCHANGED <<disk, main, results, pool, wpc, copier>>
      BY <1>2 DEF Edit, Modify, Remove, Reappear, SpuriousWake, ExitOnFailure, vars
    <2>2. UNCHANGED <<bin, scanned, missed>>
      BY <2>1 DEF disk, results
    <2> QED BY <2>1, <2>2, MissIdle
  <1> QED BY <1>1, <1>2, MissStart, MissMain, MissCopier DEF Next

-----------------------------------------------------------------------------
(* Deletions.                                                              *)
LEMMA DeletedIsStale ==
  ASSUME OwnFilesOnly, Control, Data, Truth, MissInv, [Next]_vars,
         NEW p \in Path, dest[p] # Absent, dest'[p] = Absent
  PROVE  missed[p] > MaxMiss
  <1> USE DEF disk
  <1>0. TypeOK /\ DOMAIN dest = Path /\ Absent # Torn /\ Absent \notin Version
    BY HDDAssumption DEF Control, TypeOK
  <1>1. PICK w \in Worker : AgeUnchanged(w)
    <2>1. CASE AgeCopied
      BY <2>1, NothingStaleCopied DEF AgeCopied
    <2>2. ASSUME NEW q \in Path, OpenDestination(q) PROVE FALSE
      BY <1>0, <2>2 DEF OpenDestination
    <2>3. CASE FinishCopy
      <3>1. open # NoFile /\ open.path \in Path /\ open.version \in Version
        BY <1>0, <2>3, TypeIs DEF FinishCopy
      <3>2. dest[open.path] = Torn
        BY <3>1 DEF Truth, OpenInv
      <3>3. Absent \notin Outcomes(open.path)
        BY <1>0, <3>1, <3>2, HDDAssumption DEF Outcomes, Unedited
      <3> QED BY <1>0, <2>3, <3>1, <3>3 DEF FinishCopy
    <2>4. ASSUME NEW v \in Worker, JobStep(v), ~AgeUnchanged(v) PROVE FALSE
      <3>1. dest' = dest
        BY <2>4 DEF JobStep, TakeJob, Scan, FindID, TruncateIndex, WriteIndex, SubmitCopyQueue, NotifyOne,
             NothingToCopy, SaveUnchanged
      <3> QED BY <3>1
    <2>5. ASSUME CopierStep, ~AgeCopied, ~FinishCopy, \A q \in Path : ~OpenDestination(q) PROVE FALSE
      <3>1. dest' = dest
        BY <2>5 DEF CopierStep, CopierWaits, TakeTask, CopierExits, CopyRefused, RootNotFound, CopyFails,
             GiveUpSource, MarkCopied, SaveCopied, SourceDone
      <3> QED BY <3>1
    <2>6. ASSUME StartRun \/ MainStep PROVE FALSE
      <3>1. dest' = dest
        BY <2>6 DEF StartRun, MainStep, SubmitScan, SubmitUpdate, JoinScans, ScansJoined, ResetCopiedFlags,
             StartCopyThread, IncrementPendingSources, JoinUpdates, UpdatesJoined, MarkAllSourcesSubmitted,
             MainWaits, WaitUntilDone, Stop, StopNotifies, JoinCopyThread, MarkSuccess
      <3> QED BY <3>1
    <2>7. ASSUME Edit \/ (\E t \in {"main", "copier"} : SpuriousWake(t)) \/ ExitOnFailure \/ UNCHANGED vars PROVE FALSE
      <3>1. dest' = dest
        BY <2>7 DEF Edit, Modify, Remove, Reappear, SpuriousWake, ExitOnFailure, vars
      <3> QED BY <3>1
    <2> QED BY <2>1, <2>2, <2>3, <2>4, <2>5, <2>6, <2>7 DEF Next
  <1>2. PICK s : s = running[w].source
    OBVIOUS
  <1>3. wpc[w] = "age" /\ dest' = DestWithout(StaleAfter(CacheOf(s), Fresh(s), MaxMiss))
    BY <1>1, <1>2 DEF AgeUnchanged
  <1>4. DeleteStale /\ ~TopFolder /\ p \in StaleAfter(CacheOf(s), Fresh(s), MaxMiss)
    BY <1>3 DEF DestWithout
  <1>5. s \in Source
    BY <1>2, <1>3, SavedIs
  <1>6. SourceOf[p] = s
    BY <1>4, <1>5, HDDAssumption DEF OwnFilesOnly
  <1>7. p \in DOMAIN CacheOf(s) /\ CacheOf(s)[p].miss = MaxMiss
    <2>1. CacheOf(s) \in Cache(Path, Version, MaxMiss)
      BY <1>0, <1>5, CacheOfType DEF SourceCache
    <2> QED BY <1>4, <2>1, StaleMissedLongEnough, HDDAssumption
  <1>8. p \notin DOMAIN Fresh(s)
    BY <1>4, FreshNeverStale
  <1>9. p \in DOMAIN bin[s] /\ bin[s][p].miss = MaxMiss
    BY <1>7, <1>8, CacheOfIs
  <1>10. scanned[p] = Absent
    <2>1. DOMAIN Fresh(s) = {q \in Path : SourceOf[q] = s /\ scanned[q] # Absent}
      BY FreshIs
    <2> QED BY <1>6, <1>8, <2>1
  <1>11. NotAged(p)
    BY <1>2, <1>3, <1>6 DEF NotAged
  <1>12. MaxMiss < missed[p]
    BY <1>6, <1>9, <1>10, <1>11 DEF MissInv
  <1> QED BY <1>0, <1>12, HDDAssumption DEF TypeOK

(* A file leaves the destination only after more than StaleEntries scans   *)
(* missed it since a run recorded it (MetaDataCache.cpp,                   *)
(* RemoveStaleEntries): no copy, no rewritten cache and no other source's  *)
(* run deletes it.                                                         *)
THEOREM DeletesOnlyStaleAlways ==
  ASSUME OwnFilesOnly
  PROVE  Spec => DeletesOnlyStale
  <1>1. Init => MissInv
    BY MissInit
  <1>2. Control /\ Data /\ Truth /\ MissInv /\ [Next]_vars => MissInv'
    BY MissStep
  <1>3. Control /\ Data /\ Truth /\ MissInv /\ [Next]_vars =>
          [\A p \in Path : dest[p] # Absent /\ dest'[p] = Absent => missed[p] > MaxMiss]_vars
    BY DeletedIsStale
  <1> QED BY <1>1, <1>2, <1>3, TruthAlways, PTL DEF Spec, DeletesOnlyStale

-----------------------------------------------------------------------------
(* The run as SyncRun sees it.  Each source is in one of the places below, *)
(* and a step moves at most one of them.                                   *)
RunStages == [s \in Source |-> StageIs(s)]

InQueue(s) == \E i \in DOMAIN copyQueue : copyQueue[i].source = s

InCopy(s) == WithTask(s, {"copy"})

InSave(s) == WithTask(s, {"age", "save"})

Aged(s) == \E w \in Worker : wpc[w] \in {"age", "save"} /\ running[w].source = s

SamePlace(s) ==
  /\ Waiting(s)' <=> Waiting(s)
  /\ InQueue(s)' <=> InQueue(s)
  /\ InCopy(s)' <=> InCopy(s)
  /\ InSave(s)' <=> InSave(s)
  /\ Aged(s)' <=> Aged(s)

(* The places exclude each other.                                          *)
LEMMA OnePlace ==
  ASSUME Control, NEW s \in Source
  PROVE  /\ Waiting(s) => ~InQueue(s) /\ ~InCopy(s) /\ ~InSave(s) /\ ~Aged(s)
         /\ InQueue(s) => ~InCopy(s) /\ ~InSave(s) /\ ~Aged(s)
         /\ InCopy(s) => ~InSave(s) /\ ~Aged(s)
         /\ InSave(s) => ~Aged(s)
         /\ mpc = "start" => ~Waiting(s) /\ ~InQueue(s) /\ ~InCopy(s) /\ ~InSave(s) /\ ~Aged(s)
  <1>0. TypeOK /\ WorkersInv /\ JobsOnce /\ TasksOnce /\ QuietInv
    BY DEF Control, Places
  <1>1. InQueue(s) \/ InCopy(s) \/ InSave(s) => WithCopier(s)
    BY DEF InQueue, InCopy, InSave, WithTask, WithCopier
  <1>2. WithCopier(s) => ~Waiting(s) /\ ~Aged(s)
    <2> SUFFICES ASSUME WithCopier(s) PROVE ~Waiting(s) /\ ~Aged(s)
      OBVIOUS
    <2>1. s \notin left /\ ~JobQueued(s) /\ \A w \in Worker : Runs(w, s) => wpc[w] = "notify"
      BY <1>0 DEF TasksOnce
    <2>2. \A w \in Worker : wpc[w] \in {"index", "indexing", "sync", "age", "save"} => running[w].source # s
      BY <1>0, <2>1 DEF Runs, WorkersInv
    <2>3. \A i \in DOMAIN queue : queue[i] # [kind |-> "update", source |-> s]
      BY <2>1 DEF JobQueued
    <2> QED BY <2>1, <2>2, <2>3 DEF Waiting, WithPool, Aged
  <1>3. Aged(s) => ~Waiting(s)
    <2> SUFFICES ASSUME NEW w \in Worker, wpc[w] \in {"age", "save"}, running[w].source = s PROVE ~Waiting(s)
      BY DEF Aged
    <2>1. Runs(w, s)
      BY <1>0 DEF Runs, WorkersInv
    <2>2. s \notin left /\ ~JobQueued(s) /\ \A v \in Worker : Runs(v, s) => v = w
      BY <1>0, <2>1 DEF JobsOnce
    <2>3. \A v \in Worker : wpc[v] \in {"index", "indexing", "sync"} => running[v].source # s
      BY <1>0, <2>2 DEF Runs, WorkersInv
    <2>4. \A i \in DOMAIN queue : queue[i] # [kind |-> "update", source |-> s]
      BY <2>2 DEF JobQueued
    <2> QED BY <2>2, <2>3, <2>4 DEF Waiting, WithPool
  <1>4. InQueue(s) => ~InCopy(s) /\ ~InSave(s)
    BY <1>0 DEF TasksOnce, InQueue, InCopy, InSave, WithTask
  <1>5. InCopy(s) => ~InSave(s)
    BY DEF InCopy, InSave, WithTask
  <1>6. mpc = "start" => ~Waiting(s) /\ ~InQueue(s) /\ ~InCopy(s) /\ ~InSave(s) /\ ~Aged(s)
    <2> SUFFICES ASSUME mpc = "start" PROVE ~Waiting(s) /\ ~InQueue(s) /\ ~InCopy(s) /\ ~InSave(s) /\ ~Aged(s)
      OBVIOUS
    <2>1. copyQueue = <<>> /\ task = NoTask /\ left = {}
      BY <1>0 DEF QuietInv, JobsOnce, Syncing
    <2>2. ~WithPool(s) /\ \A w \in Worker : wpc[w] = "idle"
      BY PoolEmpty DEF JobKind
    <2> QED BY <2>1, <2>2 DEF Waiting, InQueue, InCopy, InSave, WithTask, Aged
  <1> QED BY <1>1, <1>2, <1>3, <1>4, <1>5, <1>6

StageFits(s) ==
  RunIs = "sync" =>
    /\ mpc = "start" \/ Waiting(s) => StageIs(s) = "scanned"
    /\ InQueue(s) => StageIs(s) = "queued"
    /\ InCopy(s) => StageIs(s) = "copying"
    /\ InSave(s) => StageIs(s) = "saving"
    /\ Aged(s) => StageIs(s) = "unchanged"
    /\ ~(mpc = "start" \/ Waiting(s) \/ InQueue(s) \/ InCopy(s) \/ InSave(s) \/ Aged(s)) => StageIs(s) = "done"

LEMMA StageOf == Control => \A s \in Source : StageFits(s)
  <1> SUFFICES ASSUME Control, NEW s \in Source, RunIs = "sync" PROVE StageFits(s)
    BY DEF StageFits
  <1>1. StageIs(s) = CASE mpc = "start" \/ Waiting(s) -> "scanned"
                       [] InQueue(s) -> "queued"
                       [] InCopy(s) -> "copying"
                       [] InSave(s) -> "saving"
                       [] Aged(s) -> "unchanged"
                       [] OTHER -> "done"
    BY DEF StageIs, Waiting, InQueue, InCopy, InSave, Aged
  <1> QED BY <1>1, OnePlace DEF StageFits

LEMMA StageNext == Control' => \A s \in Source : StageFits(s)'
  <1>1. (Control => \A s \in Source : StageFits(s))'
    BY StageOf, PTL
  <1> QED BY <1>1

LEMMA StageKept ==
  ASSUME Control, Control', RunIs' = RunIs, mpc' = "start" <=> mpc = "start", NEW s \in Source,
         RunIs = "scan" => (Unscanned(s)' <=> Unscanned(s)),
         RunIs = "sync" => SamePlace(s)
  PROVE  StageIs(s)' = StageIs(s)
  <1>1. CASE RunIs = "scan"
    BY <1>1 DEF StageIs
  <1>2. CASE RunIs # "scan" /\ RunIs # "sync"
    <2>1. RunIs \in {"off", "ended"}
      BY <1>2 DEF RunIs
    <2>2. CASE RunIs = "off"
      BY <2>2 DEF StageIs
    <2>3. CASE RunIs = "ended"
      BY <2>3 DEF StageIs
    <2> QED BY <2>1, <2>2, <2>3
  <1>3. CASE RunIs = "sync"
    <2>1. SamePlace(s)
      BY <1>3
    <2>2. StageFits(s) /\ StageFits(s)'
      BY StageOf, StageNext
    <2> QED BY <1>3, <2>1, <2>2 DEF SamePlace, StageFits
  <1> QED BY <1>1, <1>2, <1>3

(* What moves no source is a stutter.                                      *)
LEMMA RunStutters ==
  ASSUME RunIs' = RunIs, \A s \in Source : StageIs(s)' = StageIs(s)
  PROVE  [Run!Next]_(Run!vars)
  BY DEF Run!vars

LEMMA RunFrame ==
  ASSUME Control, Control', RunIs' = RunIs, mpc' = "start" <=> mpc = "start",
         \A s \in Source : RunIs = "scan" => (Unscanned(s)' <=> Unscanned(s)),
         \A s \in Source : RunIs = "sync" => SamePlace(s)
  PROVE  [Run!Next]_(Run!vars)
  <1>1. \A s \in Source : StageIs(s)' = StageIs(s)
    BY StageKept
  <1> QED BY <1>1, RunStutters

(* What moves one source is a step of SyncRun.                             *)
LEMMA RunMoves ==
  ASSUME Control, Control', alive, alive', mpc \in Syncing, mpc' = mpc, NEW s \in Source,
         \A r \in Source : r # s => SamePlace(r), NEW from, NEW to, StageIs(s) = from, StageIs(s)' = to
  PROVE  Run!Move(s, from, to)
  <1>1. RunIs = "sync" /\ RunIs' = "sync"
    BY DEF RunIs, Syncing
  <1>2. \A r \in Source : r # s => StageIs(r)' = StageIs(r)
    BY <1>1, StageKept
  <1>3. RunStages' = [RunStages EXCEPT ![s] = to]
    BY <1>2 DEF RunStages
  <1>4. RunStages[s] = from
    BY DEF RunStages
  <1> QED BY <1>1, <1>3, <1>4 DEF Run!Move, RunStages

(* A step that changes nothing a run's stages are read from.               *)
LEMMA RunIdle ==
  ASSUME Control, Control', UNCHANGED <<alive, main, pool, wpc, copyQueue, cpc>>,
         task' # NoTask <=> task # NoTask, task # NoTask => task'.source = task.source
  PROVE  [Run!Next]_(Run!vars)
  <1>1. UNCHANGED <<alive, mpc, left, queue, running, wpc>>
    BY DEF main, pool
  <1>2. RunIs' = RunIs
    BY <1>1 DEF RunIs
  <1>3. \A s \in Source : (Unscanned(s)' <=> Unscanned(s)) /\ SamePlace(s)
    BY <1>1 DEF Unscanned, SamePlace, Waiting, WithPool, InQueue, InCopy, InSave, WithTask, Aged
  <1> QED BY <1>1, <1>2, <1>3, RunFrame

LEMMA RunStart ==
  ASSUME Control, Control', StartRun, alive, alive'
  PROVE  Run!Begin
  <1>1. RunIs = "off" /\ RunIs' = "scan" /\ left' = Source
    BY DEF StartRun, RunIs
  <1>2. \A s \in Source : StageIs(s)' = "unscanned"
    BY <1>1 DEF StageIs, Unscanned
  <1>3. RunStages' = [s \in Source |-> IF s \in Source THEN "unscanned" ELSE "out"]
    BY <1>2 DEF RunStages
  <1>4. Source \in (SUBSET Source) \ {{}}
    BY HDDAssumption
  <1> QED BY <1>1, <1>3, <1>4 DEF Run!Begin, RunStages

LEMMA RunMain ==
  ASSUME Control, Control', MainStep, alive, alive'
  PROVE  [Run!Next]_(Run!vars)
  <1> USE DEF main, hdd, copier
  <1>0. UNCHANGED <<wpc, running, copyQueue, task>> /\ (StartCopyThread \/ UNCHANGED cpc)
    BY DEF MainStep, SubmitScan, SubmitUpdate, Pool!Submit, JoinScans, Pool!JoinCall, ScansJoined,
           Pool!JoinReturn, ResetCopiedFlags, StartCopyThread, IncrementPendingSources, JoinUpdates,
           UpdatesJoined, MarkAllSourcesSubmitted, MainWaits, WaitUntilDone, Stop, StopNotifies,
           JoinCopyThread, MarkSuccess, pool
  <1>1. CASE ResetCopiedFlags
    <2>1. RunIs = "scan" /\ RunIs' = "sync" /\ mpc' = "start" /\ left' = left /\ JobKind = "none" /\ mpc = "reset"
      BY <1>1 DEF ResetCopiedFlags, RunIs, JobKind
    <2>2. \A s \in Source : ~Unscanned(s)
      <3>1. left = {}
        BY <2>1 DEF Control, Places, JobsOnce
      <3>2. queue = <<>> /\ \A w \in Worker : wpc[w] = "idle"
        BY <2>1, PoolEmpty
      <3> QED BY <3>1, <3>2 DEF Unscanned
    <2>3. \A s \in Source : StageIs(s) = "scanned"
      BY <2>1, <2>2 DEF StageIs
    <2>4. \A s \in Source : StageIs(s)' = "scanned"
      BY <2>1, StageNext DEF StageFits
    <2>5. Run!At("unscanned") = {} /\ RunStages' = RunStages
      BY <2>3, <2>4 DEF Run!At, RunStages
    <2>6. Run!ScansJoined
      BY <2>1, <2>5 DEF Run!ScansJoined, RunStages
    <2> QED BY <2>6 DEF Run!Next, Run!Progress
  <1>2. CASE StartCopyThread
    <2>1. RunIs = "sync" /\ RunIs' = "sync" /\ mpc = "start" /\ left' = Source
      BY <1>2 DEF StartCopyThread, RunIs
    <2>2. \A s \in Source : StageIs(s) = "scanned"
      BY <2>1, StageOf DEF StageFits
    <2>3. \A s \in Source : StageIs(s)' = "scanned"
      BY <2>1, StageNext DEF StageFits, Waiting
    <2> QED BY <2>1, <2>2, <2>3, RunStutters
  <1>3. CASE WaitUntilDone
    <2>1. RunIs = "sync" /\ RunIs' = "ended" /\ mpc = "wait" /\ pending = 0
      BY <1>3 DEF WaitUntilDone, AllDone, RunIs
    <2>2. copyQueue = <<>> /\ task = NoTask
      BY <2>1, NothingLeft
    <2>3. left = {}
      BY <2>1 DEF Control, Places, JobsOnce
    <2>4. JobKind = "none"
      BY <2>1 DEF JobKind
    <2>5. \A s \in Source : ~(mpc = "start" \/ Waiting(s) \/ InQueue(s) \/ InCopy(s) \/ InSave(s) \/ Aged(s))
      BY <2>1, <2>2, <2>3, <2>4, PoolEmpty DEF Waiting, InQueue, InCopy, InSave, WithTask, Aged
    <2>6. \A s \in Source : StageIs(s) = "done"
      BY <2>1, <2>5, StageOf DEF StageFits
    <2>7. \A s \in Source : StageIs(s)' = "done"
      BY <2>1 DEF StageIs
    <2>8. Run!At("done") \cup Run!At("out") = Source /\ RunStages' = RunStages
      BY <2>6, <2>7 DEF Run!At, RunStages
    <2>9. Run!WaitUntilDone
      BY <2>1, <2>8 DEF Run!WaitUntilDone, RunStages
    <2> QED BY <2>9 DEF Run!Next, Run!Progress
  <1>4. CASE MarkSuccess
    <2>1. RunIs = "ended" /\ RunIs' = "off"
      BY <1>4 DEF MarkSuccess, RunIs
    <2>2. \A s \in Source : StageIs(s)' = "out"
      BY <2>1 DEF StageIs
    <2>3. Run!Leave
      BY <2>1, <2>2 DEF Run!Leave, Run!AllOut
    <2> QED BY <2>3 DEF Run!Next, Run!Progress
  <1>5. CASE ~ResetCopiedFlags /\ ~StartCopyThread /\ ~WaitUntilDone /\ ~MarkSuccess
    <2>1. RunIs' = RunIs /\ mpc # "start" /\ mpc' # "start"
      BY <1>5 DEF MainStep, SubmitScan, SubmitUpdate, JoinScans, ScansJoined,
           IncrementPendingSources, JoinUpdates, UpdatesJoined, MarkAllSourcesSubmitted, MainWaits,
           Stop, StopNotifies, JoinCopyThread, RunIs
    <2>2. \A s \in Source : RunIs = "scan" => (Unscanned(s)' <=> Unscanned(s))
      <3>1. CASE mpc = "scan"
        BY <1>5, <3>1, MainWaiting
      <3>2. CASE mpc # "scan" /\ RunIs = "scan"
        <4>1. ScansJoined
          BY <1>5, <3>2 DEF MainStep, SubmitScan, SubmitUpdate, JoinScans,
             IncrementPendingSources, JoinUpdates, UpdatesJoined, MarkAllSourcesSubmitted, MainWaits,
             Stop, StopNotifies, JoinCopyThread, RunIs
        <4> QED BY <1>0, <4>1 DEF ScansJoined, Pool!JoinReturn, Unscanned
      <3> QED BY <3>1, <3>2
    <2>3. \A s \in Source : RunIs = "sync" => SamePlace(s)
      <3>1. RunIs = "sync" => mpc # "scan"
        BY DEF RunIs
      <3>2. RunIs = "sync" => \A s \in Source : Waiting(s)' <=> Waiting(s)
        BY <1>5, <3>1, MainWaiting
      <3> QED BY <1>0, <1>5, <3>2 DEF SamePlace, InQueue, InCopy, InSave, WithTask, Aged
    <2> QED BY <2>1, <2>2, <2>3, RunFrame
  <1> QED BY <1>1, <1>2, <1>3, <1>4, <1>5

LEMMA RunScan ==
  ASSUME Control, Control', NEW w \in Worker, Scan(w), alive, alive'
  PROVE  Run!Scan
  <1> PICK s : s = running[w].source
    OBVIOUS
  <1>0. /\ TypeOK /\ WorkersInv /\ PhaseInv /\ JobsOnce /\ wpc[w] = "scan" /\ UNCHANGED <<mpc, left, queue>>
        /\ running' = [running EXCEPT ![w] = NoJob] /\ wpc' = [wpc EXCEPT ![w] = "idle"]
        /\ DOMAIN wpc = Worker /\ DOMAIN running = Worker
    BY DEF Control, Places, TypeOK, Scan, EndJob, Pool!Finish, main
  <1>1. s \in Source /\ Runs(w, s) /\ running[w].kind = "scan"
    BY <1>0, JobIs DEF Runs
  <1>2. mpc \in {"scan", "joinScan"}
    BY <1>0, <1>1 DEF PhaseInv, JobKind, Runs
  <1>3. RunIs = "scan" /\ RunIs' = "scan"
    BY <1>0, <1>2 DEF RunIs
  <1>4. Unscanned(s) /\ ~Unscanned(s)'
    <2>1. s \notin left /\ ~JobQueued(s) /\ \A v \in Worker : Runs(v, s) => v = w
      BY <1>0, <1>1 DEF JobsOnce
    <2>2. \A i \in DOMAIN queue : queue[i] # [kind |-> "scan", source |-> s]
      BY <2>1 DEF JobQueued
    <2>3. \A v \in Worker : wpc'[v] = "scan" => running'[v].source # s
      BY <1>0, <2>1 DEF Runs, WorkersInv
    <2> QED BY <1>0, <2>1, <2>2, <2>3 DEF Unscanned
  <1>5. \A r \in Source : r # s => (Unscanned(r)' <=> Unscanned(r))
    BY <1>0 DEF Unscanned
  <1>6. /\ StageIs(s) = "unscanned" /\ StageIs(s)' = "scanned"
        /\ \A r \in Source : r # s => StageIs(r)' = StageIs(r)
    BY <1>3, <1>4, <1>5 DEF StageIs
  <1>7. {s} \in (SUBSET Run!At("unscanned")) \ {{}}
    BY <1>1, <1>6 DEF Run!At
  <1>8. RunStages' = [r \in Source |-> IF r \in {s} THEN "scanned" ELSE RunStages[r]]
    BY <1>1, <1>6 DEF RunStages
  <1> QED BY <1>3, <1>7, <1>8 DEF Run!Scan, RunStages

(* A job goes on without moving its source.                                *)
LEMMA RunJobGoesOn ==
  ASSUME Control, Data, Control', NEW w \in Worker, UNCHANGED alive,
         TakeJob(w) \/ FindID(w) \/ TruncateIndex(w) \/ WriteIndex(w) \/ NotifyOne(w) \/ AgeUnchanged(w)
  PROVE  [Run!Next]_(Run!vars)
  <1> USE DEF main, disk, files, results, hdd, copier
  <1>0. /\ TypeOK /\ DOMAIN wpc = Worker /\ DOMAIN running = Worker
        /\ UNCHANGED <<mpc, left, copyQueue, task, cpc>>
    BY DEF Control, TypeOK, TakeJob, FindID, TruncateIndex, WriteIndex, NotifyOne, AgeUnchanged, EndJob
  <1>1. RunIs' = RunIs
    BY <1>0 DEF RunIs
  <1>2. /\ \A r \in Source : WithPool(r)' <=> WithPool(r)
        /\ \A r \in Source : Aged(r)' <=> Aged(r)
        /\ \A r \in Source : Unscanned(r)' <=> Unscanned(r)
    <2>1. CASE TakeJob(w)
      <3>1. /\ \A r \in Source : WithPool(r)' <=> WithPool(r)
            /\ \A r \in Source : Unscanned(r)' <=> Unscanned(r)
        BY <2>1, TakePlaces
      <3>2. /\ wpc' = [wpc EXCEPT ![w] = IF JobKind = "scan" THEN "scan" ELSE "index"]
            /\ running' = [running EXCEPT ![w] = Head(queue)] /\ wpc[w] = "idle"
        BY <2>1, TakenJob
      <3>3. \A r \in Source : Aged(r)' <=> Aged(r)
        BY <1>0, <3>2 DEF Aged
      <3> QED BY <3>1, <3>3
    <2>2. CASE FindID(w) \/ TruncateIndex(w) \/ WriteIndex(w) \/ AgeUnchanged(w)
      <3>1. PICK pc : /\ Goto(w, pc)
                      /\ \/ wpc[w] \in {"index", "indexing", "sync"} /\ pc \in {"index", "indexing", "sync"}
                         \/ wpc[w] \in {"age", "save"} /\ pc \in {"age", "save"}
        <4>1. CASE AgeUnchanged(w)
          BY <4>1 DEF AgeUnchanged
        <4>2. CASE FindID(w) \/ TruncateIndex(w) \/ WriteIndex(w)
          BY <4>2 DEF FindID, TruncateIndex, WriteIndex
        <4> QED BY <2>2, <4>1, <4>2
      <3>2. UNCHANGED main /\ UNCHANGED missed /\ UNCHANGED <<copyQueue, pending, cpc, task, open>>
        BY <2>2 DEF FindID, TruncateIndex, WriteIndex, AgeUnchanged
      <3>3. \A r \in Source : WithPool(r)' <=> WithPool(r)
        BY <3>1, <3>2, SamePlaces
      <3>4. /\ \A v \in Worker : wpc'[v] = IF v = w THEN pc ELSE wpc[v]
            /\ running' = running /\ queue' = queue /\ left' = left
        BY <1>0, <3>1 DEF Goto, pool
      <3>5. wpc[w] \in {"age", "save"} <=> pc \in {"age", "save"}
        BY <3>1
      <3>6. \A r \in Source : (Aged(r)' <=> Aged(r)) /\ (Unscanned(r)' <=> Unscanned(r))
        BY <3>1, <3>4, <3>5 DEF Aged, Unscanned
      <3> QED BY <3>3, <3>6
    <2>3. CASE NotifyOne(w)
      <3>1. /\ EndJob(w) /\ wpc[w] = "notify" /\ UNCHANGED <<pending, cpc, missed>>
        BY <2>3 DEF NotifyOne
      <3>2. MissedInv'
        BY <2>3, JobPlaces DEF JobStep, Places
      <3>3. \A r \in Source : WithPool(r)' <=> WithPool(r)
        BY <1>0, <2>3, <3>1, <3>2, WorkerEnds DEF NotifyOne
      <3>4. /\ \A v \in Worker : v # w => wpc'[v] = wpc[v] /\ running'[v] = running[v]
            /\ wpc'[w] = "idle" /\ queue' = queue /\ left' = left
        BY <1>0, <3>1 DEF EndJob, Pool!Finish
      <3>5. \A r \in Source : (Aged(r)' <=> Aged(r)) /\ (Unscanned(r)' <=> Unscanned(r))
        BY <3>1, <3>4 DEF Aged, Unscanned
      <3> QED BY <3>3, <3>5
    <2> QED BY <2>1, <2>2, <2>3
  <1>3. \A r \in Source : SamePlace(r)
    BY <1>0, <1>2 DEF SamePlace, Waiting, InQueue, InCopy, InSave, WithTask
  <1> QED BY <1>0, <1>1, <1>2, <1>3, RunFrame

(* A job has compared its source with the cache.                           *)
LEMMA RunCompared ==
  ASSUME Control, Data, Control', NEW w \in Worker, alive, alive', SubmitCopyQueue(w) \/ NothingToCopy(w)
  PROVE  \E s \in Source : Run!Compare(s)
  <1> USE DEF main, disk, files, results, hdd, copier
  <1> PICK s : s = running[w].source
    OBVIOUS
  <1>0. /\ TypeOK /\ DOMAIN wpc = Worker /\ wpc[w] = "sync"
        /\ UNCHANGED <<mpc, left, task, cpc>>
    BY DEF Control, TypeOK, SubmitCopyQueue, NothingToCopy
  <1>1. s \in Source /\ Waiting(s) /\ mpc \in Syncing
    BY <1>0, ComparedIs DEF Syncing
  <1>2. \A r \in Source : WithPool(r)' <=> WithPool(r) /\ r # s
    BY NothingToCopyPlaces, SubmitCopyPlaces
  <1>3. RunIs = "sync" /\ RunIs' = "sync" /\ mpc # "start" /\ StageIs(s) = "scanned"
    <2>1. RunIs = "sync" /\ RunIs' = "sync" /\ mpc # "start"
      BY <1>0, <1>1 DEF RunIs, Syncing
    <2> QED BY <1>1, <2>1, StageOf DEF StageFits
  <1>4. CASE SubmitCopyQueue(w)
    <2>0. PICK t : copyQueue' = Append(copyQueue, t) /\ t.source = s
      BY <1>4 DEF SubmitCopyQueue
    <2>1. \A r \in Source : InQueue(r)' <=> InQueue(r) \/ r = s
      <3>1. copyQueue \in Seq(Task \cup {t})
        BY <1>0 DEF TypeOK
      <3>2. /\ DOMAIN copyQueue' = DOMAIN copyQueue \cup {Len(copyQueue) + 1}
            /\ \A i \in DOMAIN copyQueue : copyQueue'[i] = copyQueue[i]
            /\ copyQueue'[Len(copyQueue) + 1] = t
            /\ Len(copyQueue) + 1 \notin DOMAIN copyQueue
        BY <2>0, <3>1, AppendIs
      <3> QED BY <2>0, <3>2 DEF InQueue
    <2>2. Goto(w, "notify")
      BY <1>4 DEF SubmitCopyQueue
    <2>3. \A r \in Source : Aged(r)' <=> Aged(r)
      BY <1>0, <2>2 DEF Goto, pool, Aged
    <2>4. \A r \in Source : r # s => SamePlace(r)
      BY <1>0, <1>2, <2>1, <2>3 DEF SamePlace, Waiting, InCopy, InSave, WithTask
    <2>5. StageIs(s)' = "queued"
      BY <1>1, <1>3, <2>1, StageNext DEF StageFits
    <2>6. Run!Move(s, "scanned", "queued")
      BY <1>0, <1>1, <1>3, <2>4, <2>5, RunMoves
    <2> QED BY <1>1, <2>6 DEF Run!Compare
  <1>5. CASE NothingToCopy(w)
    <2>1. Goto(w, "age") /\ copyQueue' = copyQueue
      BY <1>5 DEF NothingToCopy, DecrementPendingSources
    <2>2. /\ \A v \in Worker : wpc'[v] = IF v = w THEN "age" ELSE wpc[v]
          /\ running' = running
      BY <1>0, <2>1 DEF Goto, pool
    <2>3. \A r \in Source : Aged(r)' <=> Aged(r) \/ r = s
      BY <1>0, <2>2 DEF Aged
    <2>4. \A r \in Source : r # s => SamePlace(r)
      BY <1>0, <1>2, <2>1, <2>3 DEF SamePlace, Waiting, InQueue, InCopy, InSave, WithTask
    <2>5. StageIs(s)' = "unchanged"
      BY <1>1, <1>3, <2>3, StageNext DEF StageFits
    <2>6. Run!Move(s, "scanned", "unchanged")
      BY <1>0, <1>1, <1>3, <2>4, <2>5, RunMoves
    <2> QED BY <1>1, <2>6 DEF Run!Compare
  <1> QED BY <1>4, <1>5

LEMMA RunSaveUnchanged ==
  ASSUME Control, Data, Control', NEW w \in Worker, alive, alive', SaveUnchanged(w)
  PROVE  \E s \in Source : Run!SaveUnchanged(s)
  <1> USE DEF main, disk, files, hdd, copier
  <1> PICK s : s = running[w].source
    OBVIOUS
  <1>0. /\ TypeOK /\ DOMAIN wpc = Worker /\ DOMAIN running = Worker /\ wpc[w] = "save" /\ EndJob(w)
        /\ UNCHANGED <<mpc, left, copyQueue, pending, cpc, task, open>>
    BY DEF Control, TypeOK, SaveUnchanged, EndJob
  <1>1. /\ s \in Source /\ ~Waiting(s) /\ mpc \in Syncing
        /\ \A i \in DOMAIN copyQueue : copyQueue[i].source # s
        /\ task # NoTask => task.source # s
        /\ \A v \in Worker : wpc[v] # "idle" /\ running[v].source = s => v = w
    BY <1>0, SavedIs DEF Syncing
  <1>2. /\ \A v \in Worker : v # w => wpc'[v] = wpc[v] /\ running'[v] = running[v]
        /\ wpc'[w] = "idle"
    BY <1>0 DEF EndJob, Pool!Finish
  <1>3. \A r \in Source : WithPool(r)' <=> WithPool(r)
    <2>1. MissedInv'
      BY JobPlaces DEF JobStep, Places
    <2> QED BY <1>0, <2>1, WorkerEnds
  <1>4. RunIs = "sync" /\ RunIs' = "sync" /\ mpc # "start" /\ StageIs(s) = "unchanged"
    <2>1. RunIs = "sync" /\ RunIs' = "sync" /\ mpc # "start"
      BY <1>0, <1>1 DEF RunIs, Syncing
    <2>2. Aged(s)
      BY <1>0 DEF Aged
    <2> QED BY <1>1, <2>1, <2>2, StageOf DEF StageFits
  <1>5. \A r \in Source : r # s => SamePlace(r)
    <2>1. \A r \in Source : r # s => (Aged(r)' <=> Aged(r))
      BY <1>2 DEF Aged
    <2> QED BY <1>0, <1>3, <2>1 DEF SamePlace, Waiting, InQueue, InCopy, InSave, WithTask
  <1>6. StageIs(s)' = "done"
    <2>1. ~Aged(s)'
      BY <1>1, <1>2 DEF Aged
    <2>2. ~Waiting(s)' /\ ~InQueue(s)' /\ ~InCopy(s)' /\ ~InSave(s)'
      BY <1>0, <1>1, <1>3 DEF Waiting, InQueue, InCopy, InSave, WithTask
    <2> QED BY <1>0, <1>1, <1>4, <2>1, <2>2, StageNext DEF StageFits
  <1>7. Run!Move(s, "unchanged", "done")
    BY <1>0, <1>1, <1>4, <1>5, <1>6, RunMoves
  <1> QED BY <1>1, <1>7 DEF Run!SaveUnchanged

(* Only the copy thread's source moves while it works on it.               *)
LEMMA TaskMoves ==
  ASSUME Control, Data, Control', alive, alive', task # NoTask,
         UNCHANGED <<main, pool, wpc, copyQueue>>, task' \in {task, NoTask},
         NEW s \in Source, s = task.source
  PROVE  /\ mpc \in Syncing /\ mpc' = mpc
         /\ \A r \in Source : r # s => SamePlace(r)
         /\ ~(mpc = "start" \/ Waiting(s) \/ InQueue(s) \/ Aged(s))
         /\ ~(mpc' = "start" \/ Waiting(s)' \/ InQueue(s)' \/ Aged(s)')
         /\ RunIs = "sync" /\ RunIs' = "sync"
  <1>0. UNCHANGED <<mpc, left, queue, running, wpc, copyQueue>>
    BY DEF main, pool
  <1>1. /\ mpc \in Syncing /\ ~Waiting(s)
        /\ \A i \in DOMAIN copyQueue : copyQueue[i].source # s
        /\ \A w \in Worker : wpc[w] \in {"age", "save"} => running[w].source # s
    BY TaskIs
  <1>2. mpc # "start" /\ RunIs = "sync" /\ RunIs' = "sync"
    BY <1>0, <1>1 DEF Syncing, RunIs
  <1>3. \A r \in Source : r # s => SamePlace(r)
    BY <1>0 DEF SamePlace, Waiting, WithPool, InQueue, InCopy, InSave, WithTask, Aged
  <1>4. /\ ~(mpc = "start" \/ Waiting(s) \/ InQueue(s) \/ Aged(s))
        /\ ~(mpc' = "start" \/ Waiting(s)' \/ InQueue(s)' \/ Aged(s)')
    BY <1>0, <1>1, <1>2 DEF Waiting, WithPool, InQueue, Aged
  <1> QED BY <1>0, <1>1, <1>2, <1>3, <1>4

LEMMA RunTakeTask ==
  ASSUME Control, Data, Control', alive, alive', TakeTask
  PROVE  \E s \in Source : Run!TakeTask(s)
  <1> USE DEF results, copier
  <1>0. /\ TypeOK /\ Places /\ cpc = "loop" /\ cpc' = "copy" /\ copyQueue # <<>>
        /\ task' = Head(copyQueue) /\ copyQueue' = Tail(copyQueue)
        /\ UNCHANGED <<mpc, left, queue, running, wpc>>
    BY DEF Control, TakeTask, CopierWakes, main, pool
  <1>1. /\ 1 \in DOMAIN copyQueue /\ task' = copyQueue[1] /\ task' \in Task
        /\ \A i \in DOMAIN copyQueue' : i \in Int /\ i + 1 \in DOMAIN copyQueue /\ i + 1 # 1 /\ copyQueue'[i] = copyQueue[i + 1]
        /\ \A i \in DOMAIN copyQueue \ {1} : i - 1 \in DOMAIN copyQueue' /\ copyQueue'[i - 1] = copyQueue[i]
    <2>1. copyQueue \in Seq(Task)
      BY <1>0 DEF TypeOK
    <2> QED BY <1>0, <2>1, TailIs
  <1>2. PICK s : s = copyQueue[1].source
    OBVIOUS
  <1>3. s \in Source /\ task = NoTask /\ task' # NoTask /\ task'.source = s
    BY <1>0, <1>1, <1>2, HDDAssumption DEF Task, Places, CopierInv
  <1>4. mpc \in Syncing /\ RunIs = "sync" /\ RunIs' = "sync" /\ mpc # "start"
    <2>1. mpc \in Syncing
      BY <1>0 DEF Places, QuietInv
    <2> QED BY <1>0, <2>1 DEF Syncing, RunIs
  <1>5. StageIs(s) = "queued"
    <2>1. InQueue(s)
      BY <1>1, <1>2 DEF InQueue
    <2> QED BY <1>3, <1>4, <2>1, StageOf DEF StageFits
  <1>6. StageIs(s)' = "copying"
    <2>1. InCopy(s)'
      BY <1>0, <1>3 DEF InCopy, WithTask
    <2> QED BY <1>3, <1>4, <2>1, StageNext DEF StageFits
  <1>7. \A r \in Source : r # s => SamePlace(r)
    <2>1. \A r \in Source : r # s => (InQueue(r)' <=> InQueue(r))
      <3>1. ASSUME NEW r \in Source, r # s, NEW i \in DOMAIN copyQueue, copyQueue[i].source = r PROVE InQueue(r)'
        BY <1>1, <1>2, <3>1 DEF InQueue
      <3>2. ASSUME NEW r \in Source, InQueue(r)' PROVE InQueue(r)
        BY <1>1, <3>2 DEF InQueue
      <3> QED BY <3>1, <3>2 DEF InQueue
    <2> QED BY <1>0, <1>3, <2>1 DEF SamePlace, Waiting, WithPool, InCopy, InSave, WithTask, Aged
  <1>8. Run!Move(s, "queued", "copying")
    BY <1>0, <1>3, <1>4, <1>5, <1>6, <1>7, RunMoves
  <1>9. Run!At("copying") \cup Run!At("saving") = {}
    <2>1. ASSUME NEW r \in Source PROVE StageIs(r) \notin {"copying", "saving"}
      <3>1. ~InCopy(r) /\ ~InSave(r)
        BY <1>3 DEF InCopy, InSave, WithTask
      <3> QED BY <1>4, <3>1, StageOf DEF StageFits
    <2>2. \A r \in Source : RunStages[r] \notin {"copying", "saving"}
      BY <2>1 DEF RunStages
    <2> QED BY <2>2 DEF Run!At, RunStages
  <1> QED BY <1>3, <1>8, <1>9 DEF Run!TakeTask

LEMMA RunTask ==
  ASSUME Control, Data, Control', alive, alive',
         GiveUpSource \/ MarkCopied \/ AgeCopied \/ SaveCopied \/ SourceDone
  PROVE  [Run!Next]_(Run!vars)
  <1> PICK s : s = task.source
    OBVIOUS
  <1>0. /\ TypeOK /\ CopierInv /\ task # NoTask
        /\ UNCHANGED <<main, pool, wpc, copyQueue>> /\ task' \in {task, NoTask}
    BY DEF Control, Places, CopierInv, GiveUpSource, MarkCopied, AgeCopied, SaveCopied, SourceDone,
           DecrementPendingSources, hdd
  <1>1. /\ s \in Source /\ mpc \in Syncing /\ mpc' = mpc
        /\ \A r \in Source : r # s => SamePlace(r)
        /\ ~(mpc = "start" \/ Waiting(s) \/ InQueue(s) \/ Aged(s))
        /\ ~(mpc' = "start" \/ Waiting(s)' \/ InQueue(s)' \/ Aged(s)')
        /\ RunIs = "sync" /\ RunIs' = "sync"
    <2>1. s \in Source
      BY <1>0, TaskIs
    <2> QED BY <1>0, <2>1, TaskMoves
  <1>2. StageFits(s) /\ StageFits(s)'
    BY <1>1, StageOf, StageNext
  <1>3. CASE GiveUpSource
    <2>1. InCopy(s) /\ ~InCopy(s)' /\ ~InSave(s)'
      BY <1>0, <1>3 DEF GiveUpSource, InCopy, InSave, WithTask
    <2>2. StageIs(s) = "copying" /\ StageIs(s)' = "done"
      BY <1>1, <1>2, <2>1 DEF StageFits
    <2>3. Run!Move(s, "copying", "done")
      BY <1>1, <2>2, RunMoves
    <2> QED BY <1>1, <2>3 DEF Run!EndCopies, Run!Next, Run!Progress
  <1>4. CASE MarkCopied
    <2>1. InCopy(s) /\ InSave(s)'
      BY <1>0, <1>4, HDDAssumption DEF MarkCopied, InCopy, InSave, WithTask
    <2>2. StageIs(s) = "copying" /\ StageIs(s)' = "saving"
      BY <1>1, <1>2, <2>1 DEF StageFits
    <2>3. Run!Move(s, "copying", "saving")
      BY <1>1, <2>2, RunMoves
    <2> QED BY <1>1, <2>3 DEF Run!EndCopies, Run!Next, Run!Progress
  <1>5. CASE SaveCopied
    <2>1. InSave(s) /\ ~InCopy(s)' /\ ~InSave(s)'
      BY <1>0, <1>5 DEF SaveCopied, InCopy, InSave, WithTask
    <2>2. StageIs(s) = "saving" /\ StageIs(s)' = "done"
      BY <1>1, <1>2, <2>1 DEF StageFits
    <2>3. Run!Move(s, "saving", "done")
      BY <1>1, <2>2, RunMoves
    <2> QED BY <1>1, <2>3 DEF Run!SaveCopied, Run!Next, Run!Progress
  <1>6. CASE AgeCopied \/ SourceDone
    <2>1. SamePlace(s)
      <3>1. InCopy(s)' <=> InCopy(s)
        BY <1>0, <1>6 DEF AgeCopied, SourceDone, InCopy, WithTask
      <3>2. InSave(s)' <=> InSave(s)
        BY <1>0, <1>6 DEF AgeCopied, SourceDone, InSave, WithTask
      <3> QED BY <1>1, <3>1, <3>2 DEF SamePlace
    <2> QED BY <1>1, <2>1, RunFrame
  <1> QED BY <1>3, <1>4, <1>5, <1>6

LEMMA RunCopier ==
  ASSUME Control, Data, Control', alive, alive', CopierStep
  PROVE  [Run!Next]_(Run!vars)
  <1> USE DEF hdd, copier
  <1>0. TypeOK /\ CopierInv
    BY DEF Control, Places
  <1>1. CASE TakeTask
    <2>1. \E s \in Source : Run!TakeTask(s)
      BY <1>1, RunTakeTask
    <2> QED BY <2>1 DEF Run!Next, Run!Progress
  <1>2. CASE GiveUpSource \/ MarkCopied \/ AgeCopied \/ SaveCopied \/ SourceDone
    BY <1>2, RunTask
  <1>3. CASE CopierWaits
    <2>1. UNCHANGED <<main, pool, wpc, copyQueue, task, cpc>>
      BY <1>3 DEF CopierWaits
    <2> QED BY <2>1, RunIdle
  <1>4. ASSUME NEW p \in Path, CopyRefused(p) \/ RootNotFound(p) \/ OpenDestination(p) PROVE [Run!Next]_(Run!vars)
    <2>1. /\ UNCHANGED <<main, pool, wpc, copyQueue, cpc>> /\ cpc = "copy"
          /\ task' = task \/ task' = [task EXCEPT !.todo = @ \ {p}, !.failed = TRUE]
      BY <1>4 DEF CopyRefused, RootNotFound, OpenDestination, CopyFails, Copying
    <2>2. task # NoTask /\ task \in Task
      BY <1>0, <2>1 DEF CopierInv, TypeOK
    <2>3. task' # NoTask /\ task'.source = task.source
      <3>1. task' \in Task
        BY <2>1, <2>2 DEF Task
      <3>2. task'.source = task.source
        BY <2>1, <2>2 DEF Task
      <3> QED BY <3>1, <3>2, HDDAssumption
    <2> QED BY <2>1, <2>2, <2>3, RunIdle
  <1>5. CASE FinishCopy
    <2>1. /\ UNCHANGED <<main, pool, wpc, copyQueue, cpc>> /\ open # NoFile
          /\ task' = [task EXCEPT !.todo = @ \ {open.path}]
      BY <1>5 DEF FinishCopy
    <2>2. task # NoTask /\ task \in Task
      BY <1>0, <2>1 DEF CopierInv, TypeOK
    <2>3. task' # NoTask /\ task'.source = task.source
      <3>1. task' \in Task
        BY <2>1, <2>2 DEF Task
      <3>2. task'.source = task.source
        BY <2>1, <2>2 DEF Task
      <3> QED BY <3>1, <3>2, HDDAssumption
    <2> QED BY <2>1, <2>2, <2>3, RunIdle
  <1>6. CASE CopierExits
    <2>1. UNCHANGED <<mpc, left, queue, running, wpc, copyQueue, task>> /\ cpc = "loop"
      BY <1>6 DEF CopierExits, CopierWakes, main, pool
    <2>2. task = NoTask
      BY <1>0, <2>1 DEF CopierInv
    <2>3. RunIs' = RunIs
      BY <2>1 DEF RunIs
    <2>4. \A s \in Source : SamePlace(s) /\ (Unscanned(s)' <=> Unscanned(s))
      BY <2>1, <2>2 DEF SamePlace, Waiting, WithPool, InQueue, InCopy, InSave, WithTask, Aged, Unscanned
    <2> QED BY <2>1, <2>3, <2>4, RunFrame
  <1> QED BY <1>1, <1>2, <1>3, <1>4, <1>5, <1>6 DEF CopierStep

(* HandleCopyFailure ends the run.                                         *)
LEMMA RunExits ==
  ASSUME Control, ExitOnFailure, alive
  PROVE  Run!Exit
  <1>1. cpc = "copy"
    BY DEF ExitOnFailure, Copying, Control, Places, CopierInv
  <1>2. mpc \in Syncing
    BY <1>1 DEF Control, Places, CopierInv, QuietInv
  <1>3. RunIs # "off" /\ RunIs' = "off"
    BY <1>2 DEF RunIs, Syncing, ExitOnFailure
  <1>4. \A s \in Source : StageIs(s)' = "out"
    BY <1>3 DEF StageIs
  <1> QED BY <1>3, <1>4 DEF Run!Exit, Run!AllOut

LEMMA RunStep == Control /\ Data /\ [Next]_vars => [Run!Next]_(Run!vars)
  <1> SUFFICES ASSUME Control, Data, [Next]_vars PROVE [Run!Next]_(Run!vars)
    OBVIOUS
  <1>0. Control'
    BY ControlStep
  <1>1. ASSUME alive, alive', NEW w \in Worker, JobStep(w) PROVE [Run!Next]_(Run!vars)
    <2>1. CASE Scan(w)
      BY <1>0, <1>1, <2>1, RunScan DEF Run!Next, Run!Progress
    <2>2. CASE SubmitCopyQueue(w) \/ NothingToCopy(w)
      <3>1. \E s \in Source : Run!Compare(s)
        BY <1>0, <1>1, <2>2, RunCompared
      <3> QED BY <3>1 DEF Run!Next, Run!Progress
    <2>3. CASE SaveUnchanged(w)
      <3>1. \E s \in Source : Run!SaveUnchanged(s)
        BY <1>0, <1>1, <2>3, RunSaveUnchanged
      <3> QED BY <3>1 DEF Run!Next, Run!Progress
    <2>4. CASE TakeJob(w) \/ FindID(w) \/ TruncateIndex(w) \/ WriteIndex(w) \/ NotifyOne(w) \/ AgeUnchanged(w)
      <3>1. UNCHANGED alive
        BY <1>1 DEF Control, TypeOK
      <3> QED BY <1>0, <2>4, <3>1, RunJobGoesOn
    <2> QED BY <1>1, <2>1, <2>2, <2>3, <2>4 DEF JobStep
  <1>2. CASE Edit /\ UNCHANGED alive
    <2>1. UNCHANGED <<alive, main, pool, wpc, copyQueue, cpc, task>>
      BY <1>2 DEF Edit, Modify, Remove, Reappear, hdd, copier
    <2> QED BY <1>0, <2>1, RunIdle
  <1>3. ASSUME NEW t, SpuriousWake(t), UNCHANGED alive PROVE [Run!Next]_(Run!vars)
    <2>1. UNCHANGED <<alive, main, pool, wpc, copyQueue, cpc, task>>
      BY <1>3 DEF SpuriousWake, copier
    <2> QED BY <1>0, <2>1, RunIdle
  <1>4. CASE UNCHANGED vars
    <2>1. UNCHANGED <<alive, main, pool, wpc, copyQueue, cpc, task>>
      BY <1>4 DEF vars, hdd, copier
    <2> QED BY <1>0, <2>1, RunIdle
  <1>5. ASSUME alive, ExitOnFailure PROVE [Run!Next]_(Run!vars)
    BY <1>5, RunExits DEF Run!Next
  <1>6. ASSUME alive, alive', StartRun PROVE [Run!Next]_(Run!vars)
    BY <1>0, <1>6, RunStart DEF Run!Next
  <1> QED BY <1>0, <1>1, <1>2, <1>3, <1>4, <1>5, <1>6, RunMain, RunCopier DEF Next

LEMMA RunInit == Init => Run!Init
  <1> SUFFICES ASSUME Init PROVE Run!Init
    OBVIOUS
  <1>1. RunIs = "off"
    BY DEF Init, RunIs
  <1>2. \A s \in Source : StageIs(s) = "out"
    BY <1>1 DEF StageIs
  <1> QED BY <1>1, <1>2 DEF Run!Init, Run!AllOut

(* Jobs, copy thread, queues and notifications together implement the run  *)
(* of SyncRun, for any sources and any number of threads: all sources are  *)
(* scanned before one is compared, one is copied at a time, and the main   *)
(* thread goes on only when each is done (ControlFlow.cpp, Run, and        *)
(* HDDCopyQueue.cpp).                                                      *)
THEOREM ImplementsSyncRunAlways == Spec => ImplementsSyncRun
  <1>1. Init => Control /\ Data
    BY ControlInit, DataInit
  <1>2. Control /\ Data /\ [Next]_vars => (Control /\ Data)'
    BY ControlStep, DataStep
  <1> QED BY <1>1, <1>2, RunInit, RunStep, PTL DEF Spec, ImplementsSyncRun, Run!Safety

-----------------------------------------------------------------------------
(* Why RunEnds can hold: nobody misses the last notification of HDD_CV,    *)
(* although every notification is sent after the unlock, Stop changes      *)
(* HDDRunning without the mutex, and notify_one may pick either thread.    *)
BeforeCopyThread == {"idle", "scan", "joinScan", "reset", "start"}

Ending == {"stop", "stopNotify", "joinThread", "success"}

(* How the copy thread's life, the flags and the main thread go together.  *)
LifeInv ==
  /\ mpc \in Syncing \cup {"stop"} => hddRunning
  /\ mpc \in {"wait"} \cup Ending => allSubmitted
  /\ mpc \in (Syncing \ {"wait"}) \cup (BeforeCopyThread \ {"idle"}) => ~allSubmitted
  /\ mpc \in BeforeCopyThread => cpc \in {"none", "exited"}
  /\ mpc = "success" => cpc = "exited"
  /\ cpc = "exited" => mpc \in Ending \cup {"idle"} \/ (mpc = "wait" /\ AllDone)
  /\ mpc = "submit" => left # {}

(* Whoever is blocked has nothing to do, or a notification is under way;   *)
(* and nobody is blocked any more when Stop runs.                          *)
WaitersInv ==
  /\ "main" \in waiters => mpc = "wait" /\ ~AllDone
  /\ "copier" \in waiters =>
       cpc = "loop" /\ (CopierMayGo => \E w \in Worker : wpc[w] = "notify")
  /\ mpc \notin Syncing => waiters = {}

Wakeups == LifeInv /\ WaitersInv

LEMMA WakeupsInit == Init => Wakeups
  BY DEF Init, Wakeups, LifeInv, WaitersInv, BeforeCopyThread, Syncing, Ending

LEMMA WakeupsFrame ==
  ASSUME Wakeups,
         UNCHANGED <<mpc, left, waiters, cpc, copyQueue, pending, allSubmitted, hddRunning>>,
         \A w \in Worker : wpc[w] = "notify" => wpc'[w] = "notify"
  PROVE  Wakeups'
  <1>1. AllDone' = AllDone /\ CopierMayGo' = CopierMayGo BY DEF AllDone, CopierMayGo
  <1> QED BY <1>1 DEF Wakeups, LifeInv, WaitersInv

(* Jobs run in the phase of their kind.                                    *)
LEMMA Updating ==
  ASSUME Control, NEW w \in Worker, wpc[w] \notin {"idle", "scan"}
  PROVE  mpc \in {"update", "submit", "joinUpdate"}
  <1>1. running[w] # NoJob /\ running[w].kind = "update"
    BY DEF Control, Places, WorkersInv
  <1>2. JobKind = "update" BY <1>1 DEF Control, Places, PhaseInv
  <1> QED BY <1>2 DEF JobKind

LEMMA Notifying ==
  ASSUME Control, mpc \notin {"update", "submit", "joinUpdate"}, NEW w \in Worker
  PROVE  wpc[w] # "notify"
  BY Updating

(* Outside its wait, the main thread is not blocked.                       *)
LEMMA MainWakeups == ASSUME Control, Wakeups, StartRun \/ MainStep PROVE Wakeups'
  <1> USE DEF Wakeups, LifeInv, WaitersInv, BeforeCopyThread, Syncing, Ending
  <1>1. CASE StartRun BY <1>1 DEF StartRun
  <1>2. ASSUME NEW s \in Source, SubmitScan(s) PROVE Wakeups'
    BY <1>2 DEF SubmitScan, hdd, copier
  <1>3. CASE JoinScans \/ ScansJoined BY <1>3 DEF JoinScans, ScansJoined, hdd, copier
  <1>4. CASE ResetCopiedFlags BY <1>4 DEF ResetCopiedFlags, hdd, copier
  <1>5. CASE StartCopyThread BY <1>5 DEF StartCopyThread
  <1>6. CASE IncrementPendingSources
    BY <1>6 DEF IncrementPendingSources, AllDone, CopierMayGo, copier
  <1>7. ASSUME NEW s \in Source, SubmitUpdate(s) PROVE Wakeups'
    BY <1>7 DEF SubmitUpdate, AllDone, CopierMayGo, hdd, copier
  <1>8. CASE JoinUpdates \/ UpdatesJoined
    BY <1>8 DEF JoinUpdates, UpdatesJoined, AllDone, CopierMayGo, hdd, copier
  <1>9. CASE MarkAllSourcesSubmitted
    BY <1>9 DEF MarkAllSourcesSubmitted, copier
  <1>10. CASE MainWaits
    BY <1>10 DEF MainWaits, AllDone, CopierMayGo, main, copier
  <1>11. CASE WaitUntilDone
    <2>1. CopierMayGo BY <1>11 DEF WaitUntilDone, AllDone, CopierMayGo
    <2>2. "copier" \notin waiters BY <1>11, <2>1, Notifying DEF WaitUntilDone
    <2>3. waiters \subseteq {"main", "copier"} BY DEF Control, TypeOK
    <2>4. waiters = {} BY <1>11, <2>2, <2>3 DEF WaitUntilDone
    <2> QED BY <1>11, <2>4 DEF WaitUntilDone, hdd, copier
  <1>12. CASE Stop \/ StopNotifies BY <1>12 DEF Stop, StopNotifies, copier
  <1>13. CASE JoinCopyThread \/ MarkSuccess
    BY <1>13 DEF JoinCopyThread, MarkSuccess, hdd, copier
  <1> QED BY <1>1, <1>2, <1>3, <1>4, <1>5, <1>6, <1>7, <1>8, <1>9, <1>10, <1>11, <1>12, <1>13
          DEF MainStep

(* A notify_one is sent while the jobs run, when only the copy thread can  *)
(* be blocked: it is never spent on the main thread.                       *)
LEMMA JobWakeups == ASSUME Control, Wakeups, NEW w \in Worker, JobStep(w) PROVE Wakeups'
  <1>0. wpc \in [Worker -> {"idle", "scan", "index", "indexing", "sync", "notify", "age", "save"}]
    BY DEF Control, TypeOK
  <1>1. CASE TakeJob(w)
    <2>1. wpc[w] = "idle"
      BY <1>1 DEF TakeJob, Pool!Take, Control, Places, WorkersInv
    <2>2. \A v \in Worker : wpc[v] = "notify" => wpc'[v] = "notify"
      BY <1>0, <1>1, <2>1 DEF TakeJob
    <2> QED BY <1>1, <2>2, WakeupsFrame DEF TakeJob, main, hdd, copier
  <1>2. CASE Scan(w)
    <2>1. \A v \in Worker : wpc[v] = "notify" => wpc'[v] = "notify"
      BY <1>0, <1>2 DEF Scan, EndJob
    <2> QED BY <1>2, <2>1, WakeupsFrame DEF Scan, EndJob, main, hdd, copier
  <1>3. CASE FindID(w) \/ TruncateIndex(w) \/ WriteIndex(w) \/ AgeUnchanged(w)
    <2>1. \A v \in Worker : wpc[v] = "notify" => wpc'[v] = "notify"
      BY <1>0, <1>3 DEF FindID, TruncateIndex, WriteIndex, AgeUnchanged, Goto
    <2> QED BY <1>3, <2>1, WakeupsFrame
            DEF FindID, TruncateIndex, WriteIndex, AgeUnchanged, main, hdd, copier
  <1>4. CASE SaveUnchanged(w)
    <2>1. \A v \in Worker : wpc[v] = "notify" => wpc'[v] = "notify"
      BY <1>0, <1>4 DEF SaveUnchanged, EndJob
    <2> QED BY <1>4, <2>1, WakeupsFrame DEF SaveUnchanged, EndJob, main, hdd, copier
  <1>5. CASE SubmitCopyQueue(w)
    <2>1. mpc \in {"update", "submit", "joinUpdate"} BY <1>5, Updating DEF SubmitCopyQueue
    <2>2. wpc'[w] = "notify" BY <1>0, <1>5 DEF SubmitCopyQueue, Goto
    <2>3. UNCHANGED <<mpc, left, waiters, cpc, pending, allSubmitted, hddRunning>>
      BY <1>5 DEF SubmitCopyQueue, main, copier
    <2> QED BY <2>1, <2>2, <2>3
            DEF Wakeups, LifeInv, WaitersInv, BeforeCopyThread, Syncing, Ending
  <1>6. CASE NotifyOne(w)
    <2>1. mpc \in {"update", "submit", "joinUpdate"} BY <1>6, Updating DEF NotifyOne
    <2>2. waiters \subseteq {"copier"}
      BY <2>1 DEF Wakeups, WaitersInv, Control, TypeOK
    <2>3. waiters' = {} BY <1>6, <2>2 DEF NotifyOne
    <2>4. UNCHANGED <<mpc, left, cpc, copyQueue, pending, allSubmitted, hddRunning>>
      BY <1>6 DEF NotifyOne, EndJob, main, copier
    <2> QED BY <2>1, <2>3, <2>4
            DEF Wakeups, LifeInv, WaitersInv, BeforeCopyThread, Syncing, Ending
  <1>7. CASE NothingToCopy(w)
    <2>1. mpc \in {"update", "submit", "joinUpdate"} BY <1>7, Updating DEF NothingToCopy
    <2>2. UNCHANGED <<mpc, left, cpc, copyQueue, allSubmitted, hddRunning>> /\ waiters' = {}
      BY <1>7 DEF NothingToCopy, DecrementPendingSources, main, copier
    <2> QED BY <2>1, <2>2
            DEF Wakeups, LifeInv, WaitersInv, BeforeCopyThread, Syncing, Ending
  <1> QED BY <1>1, <1>2, <1>3, <1>4, <1>5, <1>6, <1>7 DEF JobStep

(* A source the copy thread works on is counted, so the wait is not over.  *)
LEMMA CopierMeansPending == ASSUME Control, task # NoTask PROVE pending > 0
  <1>1. task.source \in Source BY HDDAssumption DEF Control, TypeOK, Task
  <1>2. task.source \in Counted BY <1>1 DEF Counted, WithCopier
  <1>3. Cardinality(Counted) \in Nat /\ Cardinality(Counted) # 0
    BY <1>2, CountedFinite, FS_EmptySet
  <1> QED BY <1>3 DEF Control, Places, CountInv

LEMMA CopierWakeups ==
  ASSUME Control, Wakeups, CopierStep PROVE Wakeups'
  <1>0. cpc \in {"none", "loop", "copy", "age", "save", "decrement", "exited"}
    BY DEF Control, TypeOK
  <1> USE DEF BeforeCopyThread, Syncing, Ending
  <1>1. CASE CopierWaits
    <2>1. mpc \in Syncing
      <3> SUFFICES ASSUME mpc \notin Syncing PROVE FALSE OBVIOUS
      <3>1. cpc = "loop" /\ ~CopierMayGo BY <1>1 DEF CopierWaits, CopierWakes
      <3>2. mpc \in Ending BY <3>1 DEF Wakeups, LifeInv, Control, TypeOK
      <3> QED BY <3>1, <3>2 DEF Wakeups, LifeInv, Control, Places, QuietInv, CopierMayGo
    <2>2. UNCHANGED <<mpc, left, cpc, copyQueue, pending, allSubmitted, hddRunning>>
      BY <1>1 DEF CopierWaits, main, copier
    <2>3. AllDone' = AllDone /\ CopierMayGo' = CopierMayGo
      BY <2>2 DEF AllDone, CopierMayGo
    <2> QED BY <1>1, <2>1, <2>2, <2>3
            DEF CopierWaits, CopierWakes, Wakeups, LifeInv, WaitersInv
  <1>2. CASE TakeTask
    <2>1. mpc \in Syncing BY <1>2 DEF TakeTask, Control, Places, QuietInv
    <2>2. UNCHANGED <<mpc, left, pending, allSubmitted, hddRunning, waiters>> /\ cpc' = "copy"
      BY <1>2 DEF TakeTask, main
    <2>3. "copier" \notin waiters /\ cpc = "loop" BY <1>2 DEF TakeTask, CopierWakes
    <2>4. pending > 0
      <3>1. Len(copyQueue) > 0 /\ 1 \in DOMAIN copyQueue /\ copyQueue[1] \in Task
        BY <1>2 DEF TakeTask, Control, TypeOK
      <3>2. copyQueue[1].source \in Counted BY <3>1 DEF Task, Counted, WithCopier
      <3>3. Cardinality(Counted) \in Nat /\ Cardinality(Counted) # 0
        BY <3>2, CountedFinite, FS_EmptySet
      <3> QED BY <3>3 DEF Control, Places, CountInv
    <2>5. ~AllDone' BY <2>2, <2>4 DEF AllDone
    <2> QED BY <2>1, <2>2, <2>3, <2>5 DEF Wakeups, LifeInv, WaitersInv
  <1>3. CASE CopierExits
    <2>1. cpc = "loop" /\ "copier" \notin waiters BY <1>3 DEF CopierExits, CopierWakes
    <2>2. mpc \notin BeforeCopyThread BY <2>1 DEF Wakeups, LifeInv
    <2>3. mpc \in Ending \/ (mpc = "wait" /\ AllDone)
      BY <1>3, <2>2 DEF CopierExits, CopierMayGo, AllDone, Wakeups, LifeInv, Control, TypeOK
    <2>4. UNCHANGED <<mpc, left, copyQueue, pending, allSubmitted, hddRunning, waiters>>
          /\ cpc' = "exited"
      BY <1>3 DEF CopierExits, main, hdd
    <2>5. AllDone' = AllDone BY <2>4 DEF AllDone
    <2> QED BY <2>1, <2>3, <2>4, <2>5 DEF Wakeups, LifeInv, WaitersInv
  <1>4. CASE GiveUpSource \/ SourceDone
    <2>1. cpc \in {"copy", "decrement"} /\ cpc' = "loop" /\ waiters' = {}
          /\ UNCHANGED <<mpc, left, allSubmitted, hddRunning>>
      BY <1>4 DEF GiveUpSource, SourceDone, DecrementPendingSources, main
    <2> QED BY <2>1 DEF Wakeups, LifeInv, WaitersInv
  <1>5. CASE MarkCopied \/ AgeCopied \/ SaveCopied
    <2>1. cpc \in {"copy", "age", "save"} /\ cpc' \in {"age", "save", "decrement"}
          /\ UNCHANGED <<mpc, left, copyQueue, pending, allSubmitted, hddRunning, waiters>>
      BY <1>5 DEF MarkCopied, AgeCopied, SaveCopied, main, hdd
    <2>2. AllDone' = AllDone BY <2>1 DEF AllDone
    <2> QED BY <2>1, <2>2 DEF Wakeups, LifeInv, WaitersInv
  <1>6. CASE \E p \in Path : CopyRefused(p) \/ RootNotFound(p) \/ OpenDestination(p)
    BY <1>6, WakeupsFrame DEF CopyRefused, RootNotFound, OpenDestination, CopyFails, main, hdd
  <1>7. CASE FinishCopy BY <1>7, WakeupsFrame DEF FinishCopy, main, hdd
  <1> QED BY <1>1, <1>2, <1>3, <1>4, <1>5, <1>6, <1>7 DEF CopierStep

LEMMA WakeupsStep == Control /\ Wakeups /\ [Next]_vars => Wakeups'
  <1> SUFFICES ASSUME Control, Wakeups, [Next]_vars PROVE Wakeups' OBVIOUS
  <1>1. CASE Edit
    BY <1>1, WakeupsFrame DEF Edit, Modify, Remove, Reappear, main, hdd, copier
  <1>2. ASSUME NEW t, SpuriousWake(t) PROVE Wakeups'
    <2>1. UNCHANGED <<mpc, left, cpc, copyQueue, pending, allSubmitted, hddRunning, wpc>>
          /\ waiters' = waiters \ {t}
      BY <1>2 DEF SpuriousWake, main, copier
    <2>2. AllDone' = AllDone /\ CopierMayGo' = CopierMayGo
      BY <2>1 DEF AllDone, CopierMayGo
    <2> QED BY <2>1, <2>2 DEF Wakeups, LifeInv, WaitersInv
  <1>3. CASE ExitOnFailure BY <1>3, WakeupsFrame DEF ExitOnFailure, main, hdd, copier
  <1>4. CASE UNCHANGED vars BY <1>4, WakeupsFrame DEF vars, main, hdd, copier
  <1> QED BY <1>1, <1>2, <1>3, <1>4, MainWakeups, JobWakeups, CopierWakeups DEF Next

(* No wakeup of HDD_CV is lost, for any sources and threads: the copy      *)
(* thread sleeps only while its queue is empty or the notification is      *)
(* under way, the main thread only while something is left, and when Stop  *)
(* changes HDDRunning outside the mutex nobody is there to miss it         *)
(* (HDDCopyQueue.cpp, CopyThreadLoop, SubmitCopyQueue, Stop).              *)
THEOREM NoWakeupIsLost == Spec => []Wakeups
  <1> QED BY WakeupsInit, WakeupsStep, ControlAlways, PTL DEF Spec


(* What the guards of a thread's steps come to, but for the steps that     *)
(* only block it.                                                          *)
MainMoves ==
  \/ mpc \in {"scan", "reset", "start", "update", "markAll", "stop", "stopNotify", "success"}
  \/ mpc = "submit" /\ left # {}
  \/ mpc \in {"joinScan", "joinUpdate"} /\ Pool!Idle
  \/ mpc = "wait" /\ "main" \notin waiters /\ AllDone
  \/ mpc = "joinThread" /\ cpc = "exited"

JobMoves(w) ==
  \/ wpc[w] = "idle" /\ queue # <<>>
  \/ wpc[w] = "index" /\ ~IndexLocked
  \/ wpc[w] \in {"scan", "indexing", "sync", "notify", "age", "save"}

(* A file of the task is there and can be opened, or is not and is refused. *)
CopierMoves ==
  \/ CopierWakes /\ (~hddRunning \/ CopierMayGo)
  \/ cpc = "copy" /\ (open # NoFile \/ task.todo = {} \/ \E p \in Path : Copying(p))
  \/ cpc \in {"age", "save", "decrement"}

(* A started run that has not ended has a thread that can go on: it does   *)
(* not hang with the main thread, the copy thread and the pool's threads   *)
(* each waiting for another.                                               *)
NeverStuck ==
  alive /\ mpc # "idle" => MainMoves \/ CopierMoves \/ \E w \in Worker : JobMoves(w)

LEMMA PoolMoves ==
  ASSUME Control, ~Pool!Idle PROVE \E w \in Worker : JobMoves(w)
  <1>0. wpc \in [Worker -> {"idle", "scan", "index", "indexing", "sync", "notify", "age", "save"}]
    BY DEF Control, TypeOK
  <1>1. CASE \A w \in Worker : wpc[w] = "idle"
    <2>1. \A w \in Worker : running[w] = NoJob BY <1>1 DEF Control, Places, WorkersInv
    <2>2. queue # <<>> BY <2>1 DEF Pool!Idle
    <2> QED BY <1>1, <2>2, HDDAssumption DEF JobMoves
  <1>2. ASSUME NEW w \in Worker, wpc[w] # "idle" PROVE \E v \in Worker : JobMoves(v)
    <2>1. CASE wpc[w] # "index" BY <1>0, <1>2, <2>1 DEF JobMoves
    <2>2. CASE wpc[w] = "index" /\ ~IndexLocked BY <2>2 DEF JobMoves
    <2>3. CASE IndexLocked BY <2>3 DEF IndexLocked, JobMoves
    <2> QED BY <2>1, <2>2, <2>3
  <1> QED BY <1>1, <1>2

(* While the main thread waits for the last sources, the copy thread moves. *)
LEMMA CopierMovesInWait ==
  ASSUME Control, Wakeups, mpc = "wait", ~AllDone PROVE CopierMoves
  <1>0. cpc \in {"none", "loop", "copy", "age", "save", "decrement", "exited"} /\ pending \in Nat
    BY DEF Control, TypeOK
  <1>1. allSubmitted BY DEF Wakeups, LifeInv
  <1>2. cpc \notin {"none", "exited"}
    BY DEF Wakeups, LifeInv, Control, Places, CopierInv, Ending
  <1>3. CASE cpc \in {"age", "save", "decrement"} BY <1>3 DEF CopierMoves
  <1>4. CASE cpc = "copy"
    <2>1. task # NoTask BY <1>4 DEF Control, Places, CopierInv
    <2>2. task.todo \subseteq Path BY <2>1 DEF Control, TypeOK, Task
    <2> QED BY <1>4, <2>2 DEF CopierMoves, Copying
  <1>5. CASE cpc = "loop"
    <2>1. copyQueue # <<>>
      <3> SUFFICES ASSUME copyQueue = <<>> PROVE FALSE OBVIOUS
      <3>1. task = NoTask BY <1>5 DEF Control, Places, CopierInv
      <3>2. \A s : ~WithPool(s) BY PoolEmpty DEF JobKind
      <3>3. Counted = {} BY <3>1, <3>2 DEF Counted, WithCopier
      <3>4. pending = 0 BY <3>3, FS_EmptySet DEF Control, Places, CountInv
      <3> QED BY <1>1, <3>4 DEF AllDone
    <2>2. CopierMayGo BY <2>1 DEF CopierMayGo
    <2>3. "copier" \notin waiters
      BY <2>2, Notifying DEF Wakeups, WaitersInv
    <2> QED BY <1>5, <2>2, <2>3 DEF CopierMoves, CopierWakes
  <1> QED BY <1>0, <1>2, <1>3, <1>4, <1>5

(* A run never deadlocks, for any sources, files, threads, edits and       *)
(* faults (ControlFlow.cpp, Run; HDDCopyQueue.cpp, CopyThreadLoop,         *)
(* WaitUntilDone and Stop; MetaDataCache.cpp, the lock of IndexMutex).     *)
THEOREM RunNeverStuck == Spec => []NeverStuck
  <1>1. Control /\ Wakeups => NeverStuck
    <2> SUFFICES ASSUME Control, Wakeups, mpc # "idle"
                 PROVE  MainMoves \/ CopierMoves \/ \E w \in Worker : JobMoves(w)
      BY DEF NeverStuck
    <2>0. mpc \in {"scan", "joinScan", "reset", "start", "update", "submit", "joinUpdate",
                   "markAll", "wait", "stop", "stopNotify", "joinThread", "success"}
      BY DEF Control, TypeOK
    <2>1. CASE mpc \in {"scan", "reset", "start", "update", "markAll", "stop", "stopNotify", "success"}
      BY <2>1 DEF MainMoves
    <2>2. CASE mpc = "submit" BY <2>2 DEF MainMoves, Wakeups, LifeInv
    <2>3. CASE mpc \in {"joinScan", "joinUpdate"} BY <2>3, PoolMoves DEF MainMoves
    <2>4. CASE mpc = "wait"
      <3>1. CASE AllDone BY <2>4, <3>1 DEF MainMoves, Wakeups, WaitersInv
      <3>2. CASE ~AllDone BY <2>4, <3>2, CopierMovesInWait
      <3> QED BY <3>1, <3>2
    <2>5. CASE mpc = "joinThread"
      <3>1. pending = 0 /\ allSubmitted /\ waiters = {} /\ task = NoTask
        BY <2>5 DEF Control, Places, QuietInv, Syncing, Wakeups, LifeInv, WaitersInv, Ending
      <3>2. cpc \in {"loop", "exited"}
        BY <2>5, <3>1 DEF Control, Places, CopierInv, TypeOK
      <3>3. CopierMayGo BY <3>1 DEF CopierMayGo
      <3> QED BY <2>5, <3>1, <3>2, <3>3 DEF MainMoves, CopierMoves, CopierWakes
    <2> QED BY <2>0, <2>1, <2>2, <2>3, <2>4, <2>5
  <1> QED BY <1>1, ControlAlways, NoWakeupIsLost, PTL

-----------------------------------------------------------------------------
(* A run takes finitely many steps.  How far it still has to go is given   *)
(* by the phase of the main thread; then the sources left to submit; then  *)
(* the jobs queued and where each thread is in its job; then the sources   *)
(* queued for the copy thread, where it is in its loop, the files left of  *)
(* its source and whether the present one is open.  In this lexicographic  *)
(* order of numbers and finite sets, which has no infinite descent, each   *)
(* step goes down or only blocks or wakes a thread or edits a file.        *)
PhaseRank(pc) ==
  CASE pc = "scan" -> 12 [] pc = "joinScan" -> 11 [] pc = "reset" -> 10 [] pc = "start" -> 9
    [] pc \in {"update", "submit"} -> 8 [] pc = "joinUpdate" -> 7 [] pc = "markAll" -> 6
    [] pc = "wait" -> 5 [] pc = "stop" -> 4 [] pc = "stopNotify" -> 3 [] pc = "joinThread" -> 2
    [] pc = "success" -> 1 [] OTHER -> 0

JobRank(pc) ==
  CASE pc = "index" -> 5 [] pc = "indexing" -> 4 [] pc = "sync" -> 3
    [] pc = "age" -> 2 [] pc \in {"scan", "notify", "save"} -> 1 [] OTHER -> 0

CopierRank(pc) ==
  CASE pc = "copy" -> 5 [] pc = "age" -> 4 [] pc = "save" -> 3 [] pc = "decrement" -> 2
    [] pc = "loop" -> 1 [] OTHER -> 0

FewerFiles ==
  /\ task'.todo \subseteq task.todo
  /\ task'.todo # task.todo \/ (open = NoFile /\ open' # NoFile)

CopierAdvances ==
  \/ Len(copyQueue') < Len(copyQueue)
  \/ /\ copyQueue' = copyQueue
     /\ \/ CopierRank(cpc') < CopierRank(cpc)
        \/ cpc = "copy" /\ cpc' = "copy" /\ FewerFiles

JobAdvances(w) ==
  JobRank(wpc'[w]) < JobRank(wpc[w]) /\ \A v \in Worker \ {w} : wpc'[v] = wpc[v]

PoolAdvances ==
  \/ Len(queue') < Len(queue)
  \/ queue' = queue /\ (\/ \E w \in Worker : JobAdvances(w)
                        \/ wpc' = wpc /\ CopierAdvances)

MainAdvances ==
  \/ left' \subseteq left /\ left' # left
  \/ left' = left /\ (\/ mpc = "update" /\ mpc' = "submit"
                      \/ mpc' = mpc /\ PoolAdvances)

Advances ==
  \/ PhaseRank(mpc') < PhaseRank(mpc)
  \/ PhaseRank(mpc') = PhaseRank(mpc) /\ MainAdvances

NothingDone ==
  UNCHANGED <<disk, main, results, pool, wpc, copyQueue, pending, allSubmitted, hddRunning, copier,
              refused>>

RunIsFinite == [][StartRun \/ Advances \/ NothingDone]_vars

LEMMA MainGoesDown == ASSUME Control, MainStep PROVE Advances \/ NothingDone
  <1> USE DEF Advances, PhaseRank
  <1>1. ASSUME NEW s \in Source, SubmitScan(s) PROVE Advances
    BY <1>1 DEF SubmitScan, MainAdvances
  <1>2. CASE JoinScans \/ ScansJoined BY <1>2 DEF JoinScans, ScansJoined
  <1>3. CASE ResetCopiedFlags \/ StartCopyThread BY <1>3 DEF ResetCopiedFlags, StartCopyThread
  <1>4. CASE IncrementPendingSources BY <1>4 DEF IncrementPendingSources, MainAdvances
  <1>5. ASSUME NEW s \in Source, SubmitUpdate(s) PROVE Advances
    BY <1>5 DEF SubmitUpdate, MainAdvances
  <1>6. CASE JoinUpdates \/ UpdatesJoined BY <1>6 DEF JoinUpdates, UpdatesJoined
  <1>7. CASE MarkAllSourcesSubmitted BY <1>7 DEF MarkAllSourcesSubmitted
  <1>8. CASE MainWaits BY <1>8 DEF MainWaits, NothingDone
  <1>9. CASE WaitUntilDone \/ Stop \/ StopNotifies BY <1>9 DEF WaitUntilDone, Stop, StopNotifies
  <1>10. CASE JoinCopyThread \/ MarkSuccess BY <1>10 DEF JoinCopyThread, MarkSuccess
  <1> QED BY <1>1, <1>2, <1>3, <1>4, <1>5, <1>6, <1>7, <1>8, <1>9, <1>10 DEF MainStep

LEMMA JobGoesDown == ASSUME Control, NEW w \in Worker, JobStep(w) PROVE Advances
  <1>0. /\ wpc \in [Worker -> {"idle", "scan", "index", "indexing", "sync", "notify", "age", "save"}]
        /\ queue \in Seq(Job)
    BY DEF Control, TypeOK
  <1>1. UNCHANGED <<mpc, left>>
    BY DEF JobStep, TakeJob, Scan, FindID, TruncateIndex, WriteIndex, SubmitCopyQueue, NotifyOne,
           NothingToCopy, AgeUnchanged, SaveUnchanged, EndJob, main
  <1>2. CASE TakeJob(w)
    <2>1. queue' = Tail(queue) /\ queue # <<>> BY <1>2 DEF TakeJob, Pool!Take
    <2>2. Len(queue') < Len(queue) BY <1>0, <2>1
    <2> QED BY <1>1, <2>2 DEF Advances, MainAdvances, PoolAdvances
  <1>3. CASE ~TakeJob(w)
    <2>1. queue' = queue
      BY <1>3 DEF JobStep, Scan, FindID, TruncateIndex, WriteIndex, SubmitCopyQueue, NotifyOne,
                  NothingToCopy, AgeUnchanged, SaveUnchanged, EndJob, Goto, Pool!Finish, pool
    <2>2. JobAdvances(w)
      BY <1>0, <1>3
         DEF JobStep, Scan, FindID, TruncateIndex, WriteIndex, SubmitCopyQueue, NotifyOne,
             NothingToCopy, AgeUnchanged, SaveUnchanged, EndJob, Goto, JobAdvances, JobRank
    <2> QED BY <1>1, <2>1, <2>2 DEF Advances, MainAdvances, PoolAdvances
  <1> QED BY <1>2, <1>3

LEMMA CopierGoesDown == ASSUME Control, CopierStep PROVE Advances \/ NothingDone
  <1>0. UNCHANGED <<mpc, left, queue, wpc>>
    BY DEF CopierStep, CopierWaits, TakeTask, CopierExits, CopyRefused, RootNotFound, CopyFails,
           OpenDestination, FinishCopy, GiveUpSource, MarkCopied, AgeCopied, SaveCopied, SourceDone,
           main, pool
  <1>1. CopierAdvances => Advances BY <1>0 DEF Advances, MainAdvances, PoolAdvances
  <1>2. CASE CopierWaits BY <1>2 DEF CopierWaits, NothingDone
  <1>3. CASE TakeTask
    <2>1. Len(copyQueue') < Len(copyQueue) BY <1>3 DEF TakeTask, Control, TypeOK
    <2> QED BY <1>1, <2>1 DEF CopierAdvances
  <1>4. CASE CopierExits BY <1>1, <1>4 DEF CopierExits, CopierWakes, CopierAdvances, CopierRank, hdd
  <1>5. CASE GiveUpSource \/ SourceDone
    BY <1>1, <1>5 DEF GiveUpSource, SourceDone, DecrementPendingSources, CopierAdvances, CopierRank
  <1>6. CASE MarkCopied \/ AgeCopied \/ SaveCopied
    BY <1>1, <1>6 DEF MarkCopied, AgeCopied, SaveCopied, CopierAdvances, CopierRank, hdd
  <1>7. ASSUME cpc = "copy" PROVE task \in Task
    BY <1>7 DEF Control, TypeOK, Places, CopierInv
  <1>8. ASSUME NEW p \in Path, CopyRefused(p) \/ RootNotFound(p) PROVE Advances
    <2>1. /\ cpc = "copy" /\ cpc' = "copy" /\ copyQueue' = copyQueue /\ p \in task.todo
          /\ task' = [task EXCEPT !.todo = @ \ {p}, !.failed = TRUE]
      BY <1>8 DEF CopyRefused, RootNotFound, CopyFails, Copying, hdd
    <2>2. task'.todo = task.todo \ {p} BY <1>7, <2>1 DEF Task
    <2> QED BY <1>1, <2>1, <2>2 DEF CopierAdvances, FewerFiles
  <1>9. ASSUME NEW p \in Path, OpenDestination(p) PROVE Advances
    <2>1. /\ cpc = "copy" /\ cpc' = "copy" /\ copyQueue' = copyQueue /\ task' = task
          /\ open = NoFile /\ open' = [path |-> p, version |-> src[p]] /\ src[p] # Absent
      BY <1>9 DEF OpenDestination, Copying, hdd
    <2>2. open' \in OpenFile BY <2>1 DEF OpenFile, Control, TypeOK
    <2> QED BY <1>1, <2>1, <2>2, HDDAssumption DEF CopierAdvances, FewerFiles
  <1>10. CASE FinishCopy
    <2>1. open # NoFile /\ cpc = "copy" /\ open.path \in task.todo
      BY <1>10 DEF FinishCopy, Control, Places, CopierInv
    <2>2. cpc' = "copy" /\ copyQueue' = copyQueue /\ task' = [task EXCEPT !.todo = @ \ {open.path}]
      BY <1>10, <2>1 DEF FinishCopy, hdd
    <2>3. task'.todo = task.todo \ {open.path} BY <1>7, <2>1, <2>2 DEF Task
    <2> QED BY <1>1, <2>1, <2>2, <2>3 DEF CopierAdvances, FewerFiles
  <1> QED BY <1>2, <1>3, <1>4, <1>5, <1>6, <1>8, <1>9, <1>10 DEF CopierStep

(* Between its start and its end a run takes finitely many steps besides   *)
(* blocking and waking: no edit, fault or interleaving makes it go in      *)
(* circles.  With NeverStuck this is why it ends once its threads keep     *)
(* running (ControlFlow.cpp, Run; HDDCopyQueue.cpp, CopyThreadLoop).       *)
THEOREM RunStepsAreFinite == Spec => RunIsFinite
  <1>1. Control /\ [Next]_vars => [StartRun \/ Advances \/ NothingDone]_vars
    <2> SUFFICES ASSUME Control, Next PROVE StartRun \/ Advances \/ NothingDone OBVIOUS
    <2>1. CASE Edit \/ ExitOnFailure
      BY <2>1 DEF Edit, Modify, Remove, Reappear, ExitOnFailure, NothingDone, hdd
    <2>2. ASSUME NEW t, SpuriousWake(t) PROVE NothingDone
      BY <2>2 DEF SpuriousWake, NothingDone
    <2> QED BY <2>1, <2>2, MainGoesDown, JobGoesDown, CopierGoesDown DEF Next
  <1> QED BY <1>1, ControlAlways, PTL DEF Spec, RunIsFinite
=============================================================================
