---------------------------- MODULE SSDSync_proofs ----------------------------
(***************************************************************************)
(* Proofs about SSDSync for any sources, files, modes, threads and faults. *)
(* The invariant grows in layers: Control (types, and Places: where a      *)
(* source and each of its files is, and that filesProcessed counts those   *)
(* done) and Truth (whose versions the caches and the destination hold,    *)
(* and that they agree), which needs LiveFilesKept.  The last sections are *)
(* about the end of the copy phase: without one of two defects some thread *)
(* can always move (HangsOnlySo), and there are finitely many moves        *)
(* (CopyPhaseIsFinite).                                                    *)
(***************************************************************************)
EXTENDS SSDSync, MetaDataCache_proofs, FiniteSetTheorems, TLAPS

-----------------------------------------------------------------------------
(* Jobs of the run's pool.  Each source has one.                           *)
Queued(s) == \E i \in DOMAIN queue : queue[i] = s

Waiting(s) == s \in left \/ Queued(s) \/ SubmitterAt(s, {"sync"})

JobsInv ==
  /\ \A w \in Worker : wpc[w] = "idle" <=> running[w] = NoJob
  /\ \A s \in Source : SubmitterAt(s, {"save"}) => ToCopy(s) = {}
  /\ \A v, w \in Worker : running[v] = running[w] /\ running[v] # NoJob => v = w
  /\ \A i, j \in DOMAIN queue : queue[i] = queue[j] => i = j
  /\ \A i \in DOMAIN queue : \A w \in Worker : running[w] # queue[i]
  /\ \A s \in left : ~Queued(s) /\ \A w \in Worker : running[w] # s
  /\ mpc \notin {"update", "submit"} => left = {}
  /\ mpc \notin {"update", "submit", "join"} => Pool!Idle

(* SSDSourceStatusMap: a source is in it from SubmitCopyQueues to its save. *)
MapInv ==
  /\ \A s \in inMap : ~Waiting(s) /\ ~SubmitterAt(s, {"save"}) /\ s \notin copied
  /\ \A s \in copied : ~Waiting(s) /\ ~SubmitterAt(s, {"save", "small"})
  /\ \A s \in Source : SubmitterAt(s, {"small"}) =>
       s \in inMap /\ s \notin smallDone /\ s \notin largeDone
  /\ \A s \in Source : SubmitterAt(s, {"large"}) =>
       mode = "GodSpeed" \/ (s \in inMap /\ s \notin largeDone)

(* SSDPendingSources.                                                      *)
ToCount == {s \in Source : s \in inMap \/ Queued(s) \/ SubmitterAt(s, {"sync"})}

CountInv ==
  /\ pending = Cardinality(ToCount) + (IF mpc = "submit" THEN 1 ELSE 0)
  /\ mpc \in {"stop", "stopNotify", "joinThread", "done"} => pending = 0

-----------------------------------------------------------------------------
(* The large queue.                                                        *)
InLargeQueue(s) == \E i \in DOMAIN largeQueue : largeQueue[i] = s

InLargeTask(s) == largeTask # NoTask /\ largeTask.source = s

LargeCopy == IF copying[LargeThread] = NoCopy THEN {} ELSE {copying[LargeThread].path}

LargeInv ==
  /\ \A s \in Source : InLargeQueue(s) \/ InLargeTask(s) =>
       /\ s \in inMap /\ s \notin largeDone
       /\ ~SubmitterAt(s, {"small", "large"})
       /\ mode # "GodSpeed"
  /\ \A i, j \in DOMAIN largeQueue : largeQueue[i] = largeQueue[j] => i = j
  /\ \A s \in Source : InLargeTask(s) =>
       ~InLargeQueue(s) /\ largeTask.todo \cup LargeCopy \subseteq LargeFiles(s)
  /\ largeTask # NoTask <=> lpc = "work"
  /\ copying[LargeThread] # NoCopy =>
       largeTask # NoTask /\ copying[LargeThread].stage # "mark"
  /\ largeTask # NoTask => LargeCopy \cap largeTask.todo = {}
  /\ \A s \in inMap : s \in largeDone \/ SubmitterAt(s, {"small", "large"}) \/ InLargeQueue(s)
                      \/ InLargeTask(s)

(* The small queue and the pools that copy it.                             *)
InSmallCopy(p) == \E t \in SmallThread : copying[t] # NoCopy /\ copying[t].path = p

SmallInv ==
  /\ mode # "GodSpeed" => godQueue = {} /\ godRunning = {}
  /\ \A s \in godQueue :
       SmallFiles(s) # {} /\ s \in inMap /\ ~SubmitterAt(s, {"small"}) /\ s \notin godRunning
  /\ \A s \in godRunning :
       ~Waiting(s) /\ ~SubmitterAt(s, {"small", "save"}) /\ s \in inMap \cup copied
  /\ \A p \in Path : p \in smallQueue \/ InSmallCopy(p) =>
       LET s == SourceOf[p]
       IN  p \in SmallFiles(s) /\ s \in inMap /\ s \notin godQueue /\ ~SubmitterAt(s, {"small"})
  /\ \A p \in smallQueue : ~InSmallCopy(p)
  /\ \A t, u \in SmallThread :
       copying[t] # NoCopy /\ copying[u] # NoCopy /\ copying[t].path = copying[u].path => t = u

-----------------------------------------------------------------------------
(* filesProcessed counts the small files of a source whose copy has ended, *)
(* but for those refused in a pool that does not count them.               *)
Copies(t, p) == copying[t] # NoCopy /\ copying[t].path = p /\ copying[t].stage # "mark"

SmallLeft(p) ==
  LET s == SourceOf[p]
  IN  Waiting(s) \/ SubmitterAt(s, {"small"}) \/ s \in godQueue
      \/ p \in smallQueue \/ \E t \in SmallThread : Copies(t, p)

Uncounted == {p \in refused : mode \in {"Parallel", "Balanced"}}

Processed(s) == {p \in SmallFiles(s) : ~SmallLeft(p) /\ p \notin Uncounted}

Marks(t, s) == copying[t] # NoCopy /\ copying[t].stage = "mark" /\ SourceOf[copying[t].path] = s

AllProcessed(s) == processed[s] = Cardinality(SmallFiles(s))

ProcessedInv ==
  /\ \A s \in Source \ copied : processed[s] = Cardinality(Processed(s))
  /\ \A p \in refused : p \in SmallFiles(SourceOf[p]) => ~SmallLeft(p)
  /\ \A s \in smallDone : AllProcessed(s)
  /\ \A t \in SmallThread : \A s \in Source : Marks(t, s) => AllProcessed(s) /\ s \notin smallDone
  /\ \A t, u \in SmallThread : \A s \in Source : Marks(t, s) /\ Marks(u, s) => t = u
  /\ \A s \in inMap \ smallDone : AllProcessed(s) =>
       SubmitterAt(s, {"small"}) \/ \E t \in SmallThread : Marks(t, s)

Places == JobsInv /\ MapInv /\ CountInv /\ LargeInv /\ SmallInv /\ ProcessedInv

Control == TypeOK /\ Places

-----------------------------------------------------------------------------
(* Versions: as in HDDSync.  A file that was gone when it was scanned has  *)
(* no cached version that may come back.                                   *)
VersionsInv ==
  \A p \in Path :
    LET c == bin[SourceOf[p]]
    IN  /\ src[p] # Absent => src[p] = newest[p]
        /\ scanned[p] # Absent => scanned[p] <= newest[p]
        /\ p \in DOMAIN c /\ scanned[p] # Absent => c[p].hash <= scanned[p]
        /\ p \in DOMAIN c /\ scanned[p] = Absent /\ src[p] # Absent => c[p].hash < src[p]
        /\ p \in DOMAIN c => c[p].hash <= newest[p]

(* Until it is saved, the cache of a source has entries for its own files. *)
OwnInv == \A s \in Source \ copied : DOMAIN bin[s] \subseteq FilesOf(s)

(* SSDCopyStateCache holds the files of the saved sources, and no entry    *)
(* was missed by more refreshes than there were since.                     *)
EntriesInv ==
  \A p \in DOMAIN entries :
    /\ SourceOf[p] \in copied /\ scanned[p] # Absent
    /\ entries[p].miss < Cardinality(copied)

OpenInv ==
  \A t \in CopyThread : copying[t] # NoCopy /\ copying[t].stage = "open" =>
    LET p == copying[t].path
    IN  dest[p] = Torn /\ scanned[p] <= copying[t].version /\ copying[t].version <= newest[p]

LargeLeft(p) ==
  LET s == SourceOf[p]
  IN  SubmitterAt(s, {"small", "large"}) \/ InLargeQueue(s)
      \/ (InLargeTask(s) /\ (p \in largeTask.todo \/ Copies(LargeThread, p)))

ToBeCopied(p) ==
  LET s == SourceOf[p]
  IN  \/ Waiting(s)
      \/ p \in SmallFiles(s) /\ SmallLeft(p)
      \/ p \in LargeFiles(s) /\ LargeLeft(p)

(* A step after which what was to be copied still is, but for X.           *)
Kept(X) ==
  \A p \in Path \ X : p \in ToCopy(SourceOf[p]) /\ ToBeCopied(p) => ToBeCopied(p)'

(* What is cached or was scanned, and is still the newest version, is in   *)
(* the destination, unless its copy is to come, was refused or ended short. *)
CachedInv ==
  \A p \in Path \ refused :
    LET c == bin[SourceOf[p]]
    IN  scanned[p] # Absent /\ p \in DOMAIN c /\ c[p].hash = newest[p] =>
          dest[p] = newest[p] \/ p \in short

ScannedInv ==
  \A p \in Path \ refused :
    scanned[p] # Absent /\ scanned[p] = newest[p] /\ ~ToBeCopied(p) =>
      dest[p] = newest[p] \/ p \in short

Truth == VersionsInv /\ OwnInv /\ EntriesInv /\ OpenInv /\ CachedInv /\ ScannedInv

(* SSDCopyStateCache is aged once per source, so that a file just copied   *)
(* counts as missed by each source that is saved after its own: live files *)
(* are kept if nothing is deleted, or if there are few enough sources.     *)
LiveFilesKept == DeleteStale => Cardinality(Source) <= MaxMiss + 1

-----------------------------------------------------------------------------
(* Types.                                                                  *)
LEMMA TailIs ==
  ASSUME NEW S, NEW q \in Seq(S), q # <<>>
  PROVE  /\ Tail(q) \in Seq(S) /\ Head(q) \in S
         /\ 1 \in DOMAIN q /\ Head(q) = q[1]
         /\ \A i \in DOMAIN Tail(q) : i \in Int /\ i + 1 \in DOMAIN q /\ i + 1 # 1 /\ Tail(q)[i] = q[i + 1]
         /\ \A i \in DOMAIN q \ {1} : i \in Int /\ i - 1 \in DOMAIN Tail(q) /\ Tail(q)[i - 1] = q[i]
  OBVIOUS

LEMMA AppendIs ==
  ASSUME NEW S, NEW q \in Seq(S), NEW e \in S
  PROVE  /\ Append(q, e) \in Seq(S)
         /\ DOMAIN Append(q, e) = DOMAIN q \cup {Len(q) + 1}
         /\ Len(q) + 1 \notin DOMAIN q
         /\ \A i \in DOMAIN q : Append(q, e)[i] = q[i]
         /\ Append(q, e)[Len(q) + 1] = e
  OBVIOUS

LEMMA FreshType ==
  ASSUME TypeOK, NEW s \in Source
  PROVE  /\ DOMAIN Fresh(s) = {p \in FilesOf(s) : scanned[p] # Absent}
         /\ DOMAIN Fresh(s) \in SUBSET Path /\ Fresh(s) \in [DOMAIN Fresh(s) -> Version]
         /\ \A p \in DOMAIN Fresh(s) : Fresh(s)[p] = scanned[p]
  <1> DEFINE P == {p \in FilesOf(s) : scanned[p] # Absent}
  <1>1. P \in SUBSET Path /\ \A p \in P : scanned[p] \in Version
    BY DEF FilesOf, TypeOK
  <1>2. Fresh(s) = [p \in P |-> scanned[p]]
    BY DEF Fresh
  <1> QED BY <1>1, <1>2

LEMMA FreshNext == UNCHANGED scanned => \A s : Fresh(s)' = Fresh(s)
  BY DEF Fresh, FilesOf

(* The files to copy of a source, as paths.                                *)
LEMMA ToCopyIs ==
  ASSUME TypeOK, NEW s \in Source
  PROVE  /\ \A p : p \in ToCopy(s) <=>
              /\ p \in Path /\ SourceOf[p] = s /\ scanned[p] # Absent
              /\ p \in DOMAIN bin[s] => bin[s][p].hash # scanned[p]
         /\ SmallFiles(s) \subseteq ToCopy(s) /\ LargeFiles(s) \subseteq ToCopy(s)
         /\ ToCopy(s) = SmallFiles(s) \cup LargeFiles(s) /\ SmallFiles(s) \cap LargeFiles(s) = {}
         /\ mode = "GodSpeed" => LargeFiles(s) = {}
  <1>1. \A p : p \in ToCopy(s) <=>
              /\ p \in Path /\ SourceOf[p] = s /\ scanned[p] # Absent
              /\ p \in DOMAIN bin[s] => bin[s][p].hash # scanned[p]
    BY FreshType DEF ToCopy, FilesToCopy, HasEntry, FilesOf
  <1>2. LargeFiles(s) \subseteq ToCopy(s) /\ (mode = "GodSpeed" => LargeFiles(s) = {})
    BY DEF LargeFiles
  <1> QED BY <1>1, <1>2 DEF SmallFiles

LEMMA ToCopyFinite ==
  ASSUME TypeOK, NEW s \in Source
  PROVE  /\ IsFiniteSet(SmallFiles(s)) /\ Cardinality(SmallFiles(s)) \in Nat
         /\ Cardinality(SmallFiles(s)) <= Cardinality(Path) /\ Cardinality(Path) \in Nat
  <1>1. SmallFiles(s) \subseteq Path
    BY ToCopyIs
  <1>2. IsFiniteSet(Path)
    BY SSDAssumption
  <1> QED BY <1>1, <1>2, FS_Subset, FS_CardinalityType

LEMMA EmptyCacheType == EmptyCache \in Cache(Path, Version, MaxMiss)
  <1>1. EmptyCache \in [{} -> [hash : Version, visited : BOOLEAN, miss : 0 .. MaxMiss]]
    BY DEF EmptyCache
  <1> QED BY <1>1 DEF Cache

LEMMA MarkedType ==
  ASSUME TypeOK, NEW s \in Source, NEW P
  PROVE  MarkVisited(bin[s], P) \in Cache(Path, Version, MaxMiss)
  <1>1. PICK Q \in SUBSET Path : bin[s] \in [Q -> [hash : Version, visited : BOOLEAN, miss : 0 .. MaxMiss]]
    BY DEF TypeOK, Cache
  <1>2. MaxMiss \in Nat
    BY SSDAssumption
  <1>3. MarkVisited(bin[s], P) \in [Q -> [hash : Version, visited : BOOLEAN, miss : 0 .. MaxMiss]]
    BY <1>1, <1>2 DEF MarkVisited, Entry
  <1> QED BY <1>3 DEF Cache

LEMMA RefreshedType ==
  ASSUME TypeOK, NEW s \in Source, NEW c \in Cache(Path, Version, MaxMiss)
  PROVE  Refresh(c, Fresh(s), MaxMiss) \in Cache(Path, Version, MaxMiss)
  BY FreshType, RefreshType, SSDAssumption

LEMMA DestWithoutType ==
  ASSUME TypeOK, NEW P
  PROVE  DestWithout(P) \in [Path -> Version \cup {Absent, Torn}]
  BY DEF DestWithout, TypeOK

LEMMA TypeInit == Init => TypeOK
  <1> SUFFICES ASSUME Init PROVE TypeOK
    OBVIOUS
  <1>1. 1 \in Version /\ 2 \in Version /\ 1 \in 0 .. MaxVersion /\ 2 \in 0 .. MaxVersion /\ 0 \in 0 .. MaxMiss
    BY SSDAssumption DEF Version
  <1>2. PICK was \in [Path -> Before] :
       /\ src = [p \in Path |-> CASE was[p] = "gone"    -> Absent
                                [] was[p] = "changed" -> 2
                                [] OTHER              -> 1]
       /\ newest = [p \in Path |-> IF was[p] = "changed" THEN 2 ELSE 1]
       /\ dest = [p \in Path |-> IF was[p] = "new" THEN Absent ELSE 1]
       /\ bin = [s \in Source |->
                   [p \in {q \in FilesOf(s) : was[q] # "new"} |-> Entry(1, FALSE, 0)]]
    BY DEF Init
  <1>3. /\ src \in [Path -> Version \cup {Absent}] /\ newest \in [Path -> 0 .. MaxVersion]
        /\ dest \in [Path -> Version \cup {Absent, Torn}]
    BY <1>1, <1>2
  <1>4. bin \in [Source -> Cache(Path, Version, MaxMiss)]
    <2>1. ASSUME NEW s \in Source
          PROVE  [p \in {q \in FilesOf(s) : was[q] # "new"} |-> Entry(1, FALSE, 0)]
                   \in Cache(Path, Version, MaxMiss)
      <3> DEFINE P == {q \in FilesOf(s) : was[q] # "new"}
      <3>1. P \in SUBSET Path
        BY DEF FilesOf
      <3>2. [p \in P |-> Entry(1, FALSE, 0)] \in [P -> [hash : Version, visited : BOOLEAN, miss : 0 .. MaxMiss]]
        BY <1>1 DEF Entry
      <3> QED BY <3>1, <3>2 DEF Cache
    <2> QED BY <1>2, <2>1
  <1>5. entries \in Cache(Path, Version, MaxMiss)
    BY EmptyCacheType DEF Init
  <1>6. queue \in Seq(Source) /\ running \in [Worker -> Source \cup {NoJob}] /\ largeQueue \in Seq(Source)
    BY DEF Init, Pool!Init
  <1>7. processed \in [Source -> 0 .. Cardinality(Path)]
    BY SSDAssumption, FS_CardinalityType DEF Init
  <1> QED BY <1>3, <1>4, <1>5, <1>6, <1>7 DEF Init, TypeOK

-----------------------------------------------------------------------------
(* MarkQueueDoneAndCheck has three outcomes: the source is gone from the   *)
(* map, a flag is set, or the source is saved.                             *)
Gone(s) == s \notin inMap /\ UNCHANGED <<disk, counts, status>>

Flagged(s, sd, ld) ==
  /\ s \in inMap /\ s \notin sd \cap ld
  /\ smallDone' = sd /\ largeDone' = ld /\ UNCHANGED <<disk, counts, inMap>>

Saved(s, sd, ld) ==
  /\ s \in inMap /\ s \in sd /\ s \in ld
  /\ inMap' = inMap \ {s} /\ smallDone' = sd \ {s} /\ largeDone' = ld \ {s}
  /\ copied' = copied \cup {s} /\ pending' = pending - 1 /\ allSubmitted' = allSubmitted
  /\ \A r \in Source : ToCopy(r)' = IF r = s THEN {} ELSE ToCopy(r)

LEMMA FilesKept ==
  ASSUME UNCHANGED <<bin, scanned, mode>>
  PROVE  \A s \in Source : /\ ToCopy(s)' = ToCopy(s)
                           /\ LargeFiles(s)' = LargeFiles(s) /\ SmallFiles(s)' = SmallFiles(s)
  <1>1. \A s \in Source : ToCopy(s)' = ToCopy(s)
    BY FreshNext DEF ToCopy
  <1>2. \A s \in Source : LargeFiles(s)' = LargeFiles(s)
    BY <1>1 DEF LargeFiles
  <1> QED BY <1>1, <1>2 DEF SmallFiles

LEMMA FilesSaved ==
  ASSUME mode' = mode, NEW s \in Source, \A r \in Source : ToCopy(r)' = IF r = s THEN {} ELSE ToCopy(r)
  PROVE  \A r \in Source : /\ LargeFiles(r)' = IF r = s THEN {} ELSE LargeFiles(r)
                           /\ SmallFiles(r)' = IF r = s THEN {} ELSE SmallFiles(r)
  <1>1. \A r \in Source : LargeFiles(r)' = IF r = s THEN {} ELSE LargeFiles(r)
    BY DEF LargeFiles
  <1> QED BY <1>1 DEF SmallFiles

LEMMA FlagsCases ==
  ASSUME TypeOK, scanned' = scanned, NEW s \in Source, NEW sd, NEW ld, FlagsBecome(s, sd, ld)
  PROVE  Gone(s) \/ Flagged(s, sd, ld) \/ Saved(s, sd, ld)
  <1>1. CASE s \notin inMap /\ UNCHANGED <<disk, counts, status>>
    BY <1>1 DEF Gone
  <1>2. CASE s \in inMap /\ s \notin sd \cap ld
    BY <1>2 DEF FlagsBecome, Flagged
  <1>3. CASE s \in inMap \cap sd \cap ld
    <2>1. /\ entries' = Refresh(entries, Fresh(s), MaxMiss) /\ bin' = [bin EXCEPT ![s] = entries']
          /\ inMap' = inMap \ {s} /\ smallDone' = sd \ {s} /\ largeDone' = ld \ {s}
          /\ copied' = copied \cup {s} /\ pending' = pending - 1 /\ allSubmitted' = allSubmitted
      BY <1>3 DEF FlagsBecome
    <2>2. bin' = [r \in Source |-> IF r = s THEN Refresh(entries, Fresh(s), MaxMiss) ELSE bin[r]]
      BY <2>1 DEF TypeOK
    <2>3. ASSUME NEW r \in Source, r # s PROVE ToCopy(r)' = ToCopy(r)
      BY <2>2, <2>3, FreshNext DEF ToCopy
    <2>4. ToCopy(s)' = {}
      BY <2>2, FreshNext, SecondRunCopiesNothing DEF ToCopy
    <2> QED BY <1>3, <2>1, <2>3, <2>4 DEF Saved
  <1> QED BY <1>1, <1>2, <1>3 DEF FlagsBecome

(* What is pending is at least the source that is saved.                   *)
LEMMA ToCountFinite == IsFiniteSet(ToCount) /\ Cardinality(ToCount) \in Nat
  BY SSDAssumption, FS_Subset, FS_CardinalityType DEF ToCount

LEMMA CountKept ==
  ASSUME CountInv, ToCount' = ToCount, pending' = pending, mpc' = mpc
  PROVE  CountInv'
  BY DEF CountInv

LEMMA CountRemoved ==
  ASSUME CountInv, NEW s \in ToCount, ToCount' = ToCount \ {s}, mpc' = mpc, pending' = pending - 1
  PROVE  CountInv' /\ pending \in Nat \ {0} /\ pending' \in Nat
  <1>1. Cardinality(ToCount \ {s}) = Cardinality(ToCount) - 1 /\ Cardinality(ToCount) # 0
    BY ToCountFinite, FS_RemoveElement, FS_EmptySet
  <1>2. Cardinality(ToCount') = Cardinality(ToCount) - 1 /\ Cardinality(ToCount) \in Nat
    BY <1>1, ToCountFinite
  <1>3. pending # 0 /\ pending \in Nat
    BY <1>1, <1>2 DEF CountInv
  <1> QED BY <1>1, <1>2, <1>3 DEF CountInv

LEMMA NothingCounted ==
  ASSUME TypeOK, CountInv, pending = 0
  PROVE  ToCount = {}
  BY ToCountFinite, FS_EmptySet DEF CountInv

LEMMA FlagsType ==
  ASSUME TypeOK, CountInv, NEW s \in Source, NEW sd, NEW ld, sd \in SUBSET (smallDone \cup {s}),
         ld \in SUBSET (largeDone \cup {s}), FlagsBecome(s, sd, ld)
  PROVE  /\ dest' \in [Path -> Version \cup {Absent, Torn}] /\ bin' \in [Source -> Cache(Path, Version, MaxMiss)]
         /\ entries' \in Cache(Path, Version, MaxMiss)
         /\ copied' \subseteq Source /\ inMap' \subseteq Source /\ smallDone' \subseteq inMap' /\ largeDone' \subseteq inMap'
         /\ pending' \in Nat /\ {allSubmitted', mainWaits'} \subseteq BOOLEAN /\ short' \subseteq Path
  <1>1. CASE s \notin inMap /\ UNCHANGED <<disk, counts, status>>
    BY <1>1 DEF TypeOK, disk, counts, status
  <1>2. CASE s \in inMap /\ s \notin sd \cap ld
    BY <1>2 DEF TypeOK, disk, counts, status, FlagsBecome
  <1>3. CASE s \in inMap \cap sd \cap ld
    <2>1. s \in ToCount
      BY <1>3 DEF ToCount
    <2>2. pending \in Nat \ {0}
      <3>1. pending # 0
        BY <2>1, NothingCounted
      <3> QED BY <3>1 DEF TypeOK
    <2>3. entries' \in Cache(Path, Version, MaxMiss)
      BY <1>3, RefreshedType DEF FlagsBecome, TypeOK
    <2>4. dest' \in [Path -> Version \cup {Absent, Torn}]
      BY <1>3, DestWithoutType DEF FlagsBecome
    <2>5. bin' \in [Source -> Cache(Path, Version, MaxMiss)]
      <3>1. bin' = [bin EXCEPT ![s] = entries']
        BY <1>3 DEF FlagsBecome
      <3>2. bin \in [Source -> Cache(Path, Version, MaxMiss)]
        BY DEF TypeOK
      <3> QED BY <2>3, <3>1, <3>2
    <2>6. copied' \subseteq Source /\ inMap' \subseteq Source /\ smallDone' \subseteq inMap' /\ largeDone' \subseteq inMap'
      BY <1>3 DEF FlagsBecome, TypeOK
    <2>7. pending' \in Nat /\ {allSubmitted', mainWaits'} \subseteq BOOLEAN
      <3>1. pending' = pending - 1 /\ allSubmitted' = allSubmitted
            /\ mainWaits' = (mainWaits /\ ~(pending' = 0 /\ allSubmitted))
        BY <1>3 DEF FlagsBecome
      <3> QED BY <2>2, <3>1 DEF TypeOK
    <2>8. short' \subseteq Path
      BY <1>3 DEF FlagsBecome, TypeOK
    <2> QED BY <2>3, <2>4, <2>5, <2>6, <2>7, <2>8
  <1> QED BY <1>1, <1>2, <1>3 DEF FlagsBecome

-----------------------------------------------------------------------------
(* A thread of the run's pool moves one source from one place in its job   *)
(* to the next.                                                            *)
AtWork == {"sync", "save", "small", "large"}

Moves(s, from, to) ==
  /\ \A pcs \in SUBSET AtWork : SubmitterAt(s, pcs) <=> from \in pcs
  /\ \A r \in Source : \A pcs \in SUBSET AtWork :
       SubmitterAt(r, pcs)' <=> IF r = s THEN to \in pcs ELSE SubmitterAt(r, pcs)

FewerToCopy == \A s \in Source : ToCopy(s)' \subseteq ToCopy(s)

LEMMA WorkerIs ==
  ASSUME TypeOK, JobsInv, NEW w \in Worker, wpc[w] # "idle"
  PROVE  /\ running[w] \in Source /\ running[w] # NoJob
         /\ running[w] \notin left /\ ~Queued(running[w])
         /\ \A pcs : SubmitterAt(running[w], pcs) <=> wpc[w] \in pcs
  BY DEF TypeOK, JobsInv, SubmitterAt, Queued

LEMMA JobsFrame ==
  ASSUME TypeOK, JobsInv, UNCHANGED <<main, pool, wpc>>, FewerToCopy
  PROVE  JobsInv'
  <1>1. ASSUME NEW s \in Source, SubmitterAt(s, {"save"})' PROVE ToCopy(s)' = {}
    <2>1. SubmitterAt(s, {"save"})
      BY <1>1 DEF SubmitterAt, pool
    <2> QED BY <2>1 DEF FewerToCopy, JobsInv
  <1> QED BY <1>1 DEF JobsInv, main, pool, Pool!Idle, Queued

LEMMA WorkerGoes ==
  ASSUME TypeOK, JobsInv, NEW w \in Worker, wpc[w] # "idle", NEW pc \in AtWork, Goto(w, pc),
         UNCHANGED main, FewerToCopy, pc = "save" => ToCopy(running[w]) = {}
  PROVE  /\ Moves(running[w], wpc[w], pc) /\ JobsInv'
         /\ \A r \in Source : Queued(r)' <=> Queued(r)
  <1> DEFINE s == running[w]
  <1>1. /\ wpc' = [wpc EXCEPT ![w] = pc] /\ UNCHANGED <<queue, running, mpc, left>>
        /\ DOMAIN wpc = Worker
    BY DEF Goto, pool, main, TypeOK
  <1>2. /\ s \in Source /\ s # NoJob
        /\ \A pcs : SubmitterAt(s, pcs) <=> wpc[w] \in pcs
        /\ \A v \in Worker : running[v] = s => v = w
    BY WorkerIs DEF JobsInv
  <1>3. \A r \in Source : Queued(r)' <=> Queued(r)
    BY <1>1 DEF Queued
  <1>4. \A r \in Source : \A pcs \in SUBSET AtWork :
          SubmitterAt(r, pcs)' <=> IF r = s THEN pc \in pcs ELSE SubmitterAt(r, pcs)
    BY <1>1, <1>2 DEF SubmitterAt
  <1>5. ASSUME NEW r \in Source, SubmitterAt(r, {"save"})' PROVE ToCopy(r)' = {}
    <2>1. IF r = s THEN pc = "save" ELSE SubmitterAt(r, {"save"})
      BY <1>4, <1>5 DEF AtWork
    <2> QED BY <2>1 DEF FewerToCopy, JobsInv
  <1>6. \A v \in Worker : wpc'[v] = "idle" <=> running'[v] = NoJob
    BY <1>1, <1>2 DEF JobsInv, AtWork
  <1>7. JobsInv'
    BY <1>1, <1>3, <1>5, <1>6 DEF JobsInv, Pool!Idle, Queued
  <1> QED BY <1>2, <1>3, <1>4, <1>7 DEF Moves

LEMMA WorkerEnds ==
  ASSUME TypeOK, JobsInv, NEW w \in Worker, wpc[w] # "idle", EndJob(w), UNCHANGED main, FewerToCopy
  PROVE  /\ Moves(running[w], wpc[w], "idle") /\ JobsInv'
         /\ \A r \in Source : Queued(r)' <=> Queued(r)
  <1> DEFINE s == running[w]
  <1>1. /\ wpc' = [wpc EXCEPT ![w] = "idle"] /\ running' = [running EXCEPT ![w] = NoJob]
        /\ UNCHANGED <<queue, mpc, left>> /\ DOMAIN wpc = Worker /\ DOMAIN running = Worker
    BY DEF EndJob, Pool!Finish, main, TypeOK
  <1>2. /\ s \in Source /\ s # NoJob /\ NoJob \notin Source
        /\ \A pcs : SubmitterAt(s, pcs) <=> wpc[w] \in pcs
        /\ \A v \in Worker : running[v] = s => v = w
    BY WorkerIs, SSDAssumption DEF JobsInv
  <1>3. \A r \in Source : Queued(r)' <=> Queued(r)
    BY <1>1 DEF Queued
  <1>4. \A r \in Source : \A pcs \in SUBSET AtWork :
          SubmitterAt(r, pcs)' <=> IF r = s THEN "idle" \in pcs ELSE SubmitterAt(r, pcs)
    BY <1>1, <1>2 DEF SubmitterAt, AtWork
  <1>5. ASSUME NEW r \in Source, SubmitterAt(r, {"save"})' PROVE ToCopy(r)' = {}
    <2>1. r # s /\ SubmitterAt(r, {"save"})
      BY <1>4, <1>5 DEF AtWork
    <2> QED BY <2>1 DEF FewerToCopy, JobsInv
  <1>6. \A v \in Worker : (wpc'[v] = "idle" <=> running'[v] = NoJob) /\ running'[v] \in {running[v], NoJob}
    BY <1>1 DEF JobsInv
  <1>7. \A i \in DOMAIN queue : queue[i] \in Source
    BY DEF TypeOK
  <1>8. ~Pool!Idle
    BY <1>2 DEF Pool!Idle
  <1>9. left \subseteq Source
    BY DEF TypeOK
  <1>10. \A u, v \in Worker : running'[u] = running'[v] /\ running'[u] # NoJob => u = v
    BY <1>1, <1>2, <1>6 DEF JobsInv
  <1>11. \A i \in DOMAIN queue' : \A v \in Worker : running'[v] # queue'[i]
    BY <1>1, <1>2, <1>6, <1>7 DEF JobsInv
  <1>12. \A r \in left' : ~Queued(r)' /\ \A v \in Worker : running'[v] # r
    BY <1>1, <1>2, <1>3, <1>6, <1>9 DEF JobsInv
  <1>13. mpc' \in {"update", "submit", "join"}
    BY <1>1, <1>8 DEF JobsInv
  <1>14. JobsInv'
    BY <1>1, <1>5, <1>6, <1>10, <1>11, <1>12, <1>13 DEF JobsInv
  <1> QED BY <1>2, <1>3, <1>4, <1>14 DEF Moves

LEMMA WorkerTakes ==
  ASSUME TypeOK, JobsInv, NEW w \in Worker, TakeJob(w), UNCHANGED <<main, scanned, mode>>
  PROVE  \E s \in Source :
           /\ Queued(s) /\ s \notin left /\ Moves(s, "idle", "sync") /\ JobsInv'
           /\ \A r \in Source : Queued(r)' <=> Queued(r) /\ r # s
  <1>1. /\ queue \in Seq(Source) /\ queue # <<>> /\ queue' = Tail(queue)
        /\ running[w] = NoJob /\ running' = [running EXCEPT ![w] = Head(queue)]
        /\ wpc' = [wpc EXCEPT ![w] = "sync"] /\ DOMAIN wpc = Worker /\ DOMAIN running = Worker
        /\ UNCHANGED <<mpc, left>>
    BY DEF TakeJob, Pool!Take, main, TypeOK
  <1>2. PICK s \in Source : s = Head(queue) /\ s = queue[1]
    BY <1>1, TailIs
  <1>3. /\ 1 \in DOMAIN queue /\ Tail(queue) \in Seq(Source)
        /\ \A i \in DOMAIN Tail(queue) : i \in Int /\ i + 1 \in DOMAIN queue /\ i + 1 # 1 /\ Tail(queue)[i] = queue[i + 1]
        /\ \A i \in DOMAIN queue \ {1} : i \in Int /\ i - 1 \in DOMAIN Tail(queue) /\ Tail(queue)[i - 1] = queue[i]
    BY <1>1, TailIs
  <1>4. Queued(s) /\ s \notin left /\ (\A v \in Worker : running[v] # s) /\ s # NoJob
    BY <1>2, <1>3, SSDAssumption DEF Queued, JobsInv
  <1>5. ASSUME NEW r \in Source PROVE Queued(r)' <=> Queued(r) /\ r # s
    <2>1. ASSUME NEW i \in DOMAIN queue', queue'[i] = r PROVE Queued(r) /\ r # s
      <3>1. i + 1 \in DOMAIN queue /\ i + 1 # 1 /\ queue[i + 1] = r
        BY <1>1, <1>3, <2>1
      <3> QED BY <1>2, <1>3, <3>1 DEF Queued, JobsInv
    <2>2. ASSUME NEW i \in DOMAIN queue, queue[i] = r, r # s PROVE Queued(r)'
      BY <1>1, <1>2, <1>3, <2>2 DEF Queued
    <2> QED BY <2>1, <2>2 DEF Queued
  <1>6. \A v \in Worker : running'[v] = (IF v = w THEN s ELSE running[v]) /\ wpc'[v] = (IF v = w THEN "sync" ELSE wpc[v])
    BY <1>1, <1>2
  <1>7. Moves(s, "idle", "sync")
    <2>1. \A pcs \in SUBSET AtWork : SubmitterAt(s, pcs) <=> "idle" \in pcs
      BY <1>4 DEF SubmitterAt, AtWork
    <2>2. \A r \in Source : \A pcs \in SUBSET AtWork :
            SubmitterAt(r, pcs)' <=> IF r = s THEN "sync" \in pcs ELSE SubmitterAt(r, pcs)
      BY <1>1, <1>4, <1>6, SSDAssumption DEF SubmitterAt
    <2> QED BY <2>1, <2>2 DEF Moves
  <1>8. JobsInv'
    <2>1. \A v \in Worker : wpc'[v] = "idle" <=> running'[v] = NoJob
      BY <1>4, <1>6 DEF JobsInv
    <2>2. ASSUME NEW r \in Source, SubmitterAt(r, {"save"})' PROVE ToCopy(r)' = {}
      <3>1. SubmitterAt(r, {"save"})
        BY <1>7, <2>2 DEF Moves, AtWork
      <3>2. ToCopy(r)' = ToCopy(r)
        BY FilesKept DEF TakeJob, disk
      <3> QED BY <3>1, <3>2 DEF JobsInv
    <2>3. \A u, v \in Worker : running'[u] = running'[v] /\ running'[u] # NoJob => u = v
      BY <1>4, <1>6 DEF JobsInv
    <2>4. \A i, j \in DOMAIN queue' : queue'[i] = queue'[j] => i = j
      <3>1. ASSUME NEW i \in DOMAIN queue', NEW j \in DOMAIN queue', queue'[i] = queue'[j] PROVE i = j
        <4>1. i + 1 = j + 1
          BY <1>1, <1>3, <3>1 DEF JobsInv
        <4> QED BY <1>1, <1>3, <4>1
      <3> QED BY <3>1
    <2>5. ASSUME NEW i \in DOMAIN queue', NEW v \in Worker PROVE running'[v] # queue'[i]
      <3>1. i + 1 \in DOMAIN queue /\ queue'[i] = queue[i + 1] /\ i + 1 # 1
        BY <1>1, <1>3
      <3>2. queue'[i] # s
        BY <1>2, <1>3, <3>1 DEF JobsInv
      <3> QED BY <1>6, <3>1, <3>2 DEF JobsInv
    <2>6. \A r \in left' : ~Queued(r)' /\ \A v \in Worker : running'[v] # r
      BY <1>1, <1>4, <1>5, <1>6 DEF JobsInv, TypeOK
    <2>7. mpc' \notin {"update", "submit"} => left' = {}
      BY <1>1 DEF JobsInv
    <2>8. mpc \in {"update", "submit", "join"}
      BY <1>1 DEF JobsInv, Pool!Idle
    <2> QED BY <1>1, <2>1, <2>2, <2>3, <2>4, <2>5, <2>6, <2>7, <2>8 DEF JobsInv
  <1> QED BY <1>4, <1>5, <1>7, <1>8

-----------------------------------------------------------------------------
(* The main thread.                                                        *)
SameJobs ==
  \A s \in Source :
    /\ Waiting(s)' <=> Waiting(s)
    /\ \A pcs \in SUBSET {"small", "large"} : SubmitterAt(s, pcs)' <=> SubmitterAt(s, pcs)
    /\ \A pcs \in SUBSET {"save", "small", "large"} : SubmitterAt(s, pcs)' => SubmitterAt(s, pcs)

SameSmallJobs ==
  \A s \in Source :
    /\ Waiting(s)' <=> Waiting(s)
    /\ SubmitterAt(s, {"small"})' <=> SubmitterAt(s, {"small"})
    /\ SubmitterAt(s, {"small", "save"})' => SubmitterAt(s, {"small", "save"})

(* A thread copies the same file, and has counted it or not.               *)
SameCopy(t) ==
  /\ copying'[t] = NoCopy <=> copying[t] = NoCopy
  /\ copying[t] # NoCopy =>
       copying'[t].path = copying[t].path /\ (copying'[t].stage = "mark" <=> copying[t].stage = "mark")

LEMMA SameSmall == SameJobs => SameSmallJobs
  <1> SUFFICES ASSUME SameJobs, NEW s \in Source
               PROVE  /\ Waiting(s)' <=> Waiting(s)
                      /\ SubmitterAt(s, {"small"})' <=> SubmitterAt(s, {"small"})
                      /\ SubmitterAt(s, {"small", "save"})' => SubmitterAt(s, {"small", "save"})
    BY DEF SameSmallJobs
  <1> QED BY DEF SameJobs

LEMMA JobsKept ==
  ASSUME UNCHANGED <<left, pool, wpc>>
  PROVE  SameJobs /\ \A s \in Source : Queued(s)' <=> Queued(s)
  BY DEF SameJobs, Waiting, Queued, SubmitterAt, pool

LEMMA MainJobs ==
  ASSUME Control, MainStep
  PROVE  JobsInv' /\ CountInv' /\ SameJobs
  <1> USE DEF main, pool, counts
  <1>0. TypeOK /\ JobsInv /\ CountInv /\ MapInv
    BY DEF Control, Places
  <1>1. CASE UNCHANGED <<left, pool>>
    <2>1. UNCHANGED <<left, queue, running, wpc, inMap, bin, scanned, mode>>
      BY <1>1 DEF MainStep, MainRuns, Stop, StopNotifies, JoinLargeFileThread, disk, status
    <2>2. SameJobs /\ ToCount' = ToCount
      BY <2>1, JobsKept DEF ToCount, Queued, SubmitterAt
    <2>3. /\ mpc' \notin {"update", "submit"} => left = {}
          /\ mpc' \notin {"update", "submit", "join"} => Pool!Idle
      <3>1. CASE IncrementPendingSources \/ JoinUpdates \/ UpdatesJoined
        BY <1>0, <3>1 DEF IncrementPendingSources, JoinUpdates, UpdatesJoined, Pool!JoinCall, Pool!JoinReturn, JobsInv
      <3>2. CASE MarkAllSourcesSubmitted \/ MainBlocks \/ WaitUntilDone \/ Stop \/ StopNotifies \/ JoinLargeFileThread
        BY <1>0, <3>2 DEF MarkAllSourcesSubmitted, MainBlocks, WaitUntilDone, Stop, StopNotifies,
               JoinLargeFileThread, JobsInv
      <3>3. ASSUME NEW s \in Source, SubmitUpdate(s) PROVE FALSE
        BY <1>1, <3>3 DEF SubmitUpdate
      <3> QED BY <3>1, <3>2, <3>3 DEF MainStep, MainRuns
    <2>4. JobsInv'
      <3>1. \A s \in Source : ToCopy(s)' = ToCopy(s)
        BY <2>1, FilesKept
      <3>2. \A s \in Source : SubmitterAt(s, {"save"})' <=> SubmitterAt(s, {"save"})
        BY <2>1 DEF SubmitterAt
      <3> QED BY <1>0, <2>1, <2>3, <3>1, <3>2 DEF JobsInv, Queued, Pool!Idle
    <2>5. CountInv'
      <3>1. CASE IncrementPendingSources
        BY <1>0, <2>2, <3>1, ToCountFinite DEF IncrementPendingSources, CountInv
      <3>2. CASE JoinUpdates \/ UpdatesJoined
        BY <1>0, <2>2, <3>2 DEF JoinUpdates, UpdatesJoined, CountInv
      <3>3. CASE MarkAllSourcesSubmitted \/ MainBlocks \/ WaitUntilDone
        BY <1>0, <2>2, <3>3 DEF MarkAllSourcesSubmitted, MainBlocks, WaitUntilDone, AllDone, CountInv
      <3>4. CASE Stop \/ StopNotifies \/ JoinLargeFileThread
        BY <1>0, <2>2, <3>4 DEF Stop, StopNotifies, JoinLargeFileThread, CountInv
      <3>5. ASSUME NEW s \in Source, SubmitUpdate(s) PROVE FALSE
        BY <1>1, <3>5 DEF SubmitUpdate
      <3> QED BY <3>1, <3>2, <3>3, <3>4, <3>5 DEF MainStep, MainRuns
    <2> QED BY <2>2, <2>4, <2>5
  <1>2. ASSUME NEW s \in Source, MainRuns, SubmitUpdate(s)
        PROVE  JobsInv' /\ CountInv' /\ SameJobs
    <2>1. /\ mpc = "submit" /\ s \in left /\ left' = left \ {s} /\ mpc' = "update" /\ pending' = pending
          /\ queue' = Append(queue, s) /\ queue \in Seq(Source) /\ UNCHANGED <<running, wpc, inMap, bin, scanned, mode>>
      BY <1>0, <1>2 DEF SubmitUpdate, Pool!Submit, MainRuns, disk, status, TypeOK
    <2>2. /\ DOMAIN queue' = DOMAIN queue \cup {Len(queue) + 1} /\ Len(queue) + 1 \notin DOMAIN queue
          /\ (\A i \in DOMAIN queue : queue'[i] = queue[i]) /\ queue'[Len(queue) + 1] = s
      BY <2>1, AppendIs
    <2>3. \A r \in Source : Queued(r)' <=> Queued(r) \/ r = s
      BY <2>2 DEF Queued
    <2>4. \A r \in Source : \A pcs : SubmitterAt(r, pcs)' <=> SubmitterAt(r, pcs)
      BY <2>1 DEF SubmitterAt
    <2>5. SameJobs
      BY <2>1, <2>3, <2>4 DEF SameJobs, Waiting
    <2>6. ~Queued(s) /\ (\A w \in Worker : running[w] # s)
      BY <1>0, <2>1 DEF JobsInv
    <2>7. JobsInv'
      <3>1. \A r \in Source : ToCopy(r)' = ToCopy(r)
        BY <2>1, FilesKept
      <3>2. \A i, j \in DOMAIN queue' : queue'[i] = queue'[j] => i = j
        BY <1>0, <2>2, <2>6 DEF JobsInv, Queued
      <3>3. \A i \in DOMAIN queue' : \A w \in Worker : running'[w] # queue'[i]
        BY <1>0, <2>1, <2>2, <2>6 DEF JobsInv
      <3>4. \A r \in left' : ~Queued(r)' /\ \A w \in Worker : running'[w] # r
        BY <1>0, <2>1, <2>3 DEF JobsInv, TypeOK
      <3> QED BY <1>0, <2>1, <2>4, <3>1, <3>2, <3>3, <3>4 DEF JobsInv
    <2>8. CountInv'
      <3>1. s \notin ToCount /\ ToCount' = ToCount \cup {s}
        BY <1>0, <2>1, <2>3, <2>4, <2>6 DEF ToCount, MapInv, Waiting, SubmitterAt
      <3>2. Cardinality(ToCount') = Cardinality(ToCount) + 1
        BY <3>1, ToCountFinite, FS_AddElement
      <3> QED BY <1>0, <2>1, <3>2, ToCountFinite DEF CountInv
    <2> QED BY <2>5, <2>7, <2>8
  <1>3. UNCHANGED <<left, pool>> \/ (MainRuns /\ \E s \in Source : SubmitUpdate(s))
    BY DEF MainStep, MainRuns, Stop, StopNotifies, JoinLargeFileThread, IncrementPendingSources, JoinUpdates,
       UpdatesJoined, MarkAllSourcesSubmitted, MainBlocks, WaitUntilDone, Pool!JoinCall, Pool!JoinReturn
  <1> QED BY <1>1, <1>2, <1>3

-----------------------------------------------------------------------------
(* What a step does not touch.                                             *)
LEMMA MapFrame ==
  ASSUME TypeOK, MapInv, SameJobs, UNCHANGED <<inMap, smallDone, largeDone, copied, mode>>
  PROVE  MapInv'
  <1>1. inMap \subseteq Source /\ copied \subseteq Source
    BY DEF TypeOK
  <1> QED BY <1>1 DEF MapInv, SameJobs

LEMMA LargeFrame ==
  ASSUME TypeOK, LargeInv, SameJobs, UNCHANGED <<inMap, largeDone, largeQueue, largeTask, mode>>,
         lpc' = "work" <=> lpc = "work", SameCopy(LargeThread),
         \A s \in Source : LargeFiles(s)' = LargeFiles(s)
  PROVE  LargeInv'
  <1>1. inMap \subseteq Source
    BY DEF TypeOK
  <1>2. \A s \in Source : (InLargeQueue(s)' <=> InLargeQueue(s)) /\ (InLargeTask(s)' <=> InLargeTask(s))
    BY DEF InLargeQueue, InLargeTask
  <1>3. LargeCopy' = LargeCopy
    BY DEF LargeCopy, SameCopy
  <1>4. \A s \in Source : SubmitterAt(s, {"small", "large"})' <=> SubmitterAt(s, {"small", "large"})
    BY DEF SameJobs
  <1> QED BY <1>1, <1>2, <1>3, <1>4 DEF LargeInv, SameCopy

LEMMA SmallFrame ==
  ASSUME TypeOK, SmallInv, SameSmallJobs, UNCHANGED <<inMap, copied, godQueue, godRunning, smallQueue, mode>>,
         \A t \in SmallThread : SameCopy(t),
         \A s \in Source : SmallFiles(s)' = SmallFiles(s)
  PROVE  SmallInv'
  <1>1. \A p \in Path : SourceOf[p] \in Source
    BY SSDAssumption
  <1>2. \A p \in Path : InSmallCopy(p)' <=> InSmallCopy(p)
    BY DEF InSmallCopy, SameCopy
  <1>3. godQueue \subseteq Source /\ godRunning \subseteq Source /\ smallQueue \subseteq Path
    BY DEF TypeOK
  <1> QED BY <1>1, <1>2, <1>3 DEF SmallInv, SameSmallJobs, SameCopy

LEMMA ProcessedSame ==
  ASSUME TypeOK, SameSmallJobs, UNCHANGED <<godQueue, smallQueue, refused, mode>>,
         \A t \in SmallThread : SameCopy(t),
         \A s \in Source : SmallFiles(s)' = SmallFiles(s)
  PROVE  /\ \A p \in Path : SmallLeft(p)' <=> SmallLeft(p)
         /\ \A s \in Source : Processed(s)' = Processed(s)
         /\ \A t \in SmallThread : \A s \in Source : Marks(t, s)' <=> Marks(t, s)
  <1>1. \A p \in Path : SmallLeft(p)' <=> SmallLeft(p)
    BY SSDAssumption DEF SmallLeft, Copies, SameSmallJobs, SameCopy
  <1>2. \A s \in Source : SmallFiles(s) \subseteq Path
    BY ToCopyIs
  <1>3. \A s \in Source : Processed(s)' = Processed(s)
    BY <1>1, <1>2 DEF Processed, Uncounted
  <1>4. \A t \in SmallThread : \A s \in Source : Marks(t, s)' <=> Marks(t, s)
    BY DEF Marks, SameCopy
  <1> QED BY <1>1, <1>3, <1>4

LEMMA ProcessedFrame ==
  ASSUME TypeOK, ProcessedInv, SameSmallJobs,
         UNCHANGED <<godQueue, smallQueue, refused, mode, processed, copied, smallDone, inMap>>,
         \A t \in SmallThread : SameCopy(t),
         \A s \in Source : SmallFiles(s)' = SmallFiles(s)
  PROVE  ProcessedInv'
  <1>1. /\ \A p \in Path : SmallLeft(p)' <=> SmallLeft(p)
        /\ \A s \in Source : Processed(s)' = Processed(s)
        /\ \A t \in SmallThread : \A s \in Source : Marks(t, s)' <=> Marks(t, s)
    BY ProcessedSame
  <1>2. \A s \in Source : AllProcessed(s)' <=> AllProcessed(s)
    BY DEF AllProcessed
  <1>3. refused \subseteq Path /\ smallDone \subseteq Source /\ inMap \subseteq Source
        /\ \A p \in Path : SourceOf[p] \in Source
    BY SSDAssumption DEF TypeOK
  <1> QED BY <1>1, <1>2, <1>3 DEF ProcessedInv, SameSmallJobs

LEMMA KeptFrame ==
  ASSUME TypeOK, SameJobs, UNCHANGED <<godQueue, smallQueue, largeQueue, largeTask>>,
         \A t \in CopyThread : SameCopy(t),
         \A s \in Source : LargeFiles(s)' = LargeFiles(s) /\ SmallFiles(s)' = SmallFiles(s)
  PROVE  Kept({})
  <1>1. \A p \in Path : SourceOf[p] \in Source
    BY SSDAssumption
  <1>2. LargeThread \in CopyThread /\ SmallThread \subseteq CopyThread
    BY DEF CopyThread
  <1>3. \A t \in CopyThread : \A p : Copies(t, p) => Copies(t, p)'
    BY DEF SameCopy, Copies
  <1>4. \A p \in Path : SmallLeft(p) => SmallLeft(p)'
    BY <1>1, <1>2, <1>3 DEF SmallLeft, SameJobs
  <1>5. \A p \in Path : LargeLeft(p) => LargeLeft(p)'
    <2>1. \A s \in Source : (InLargeQueue(s)' <=> InLargeQueue(s)) /\ (InLargeTask(s)' <=> InLargeTask(s))
      BY DEF InLargeQueue, InLargeTask
    <2>2. \A s \in Source : SubmitterAt(s, {"small", "large"})' <=> SubmitterAt(s, {"small", "large"})
      BY DEF SameJobs
    <2> QED BY <1>1, <1>2, <1>3, <2>1, <2>2 DEF LargeLeft
  <1>6. \A s \in Source : Waiting(s)' <=> Waiting(s)
    BY DEF SameJobs
  <1> QED BY <1>1, <1>4, <1>5, <1>6 DEF Kept, ToBeCopied

LEMMA KeptIf ==
  ASSUME NEW X,
         \A s \in Source : Waiting(s) => Waiting(s)',
         \A s \in Source : LargeFiles(s)' = LargeFiles(s) /\ SmallFiles(s)' = SmallFiles(s),
         \A p \in Path \ X : p \in SmallFiles(SourceOf[p]) /\ SmallLeft(p) => SmallLeft(p)',
         \A p \in Path \ X : p \in LargeFiles(SourceOf[p]) /\ LargeLeft(p) => LargeLeft(p)'
  PROVE  Kept(X)
  <1>1. \A p \in Path : SourceOf[p] \in Source
    BY SSDAssumption
  <1> QED BY <1>1 DEF Kept, ToBeCopied

(* What comes of a thread that goes on, for the source it works on.        *)
LEMMA MovesWaiting ==
  ASSUME TypeOK, JobsInv, NEW s \in Source, NEW from \in AtWork \cup {"idle"}, NEW to \in AtWork \cup {"idle"},
         Moves(s, from, to), left' = left, s \notin left, ~Queued(s), \A r \in Source : Queued(r)' <=> Queued(r)
  PROVE  /\ \A r \in Source : Waiting(r)' <=> IF r = s THEN to = "sync" ELSE Waiting(r)
         /\ Waiting(s) <=> from = "sync"
  BY DEF Moves, Waiting, AtWork

LEMMA NothingToCopyPlaces ==
  ASSUME Control, NEW w \in Worker, JobStep(w), NothingToCopy(w)
  PROVE  Places' /\ Kept({})
  <1> PICK s : s = running[w]
    OBVIOUS
  <1>0. /\ TypeOK /\ JobsInv /\ MapInv /\ CountInv /\ LargeInv /\ SmallInv /\ ProcessedInv
        /\ wpc[w] = "sync" /\ ToCopy(s) = {} /\ Goto(w, "save")
        /\ pending' = (IF pending > 0 THEN pending - 1 ELSE pending)
        /\ UNCHANGED <<mode, scanned, main, copying, refused, bin, copied, inMap, smallDone, largeDone,
                       processed, smallQueue, godQueue, godRunning, largeQueue, lpc, largeTask>>
        /\ UNCHANGED <<mpc, left>>
    BY DEF Control, Places, NothingToCopy, JobStep, disk, status, small, large, main
  <1>1. \A r \in Source : ToCopy(r)' = ToCopy(r) /\ LargeFiles(r)' = LargeFiles(r) /\ SmallFiles(r)' = SmallFiles(r)
    BY <1>0, FilesKept
  <1>2. /\ s \in Source /\ s \notin left /\ ~Queued(s) /\ Moves(s, "sync", "save") /\ JobsInv'
        /\ \A r \in Source : Queued(r)' <=> Queued(r)
    BY <1>0, <1>1, WorkerIs, WorkerGoes DEF AtWork, FewerToCopy
  <1>3. /\ \A r \in Source : Waiting(r)' <=> IF r = s THEN FALSE ELSE Waiting(r)
        /\ Waiting(s)
    BY <1>0, <1>2, MovesWaiting DEF AtWork
  <1>4. s \notin inMap /\ s \notin copied /\ s \notin godRunning
    BY <1>0, <1>3 DEF MapInv, SmallInv
  <1>5. CountInv'
    <2>1. s \in ToCount /\ ToCount' = ToCount \ {s}
      BY <1>0, <1>2, <1>3, <1>4 DEF ToCount, Moves, AtWork
    <2>2. pending # 0
      BY <1>0, <2>1, NothingCounted
    <2>3. pending' = pending - 1 /\ mpc' = mpc
      <3>1. pending \in Nat
        BY <1>0 DEF TypeOK
      <3> QED BY <1>0, <2>2, <3>1
    <2> QED BY <1>0, <2>1, <2>3, CountRemoved
  <1>6. \A r \in Source : \A pcs \in SUBSET {"small", "large"} : SubmitterAt(r, pcs)' <=> SubmitterAt(r, pcs)
    BY <1>2 DEF Moves, AtWork
  <1>7. inMap \subseteq Source /\ copied \subseteq Source /\ godQueue \subseteq Source /\ godRunning \subseteq Source
        /\ smallQueue \subseteq Path /\ refused \subseteq Path /\ smallDone \subseteq Source
    BY <1>0 DEF TypeOK
  <1>8. MapInv'
    BY <1>0, <1>2, <1>3, <1>4, <1>6, <1>7 DEF MapInv, Moves, AtWork
  <1>9. LargeInv'
    BY <1>0, <1>1, <1>6, <1>7 DEF LargeInv, InLargeQueue, InLargeTask, LargeCopy
  <1>10. SmallInv'
    BY <1>0, <1>1, <1>2, <1>3, <1>4, <1>6, <1>7, SSDAssumption DEF SmallInv, InSmallCopy, Moves, AtWork
  <1>11. ProcessedInv'
    <2>1. SmallFiles(s) = {}
      BY <1>0, <1>2, ToCopyIs
    <2>2. ASSUME NEW p \in Path, SourceOf[p] # s PROVE SmallLeft(p)' <=> SmallLeft(p)
      BY <1>0, <1>3, <1>6, <2>2, SSDAssumption DEF SmallLeft, Copies
    <2>3. \A r \in Source : \A p \in SmallFiles(r) : p \in Path /\ SourceOf[p] = r
      BY <1>0, ToCopyIs
    <2>4. \A r \in Source : Processed(r)' = Processed(r)
      BY <1>0, <1>1, <2>1, <2>2, <2>3 DEF Processed, Uncounted
    <2>5. \A r \in Source : AllProcessed(r)' <=> AllProcessed(r)
      BY <1>0, <1>1 DEF AllProcessed
    <2>6. \A t \in SmallThread : \A r \in Source : Marks(t, r)' <=> Marks(t, r)
      BY <1>0 DEF Marks
    <2>7. \A p \in refused' : (p \in SmallFiles(SourceOf[p]))' => ~SmallLeft(p)'
      BY <1>0, <1>1, <1>7, <2>1, <2>2, SSDAssumption DEF ProcessedInv
    <2> QED BY <1>0, <1>1, <1>6, <1>7, <2>4, <2>5, <2>6, <2>7 DEF ProcessedInv
  <1>12. Kept({})
    <2>1. ASSUME NEW p \in Path, p \in ToCopy(SourceOf[p]), ToBeCopied(p)
          PROVE  ToBeCopied(p)'
      <3>1. SourceOf[p] \in Source /\ SourceOf[p] # s
        BY <1>0, <2>1, SSDAssumption
      <3>2. SmallLeft(p)' <=> SmallLeft(p)
        BY <1>0, <1>3, <1>6, <3>1 DEF SmallLeft, Copies
      <3>3. LargeLeft(p)' <=> LargeLeft(p)
        BY <1>0, <1>6, <3>1 DEF LargeLeft, Copies, InLargeQueue, InLargeTask
      <3> QED BY <1>1, <1>3, <2>1, <3>1, <3>2, <3>3 DEF ToBeCopied
    <2> QED BY <2>1 DEF Kept
  <1> QED BY <1>2, <1>5, <1>8, <1>9, <1>10, <1>11, <1>12 DEF Places

LEMMA TakeJobPlaces ==
  ASSUME Control, NEW w \in Worker, JobStep(w), TakeJob(w)
  PROVE  Places' /\ Kept({})
  <1>0. /\ TypeOK /\ JobsInv /\ MapInv /\ CountInv /\ LargeInv /\ SmallInv /\ ProcessedInv
        /\ UNCHANGED <<mode, scanned, main, copying, refused, bin, copied, inMap, smallDone, largeDone, pending,
                       processed, smallQueue, godQueue, godRunning, largeQueue, lpc, largeTask>>
        /\ UNCHANGED <<mpc, left>>
    BY DEF Control, Places, TakeJob, JobStep, disk, status, small, large, main, counts
  <1>1. \A r \in Source : LargeFiles(r)' = LargeFiles(r) /\ SmallFiles(r)' = SmallFiles(r)
    BY <1>0, FilesKept
  <1>2. PICK s \in Source :
           /\ Queued(s) /\ s \notin left /\ Moves(s, "idle", "sync") /\ JobsInv'
           /\ \A r \in Source : Queued(r)' <=> Queued(r) /\ r # s
    BY <1>0, WorkerTakes
  <1>3. SameJobs
    BY <1>0, <1>2 DEF SameJobs, Waiting, Moves, AtWork
  <1>4. ToCount' = ToCount
    BY <1>0, <1>2 DEF ToCount, Moves, AtWork
  <1>5. CountInv'
    BY <1>0, <1>4, CountKept
  <1>6. MapInv' /\ LargeInv' /\ SmallInv' /\ ProcessedInv'
    BY <1>0, <1>1, <1>3, SameSmall, MapFrame, LargeFrame, SmallFrame, ProcessedFrame DEF SameCopy
  <1>7. Kept({})
    BY <1>0, <1>1, <1>3, KeptFrame DEF SameCopy
  <1> QED BY <1>2, <1>5, <1>6, <1>7 DEF Places

LEMMA SaveUnchangedPlaces ==
  ASSUME Control, NEW w \in Worker, JobStep(w), SaveUnchanged(w)
  PROVE  Places' /\ Kept({})
  <1> PICK s : s = running[w]
    OBVIOUS
  <1> DEFINE c == MarkVisited(bin[s], DOMAIN Fresh(s))
  <1>0. /\ TypeOK /\ JobsInv /\ MapInv /\ CountInv /\ LargeInv /\ SmallInv /\ ProcessedInv
        /\ wpc[w] = "save" /\ EndJob(w) /\ bin' = [bin EXCEPT ![s] = Refresh(c, Fresh(s), MaxMiss)]
        /\ UNCHANGED <<mode, scanned, main, copying, refused, copied, inMap, smallDone, largeDone, pending,
                       processed, smallQueue, godQueue, godRunning, largeQueue, lpc, largeTask>>
        /\ UNCHANGED <<mpc, left>>
    BY DEF Control, Places, SaveUnchanged, JobStep, status, small, large, main, counts
  <1>1. s \in Source /\ ToCopy(s) = {} /\ s \notin left /\ ~Queued(s)
    BY <1>0, WorkerIs DEF JobsInv
  <1>2. \A r \in Source : ToCopy(r)' = ToCopy(r)
    <2>1. bin' = [r \in Source |-> IF r = s THEN Refresh(c, Fresh(s), MaxMiss) ELSE bin[r]]
      BY <1>0 DEF TypeOK
    <2>2. ASSUME NEW r \in Source, r # s PROVE ToCopy(r)' = ToCopy(r)
      BY <1>0, <2>1, <2>2, FreshNext DEF ToCopy
    <2>3. ToCopy(s)' = {}
      BY <1>0, <1>1, <2>1, FreshNext, SecondRunCopiesNothing DEF ToCopy
    <2> QED BY <1>1, <2>2, <2>3
  <1>3. \A r \in Source : LargeFiles(r)' = LargeFiles(r) /\ SmallFiles(r)' = SmallFiles(r)
    <2>1. \A r \in Source : LargeFiles(r)' = LargeFiles(r)
      BY <1>0, <1>2 DEF LargeFiles
    <2> QED BY <1>2, <2>1 DEF SmallFiles
  <1>4. /\ Moves(s, "save", "idle") /\ JobsInv' /\ \A r \in Source : Queued(r)' <=> Queued(r)
    BY <1>0, <1>2, WorkerEnds DEF FewerToCopy
  <1>5. SameJobs
    BY <1>0, <1>1, <1>4 DEF SameJobs, Waiting, Moves, AtWork
  <1>6. ToCount' = ToCount
    BY <1>0, <1>4 DEF ToCount, Moves, AtWork
  <1>7. CountInv'
    BY <1>0, <1>6, CountKept
  <1>8. MapInv' /\ LargeInv' /\ SmallInv' /\ ProcessedInv'
    BY <1>0, <1>3, <1>5, SameSmall, MapFrame, LargeFrame, SmallFrame, ProcessedFrame DEF SameCopy
  <1>9. Kept({})
    BY <1>0, <1>3, <1>5, KeptFrame DEF SameCopy
  <1> QED BY <1>4, <1>7, <1>8, <1>9 DEF Places

LEMMA EnterMapPlaces ==
  ASSUME Control, NEW w \in Worker, JobStep(w), EnterMap(w)
  PROVE  Places' /\ Kept({})
  <1> PICK s : s = running[w]
    OBVIOUS
  <1>0. /\ TypeOK /\ JobsInv /\ MapInv /\ CountInv /\ LargeInv /\ SmallInv /\ ProcessedInv
        /\ wpc[w] = "sync" /\ Goto(w, "small") /\ inMap' = inMap \cup {s}
        /\ UNCHANGED <<mode, scanned, main, copying, refused, bin, copied, smallDone, largeDone, pending,
                       processed, smallQueue, godQueue, godRunning, largeQueue, lpc, largeTask>>
        /\ UNCHANGED <<mpc, left>>
    BY DEF Control, Places, EnterMap, JobStep, disk, counts, small, large, main
  <1>1. \A r \in Source : ToCopy(r)' = ToCopy(r) /\ LargeFiles(r)' = LargeFiles(r) /\ SmallFiles(r)' = SmallFiles(r)
    BY <1>0, FilesKept
  <1>2. /\ s \in Source /\ s \notin left /\ ~Queued(s) /\ Moves(s, "sync", "small") /\ JobsInv'
        /\ \A r \in Source : Queued(r)' <=> Queued(r)
    BY <1>0, <1>1, WorkerIs, WorkerGoes DEF AtWork, FewerToCopy
  <1>3. /\ \A r \in Source : Waiting(r)' <=> IF r = s THEN FALSE ELSE Waiting(r)
        /\ Waiting(s)
    BY <1>0, <1>2, MovesWaiting DEF AtWork
  <1>4. inMap \subseteq Source /\ copied \subseteq Source /\ godQueue \subseteq Source /\ godRunning \subseteq Source
        /\ smallQueue \subseteq Path /\ refused \subseteq Path /\ smallDone \subseteq inMap /\ largeDone \subseteq inMap
    BY <1>0 DEF TypeOK
  <1>5. /\ s \notin inMap /\ s \notin copied /\ s \notin godRunning /\ s \notin godQueue
        /\ s \notin smallDone /\ s \notin largeDone
    BY <1>0, <1>3, <1>4 DEF MapInv, SmallInv
  <1>6. CountInv'
    <2>1. ToCount' = ToCount
      BY <1>0, <1>2, <1>3, <1>5 DEF ToCount, Moves, AtWork
    <2> QED BY <1>0, <2>1, CountKept
  <1>7. \A r \in Source : \A pcs \in SUBSET {"small", "large", "save"} :
           SubmitterAt(r, pcs)' <=> IF r = s THEN "small" \in pcs ELSE SubmitterAt(r, pcs)
    BY <1>2 DEF Moves, AtWork
  <1>8. MapInv'
    BY <1>0, <1>2, <1>3, <1>4, <1>5, <1>7 DEF MapInv
  <1>9. LargeInv'
    <2>1. ~InLargeQueue(s) /\ ~InLargeTask(s)
      BY <1>0, <1>2, <1>5 DEF LargeInv
    <2>2. \A r \in Source : (InLargeQueue(r)' <=> InLargeQueue(r)) /\ (InLargeTask(r)' <=> InLargeTask(r))
      BY <1>0 DEF InLargeQueue, InLargeTask
    <2>3. LargeCopy' = LargeCopy
      BY <1>0 DEF LargeCopy
    <2>4. \A r \in Source : SubmitterAt(r, {"small", "large"})' <=> r = s \/ SubmitterAt(r, {"small", "large"})
      BY <1>7
    <2> QED BY <1>0, <1>1, <1>2, <1>4, <2>1, <2>2, <2>3, <2>4 DEF LargeInv
  <1>10. SmallInv'
    <2>1. \A p \in Path : InSmallCopy(p)' <=> InSmallCopy(p)
      BY <1>0 DEF InSmallCopy
    <2>2. \A p \in Path : p \in smallQueue \/ InSmallCopy(p) => SourceOf[p] # s
      BY <1>0, <1>5 DEF SmallInv
    <2> QED BY <1>0, <1>1, <1>2, <1>3, <1>4, <1>5, <1>7, <2>1, <2>2, SSDAssumption DEF SmallInv
  <1>11. ProcessedInv'
    <2>1. \A p \in Path : SmallLeft(p)' <=> SmallLeft(p)
      BY <1>0, <1>3, <1>7, SSDAssumption DEF SmallLeft, Copies
    <2>2. \A r \in Source : \A p \in SmallFiles(r) : p \in Path /\ SourceOf[p] = r
      BY <1>0, ToCopyIs
    <2>3. \A r \in Source : Processed(r)' = Processed(r)
      BY <1>0, <1>1, <2>1, <2>2 DEF Processed, Uncounted
    <2>4. \A r \in Source : AllProcessed(r)' <=> AllProcessed(r)
      BY <1>0, <1>1 DEF AllProcessed
    <2>5. \A t \in SmallThread : \A r \in Source : Marks(t, r)' <=> Marks(t, r)
      BY <1>0 DEF Marks
    <2>6. \A p \in refused' : (p \in SmallFiles(SourceOf[p]))' => ~SmallLeft(p)'
      BY <1>0, <1>1, <1>4, <2>1, SSDAssumption DEF ProcessedInv
    <2>7. \A r \in inMap' \ smallDone' : AllProcessed(r)' =>
            SubmitterAt(r, {"small"})' \/ \E t \in SmallThread : Marks(t, r)'
      <3>1. \A r \in Source : SubmitterAt(r, {"small"})' <=> r = s \/ SubmitterAt(r, {"small"})
        BY <1>7
      <3> QED BY <1>0, <1>2, <1>4, <2>4, <2>5, <3>1 DEF ProcessedInv
    <2> QED BY <1>0, <1>4, <2>3, <2>4, <2>5, <2>6, <2>7 DEF ProcessedInv
  <1>12. Kept({})
    <2>1. ASSUME NEW p \in Path, p \in ToCopy(SourceOf[p]), ToBeCopied(p)
          PROVE  ToBeCopied(p)'
      <3>1. SourceOf[p] \in Source
        BY SSDAssumption
      <3>2. /\ \A r \in Source : SubmitterAt(r, {"small"})' <=> r = s \/ SubmitterAt(r, {"small"})
            /\ \A r \in Source : SubmitterAt(r, {"small", "large"})' <=> r = s \/ SubmitterAt(r, {"small", "large"})
        BY <1>7
      <3>3. CASE SourceOf[p] = s
        <4>1. p \in SmallFiles(s)' \/ p \in LargeFiles(s)'
          BY <1>0, <1>1, <1>2, <2>1, <3>3, ToCopyIs
        <4>2. SmallLeft(p)' /\ LargeLeft(p)'
          BY <1>2, <3>2, <3>3 DEF SmallLeft, LargeLeft
        <4> QED BY <3>3, <4>1, <4>2 DEF ToBeCopied
      <3>4. CASE SourceOf[p] # s
        <4>1. SmallLeft(p)' <=> SmallLeft(p)
          BY <1>0, <1>3, <3>1, <3>2, <3>4 DEF SmallLeft, Copies
        <4>2. LargeLeft(p)' <=> LargeLeft(p)
          BY <1>0, <3>1, <3>2, <3>4 DEF LargeLeft, Copies, InLargeQueue, InLargeTask
        <4> QED BY <1>1, <1>3, <2>1, <3>1, <3>4, <4>1, <4>2 DEF ToBeCopied
      <3> QED BY <3>3, <3>4
    <2> QED BY <2>1 DEF Kept
  <1> QED BY <1>2, <1>6, <1>8, <1>9, <1>10, <1>11, <1>12 DEF Places

-----------------------------------------------------------------------------
(* A source whose small files are all counted has none left, and a thread  *)
(* that still works on one only marks the source.                          *)
LEMMA AllCounted ==
  ASSUME Control, NEW s \in inMap, AllProcessed(s)
  PROVE  /\ \A p \in SmallFiles(s) : ~SmallLeft(p) /\ p \notin Uncounted
         /\ s \notin godQueue
         /\ \A p \in Path : SourceOf[p] = s => p \notin smallQueue
         /\ \A t \in SmallThread :
              copying[t] # NoCopy /\ SourceOf[copying[t].path] = s => copying[t].stage = "mark"
  <1>0. TypeOK /\ MapInv /\ SmallInv /\ ProcessedInv /\ s \in Source /\ s \notin copied
    BY DEF Control, Places, TypeOK, MapInv
  <1>1. Cardinality(Processed(s)) = Cardinality(SmallFiles(s)) /\ Processed(s) \subseteq SmallFiles(s)
    BY <1>0 DEF ProcessedInv, AllProcessed, Processed
  <1>2. Processed(s) = SmallFiles(s)
    BY <1>0, <1>1, ToCopyFinite, FS_Subset
  <1>3. \A p \in SmallFiles(s) : ~SmallLeft(p) /\ p \notin Uncounted
    BY <1>2 DEF Processed
  <1>4. \A p \in SmallFiles(s) : p \in Path /\ SourceOf[p] = s
    BY <1>0, ToCopyIs
  <1>5. s \notin godQueue
    BY <1>0, <1>3, <1>4 DEF SmallInv, SmallLeft
  <1>6. ASSUME NEW p \in Path, SourceOf[p] = s, p \in smallQueue PROVE FALSE
    <2>1. p \in SmallFiles(s)
      BY <1>0, <1>6 DEF SmallInv
    <2> QED BY <1>3, <1>6, <2>1 DEF SmallLeft
  <1>7. ASSUME NEW t \in SmallThread, copying[t] # NoCopy, SourceOf[copying[t].path] = s, copying[t].stage # "mark"
        PROVE  FALSE
    <2>1. copying[t].path \in Path /\ InSmallCopy(copying[t].path)
      BY <1>0, <1>7 DEF TypeOK, CopyThread, CopyState, InSmallCopy
    <2>2. copying[t].path \in SmallFiles(s)
      BY <1>0, <1>7, <2>1 DEF SmallInv
    <2> QED BY <1>3, <1>7, <2>2 DEF SmallLeft, Copies
  <1> QED BY <1>3, <1>5, <1>6, <1>7

(* The five steps that mark a queue of s done, as the invariant sees them. *)
FlagStep(s, sd, ld) ==
  /\ UNCHANGED <<mode, scanned, refused, processed, smallQueue, godQueue, largeQueue, mpc>>
  /\ sd \in {smallDone, smallDone \cup {s}} /\ ld \in {largeDone, largeDone \cup {s}}
  /\ \A r \in Source :
       /\ Waiting(r)' <=> Waiting(r)
       /\ (Queued(r) \/ SubmitterAt(r, {"sync"}))' <=> (Queued(r) \/ SubmitterAt(r, {"sync"}))
       /\ \A pcs \in SUBSET {"small", "large"} : r # s => (SubmitterAt(r, pcs)' <=> SubmitterAt(r, pcs))
       /\ \A pcs \in SUBSET {"save", "small"} : SubmitterAt(r, pcs)' => SubmitterAt(r, pcs)
       /\ \A pcs \in {{"small", "large"}} : SubmitterAt(r, pcs)' => SubmitterAt(r, pcs)
  /\ SubmitterAt(s, {"large"})' => mode = "GodSpeed" \/ (s \in inMap /\ s \notin ld)
  /\ ~SubmitterAt(s, {"small"})' /\ (SubmitterAt(s, {"small"}) => SmallFiles(s) = {})
  /\ godRunning' \subseteq godRunning
  /\ \A t \in SmallThread :
       copying'[t] = copying[t] \/ (Marks(t, s) /\ copying'[t] = NoCopy /\ s \in sd)
  /\ copying'[LargeThread] = copying[LargeThread]
  /\ lpc' = "work" <=> largeTask' # NoTask
  /\ largeTask' = largeTask \/ (InLargeTask(s) /\ largeTask' = NoTask /\ copying[LargeThread] = NoCopy)
  /\ s \in ld => ~InLargeQueue(s) /\ ~InLargeTask(s)' /\ \A p \in LargeFiles(s) : ~LargeLeft(p)
  /\ SubmitterAt(s, {"small", "large"}) => SubmitterAt(s, {"small", "large"})' \/ s \in ld
  /\ s \in inMap \cap sd => AllProcessed(s) /\ \A t \in SmallThread : ~Marks(t, s)'
  /\ s \in inMap =>
       /\ s \in ld \/ SubmitterAt(s, {"small", "large"})' \/ InLargeQueue(s) \/ InLargeTask(s)'
       /\ s \notin sd => (AllProcessed(s) => \E t \in SmallThread : Marks(t, s)')

LEMMA FlagFiles ==
  ASSUME Control, NEW s \in Source, NEW sd, NEW ld, FlagStep(s, sd, ld),
         Gone(s) \/ Flagged(s, sd, ld) \/ Saved(s, sd, ld)
  PROVE  \A r \in Source : r # s \/ ~Saved(s, sd, ld) =>
           /\ LargeFiles(r)' = LargeFiles(r) /\ SmallFiles(r)' = SmallFiles(r)
  <1>1. CASE Gone(s) \/ Flagged(s, sd, ld)
    BY <1>1, FilesKept DEF FlagStep, Gone, Flagged, disk
  <1>2. CASE Saved(s, sd, ld)
    BY <1>2, FilesSaved DEF FlagStep, Saved
  <1> QED BY <1>1, <1>2

LEMMA FlagMap ==
  ASSUME Control, NEW s \in Source, NEW sd, NEW ld, FlagStep(s, sd, ld),
         Gone(s) \/ Flagged(s, sd, ld) \/ Saved(s, sd, ld)
  PROVE  MapInv' /\ CountInv'
  <1>0. TypeOK /\ MapInv /\ CountInv /\ inMap \subseteq Source /\ copied \subseteq Source
    BY DEF Control, Places, TypeOK
  <1>1. CASE Gone(s)
    <2>1. MapInv'
      BY <1>0, <1>1 DEF FlagStep, MapInv, Gone, disk, status
    <2>2. ToCount' = ToCount /\ pending' = pending /\ mpc' = mpc
      BY <1>1 DEF ToCount, FlagStep, Gone, counts, status
    <2> QED BY <1>0, <2>1, <2>2, CountKept
  <1>2. CASE Flagged(s, sd, ld)
    <2>1. MapInv'
      BY <1>0, <1>2 DEF FlagStep, MapInv, Flagged, disk
    <2>2. ToCount' = ToCount /\ pending' = pending /\ mpc' = mpc
      BY <1>2 DEF ToCount, FlagStep, Flagged, counts
    <2> QED BY <1>0, <2>1, <2>2, CountKept
  <1>3. CASE Saved(s, sd, ld)
    <2>1. MapInv'
      <3>1. /\ inMap' = inMap \ {s} /\ copied' = copied \cup {s} /\ s \in inMap /\ mode' = mode
            /\ \A r \in Source : r # s => (r \in smallDone' <=> r \in smallDone) /\ (r \in largeDone' <=> r \in largeDone)
            /\ s \in ld
        BY <1>3 DEF FlagStep, Saved
      <3>2. ~Waiting(s)' /\ ~SubmitterAt(s, {"save", "small"})'
        <4>1. ~Waiting(s) /\ ~SubmitterAt(s, {"save"})
          BY <1>0, <3>1 DEF MapInv
        <4>2. ~SubmitterAt(s, {"save"})' /\ ~SubmitterAt(s, {"small"})'
          BY <4>1 DEF FlagStep
        <4> QED BY <4>1, <4>2 DEF FlagStep, SubmitterAt
      <3>3. \A r \in inMap' : ~Waiting(r)' /\ ~SubmitterAt(r, {"save"})' /\ r \notin copied'
        BY <1>0, <3>1 DEF FlagStep, MapInv
      <3>4. \A r \in copied' : ~Waiting(r)' /\ ~SubmitterAt(r, {"save", "small"})'
        BY <1>0, <3>1, <3>2 DEF FlagStep, MapInv
      <3>5. \A r \in Source : SubmitterAt(r, {"small"})' =>
              r \in inMap' /\ r \notin smallDone' /\ r \notin largeDone'
        BY <1>0, <3>1 DEF FlagStep, MapInv
      <3>6. \A r \in Source : SubmitterAt(r, {"large"})' =>
              mode' = "GodSpeed" \/ (r \in inMap' /\ r \notin largeDone')
        <4>1. \A r \in Source : r # s => (SubmitterAt(r, {"large"})' <=> SubmitterAt(r, {"large"}))
          BY DEF FlagStep
        <4>2. SubmitterAt(s, {"large"})' => mode = "GodSpeed"
          BY <3>1 DEF FlagStep
        <4> QED BY <1>0, <3>1, <4>1, <4>2 DEF MapInv
      <3> QED BY <3>3, <3>4, <3>5, <3>6 DEF MapInv
    <2>2. s \in ToCount /\ ToCount' = ToCount \ {s} /\ pending' = pending - 1 /\ mpc' = mpc
      <3>1. ~Queued(s) /\ ~SubmitterAt(s, {"sync"})
        BY <1>0, <1>3 DEF MapInv, Saved, Waiting
      <3> QED BY <1>3, <3>1 DEF ToCount, FlagStep, Saved
    <2> QED BY <1>0, <2>1, <2>2, CountRemoved
  <1> QED BY <1>1, <1>2, <1>3

LEMMA FlagLarge ==
  ASSUME Control, NEW s \in Source, NEW sd, NEW ld, FlagStep(s, sd, ld),
         Gone(s) \/ Flagged(s, sd, ld) \/ Saved(s, sd, ld)
  PROVE  LargeInv'
  <1>0. TypeOK /\ LargeInv /\ inMap \subseteq Source
    BY DEF Control, Places, TypeOK
  <1>1. \A r \in Source : InLargeQueue(r)' <=> InLargeQueue(r)
    BY DEF FlagStep, InLargeQueue
  <1>2. \A r \in Source : InLargeTask(r)' => InLargeTask(r) /\ largeTask' = largeTask
    BY DEF FlagStep, InLargeTask
  <1>3. \A r \in Source : r # s => (InLargeTask(r)' <=> InLargeTask(r))
    BY <1>0 DEF FlagStep, InLargeTask
  <1>4. LargeCopy' = LargeCopy
    BY DEF LargeCopy, FlagStep
  <1>5. \A r \in Source : r # s \/ ~Saved(s, sd, ld) => LargeFiles(r)' = LargeFiles(r)
    BY FlagFiles
  <1>6. /\ inMap' \subseteq Source /\ inMap' \subseteq inMap
        /\ \A r \in Source : r # s => (r \in inMap' <=> r \in inMap) /\ (r \in largeDone' <=> r \in largeDone)
        /\ s \in inMap' => s \in inMap /\ ~Saved(s, sd, ld) /\ largeDone' = ld
        /\ s \notin inMap' => s \notin inMap \/ s \in ld
    BY <1>0 DEF Gone, Flagged, Saved, FlagStep, status
  <1>7. \A r \in Source : InLargeQueue(r)' \/ InLargeTask(r)' =>
          /\ r \in inMap' /\ r \notin largeDone'
          /\ ~SubmitterAt(r, {"small", "large"})' /\ mode' # "GodSpeed"
    BY <1>0, <1>1, <1>2, <1>6 DEF LargeInv, FlagStep
  <1>8. \A r \in Source : InLargeTask(r)' =>
          ~InLargeQueue(r)' /\ largeTask'.todo \cup LargeCopy' \subseteq LargeFiles(r)'
    BY <1>0, <1>1, <1>2, <1>4, <1>5, <1>6, <1>7 DEF LargeInv
  <1>9. /\ copying'[LargeThread] # NoCopy => largeTask' # NoTask /\ copying'[LargeThread].stage # "mark"
        /\ largeTask' # NoTask => LargeCopy' \cap largeTask'.todo = {}
    BY <1>0, <1>4 DEF LargeInv, FlagStep
  <1>10. \A r \in inMap' : r \in largeDone' \/ SubmitterAt(r, {"small", "large"})' \/ InLargeQueue(r)'
                           \/ InLargeTask(r)'
    BY <1>0, <1>1, <1>3, <1>6 DEF LargeInv, FlagStep
  <1>11. \A i, j \in DOMAIN largeQueue' : largeQueue'[i] = largeQueue'[j] => i = j
    BY <1>0 DEF LargeInv, FlagStep
  <1>12. largeTask' # NoTask <=> lpc' = "work"
    BY DEF FlagStep
  <1> QED BY <1>7, <1>8, <1>9, <1>10, <1>11, <1>12 DEF LargeInv

LEMMA FlagSmall ==
  ASSUME Control, NEW s \in Source, NEW sd, NEW ld, FlagStep(s, sd, ld),
         Gone(s) \/ Flagged(s, sd, ld) \/ Saved(s, sd, ld)
  PROVE  SmallInv'
  <1>0. /\ TypeOK /\ SmallInv /\ inMap \subseteq Source /\ copied \subseteq Source
        /\ godQueue \subseteq Source /\ godRunning \subseteq Source /\ smallQueue \subseteq Path
        /\ \A p \in Path : SourceOf[p] \in Source
    BY SSDAssumption DEF Control, Places, TypeOK
  <1>1. \A r \in Source : r # s \/ ~Saved(s, sd, ld) => SmallFiles(r)' = SmallFiles(r)
    BY FlagFiles
  <1>2. /\ \A r \in Source : r # s \/ ~Saved(s, sd, ld) => (r \in inMap => r \in inMap')
        /\ inMap \cup copied \subseteq inMap' \cup copied'
    BY <1>0 DEF Gone, Flagged, Saved, status, disk
  <1>3. Saved(s, sd, ld) => AllProcessed(s) /\ s \in inMap /\ \A t \in SmallThread : ~Marks(t, s)'
    BY DEF Saved, FlagStep
  <1>4. Saved(s, sd, ld) => s \notin godQueue /\ \A p \in Path : SourceOf[p] = s => p \notin smallQueue
    BY <1>3, AllCounted
  <1>5. ASSUME NEW p \in Path, InSmallCopy(p)'
        PROVE  InSmallCopy(p) /\ (SourceOf[p] # s \/ ~Saved(s, sd, ld))
    <2>1. PICK t \in SmallThread : copying'[t] # NoCopy /\ copying'[t].path = p
      BY <1>5 DEF InSmallCopy
    <2>2. copying'[t] = copying[t]
      BY <2>1 DEF FlagStep
    <2>3. ASSUME SourceOf[p] = s, Saved(s, sd, ld) PROVE FALSE
      <3>1. copying[t].stage = "mark"
        BY <1>3, <2>1, <2>2, <2>3, AllCounted
      <3>2. Marks(t, s)'
        BY <2>1, <2>2, <2>3, <3>1 DEF Marks
      <3> QED BY <1>3, <2>3, <3>2
    <2> QED BY <2>1, <2>2, <2>3 DEF InSmallCopy
  <1>6. mode' # "GodSpeed" => godQueue' = {} /\ godRunning' = {}
    BY <1>0 DEF FlagStep, SmallInv
  <1>7. \A r \in godQueue' :
          SmallFiles(r)' # {} /\ r \in inMap' /\ ~SubmitterAt(r, {"small"})' /\ r \notin godRunning'
    BY <1>0, <1>1, <1>2, <1>4 DEF FlagStep, SmallInv
  <1>8. \A r \in godRunning' :
          ~Waiting(r)' /\ ~SubmitterAt(r, {"small", "save"})' /\ r \in inMap' \cup copied'
    <2>1. \A r \in Source : SubmitterAt(r, {"small", "save"})' => SubmitterAt(r, {"small", "save"})
      BY DEF FlagStep
    <2> QED BY <1>0, <1>2, <2>1 DEF FlagStep, SmallInv
  <1>9. ASSUME NEW p \in Path, p \in smallQueue' \/ InSmallCopy(p)'
        PROVE  /\ (p \in SmallFiles(SourceOf[p]))' /\ SourceOf[p] \in inMap' /\ SourceOf[p] \notin godQueue'
               /\ ~SubmitterAt(SourceOf[p], {"small"})'
    <2>1. (p \in smallQueue \/ InSmallCopy(p)) /\ (SourceOf[p] # s \/ ~Saved(s, sd, ld))
      BY <1>4, <1>5, <1>9 DEF FlagStep
    <2>2. /\ p \in SmallFiles(SourceOf[p]) /\ SourceOf[p] \in inMap /\ SourceOf[p] \notin godQueue
          /\ ~SubmitterAt(SourceOf[p], {"small"})
      BY <1>0, <2>1 DEF SmallInv
    <2>3. SmallFiles(SourceOf[p])' = SmallFiles(SourceOf[p])
      BY <1>0, <1>1, <2>1
    <2> QED BY <1>0, <1>2, <2>1, <2>2, <2>3 DEF FlagStep
  <1>10. \A p \in smallQueue' : ~InSmallCopy(p)'
    BY <1>0, <1>5 DEF FlagStep, SmallInv
  <1>11. \A t, u \in SmallThread :
           copying'[t] # NoCopy /\ copying'[u] # NoCopy /\ copying'[t].path = copying'[u].path => t = u
    BY <1>0 DEF FlagStep, SmallInv
  <1> QED BY <1>6, <1>7, <1>8, <1>9, <1>10, <1>11 DEF SmallInv

LEMMA FlagProcessed ==
  ASSUME Control, NEW s \in Source, NEW sd, NEW ld, FlagStep(s, sd, ld),
         Gone(s) \/ Flagged(s, sd, ld) \/ Saved(s, sd, ld)
  PROVE  ProcessedInv'
  <1>0. /\ TypeOK /\ SmallInv /\ ProcessedInv /\ inMap \subseteq Source /\ smallDone \subseteq Source
        /\ refused \subseteq Path /\ \A p \in Path : SourceOf[p] \in Source
    BY SSDAssumption DEF Control, Places, TypeOK
  <1>1. \A r \in Source : r # s \/ ~Saved(s, sd, ld) => SmallFiles(r)' = SmallFiles(r)
    BY FlagFiles
  <1>2. Saved(s, sd, ld) => s \in copied' /\ s \notin inMap' /\ s \notin smallDone' /\ SmallFiles(s)' = {}
    BY <1>0, FilesSaved DEF Saved, FlagStep
  <1>3. /\ \A r \in Source : r # s => (r \in inMap' <=> r \in inMap) /\ (r \in smallDone' <=> r \in smallDone)
        /\ s \in inMap /\ ~Saved(s, sd, ld) => smallDone' = sd /\ inMap' = inMap
        /\ s \notin inMap => UNCHANGED <<inMap, smallDone>>
        /\ copied \subseteq copied'
    BY <1>0 DEF Gone, Flagged, Saved, FlagStep, status, disk
  <1>4. ASSUME NEW t \in SmallThread, NEW p PROVE Copies(t, p)' <=> Copies(t, p)
    BY DEF FlagStep, Copies, Marks
  <1>5. ASSUME NEW p \in Path, p \in SmallFiles(SourceOf[p]) PROVE SmallLeft(p)' <=> SmallLeft(p)
    BY <1>0, <1>4, <1>5 DEF FlagStep, SmallLeft
  <1>6. \A r \in Source : \A p \in SmallFiles(r) : p \in Path /\ SourceOf[p] = r
    BY <1>0, ToCopyIs
  <1>7. \A r \in Source \ copied' : Processed(r)' = Processed(r)
    BY <1>1, <1>2, <1>5, <1>6 DEF Processed, Uncounted, FlagStep
  <1>8. \A r \in Source : r # s \/ ~Saved(s, sd, ld) => (AllProcessed(r)' <=> AllProcessed(r))
    BY <1>1 DEF AllProcessed, FlagStep
  <1>9. /\ \A t \in SmallThread : \A r \in Source : Marks(t, r)' => Marks(t, r)
        /\ \A t \in SmallThread : \A r \in Source : r # s => (Marks(t, r)' <=> Marks(t, r))
    BY DEF FlagStep, Marks
  <1>10. ASSUME NEW t \in SmallThread, Marks(t, s)'
         PROVE  s \in inMap /\ s \notin sd /\ ~Saved(s, sd, ld)
    <2>1. Marks(t, s)
      BY <1>9, <1>10
    <2>2. copying[t].path \in Path /\ InSmallCopy(copying[t].path)
      BY <1>0, <2>1 DEF Marks, TypeOK, CopyThread, CopyState, InSmallCopy
    <2>3. s \in inMap
      BY <1>0, <2>1, <2>2 DEF SmallInv, Marks
    <2> QED BY <1>10, <2>3 DEF FlagStep, Saved
  <1>11. \A r \in Source \ copied' : processed'[r] = Cardinality(Processed(r)')
    BY <1>0, <1>3, <1>7 DEF ProcessedInv, FlagStep
  <1>12. ASSUME NEW p \in refused', (p \in SmallFiles(SourceOf[p]))' PROVE ~SmallLeft(p)'
    <2>1. p \in Path /\ p \in refused /\ p \in SmallFiles(SourceOf[p])
      BY <1>0, <1>1, <1>2, <1>12 DEF FlagStep
    <2> QED BY <1>0, <1>5, <2>1 DEF ProcessedInv
  <1>13. ASSUME NEW r \in smallDone' PROVE AllProcessed(r)'
    <2>1. r \in Source /\ (r # s \/ ~Saved(s, sd, ld))
      <3>1. s \in inMap => smallDone' \subseteq Source
        BY <1>0 DEF Gone, Flagged, Saved, FlagStep
      <3> QED BY <1>0, <1>2, <1>3, <1>13, <3>1
    <2>2. AllProcessed(r)
      <3>1. CASE r \in smallDone
        BY <1>0, <3>1 DEF ProcessedInv
      <3>2. CASE r \notin smallDone
        <4>1. r = s /\ s \in inMap /\ s \in sd
          BY <1>3, <1>13, <2>1, <3>2
        <4> QED BY <4>1 DEF FlagStep
      <3> QED BY <3>1, <3>2
    <2> QED BY <1>8, <2>1, <2>2
  <1>14. ASSUME NEW t \in SmallThread, NEW r \in Source, Marks(t, r)' PROVE AllProcessed(r)' /\ r \notin smallDone'
    BY <1>0, <1>3, <1>8, <1>9, <1>10, <1>14 DEF ProcessedInv
  <1>15. \A t, u \in SmallThread : \A r \in Source : Marks(t, r)' /\ Marks(u, r)' => t = u
    BY <1>0, <1>9 DEF ProcessedInv
  <1>16. ASSUME NEW r \in inMap' \ smallDone', AllProcessed(r)'
         PROVE  SubmitterAt(r, {"small"})' \/ \E t \in SmallThread : Marks(t, r)'
    <2>1. CASE r # s
      <3>1. r \in inMap \ smallDone /\ AllProcessed(r) /\ r \in Source
        BY <1>0, <1>3, <1>8, <1>16, <2>1, FlagMap DEF Gone, Flagged, Saved, status
      <3>2. SubmitterAt(r, {"small"})' <=> SubmitterAt(r, {"small"})
        BY <2>1, <3>1 DEF FlagStep
      <3> QED BY <1>0, <1>9, <2>1, <3>1, <3>2 DEF ProcessedInv
    <2>2. CASE r = s
      <3>1. ~Saved(s, sd, ld) /\ s \in inMap /\ s \notin sd
        BY <1>2, <1>3, <1>16, <2>2
      <3> QED BY <1>8, <1>16, <2>2, <3>1 DEF FlagStep
    <2> QED BY <2>1, <2>2
  <1> QED BY <1>11, <1>12, <1>13, <1>14, <1>15, <1>16 DEF ProcessedInv

LEMMA FlagKept ==
  ASSUME Control, NEW s \in Source, NEW sd, NEW ld, FlagStep(s, sd, ld),
         Gone(s) \/ Flagged(s, sd, ld) \/ Saved(s, sd, ld)
  PROVE  Kept({})
  <1>0. TypeOK /\ MapInv /\ ProcessedInv
    BY DEF Control, Places
  <1>1. ASSUME NEW p \in Path, p \in ToCopy(SourceOf[p]), ToBeCopied(p)
        PROVE  ToBeCopied(p)'
    <2>0. SourceOf[p] \in Source /\ (p \in SmallFiles(SourceOf[p]) \/ p \in LargeFiles(SourceOf[p]))
      BY <1>0, <1>1, ToCopyIs, SSDAssumption
    <2>1. CASE Waiting(SourceOf[p])
      BY <2>0, <2>1 DEF FlagStep, ToBeCopied
    <2>2. ASSUME p \in SmallFiles(SourceOf[p]), SmallLeft(p)
          PROVE  ToBeCopied(p)'
      <3>1. SourceOf[p] # s \/ ~Saved(s, sd, ld)
        <4>1. ASSUME Saved(s, sd, ld), SourceOf[p] = s PROVE FALSE
          <5>1. s \in inMap /\ AllProcessed(s)
            BY <4>1 DEF Saved, FlagStep
          <5> QED BY <2>2, <4>1, <5>1, AllCounted
        <4> QED BY <4>1
      <3>2. SmallFiles(SourceOf[p])' = SmallFiles(SourceOf[p])
        BY <2>0, <3>1, FlagFiles
      <3>3. \A t \in SmallThread : Copies(t, p) => Copies(t, p)'
        BY DEF FlagStep, Copies, Marks
      <3>4. SmallLeft(p)'
        BY <1>0, <2>0, <2>2, <3>3 DEF FlagStep, SmallLeft
      <3> QED BY <2>0, <2>2, <3>2, <3>4 DEF ToBeCopied
    <2>3. ASSUME p \in LargeFiles(SourceOf[p]), LargeLeft(p)
          PROVE  ToBeCopied(p)'
      <3>1. SourceOf[p] = s => s \notin ld
        BY <2>3 DEF FlagStep
      <3>2. SourceOf[p] # s \/ ~Saved(s, sd, ld)
        BY <3>1 DEF Saved
      <3>3. LargeFiles(SourceOf[p])' = LargeFiles(SourceOf[p])
        BY <2>0, <3>2, FlagFiles
      <3>4. LargeLeft(p)'
        <4>1. SubmitterAt(SourceOf[p], {"small", "large"}) => SubmitterAt(SourceOf[p], {"small", "large"})'
          BY <2>0, <3>1 DEF FlagStep
        <4>2. InLargeQueue(SourceOf[p]) => InLargeQueue(SourceOf[p])'
          BY DEF FlagStep, InLargeQueue
        <4>3. InLargeTask(SourceOf[p]) /\ (p \in largeTask.todo \/ Copies(LargeThread, p)) =>
                InLargeTask(SourceOf[p])' /\ (p \in largeTask'.todo \/ Copies(LargeThread, p)')
          <5>1. CASE largeTask' = largeTask
            BY <5>1 DEF FlagStep, InLargeTask, Copies
          <5>2. CASE InLargeTask(s) /\ largeTask' = NoTask
            <6>1. ASSUME InLargeTask(SourceOf[p]) PROVE s \in inMap /\ SourceOf[p] = s /\ s \notin ld
              BY <3>1, <5>2, <6>1 DEF InLargeTask, Control, Places, LargeInv
            <6>2. ASSUME InLargeTask(SourceOf[p]) PROVE FALSE
              <7>1. ~InLargeTask(s)'
                BY <5>2 DEF InLargeTask
              <7>2. s \notin ld /\ ~SubmitterAt(s, {"small", "large"}) /\ ~InLargeQueue(s)
                BY <5>2, <6>1, <6>2 DEF Control, Places, LargeInv
              <7> QED BY <6>1, <6>2, <7>1, <7>2 DEF FlagStep
            <6> QED BY <6>2
          <5> QED BY <5>1, <5>2 DEF FlagStep
        <4> QED BY <2>3, <4>1, <4>2, <4>3 DEF LargeLeft
      <3> QED BY <2>3, <3>3, <3>4 DEF ToBeCopied
    <2> QED BY <1>1, <2>1, <2>2, <2>3 DEF ToBeCopied
  <1> QED BY <1>1 DEF Kept

LEMMA FlagPlaces ==
  ASSUME Control, NEW s \in Source, NEW sd, NEW ld, FlagStep(s, sd, ld), FlagsBecome(s, sd, ld), JobsInv'
  PROVE  Places' /\ Kept({})
  <1>1. Gone(s) \/ Flagged(s, sd, ld) \/ Saved(s, sd, ld)
    BY FlagsCases DEF Control, FlagStep
  <1> QED BY <1>1, FlagMap, FlagLarge, FlagSmall, FlagProcessed, FlagKept DEF Places

(* The callers.                                                            *)
LEMMA FlagFewer ==
  ASSUME NEW s \in Source, NEW sd, NEW ld, UNCHANGED <<scanned, mode>>,
         Gone(s) \/ Flagged(s, sd, ld) \/ Saved(s, sd, ld)
  PROVE  FewerToCopy
  <1>1. CASE Gone(s) \/ Flagged(s, sd, ld)
    BY <1>1, FilesKept DEF Gone, Flagged, disk, FewerToCopy
  <1>2. CASE Saved(s, sd, ld)
    BY <1>2 DEF Saved, FewerToCopy
  <1> QED BY <1>1, <1>2

LEMMA NoSmallFiles ==
  ASSUME Control, NEW s \in Source \ copied, SmallFiles(s) = {}
  PROVE  AllProcessed(s) /\ \A t \in SmallThread : ~Marks(t, s)
  <1>0. TypeOK /\ ProcessedInv /\ SmallInv
    BY DEF Control, Places
  <1>1. Processed(s) = SmallFiles(s)
    BY DEF Processed
  <1>2. ASSUME NEW t \in SmallThread, Marks(t, s) PROVE FALSE
    <2>1. copying[t].path \in Path /\ InSmallCopy(copying[t].path)
      BY <1>0, <1>2 DEF Marks, TypeOK, CopyThread, CopyState, InSmallCopy
    <2> QED BY <1>0, <1>2, <2>1 DEF SmallInv, Marks
  <1> QED BY <1>0, <1>1, <1>2 DEF ProcessedInv, AllProcessed

LEMMA NoSmallFilesPlaces ==
  ASSUME Control, NEW w \in Worker, JobStep(w), SubmitSmallFiles(w), SmallFiles(running[w]) = {}
  PROVE  Places' /\ Kept({})
  <1> PICK s : s = running[w]
    OBVIOUS
  <1>0. /\ TypeOK /\ JobsInv /\ MapInv /\ LargeInv /\ ProcessedInv
        /\ wpc[w] = "small" /\ Goto(w, "large") /\ SmallFiles(s) = {}
        /\ FlagsBecome(s, smallDone \cup {s}, largeDone)
        /\ UNCHANGED <<mode, scanned, refused, processed, smallQueue, godQueue, godRunning, largeQueue, mpc, left,
                       lpc, largeTask, copying>>
        /\ UNCHANGED main
    BY DEF Control, Places, SubmitSmallFiles, SmallQueueDone, JobStep, small, large, main
  <1> DEFINE sd == smallDone \cup {s}
             ld == largeDone
  <1>1. s \in Source /\ \A pcs : SubmitterAt(s, pcs) <=> wpc[w] \in pcs
    BY <1>0, WorkerIs
  <1>2. FewerToCopy
    BY <1>0, <1>1, FlagsCases, FlagFewer
  <1>3. Moves(s, "small", "large") /\ JobsInv' /\ \A r \in Source : Queued(r)' <=> Queued(r)
    BY <1>0, <1>2, WorkerGoes DEF AtWork
  <1>4. s \in inMap /\ s \notin largeDone /\ s \notin copied
    BY <1>0, <1>1 DEF MapInv
  <1>5. AllProcessed(s) /\ \A t \in SmallThread : ~Marks(t, s)
    BY <1>0, <1>1, <1>4, NoSmallFiles
  <1>6. FlagStep(s, sd, ld)
    <2>1. \A r \in Source :
            /\ Waiting(r)' <=> Waiting(r)
            /\ (Queued(r) \/ SubmitterAt(r, {"sync"}))' <=> (Queued(r) \/ SubmitterAt(r, {"sync"}))
            /\ \A pcs \in SUBSET {"small", "large"} : r # s => (SubmitterAt(r, pcs)' <=> SubmitterAt(r, pcs))
            /\ \A pcs \in SUBSET {"save", "small"} : SubmitterAt(r, pcs)' => SubmitterAt(r, pcs)
            /\ \A pcs \in {{"small", "large"}} : SubmitterAt(r, pcs)' => SubmitterAt(r, pcs)
      BY <1>0, <1>3 DEF Moves, AtWork, Waiting
    <2>2. ~SubmitterAt(s, {"small"})' /\ SubmitterAt(s, {"small", "large"})'
      <3>1. \A pcs \in SUBSET AtWork : SubmitterAt(s, pcs)' <=> "large" \in pcs
        BY <1>1, <1>3 DEF Moves
      <3> QED BY <3>1 DEF AtWork
    <2>3. \A t \in SmallThread : ~Marks(t, s)'
      BY <1>0, <1>5 DEF Marks
    <2>4. s \notin ld
      BY <1>4
    <2> HIDE DEF ld
    <2>5. sd = smallDone \cup {s} /\ ld = largeDone
      BY DEF ld
    <2> HIDE DEF sd
    <2> QED BY <1>0, <1>4, <1>5, <2>1, <2>2, <2>3, <2>4, <2>5 DEF FlagStep, LargeInv
  <1> QED BY <1>0, <1>1, <1>3, <1>6, FlagPlaces

LEMMA NoLargeFilesPlaces ==
  ASSUME Control, NEW w \in Worker, JobStep(w), SubmitLargeFiles(w), LargeFiles(running[w]) = {}
  PROVE  Places' /\ Kept({})
  <1> PICK s : s = running[w]
    OBVIOUS
  <1>0. /\ TypeOK /\ JobsInv /\ MapInv /\ LargeInv /\ ProcessedInv
        /\ wpc[w] = "large" /\ EndJob(w)
        /\ FlagsBecome(s, smallDone, largeDone \cup {s})
        /\ UNCHANGED <<mode, scanned, refused, processed, smallQueue, godQueue, godRunning, largeQueue, mpc, left,
                       lpc, largeTask, copying>>
        /\ UNCHANGED main
    BY DEF Control, Places, SubmitLargeFiles, LargeQueueDone, JobStep, small, large, main
  <1> DEFINE sd == smallDone
             ld == largeDone \cup {s}
  <1>1. s \in Source /\ \A pcs : SubmitterAt(s, pcs) <=> wpc[w] \in pcs
    BY <1>0, WorkerIs
  <1>2. FewerToCopy
    BY <1>0, <1>1, FlagsCases, FlagFewer
  <1>3. Moves(s, "large", "idle") /\ JobsInv' /\ \A r \in Source : Queued(r)' <=> Queued(r)
    BY <1>0, <1>2, WorkerEnds
  <1>4. ~InLargeQueue(s) /\ ~InLargeTask(s) /\ ~SubmitterAt(s, {"small"})
    BY <1>0, <1>1 DEF LargeInv
  <1>6. LargeFiles(s) = {}
    BY DEF SubmitLargeFiles
  <1>5. FlagStep(s, sd, ld)
    <2>1. \A r \in Source :
            /\ Waiting(r)' <=> Waiting(r)
            /\ (Queued(r) \/ SubmitterAt(r, {"sync"}))' <=> (Queued(r) \/ SubmitterAt(r, {"sync"}))
            /\ \A pcs \in SUBSET {"small", "large"} : r # s => (SubmitterAt(r, pcs)' <=> SubmitterAt(r, pcs))
            /\ \A pcs \in SUBSET {"save", "small"} : SubmitterAt(r, pcs)' => SubmitterAt(r, pcs)
            /\ \A pcs \in {{"small", "large"}} : SubmitterAt(r, pcs)' => SubmitterAt(r, pcs)
      BY <1>0, <1>3 DEF Moves, AtWork, Waiting
    <2>2. ~SubmitterAt(s, {"small"})' /\ ~SubmitterAt(s, {"large"})'
      <3>1. \A pcs \in SUBSET AtWork : SubmitterAt(s, pcs)' <=> "idle" \in pcs
        BY <1>1, <1>3 DEF Moves
      <3> QED BY <3>1 DEF AtWork
    <2>3. \A t \in SmallThread : Marks(t, s)' <=> Marks(t, s)
      BY <1>0 DEF Marks
    <2>4. InLargeTask(s)' <=> InLargeTask(s)
      BY <1>0 DEF InLargeTask
    <2>5. s \in inMap \cap sd => AllProcessed(s) /\ \A t \in SmallThread : ~Marks(t, s)'
      BY <1>0, <1>1, <2>3 DEF ProcessedInv
    <2>6. s \in inMap /\ s \notin sd /\ AllProcessed(s) => \E t \in SmallThread : Marks(t, s)'
      BY <1>0, <1>4, <2>3 DEF ProcessedInv
    <2>7. lpc' = "work" <=> largeTask' # NoTask
      BY <1>0 DEF LargeInv
    <2> HIDE DEF sd
    <2>8. s \in ld => ~InLargeQueue(s) /\ ~InLargeTask(s)' /\ \A p \in LargeFiles(s) : ~LargeLeft(p)
      BY <1>4, <2>4, <1>6
    <2>9. s \in ld
      OBVIOUS
    <2> QED BY <1>0, <1>4, <2>8, <2>9, <2>1, <2>2, <2>4, <2>5, <2>6, <2>7 DEF FlagStep, sd
  <1> QED BY <1>0, <1>1, <1>3, <1>5, FlagPlaces

LEMMA GodJobMarksPlaces ==
  ASSUME Control, NEW s \in Source, GodStep(s), GodJobMarks(s)
  PROVE  Places' /\ Kept({})
  <1>0. /\ TypeOK /\ JobsInv /\ MapInv /\ LargeInv /\ SmallInv /\ ProcessedInv
        /\ s \in godRunning /\ godRunning' = godRunning \ {s}
        /\ FlagsBecome(s, smallDone, largeDone \cup {s})
        /\ UNCHANGED <<mode, scanned, refused, processed, smallQueue, godQueue, largeQueue, mpc, left,
                       lpc, largeTask, copying>>
        /\ UNCHANGED <<main, pool, wpc>>
    BY DEF Control, Places, GodJobMarks, LargeQueueDone, GodStep, large, main
  <1> DEFINE sd == smallDone
             ld == largeDone \cup {s}
  <1>1. JobsInv'
    BY <1>0, FlagsCases, FlagFewer, JobsFrame
  <1>2. /\ \A r \in Source : \A pcs : SubmitterAt(r, pcs)' <=> SubmitterAt(r, pcs)
        /\ \A r \in Source : Queued(r)' <=> Queued(r)
    BY <1>0 DEF SubmitterAt, Queued, pool
  <1>3. mode = "GodSpeed" /\ ~SubmitterAt(s, {"small"}) /\ ~InLargeQueue(s) /\ ~InLargeTask(s)
    <2>1. mode = "GodSpeed" /\ ~SubmitterAt(s, {"small", "save"})
      BY <1>0 DEF SmallInv
    <2> QED BY <1>0, <2>1 DEF LargeInv, SubmitterAt
  <1>4. FlagStep(s, sd, ld)
    <2>1. \A t \in SmallThread : Marks(t, s)' <=> Marks(t, s)
      BY <1>0 DEF Marks
    <2>2. InLargeTask(s)' <=> InLargeTask(s)
      BY <1>0 DEF InLargeTask
    <2>3. s \in inMap \cap sd => AllProcessed(s) /\ \A t \in SmallThread : ~Marks(t, s)'
      BY <1>0, <2>1 DEF ProcessedInv
    <2>4. s \in inMap /\ s \notin sd /\ AllProcessed(s) => \E t \in SmallThread : Marks(t, s)'
      BY <1>0, <1>3, <2>1 DEF ProcessedInv
    <2>5. lpc' = "work" <=> largeTask' # NoTask
      BY <1>0 DEF LargeInv
    <2>6. \A r \in Source : Waiting(r)' <=> Waiting(r)
      BY <1>0, <1>2 DEF Waiting
    <2>7. \A r \in Source :
            (Queued(r) \/ SubmitterAt(r, {"sync"}))' <=> (Queued(r) \/ SubmitterAt(r, {"sync"}))
      BY <1>2
    <2>8. LargeFiles(s) = {}
      BY <1>0, <1>3, ToCopyIs
    <2>9. s \in ld
      OBVIOUS
    <2> HIDE DEF sd
    <2> QED BY <1>0, <1>2, <1>3, <2>2, <2>3, <2>4, <2>5, <2>6, <2>7, <2>8, <2>9 DEF FlagStep, sd
  <1> QED BY <1>0, <1>1, <1>4, FlagPlaces

LEMMA LargeMarksPlaces ==
  ASSUME Control, LargeStep, LargeMarks
  PROVE  Places' /\ Kept({})
  <1> PICK s : s = largeTask.source
    OBVIOUS
  <1>0. /\ TypeOK /\ JobsInv /\ MapInv /\ LargeInv /\ SmallInv /\ ProcessedInv
        /\ lpc = "work" /\ copying[LargeThread] = NoCopy
        /\ lpc' = "check" /\ largeTask' = NoTask
        /\ FlagsBecome(s, smallDone, largeDone \cup {s})
        /\ UNCHANGED <<mode, scanned, refused, processed, smallQueue, godQueue, godRunning, largeQueue, mpc, left,
                       copying>>
        /\ UNCHANGED <<main, pool, wpc>>
    BY DEF Control, Places, LargeMarks, LargeQueueDone, LargeStep, small, main
  <1> DEFINE sd == smallDone
             ld == largeDone \cup {s}
  <1>1. s \in Source /\ InLargeTask(s) /\ ~InLargeTask(s)'
    BY <1>0 DEF InLargeTask, LargeInv, TypeOK, LargeTask
  <1>2. JobsInv'
    BY <1>0, <1>1, FlagsCases, FlagFewer, JobsFrame
  <1>3. /\ \A r \in Source : \A pcs : SubmitterAt(r, pcs)' <=> SubmitterAt(r, pcs)
        /\ \A r \in Source : Queued(r)' <=> Queued(r)
    BY <1>0 DEF SubmitterAt, Queued, pool
  <1>4. ~SubmitterAt(s, {"small"}) /\ ~SubmitterAt(s, {"large"}) /\ ~InLargeQueue(s)
    <2>1. ~SubmitterAt(s, {"small", "large"}) /\ ~InLargeQueue(s)
      BY <1>0, <1>1 DEF LargeInv
    <2> QED BY <2>1 DEF SubmitterAt
  <1>5. FlagStep(s, sd, ld)
    <2>1. \A t \in SmallThread : Marks(t, s)' <=> Marks(t, s)
      BY <1>0 DEF Marks
    <2>3. s \in inMap \cap sd => AllProcessed(s) /\ \A t \in SmallThread : ~Marks(t, s)'
      BY <1>0, <1>1, <2>1 DEF ProcessedInv
    <2>4. s \in inMap /\ s \notin sd /\ AllProcessed(s) => \E t \in SmallThread : Marks(t, s)'
      BY <1>0, <1>4, <2>1 DEF ProcessedInv
    <2>6. \A r \in Source : Waiting(r)' <=> Waiting(r)
      BY <1>0, <1>3 DEF Waiting
    <2>7. \A r \in Source :
            (Queued(r) \/ SubmitterAt(r, {"sync"}))' <=> (Queued(r) \/ SubmitterAt(r, {"sync"}))
      BY <1>3
    <2>8. \A p \in LargeFiles(s) : ~LargeLeft(p)
      <3>1. \A p \in LargeFiles(s) : SourceOf[p] = s
        BY <1>0, <1>1, ToCopyIs
      <3>2. largeTask.todo = {} /\ ~SubmitterAt(s, {"small", "large"})
        BY <1>0, <1>1 DEF LargeMarks, LargeInv
      <3> QED BY <1>0, <1>4, <3>1, <3>2 DEF LargeLeft, Copies
    <2>9. s \in ld
      OBVIOUS
    <2> HIDE DEF sd
    <2> QED BY <1>0, <1>1, <1>3, <1>4, <2>3, <2>4, <2>6, <2>7, <2>8, <2>9 DEF FlagStep, sd
  <1> QED BY <1>0, <1>1, <1>2, <1>5, FlagPlaces

LEMMA LastFileMarksPlaces ==
  ASSUME Control, NEW t \in CopyThread, CopyStep(t), copying[t] # NoCopy, LastFileMarks(t)
  PROVE  Places' /\ Kept({})
  <1> PICK s : s = SourceOf[copying[t].path]
    OBVIOUS
  <1>0. /\ TypeOK /\ JobsInv /\ MapInv /\ LargeInv /\ SmallInv /\ ProcessedInv
        /\ copying[t].stage = "mark" /\ copying' = [copying EXCEPT ![t] = NoCopy]
        /\ DOMAIN copying = CopyThread
        /\ FlagsBecome(s, smallDone \cup {s}, largeDone)
        /\ UNCHANGED <<mode, scanned, refused, processed, smallQueue, godQueue, godRunning, largeQueue, mpc, left,
                       lpc, largeTask>>
        /\ UNCHANGED <<main, pool, wpc>>
    BY DEF Control, Places, LastFileMarks, SmallQueueDone, CopyStep, small, large, main, Becomes, TypeOK
  <1> DEFINE sd == smallDone \cup {s}
             ld == largeDone
  <1>1. t \in SmallThread /\ t # LargeThread /\ LargeThread \in CopyThread
    BY <1>0, SSDAssumption DEF LargeInv, CopyThread
  <1>2. s \in Source /\ copying[t].path \in Path /\ InSmallCopy(copying[t].path) /\ Marks(t, s)
    BY <1>0, <1>1, SSDAssumption DEF TypeOK, CopyState, InSmallCopy, Marks
  <1>3. JobsInv'
    BY <1>0, <1>2, FlagsCases, FlagFewer, JobsFrame
  <1>4. /\ \A r \in Source : \A pcs : SubmitterAt(r, pcs)' <=> SubmitterAt(r, pcs)
        /\ \A r \in Source : Queued(r)' <=> Queued(r)
    BY <1>0 DEF SubmitterAt, Queued, pool
  <1>5. s \in inMap /\ ~SubmitterAt(s, {"small"})
    BY <1>0, <1>2 DEF SmallInv
  <1>6. AllProcessed(s) /\ \A u \in SmallThread : Marks(u, s) => u = t
    BY <1>0, <1>1, <1>2 DEF ProcessedInv
  <1>7. FlagStep(s, sd, ld)
    <2>1. \A u \in CopyThread : copying'[u] = IF u = t THEN NoCopy ELSE copying[u]
      BY <1>0
    <2>2. \A u \in SmallThread : ~Marks(u, s)'
      BY <1>1, <1>6, <2>1 DEF Marks, CopyThread
    <2>3. \A u \in SmallThread :
            copying'[u] = copying[u] \/ (Marks(u, s) /\ copying'[u] = NoCopy /\ s \in sd)
      BY <1>2, <2>1 DEF CopyThread
    <2>4. copying'[LargeThread] = copying[LargeThread]
      BY <1>1, <2>1
    <2>5. InLargeTask(s)' <=> InLargeTask(s)
      BY <1>0 DEF InLargeTask
    <2>6. s \in ld => ~InLargeQueue(s) /\ ~InLargeTask(s)' /\ \A p \in LargeFiles(s) : ~LargeLeft(p)
      <3>1. s \in ld => ~InLargeQueue(s) /\ ~InLargeTask(s)
        BY <1>0, <1>2 DEF LargeInv
      <3>2. mode = "GodSpeed" => LargeFiles(s) = {}
        BY <1>0, <1>2, ToCopyIs
      <3>3. ASSUME s \in ld, SubmitterAt(s, {"small", "large"}) PROVE mode = "GodSpeed"
        <4>1. SubmitterAt(s, {"large"})
          BY <1>5, <3>3 DEF SubmitterAt
        <4> QED BY <1>0, <1>2, <3>3, <4>1 DEF MapInv
      <3>4. \A p \in LargeFiles(s) : SourceOf[p] = s
        BY <1>0, <1>2, ToCopyIs
      <3> QED BY <2>5, <3>1, <3>2, <3>3, <3>4 DEF LargeLeft
    <2>7. s \in ld \/ SubmitterAt(s, {"small", "large"})' \/ InLargeQueue(s) \/ InLargeTask(s)'
      BY <1>0, <1>2, <1>4, <1>5, <2>5 DEF LargeInv
    <2>8. \A r \in Source : Waiting(r)' <=> Waiting(r)
      BY <1>0, <1>4 DEF Waiting
    <2>9. \A r \in Source :
            (Queued(r) \/ SubmitterAt(r, {"sync"}))' <=> (Queued(r) \/ SubmitterAt(r, {"sync"}))
      BY <1>4
    <2>10. lpc' = "work" <=> largeTask' # NoTask
      BY <1>0 DEF LargeInv
    <2>11. SubmitterAt(s, {"large"})' => mode = "GodSpeed" \/ (s \in inMap /\ s \notin ld)
      BY <1>0, <1>2, <1>4 DEF MapInv
    <2>12. s \in sd /\ sd = smallDone \cup {s} /\ ld = largeDone
      OBVIOUS
    <2> HIDE DEF sd, ld
    <2>13. /\ \A r \in Source :
                /\ \A pcs \in SUBSET {"small", "large"} : r # s => (SubmitterAt(r, pcs)' <=> SubmitterAt(r, pcs))
                /\ \A pcs \in SUBSET {"save", "small"} : SubmitterAt(r, pcs)' => SubmitterAt(r, pcs)
                /\ \A pcs \in {{"small", "large"}} : SubmitterAt(r, pcs)' => SubmitterAt(r, pcs)
           /\ ~SubmitterAt(s, {"small"})'
      BY <1>2, <1>4, <1>5
    <2>14. SubmitterAt(s, {"small", "large"}) => SubmitterAt(s, {"small", "large"})'
      BY <1>2, <1>4
    <2> QED BY <1>0, <1>5, <1>6, <2>2, <2>3, <2>4, <2>6, <2>7, <2>8, <2>9, <2>10, <2>11, <2>12, <2>13, <2>14
            DEF FlagStep
  <1> QED BY <1>0, <1>2, <1>3, <1>7, FlagPlaces

-----------------------------------------------------------------------------
(* The small files of a source go to their pool, or to the job that will   *)
(* submit them there.                                                      *)
LEMMA SmallSubmittedPlaces ==
  ASSUME Control, NEW w \in Worker, JobStep(w), SubmitSmallFiles(w), SmallFiles(running[w]) # {}
  PROVE  Places' /\ Kept({})
  <1> PICK s : s = running[w]
    OBVIOUS
  <1>0. /\ TypeOK /\ JobsInv /\ MapInv /\ CountInv /\ LargeInv /\ SmallInv /\ ProcessedInv
        /\ wpc[w] = "small" /\ Goto(w, "large") /\ SmallFiles(s) # {}
        /\ UNCHANGED <<mode, scanned, bin, copied, refused, processed, godRunning, largeQueue, mpc, left, inMap,
                       smallDone, largeDone, pending, lpc, largeTask, copying>>
        /\ UNCHANGED main
        /\ \/ mode # "GodSpeed" /\ smallQueue' = smallQueue \cup SmallFiles(s) /\ godQueue' = godQueue
           \/ mode = "GodSpeed" /\ smallQueue' = smallQueue /\ godQueue' = godQueue \cup {s}
    BY DEF Control, Places, SubmitSmallFiles, JobStep, disk, counts, status, large, main
  <1>1. \A r \in Source : ToCopy(r)' = ToCopy(r) /\ LargeFiles(r)' = LargeFiles(r) /\ SmallFiles(r)' = SmallFiles(r)
    BY <1>0, FilesKept
  <1>2. s \in Source /\ Moves(s, "small", "large") /\ JobsInv' /\ \A r \in Source : Queued(r)' <=> Queued(r)
    BY <1>0, <1>1, WorkerIs, WorkerGoes DEF AtWork, FewerToCopy
  <1>3. \A pcs \in SUBSET AtWork : SubmitterAt(s, pcs) <=> "small" \in pcs
    BY <1>2 DEF Moves
  <1>4. \A r \in Source : \A pcs \in SUBSET AtWork :
          SubmitterAt(r, pcs)' <=> IF r = s THEN "large" \in pcs ELSE SubmitterAt(r, pcs)
    BY <1>2 DEF Moves
  <1>5. \A r \in Source : Waiting(r)' <=> Waiting(r)
    BY <1>0, <1>2, <1>3, <1>4 DEF Waiting, AtWork
  <1>6. /\ SubmitterAt(s, {"small"}) /\ SubmitterAt(s, {"small", "save"}) /\ SubmitterAt(s, {"small", "large"})
        /\ s \in inMap /\ s \notin smallDone /\ s \notin largeDone /\ s \notin copied /\ ~Waiting(s)
        /\ s \notin godQueue /\ s \notin godRunning /\ ~InLargeQueue(s) /\ ~InLargeTask(s)
    <2>1. SubmitterAt(s, {"small"}) /\ SubmitterAt(s, {"small", "save"}) /\ SubmitterAt(s, {"small", "large"})
      BY <1>3 DEF AtWork
    <2> QED BY <1>0, <1>2, <2>1 DEF MapInv, SmallInv, LargeInv
  <1>7. inMap \subseteq Source /\ copied \subseteq Source /\ godQueue \subseteq Source /\ godRunning \subseteq Source
        /\ smallQueue \subseteq Path /\ refused \subseteq Path /\ smallDone \subseteq Source
        /\ \A p \in Path : SourceOf[p] \in Source
    BY <1>0, SSDAssumption DEF TypeOK
  <1>8. CountInv'
    <2>1. ToCount' = ToCount
      BY <1>0, <1>2, <1>3, <1>4 DEF ToCount, AtWork
    <2> QED BY <1>0, <2>1, CountKept
  <1>9. /\ \A r \in Source : SubmitterAt(r, {"small"})' <=> r # s /\ SubmitterAt(r, {"small"})
        /\ \A r \in Source : SubmitterAt(r, {"save"})' <=> r # s /\ SubmitterAt(r, {"save"})
        /\ \A r \in Source : SubmitterAt(r, {"large"})' <=> r = s \/ SubmitterAt(r, {"large"})
        /\ \A r \in Source : SubmitterAt(r, {"save", "small"})' => SubmitterAt(r, {"save", "small"})
        /\ \A r \in Source : SubmitterAt(r, {"small", "large"})' <=> SubmitterAt(r, {"small", "large"})
    BY <1>3, <1>4 DEF AtWork
  <1>10. MapInv'
    BY <1>0, <1>2, <1>5, <1>6, <1>7, <1>9 DEF MapInv
  <1>11. LargeInv'
    <2>1. \A r \in Source : (InLargeQueue(r)' <=> InLargeQueue(r)) /\ (InLargeTask(r)' <=> InLargeTask(r))
      BY <1>0 DEF InLargeQueue, InLargeTask
    <2>2. LargeCopy' = LargeCopy
      BY <1>0 DEF LargeCopy
    <2> QED BY <1>0, <1>1, <1>7, <1>9, <2>1, <2>2 DEF LargeInv
  <1>12. \A p \in Path : InSmallCopy(p)' <=> InSmallCopy(p)
    BY <1>0 DEF InSmallCopy
  <1>13. \A p \in SmallFiles(s) : p \in Path /\ SourceOf[p] = s
    BY <1>0, <1>2, ToCopyIs
  <1>14. \A p \in Path : p \in smallQueue \/ InSmallCopy(p) => SourceOf[p] # s
    BY <1>0, <1>6 DEF SmallInv
  <1>15. SmallInv'
    <2>1. mode' # "GodSpeed" => godQueue' = {} /\ godRunning' = {}
      BY <1>0 DEF SmallInv
    <2>2. \A r \in godQueue' :
            SmallFiles(r)' # {} /\ r \in inMap' /\ ~SubmitterAt(r, {"small"})' /\ r \notin godRunning'
      BY <1>0, <1>1, <1>2, <1>6, <1>7, <1>9 DEF SmallInv
    <2>3. \A r \in godRunning' :
            ~Waiting(r)' /\ ~SubmitterAt(r, {"small", "save"})' /\ r \in inMap' \cup copied'
      BY <1>0, <1>5, <1>7, <1>9 DEF SmallInv
    <2>4. ASSUME NEW p \in Path, p \in smallQueue' \/ InSmallCopy(p)'
          PROVE  /\ (p \in SmallFiles(SourceOf[p]))' /\ SourceOf[p] \in inMap' /\ SourceOf[p] \notin godQueue'
                 /\ ~SubmitterAt(SourceOf[p], {"small"})'
      <3>1. CASE p \in smallQueue \/ InSmallCopy(p)
        BY <1>0, <1>1, <1>7, <1>9, <1>14, <3>1 DEF SmallInv
      <3>2. CASE ~(p \in smallQueue \/ InSmallCopy(p))
        <4>1. p \in SmallFiles(s) /\ SourceOf[p] = s /\ godQueue' = godQueue
          BY <1>0, <1>12, <1>13, <2>4, <3>2
        <4> QED BY <1>0, <1>1, <1>2, <1>6, <1>9, <4>1
      <3> QED BY <3>1, <3>2
    <2>5. \A p \in smallQueue' : ~InSmallCopy(p)'
      BY <1>0, <1>7, <1>12, <1>13, <1>14 DEF SmallInv
    <2>6. \A t, u \in SmallThread :
            copying'[t] # NoCopy /\ copying'[u] # NoCopy /\ copying'[t].path = copying'[u].path => t = u
      BY <1>0 DEF SmallInv
    <2> QED BY <2>1, <2>2, <2>3, <2>4, <2>5, <2>6 DEF SmallInv
  <1>17. ASSUME NEW p \in Path, p \in SmallFiles(SourceOf[p]) PROVE SmallLeft(p)' <=> SmallLeft(p)
    <2>1. CASE SourceOf[p] = s
      BY <1>0, <1>6, <1>9, <1>17, <2>1 DEF SmallLeft
    <2>2. CASE SourceOf[p] # s
      BY <1>0, <1>5, <1>7, <1>9, <1>13, <2>2 DEF SmallLeft, Copies
    <2> QED BY <2>1, <2>2
  <1>16. ProcessedInv'
    <2>2. \A r \in Source : \A p \in SmallFiles(r) : p \in Path /\ SourceOf[p] = r
      BY <1>0, ToCopyIs
    <2>3. \A r \in Source : Processed(r)' = Processed(r)
      BY <1>0, <1>1, <1>17, <2>2 DEF Processed, Uncounted
    <2>4. \A r \in Source : AllProcessed(r)' <=> AllProcessed(r)
      BY <1>0, <1>1 DEF AllProcessed
    <2>5. \A t \in SmallThread : \A r \in Source : Marks(t, r)' <=> Marks(t, r)
      BY <1>0 DEF Marks
    <2>6. \A p \in refused' : (p \in SmallFiles(SourceOf[p]))' => ~SmallLeft(p)'
      BY <1>0, <1>1, <1>7, <1>17 DEF ProcessedInv
    <2>7. ~AllProcessed(s)
      <3>1. \A p \in SmallFiles(s) : SmallLeft(p)
        BY <1>6, <1>13 DEF SmallLeft
      <3> QED BY <1>0, <1>6, <3>1, AllCounted
    <2>8. \A r \in inMap' \ smallDone' : AllProcessed(r)' =>
            SubmitterAt(r, {"small"})' \/ \E t \in SmallThread : Marks(t, r)'
      BY <1>0, <1>7, <1>9, <2>4, <2>5, <2>7 DEF ProcessedInv
    <2> QED BY <1>0, <1>7, <2>3, <2>4, <2>5, <2>6, <2>8 DEF ProcessedInv
  <1>18. Kept({})
    <2>1. \A p \in Path : LargeLeft(p) => LargeLeft(p)'
      BY <1>0, <1>7, <1>9 DEF LargeLeft, InLargeQueue, InLargeTask, Copies
    <2> QED BY <1>1, <1>5, <1>17, <2>1, KeptIf
  <1> QED BY <1>2, <1>8, <1>10, <1>11, <1>15, <1>16, <1>18 DEF Places

(* The large files of a source are queued.                                 *)
LEMMA LargeSubmittedPlaces ==
  ASSUME Control, NEW w \in Worker, JobStep(w), SubmitLargeFiles(w), LargeFiles(running[w]) # {}
  PROVE  Places' /\ Kept({})
  <1> PICK s : s = running[w]
    OBVIOUS
  <1>0. /\ TypeOK /\ JobsInv /\ MapInv /\ CountInv /\ LargeInv /\ SmallInv /\ ProcessedInv
        /\ wpc[w] = "large" /\ EndJob(w) /\ LargeFiles(s) # {}
        /\ largeQueue' = Append(largeQueue, s) /\ largeQueue \in Seq(Source)
        /\ lpc' = (IF lpc = "waiting" THEN "check" ELSE lpc)
        /\ UNCHANGED <<mode, scanned, bin, copied, refused, processed, smallQueue, godQueue, godRunning, mpc, left,
                       inMap, smallDone, largeDone, pending, largeTask, copying>>
        /\ UNCHANGED main
    BY DEF Control, Places, SubmitLargeFiles, NotifyLargeQueue, JobStep, disk, counts, status, small, main, TypeOK
  <1>1. \A r \in Source : ToCopy(r)' = ToCopy(r) /\ LargeFiles(r)' = LargeFiles(r) /\ SmallFiles(r)' = SmallFiles(r)
    BY <1>0, FilesKept
  <1>2. s \in Source /\ Moves(s, "large", "idle") /\ JobsInv' /\ \A r \in Source : Queued(r)' <=> Queued(r)
    BY <1>0, <1>1, WorkerIs, WorkerEnds DEF FewerToCopy
  <1>3. \A pcs \in SUBSET AtWork : SubmitterAt(s, pcs) <=> "large" \in pcs
    BY <1>2 DEF Moves
  <1>4. \A r \in Source : \A pcs \in SUBSET AtWork :
          SubmitterAt(r, pcs)' <=> IF r = s THEN FALSE ELSE SubmitterAt(r, pcs)
    BY <1>2 DEF Moves, AtWork
  <1>5. \A r \in Source : Waiting(r)' <=> Waiting(r)
    BY <1>0, <1>2, <1>3, <1>4 DEF Waiting, AtWork
  <1>6. /\ \A r \in Source : SubmitterAt(r, {"small"})' <=> SubmitterAt(r, {"small"})
        /\ \A r \in Source : SubmitterAt(r, {"save"})' <=> SubmitterAt(r, {"save"})
        /\ \A r \in Source : SubmitterAt(r, {"large"})' => SubmitterAt(r, {"large"})
        /\ \A r \in Source : SubmitterAt(r, {"save", "small"})' => SubmitterAt(r, {"save", "small"})
        /\ \A r \in Source : SubmitterAt(r, {"small", "large"})' <=> r # s /\ SubmitterAt(r, {"small", "large"})
    BY <1>3, <1>4 DEF AtWork
  <1>7. SubmitterAt(s, {"small", "large"}) /\ SubmitterAt(s, {"large"}) /\ ~SubmitterAt(s, {"small"})
    BY <1>3 DEF AtWork
  <1>8. mode # "GodSpeed" /\ s \in inMap /\ s \notin largeDone /\ ~InLargeQueue(s) /\ ~InLargeTask(s)
    <2>1. mode # "GodSpeed"
      BY <1>0, <1>2, ToCopyIs
    <2> QED BY <1>0, <1>2, <1>7, <2>1 DEF MapInv, LargeInv
  <1>9. inMap \subseteq Source
    BY <1>0 DEF TypeOK
  <1>10. CountInv'
    <2>1. ToCount' = ToCount
      BY <1>0, <1>2, <1>3, <1>4 DEF ToCount, AtWork
    <2> QED BY <1>0, <2>1, CountKept
  <1>11. MapInv'
    <2>1. inMap \subseteq Source /\ copied \subseteq Source
      BY <1>0 DEF TypeOK
    <2> QED BY <1>0, <1>5, <1>6, <2>1 DEF MapInv
  <1>12. LargeInv'
    <2>1. /\ DOMAIN largeQueue' = DOMAIN largeQueue \cup {Len(largeQueue) + 1}
          /\ Len(largeQueue) + 1 \notin DOMAIN largeQueue
          /\ \A i \in DOMAIN largeQueue : largeQueue'[i] = largeQueue[i]
          /\ largeQueue'[Len(largeQueue) + 1] = s
      BY <1>0, <1>2, AppendIs
    <2>2. \A r \in Source : InLargeQueue(r)' <=> InLargeQueue(r) \/ r = s
      BY <2>1 DEF InLargeQueue
    <2>3. \A r \in Source : InLargeTask(r)' <=> InLargeTask(r)
      BY <1>0 DEF InLargeTask
    <2>4. LargeCopy' = LargeCopy
      BY <1>0 DEF LargeCopy
    <2>5. \A r \in Source : InLargeQueue(r)' \/ InLargeTask(r)' =>
            /\ r \in inMap' /\ r \notin largeDone'
            /\ ~SubmitterAt(r, {"small", "large"})' /\ mode' # "GodSpeed"
      BY <1>0, <1>6, <1>8, <2>2, <2>3 DEF LargeInv
    <2>6. \A i, j \in DOMAIN largeQueue' : largeQueue'[i] = largeQueue'[j] => i = j
      BY <1>0, <1>8, <2>1 DEF LargeInv, InLargeQueue
    <2>7. \A r \in Source : InLargeTask(r)' =>
            ~InLargeQueue(r)' /\ largeTask'.todo \cup LargeCopy' \subseteq LargeFiles(r)'
      BY <1>0, <1>1, <1>8, <2>2, <2>3, <2>4 DEF LargeInv
    <2>8. /\ largeTask' # NoTask <=> lpc' = "work"
          /\ copying'[LargeThread] # NoCopy => largeTask' # NoTask /\ copying'[LargeThread].stage # "mark"
          /\ largeTask' # NoTask => LargeCopy' \cap largeTask'.todo = {}
      BY <1>0, <2>4 DEF LargeInv
    <2>9. \A r \in inMap' : r \in largeDone' \/ SubmitterAt(r, {"small", "large"})' \/ InLargeQueue(r)'
                            \/ InLargeTask(r)'
      BY <1>0, <1>6, <1>9, <2>2, <2>3 DEF LargeInv
    <2> QED BY <2>5, <2>6, <2>7, <2>8, <2>9 DEF LargeInv
  <1>13. SameSmallJobs
    BY <1>5, <1>6 DEF SameSmallJobs
  <1>14. SmallInv' /\ ProcessedInv'
    BY <1>0, <1>1, <1>13, SmallFrame, ProcessedFrame DEF SameCopy
  <1>15. Kept({})
    <2>1. \A r \in Source : InLargeQueue(r)' <=> InLargeQueue(r) \/ r = s
      <3>1. /\ DOMAIN largeQueue' = DOMAIN largeQueue \cup {Len(largeQueue) + 1}
            /\ \A i \in DOMAIN largeQueue : largeQueue'[i] = largeQueue[i]
            /\ largeQueue'[Len(largeQueue) + 1] = s
        BY <1>0, <1>2, AppendIs
      <3> QED BY <3>1 DEF InLargeQueue
    <2>2. \A p \in Path : SmallLeft(p)' <=> SmallLeft(p)
      BY <1>0, <1>1, <1>13, ProcessedSame DEF SameCopy
    <2>3. ASSUME NEW p \in Path, LargeLeft(p) PROVE LargeLeft(p)'
      <3>1. SourceOf[p] \in Source
        BY SSDAssumption
      <3> QED BY <1>0, <1>6, <2>1, <2>3, <3>1 DEF LargeLeft, InLargeTask, Copies
    <2> QED BY <1>1, <1>5, <2>2, <2>3, KeptIf
  <1> QED BY <1>2, <1>10, <1>11, <1>12, <1>14, <1>15 DEF Places

(* GodSpeed: the job of a source submits its files.                        *)
LEMMA GodJobSubmitsPlaces ==
  ASSUME Control, NEW s \in Source, GodStep(s), GodJobSubmits(s)
  PROVE  Places' /\ Kept({})
  <1>0. /\ TypeOK /\ JobsInv /\ MapInv /\ CountInv /\ LargeInv /\ SmallInv /\ ProcessedInv
        /\ s \in godQueue /\ godQueue' = godQueue \ {s} /\ godRunning' = godRunning \cup {s}
        /\ smallQueue' = smallQueue \cup SmallFiles(s)
        /\ UNCHANGED <<mode, scanned, bin, copied, refused, processed, largeQueue, mpc, left, inMap,
                       smallDone, largeDone, pending, lpc, largeTask, copying, queue, running, wpc>>
        /\ UNCHANGED <<main, pool, wpc>>
    BY DEF Control, Places, GodJobSubmits, GodStep, disk, counts, status, large, main, pool
  <1>1. \A r \in Source : ToCopy(r)' = ToCopy(r) /\ LargeFiles(r)' = LargeFiles(r) /\ SmallFiles(r)' = SmallFiles(r)
    BY <1>0, FilesKept
  <1>2. JobsInv'
    BY <1>0, <1>1, JobsFrame DEF FewerToCopy
  <1>3. SameJobs /\ SameSmallJobs /\ \A r \in Source : Queued(r)' <=> Queued(r)
    BY <1>0, JobsKept, SameSmall
  <1>4. CountInv'
    <2>1. ToCount' = ToCount
      BY <1>0, <1>3 DEF ToCount, SubmitterAt
    <2> QED BY <1>0, <2>1, CountKept
  <1>5. MapInv' /\ LargeInv'
    BY <1>0, <1>1, <1>3, MapFrame, LargeFrame DEF SameCopy
  <1>6. /\ mode = "GodSpeed" /\ s \in inMap /\ ~SubmitterAt(s, {"small"}) /\ ~Waiting(s)
        /\ ~SubmitterAt(s, {"small", "save"}) /\ s \notin godRunning
    <2>1. mode = "GodSpeed" /\ s \in inMap /\ ~SubmitterAt(s, {"small"}) /\ s \notin godRunning
      BY <1>0 DEF SmallInv
    <2>2. ~Waiting(s) /\ ~SubmitterAt(s, {"save"})
      BY <1>0, <2>1 DEF MapInv
    <2> QED BY <2>1, <2>2 DEF SubmitterAt
  <1>7. \A p \in SmallFiles(s) : p \in Path /\ SourceOf[p] = s
    BY <1>0, ToCopyIs
  <1>8. \A p \in Path : p \in smallQueue \/ InSmallCopy(p) => SourceOf[p] # s
    BY <1>0 DEF SmallInv
  <1>9. godQueue \subseteq Source /\ godRunning \subseteq Source /\ smallQueue \subseteq Path /\ refused \subseteq Path
        /\ smallDone \subseteq Source /\ inMap \subseteq Source /\ \A p \in Path : SourceOf[p] \in Source
    BY <1>0, SSDAssumption DEF TypeOK
  <1>10. \A p \in Path : InSmallCopy(p)' <=> InSmallCopy(p)
    BY <1>0 DEF InSmallCopy
  <1>11. SmallInv'
    <2>1. mode' # "GodSpeed" => godQueue' = {} /\ godRunning' = {}
      BY <1>0, <1>6
    <2>2. \A r \in godQueue' :
            SmallFiles(r)' # {} /\ r \in inMap' /\ ~SubmitterAt(r, {"small"})' /\ r \notin godRunning'
      BY <1>0, <1>1, <1>3, <1>9 DEF SmallInv, SameSmallJobs
    <2>3. \A r \in godRunning' :
            ~Waiting(r)' /\ ~SubmitterAt(r, {"small", "save"})' /\ r \in inMap' \cup copied'
      BY <1>0, <1>3, <1>6, <1>9 DEF SmallInv, SameSmallJobs
    <2>4. \A p \in Path : p \in smallQueue' \/ InSmallCopy(p)' =>
            /\ (p \in SmallFiles(SourceOf[p]))' /\ SourceOf[p] \in inMap' /\ SourceOf[p] \notin godQueue'
            /\ ~SubmitterAt(SourceOf[p], {"small"})'
      BY <1>0, <1>1, <1>3, <1>6, <1>7, <1>9, <1>10 DEF SmallInv, SameSmallJobs
    <2>5. \A p \in smallQueue' : ~InSmallCopy(p)'
      BY <1>0, <1>7, <1>8, <1>9, <1>10 DEF SmallInv
    <2>6. \A t, u \in SmallThread :
            copying'[t] # NoCopy /\ copying'[u] # NoCopy /\ copying'[t].path = copying'[u].path => t = u
      BY <1>0 DEF SmallInv
    <2> QED BY <2>1, <2>2, <2>3, <2>4, <2>5, <2>6 DEF SmallInv
  <1>13. ASSUME NEW p \in Path, p \in SmallFiles(SourceOf[p]) PROVE SmallLeft(p)' <=> SmallLeft(p)
    <2>1. CASE SourceOf[p] = s
      BY <1>0, <1>13, <2>1 DEF SmallLeft
    <2>2. CASE SourceOf[p] # s
      BY <1>0, <1>3, <1>7, <1>9, <2>2 DEF SmallLeft, Copies, SameSmallJobs
    <2> QED BY <2>1, <2>2
  <1>12. ProcessedInv'
    <2>2. \A r \in Source : \A p \in SmallFiles(r) : p \in Path /\ SourceOf[p] = r
      BY <1>0, ToCopyIs
    <2>3. \A r \in Source : Processed(r)' = Processed(r)
      BY <1>0, <1>1, <1>13, <2>2 DEF Processed, Uncounted
    <2>4. \A r \in Source : AllProcessed(r)' <=> AllProcessed(r)
      BY <1>0, <1>1 DEF AllProcessed
    <2>5. \A t \in SmallThread : \A r \in Source : Marks(t, r)' <=> Marks(t, r)
      BY <1>0 DEF Marks
    <2>6. \A p \in refused' : (p \in SmallFiles(SourceOf[p]))' => ~SmallLeft(p)'
      BY <1>0, <1>1, <1>9, <1>13 DEF ProcessedInv
    <2>7. \A r \in inMap' \ smallDone' : AllProcessed(r)' =>
            SubmitterAt(r, {"small"})' \/ \E t \in SmallThread : Marks(t, r)'
      BY <1>0, <1>3, <1>9, <2>4, <2>5 DEF ProcessedInv, SameSmallJobs
    <2> QED BY <1>0, <1>9, <2>3, <2>4, <2>5, <2>6, <2>7 DEF ProcessedInv
  <1>14. Kept({})
    <2>1. \A p \in Path : LargeLeft(p) => LargeLeft(p)'
      BY <1>0, <1>3, <1>9 DEF LargeLeft, InLargeQueue, InLargeTask, Copies, SameJobs
    <2> QED BY <1>1, <1>3, <1>13, <2>1, KeptIf DEF SameJobs
  <1> QED BY <1>2, <1>4, <1>5, <1>11, <1>12, <1>14 DEF Places

(* Steps that move no job and mark nothing: what is left is LargeInv or    *)
(* the invariants of the small files.                                      *)
LEMMA OtherPlaces ==
  ASSUME Control, UNCHANGED <<mode, scanned, bin, copied, inMap, smallDone, largeDone, pending, main, pool, wpc>>
  PROVE  JobsInv' /\ MapInv' /\ CountInv' /\ SameJobs /\ SameSmallJobs
  <1>0. TypeOK /\ JobsInv /\ MapInv /\ CountInv /\ UNCHANGED <<left, pool, wpc, mpc>>
    BY DEF Control, Places, main
  <1>1. SameJobs /\ SameSmallJobs /\ \A r \in Source : Queued(r)' <=> Queued(r)
    BY <1>0, JobsKept, SameSmall
  <1>2. JobsInv'
    BY <1>0, FilesKept, JobsFrame DEF FewerToCopy
  <1>3. ToCount' = ToCount
    BY <1>0, <1>1 DEF ToCount, SubmitterAt, pool
  <1> QED BY <1>0, <1>1, <1>2, <1>3, MapFrame, CountKept

LEMMA LargeStepPlaces ==
  ASSUME Control, LargeStep \/ LargeSpuriousWake, ~LargeMarks
  PROVE  Places' /\ Kept({})
  <1>0. /\ TypeOK /\ LargeInv /\ SmallInv /\ ProcessedInv
        /\ UNCHANGED <<mode, scanned, bin, copied, inMap, smallDone, largeDone, pending, main, pool, wpc,
                       refused, processed, smallQueue, godQueue, godRunning, copying>>
    BY DEF Control, Places, LargeStep, LargeSpuriousWake, NothingForLarge, LargeBlocks, LargeExits, TakeLargeQueue,
       LargeGoto, disk, counts, status, small
  <1>1. JobsInv' /\ MapInv' /\ CountInv' /\ SameJobs /\ SameSmallJobs
    BY <1>0, OtherPlaces
  <1>2. \A s \in Source : LargeFiles(s)' = LargeFiles(s) /\ SmallFiles(s)' = SmallFiles(s)
    BY <1>0, FilesKept
  <1>3. SmallInv' /\ ProcessedInv'
    BY <1>0, <1>1, <1>2, SmallFrame, ProcessedFrame DEF SameCopy
  <1>4. LargeInv' /\ Kept({})
    <2>1. CASE NothingForLarge \/ LargeBlocks \/ LargeExits \/ LargeSpuriousWake
      <3>1. UNCHANGED <<largeQueue, largeTask>> /\ lpc # "work" /\ lpc' # "work"
        BY <2>1 DEF NothingForLarge, LargeBlocks, LargeExits, LargeSpuriousWake, LargeGoto
      <3> QED BY <1>0, <1>1, <1>2, <3>1, LargeFrame, KeptFrame DEF SameCopy
    <2>2. CASE TakeLargeQueue
      <3> PICK s : s = Head(largeQueue)
        OBVIOUS
      <3>0. /\ lpc = "check" /\ lpc' = "work" /\ largeQueue # <<>> /\ largeQueue \in Seq(Source)
            /\ largeTask' = [source |-> s, todo |-> LargeFiles(s)] /\ largeQueue' = Tail(largeQueue)
        BY <1>0, <2>2 DEF TakeLargeQueue, TypeOK
      <3>1. /\ s \in Source /\ 1 \in DOMAIN largeQueue /\ s = largeQueue[1]
            /\ \A i \in DOMAIN largeQueue' : i \in Int /\ i + 1 \in DOMAIN largeQueue /\ i + 1 # 1
                                             /\ largeQueue'[i] = largeQueue[i + 1]
            /\ \A i \in DOMAIN largeQueue \ {1} : i \in Int /\ i - 1 \in DOMAIN largeQueue'
                                             /\ largeQueue'[i - 1] = largeQueue[i]
        BY <3>0, TailIs
      <3>2. largeTask = NoTask /\ copying[LargeThread] = NoCopy /\ LargeCopy' = {}
        BY <1>0, <3>0 DEF LargeInv, LargeCopy
      <3>3. largeTask' # NoTask /\ largeTask'.source = s /\ largeTask'.todo = LargeFiles(s)
        <4>1. LargeFiles(s) \subseteq Path
          BY <1>0, <3>1, ToCopyIs
        <4>2. largeTask' \in LargeTask
          BY <3>0, <3>1, <4>1 DEF LargeTask
        <4> QED BY <3>0, <4>2, SSDAssumption
      <3>4. ASSUME NEW r \in Source PROVE InLargeQueue(r)' <=> InLargeQueue(r) /\ r # s
        <4>1. ASSUME NEW i \in DOMAIN largeQueue', largeQueue'[i] = r PROVE InLargeQueue(r) /\ r # s
          <5>1. i + 1 \in DOMAIN largeQueue /\ i + 1 # 1 /\ largeQueue[i + 1] = r
            BY <3>1, <4>1
          <5> QED BY <1>0, <3>1, <5>1 DEF InLargeQueue, LargeInv
        <4>2. ASSUME NEW i \in DOMAIN largeQueue, largeQueue[i] = r, r # s PROVE InLargeQueue(r)'
          BY <3>1, <4>2 DEF InLargeQueue
        <4> QED BY <4>1, <4>2 DEF InLargeQueue
      <3>5. \A r \in Source : InLargeTask(r)' <=> r = s
        BY <3>3 DEF InLargeTask
      <3>6. InLargeQueue(s) /\ \A r \in Source : ~InLargeTask(r)
        BY <3>1, <3>2 DEF InLargeQueue, InLargeTask
      <3>7. \A r \in Source : SubmitterAt(r, {"small", "large"})' <=> SubmitterAt(r, {"small", "large"})
        BY <1>1 DEF SameJobs
      <3>8. \A i, j \in DOMAIN largeQueue' : largeQueue'[i] = largeQueue'[j] => i = j
        <4>1. ASSUME NEW i \in DOMAIN largeQueue', NEW j \in DOMAIN largeQueue', largeQueue'[i] = largeQueue'[j]
              PROVE  i = j
          <5>1. i + 1 = j + 1
            BY <1>0, <3>1, <4>1 DEF LargeInv
          <5> QED BY <3>1, <5>1
        <4> QED BY <4>1
      <3>9. \A r \in Source : InLargeQueue(r)' \/ InLargeTask(r)' =>
              /\ r \in inMap' /\ r \notin largeDone'
              /\ ~SubmitterAt(r, {"small", "large"})' /\ mode' # "GodSpeed"
        BY <1>0, <3>4, <3>5, <3>6, <3>7 DEF LargeInv
      <3>10. \A r \in Source : InLargeTask(r)' =>
              ~InLargeQueue(r)' /\ largeTask'.todo \cup LargeCopy' \subseteq LargeFiles(r)'
        BY <1>2, <3>1, <3>2, <3>3, <3>4, <3>5
      <3>11. \A r \in inMap' : r \in largeDone' \/ SubmitterAt(r, {"small", "large"})' \/ InLargeQueue(r)'
                               \/ InLargeTask(r)'
        <4>1. inMap \subseteq Source
          BY <1>0 DEF TypeOK
        <4> QED BY <1>0, <3>4, <3>5, <3>6, <3>7, <4>1 DEF LargeInv
      <3>12. /\ largeTask' # NoTask <=> lpc' = "work"
             /\ copying'[LargeThread] # NoCopy => largeTask' # NoTask /\ copying'[LargeThread].stage # "mark"
             /\ largeTask' # NoTask => LargeCopy' \cap largeTask'.todo = {}
        BY <1>0, <3>0, <3>2, <3>3
      <3>13. ASSUME NEW p \in Path, p \in LargeFiles(SourceOf[p]), LargeLeft(p) PROVE LargeLeft(p)'
        <4>1. SourceOf[p] \in Source
          BY SSDAssumption
        <4>2. ~InLargeTask(SourceOf[p])
          BY <3>6, <4>1
        <4>3. CASE SubmitterAt(SourceOf[p], {"small", "large"})
          BY <3>7, <4>1, <4>3 DEF LargeLeft
        <4>4. CASE InLargeQueue(SourceOf[p])
          BY <3>3, <3>4, <3>5, <3>13, <4>1, <4>4 DEF LargeLeft
        <4> QED BY <3>13, <4>2, <4>3, <4>4 DEF LargeLeft
      <3>14. \A p \in Path : SmallLeft(p)' <=> SmallLeft(p)
        BY <1>0, <1>1, <1>2, ProcessedSame DEF SameCopy
      <3>15. Kept({})
        BY <1>1, <1>2, <3>13, <3>14, KeptIf DEF SameJobs
      <3> QED BY <3>8, <3>9, <3>10, <3>11, <3>12, <3>15 DEF LargeInv
    <2> QED BY <2>1, <2>2 DEF LargeStep
  <1> QED BY <1>1, <1>3, <1>4 DEF Places

LEMMA MainPlaces ==
  ASSUME Control, MainStep
  PROVE  Places' /\ Kept({})
  <1>0. /\ TypeOK /\ MapInv /\ LargeInv /\ SmallInv /\ ProcessedInv
        /\ UNCHANGED <<mode, scanned, bin, copied, inMap, smallDone, largeDone,
                       refused, processed, smallQueue, godQueue, godRunning, copying, largeQueue, largeTask>>
        /\ lpc' = "work" <=> lpc = "work"
    BY DEF Control, Places, MainStep, MainRuns, Stop, StopNotifies, JoinLargeFileThread, disk, status, small, large
  <1>1. JobsInv' /\ CountInv' /\ SameJobs /\ SameSmallJobs
    BY MainJobs, SameSmall
  <1>2. \A s \in Source : LargeFiles(s)' = LargeFiles(s) /\ SmallFiles(s)' = SmallFiles(s)
    BY <1>0, FilesKept
  <1>3. Kept({})
    BY <1>0, <1>1, <1>2, KeptFrame DEF SameCopy
  <1> QED BY <1>0, <1>1, <1>2, <1>3, MapFrame, LargeFrame, SmallFrame, ProcessedFrame DEF Places, SameCopy

LEMMA StillPlaces ==
  ASSUME Control,
         UNCHANGED <<mode, scanned, bin, copied, inMap, smallDone, largeDone, pending, main, pool, wpc,
                     refused, processed, smallQueue, godQueue, godRunning, largeQueue, lpc, largeTask>>,
         \A t \in CopyThread : SameCopy(t)
  PROVE  Places' /\ Kept({})
  <1>0. TypeOK /\ LargeInv /\ SmallInv /\ ProcessedInv /\ LargeThread \in CopyThread /\ SmallThread \subseteq CopyThread
    BY DEF Control, Places, CopyThread
  <1>1. JobsInv' /\ MapInv' /\ CountInv' /\ SameJobs /\ SameSmallJobs
    BY OtherPlaces
  <1>2. \A s \in Source : LargeFiles(s)' = LargeFiles(s) /\ SmallFiles(s)' = SmallFiles(s)
    BY FilesKept
  <1>3. Kept({})
    BY <1>0, <1>1, <1>2, KeptFrame
  <1> QED BY <1>0, <1>1, <1>2, <1>3, LargeFrame, SmallFrame, ProcessedFrame DEF Places

-----------------------------------------------------------------------------
(* Copies.                                                                 *)
LEMMA CopyValues ==
  ASSUME NEW p \in Path, NEW stage, NEW v, (stage \in {"start", "mark"} /\ v = 0) \/ (stage = "open" /\ v \in Version)
  PROVE  /\ Copy(p, stage, v) \in CopyState /\ Copy(p, stage, v) # NoCopy
         /\ Copy(p, stage, v).path = p /\ Copy(p, stage, v).stage = stage /\ Copy(p, stage, v).version = v
  BY SSDAssumption DEF Copy, CopyState

LEMMA CopyIs ==
  ASSUME Control, NEW t \in CopyThread, copying[t] # NoCopy, NEW p, p = copying[t].path, NEW s, s = SourceOf[p]
  PROVE  /\ copying[t] \in CopyState /\ p \in Path /\ s \in Source /\ s \in inMap /\ s \notin copied /\ ~Waiting(s)
         /\ t # LargeThread =>
              /\ t \in SmallThread /\ InSmallCopy(p) /\ p \in SmallFiles(s) /\ s \notin godQueue
              /\ ~SubmitterAt(s, {"small"}) /\ p \notin smallQueue
              /\ \A u \in SmallThread : copying[u] # NoCopy /\ copying[u].path = p => u = t
         /\ t = LargeThread =>
              /\ copying[t].stage # "mark" /\ InLargeTask(s) /\ p \in LargeFiles(s) /\ p \notin SmallFiles(s)
              /\ p \notin largeTask.todo
  <1>0. TypeOK /\ MapInv /\ SmallInv /\ LargeInv
    BY DEF Control, Places
  <1>1. copying[t] \in CopyState /\ p \in Path /\ s \in Source
    BY <1>0, SSDAssumption DEF TypeOK, CopyState
  <1>2. ASSUME t # LargeThread
        PROVE  /\ t \in SmallThread /\ InSmallCopy(p) /\ p \in SmallFiles(s) /\ s \notin godQueue
               /\ ~SubmitterAt(s, {"small"}) /\ p \notin smallQueue /\ s \in inMap
               /\ \A u \in SmallThread : copying[u] # NoCopy /\ copying[u].path = p => u = t
    <2>1. t \in SmallThread /\ InSmallCopy(p)
      BY <1>2 DEF CopyThread, InSmallCopy
    <2> QED BY <1>0, <1>1, <2>1 DEF SmallInv
  <1>3. ASSUME t = LargeThread
        PROVE  /\ copying[t].stage # "mark" /\ InLargeTask(s) /\ p \in LargeFiles(s) /\ p \notin SmallFiles(s)
               /\ p \notin largeTask.todo /\ s \in inMap
    <2>1. largeTask # NoTask /\ copying[t].stage # "mark" /\ p \in LargeCopy /\ p \notin largeTask.todo
      BY <1>0, <1>3 DEF LargeInv, LargeCopy
    <2>2. PICK r \in Source : r = largeTask.source
      BY <1>0, <2>1 DEF TypeOK, LargeTask
    <2>3. InLargeTask(r) /\ p \in LargeFiles(r) /\ r \in inMap
      BY <1>0, <2>1, <2>2 DEF InLargeTask, LargeInv
    <2>4. r = s /\ p \notin SmallFiles(s)
      BY <1>0, <2>2, <2>3, ToCopyIs
    <2> QED BY <2>1, <2>3, <2>4
  <1>4. s \in inMap
    BY <1>2, <1>3
  <1>5. s \notin copied /\ ~Waiting(s)
    BY <1>0, <1>4 DEF MapInv
  <1> QED BY <1>1, <1>2, <1>3, <1>4, <1>5

LEMMA StartSmallPlaces ==
  ASSUME Control, NEW t \in CopyThread, CopyStep(t), StartSmall(t)
  PROVE  Places' /\ Kept({})
  <1>0. /\ TypeOK /\ LargeInv /\ SmallInv /\ ProcessedInv /\ copying[t] = NoCopy
        /\ UNCHANGED <<mode, scanned, bin, copied, inMap, smallDone, largeDone, pending, main, pool, wpc,
                       refused, processed, godQueue, godRunning, largeQueue, lpc, largeTask>>
    BY DEF Control, Places, CopyStep, StartSmall, disk, counts, status
  <1>1. PICK p \in smallQueue : smallQueue' = smallQueue \ {p} /\ copying' = [copying EXCEPT ![t] = Copy(p, "start", 0)]
    BY DEF StartSmall, Becomes
  <1>2. /\ p \in Path /\ SourceOf[p] \in Source /\ smallQueue \subseteq Path
        /\ t \in SmallThread /\ LargeThread # t /\ DOMAIN copying = CopyThread
        /\ \A r \in Path : SourceOf[r] \in Source
    BY <1>0, <1>1, SSDAssumption DEF TypeOK, StartSmall, CopyThread
  <1>3. /\ Copy(p, "start", 0) # NoCopy /\ Copy(p, "start", 0).path = p /\ Copy(p, "start", 0).stage = "start"
    BY <1>2, CopyValues, SSDAssumption
  <1>4. JobsInv' /\ MapInv' /\ CountInv' /\ SameJobs /\ SameSmallJobs
    BY <1>0, OtherPlaces
  <1>5. \A s \in Source : LargeFiles(s)' = LargeFiles(s) /\ SmallFiles(s)' = SmallFiles(s)
    BY <1>0, FilesKept
  <1>6. LargeInv'
    BY <1>0, <1>1, <1>2, <1>4, <1>5, LargeFrame DEF SameCopy, CopyThread
  <1>7. \A u \in SmallThread : copying'[u] = IF u = t THEN Copy(p, "start", 0) ELSE copying[u]
    BY <1>1, <1>2 DEF CopyThread
  <1>8. \A q \in Path : InSmallCopy(q)' <=> InSmallCopy(q) \/ q = p
    BY <1>0, <1>2, <1>3, <1>7 DEF InSmallCopy
  <1>9. ~InSmallCopy(p)
    BY <1>0, <1>1 DEF SmallInv
  <1>10. SmallInv'
    <2>1. \A q \in Path : q \in smallQueue' \/ InSmallCopy(q)' =>
            /\ (q \in SmallFiles(SourceOf[q]))' /\ SourceOf[q] \in inMap' /\ SourceOf[q] \notin godQueue'
            /\ ~SubmitterAt(SourceOf[q], {"small"})'
      BY <1>0, <1>1, <1>2, <1>4, <1>5, <1>8 DEF SmallInv, SameSmallJobs
    <2>2. \A q \in smallQueue' : ~InSmallCopy(q)'
      BY <1>0, <1>1, <1>2, <1>8 DEF SmallInv
    <2>3. \A u, v \in SmallThread :
            copying'[u] # NoCopy /\ copying'[v] # NoCopy /\ copying'[u].path = copying'[v].path => u = v
      BY <1>0, <1>3, <1>7, <1>9 DEF SmallInv, InSmallCopy
    <2>4. godQueue \subseteq Source /\ godRunning \subseteq Source
      BY <1>0 DEF TypeOK
    <2>5. /\ mode' # "GodSpeed" => godQueue' = {} /\ godRunning' = {}
          /\ \A s \in godQueue' :
               SmallFiles(s)' # {} /\ s \in inMap' /\ ~SubmitterAt(s, {"small"})' /\ s \notin godRunning'
          /\ \A s \in godRunning' :
               ~Waiting(s)' /\ ~SubmitterAt(s, {"small", "save"})' /\ s \in inMap' \cup copied'
      BY <1>0, <1>4, <1>5, <2>4 DEF SmallInv, SameSmallJobs
    <2> QED BY <2>1, <2>2, <2>3, <2>5 DEF SmallInv
  <1>12. \A q \in Path : SmallLeft(q)' <=> SmallLeft(q)
    <2>1. \A q : \A u \in SmallThread : Copies(u, q)' <=> Copies(u, q) \/ (u = t /\ q = p)
      BY <1>0, <1>3, <1>7 DEF Copies
    <2> QED BY <1>0, <1>1, <1>2, <1>4, <2>1 DEF SmallLeft, SameSmallJobs
  <1>11. ProcessedInv'
    <2>3. \A r \in Source : SmallFiles(r) \subseteq Path
      BY <1>0, ToCopyIs
    <2>4. \A r \in Source : Processed(r)' = Processed(r)
      BY <1>0, <1>5, <1>12, <2>3 DEF Processed, Uncounted
    <2>5. \A u \in SmallThread : \A r \in Source : Marks(u, r)' <=> Marks(u, r)
      BY <1>0, <1>3, <1>7 DEF Marks
    <2>6. \A r \in Source : AllProcessed(r)' <=> AllProcessed(r)
      BY <1>0, <1>5 DEF AllProcessed
    <2>7. refused \subseteq Path /\ smallDone \subseteq Source /\ inMap \subseteq Source
      BY <1>0 DEF TypeOK
    <2> QED BY <1>0, <1>2, <1>4, <1>5, <1>12, <2>4, <2>5, <2>6, <2>7 DEF ProcessedInv, SameSmallJobs
  <1>13. Kept({})
    <2>1. copying'[LargeThread] = copying[LargeThread]
      BY <1>1, <1>2 DEF CopyThread
    <2>2. \A q \in Path : LargeLeft(q) => LargeLeft(q)'
      BY <1>0, <1>2, <1>4, <2>1 DEF LargeLeft, InLargeQueue, InLargeTask, Copies, SameJobs
    <2> QED BY <1>4, <1>5, <1>12, <2>2, KeptIf DEF SameJobs
  <1> QED BY <1>4, <1>6, <1>10, <1>11, <1>13 DEF Places

LEMMA StartLargePlaces ==
  ASSUME Control, NEW t \in CopyThread, CopyStep(t), StartLarge(t)
  PROVE  Places' /\ Kept({})
  <1>0. /\ TypeOK /\ LargeInv /\ SmallInv /\ ProcessedInv /\ t = LargeThread /\ copying[t] = NoCopy /\ lpc = "work"
        /\ UNCHANGED <<mode, scanned, bin, copied, inMap, smallDone, largeDone, pending, main, pool, wpc,
                       refused, processed, smallQueue, godQueue, godRunning, largeQueue, lpc>>
    BY DEF Control, Places, CopyStep, StartLarge, disk, counts, status, small
  <1>1. PICK p \in largeTask.todo :
          /\ largeTask' = [largeTask EXCEPT !.todo = @ \ {p}]
          /\ copying' = [copying EXCEPT ![t] = Copy(p, "start", 0)]
    BY DEF StartLarge, Becomes
  <1>2. /\ largeTask # NoTask /\ largeTask \in LargeTask /\ DOMAIN copying = CopyThread
        /\ LargeThread \notin SmallThread /\ SmallThread \subseteq CopyThread
    BY <1>0, SSDAssumption DEF TypeOK, LargeInv, CopyThread
  <1>3. /\ p \in Path /\ largeTask.source \in Source /\ largeTask' \in LargeTask /\ largeTask' # NoTask
        /\ largeTask'.source = largeTask.source /\ largeTask'.todo = largeTask.todo \ {p}
    BY <1>1, <1>2, SSDAssumption DEF LargeTask
  <1>4. /\ Copy(p, "start", 0) # NoCopy /\ Copy(p, "start", 0).path = p /\ Copy(p, "start", 0).stage = "start"
    BY <1>3, CopyValues, SSDAssumption
  <1>5. JobsInv' /\ MapInv' /\ CountInv' /\ SameJobs /\ SameSmallJobs
    BY <1>0, OtherPlaces
  <1>6. \A s \in Source : LargeFiles(s)' = LargeFiles(s) /\ SmallFiles(s)' = SmallFiles(s)
    BY <1>0, FilesKept
  <1>7. \A u \in SmallThread : SameCopy(u)
    BY <1>0, <1>1, <1>2 DEF SameCopy
  <1>8. SmallInv' /\ ProcessedInv'
    BY <1>0, <1>5, <1>6, <1>7, SmallFrame, ProcessedFrame
  <1>9. LargeInv'
    <2>1. LargeCopy = {} /\ LargeCopy' = {p} /\ copying'[LargeThread] = Copy(p, "start", 0)
      BY <1>0, <1>1, <1>2, <1>4 DEF LargeCopy
    <2>2. \A r \in Source : (InLargeQueue(r)' <=> InLargeQueue(r)) /\ (InLargeTask(r)' <=> InLargeTask(r))
      BY <1>0, <1>2, <1>3 DEF InLargeQueue, InLargeTask
    <2>3. \A r \in Source : InLargeTask(r)' =>
            ~InLargeQueue(r)' /\ largeTask'.todo \cup LargeCopy' \subseteq LargeFiles(r)'
      BY <1>0, <1>1, <1>3, <1>6, <2>1, <2>2 DEF LargeInv
    <2>4. inMap \subseteq Source /\ \A r \in Source : SubmitterAt(r, {"small", "large"})' <=> SubmitterAt(r, {"small", "large"})
      BY <1>0, <1>5 DEF TypeOK, SameJobs
    <2>5. /\ largeTask' # NoTask <=> lpc' = "work"
          /\ copying'[LargeThread] # NoCopy => largeTask' # NoTask /\ copying'[LargeThread].stage # "mark"
          /\ largeTask' # NoTask => LargeCopy' \cap largeTask'.todo = {}
      BY <1>0, <1>3, <1>4, <2>1
    <2> QED BY <1>0, <2>2, <2>3, <2>4, <2>5 DEF LargeInv
  <1>10. Kept({})
    <2>1. \A q \in Path : SmallLeft(q)' <=> SmallLeft(q)
      BY <1>0, <1>5, <1>6, <1>7, ProcessedSame
    <2>2. copying'[LargeThread] = Copy(p, "start", 0)
      BY <1>0, <1>1, <1>2
    <2>3. ASSUME NEW q \in Path, LargeLeft(q) PROVE LargeLeft(q)'
      <3>1. SourceOf[q] \in Source
        BY SSDAssumption
      <3>2. CASE InLargeTask(SourceOf[q]) /\ q \in largeTask.todo
        BY <1>3, <1>4, <2>2, <3>2 DEF LargeLeft, InLargeTask, Copies
      <3>3. ~Copies(LargeThread, q)
        BY <1>0 DEF Copies
      <3> QED BY <1>0, <1>5, <2>3, <3>1, <3>2, <3>3 DEF LargeLeft, InLargeQueue, SameJobs
    <2> QED BY <1>5, <1>6, <2>1, <2>3, KeptIf DEF SameJobs
  <1> QED BY <1>5, <1>8, <1>9, <1>10 DEF Places

LEMMA OpenPlaces ==
  ASSUME Control, NEW t \in CopyThread, CopyStep(t), copying[t] # NoCopy, OpenDestination(t)
  PROVE  Places' /\ Kept({})
  <1> PICK p : p = copying[t].path
    OBVIOUS
  <1>0. /\ TypeOK /\ copying[t].stage = "start" /\ src[p] # Absent
        /\ copying' = [copying EXCEPT ![t] = Copy(p, "open", src[p])]
        /\ UNCHANGED <<mode, scanned, bin, copied, inMap, smallDone, largeDone, pending, main, pool, wpc,
                       refused, processed, smallQueue, godQueue, godRunning, largeQueue, lpc, largeTask>>
    BY DEF Control, CopyStep, OpenDestination, Becomes, counts, status, small
  <1>1. p \in Path
    BY CopyIs
  <1>2. src[p] \in Version
    BY <1>0, <1>1 DEF TypeOK
  <1>3. \A u \in CopyThread : SameCopy(u)
    BY <1>0, <1>1, <1>2, CopyValues DEF SameCopy, TypeOK
  <1> QED BY <1>0, <1>3, StillPlaces

(* A copy ends, well or refused.  The thread that works for SSDLargeFileThread *)
(* only goes on ...                                                        *)
LargeEnds ==
  /\ copying' = [copying EXCEPT ![LargeThread] = NoCopy]
  /\ refused' \in {refused, refused \cup {copying[LargeThread].path}}
  /\ UNCHANGED <<mode, scanned, bin, copied, inMap, smallDone, largeDone, pending, main, pool, wpc,
                 processed, smallQueue, godQueue, godRunning, largeQueue, lpc, largeTask>>

LEMMA LargeEndsPlaces ==
  ASSUME Control, copying[LargeThread] # NoCopy, LargeEnds
  PROVE  Places' /\ Kept({copying[LargeThread].path})
  <1> PICK p : p = copying[LargeThread].path
    OBVIOUS
  <1> PICK s : s = SourceOf[p]
    OBVIOUS
  <1>0. /\ TypeOK /\ LargeInv /\ SmallInv /\ ProcessedInv
        /\ copying' = [copying EXCEPT ![LargeThread] = NoCopy] /\ refused' \in {refused, refused \cup {p}}
        /\ LargeThread \in CopyThread /\ LargeThread \notin SmallThread /\ SmallThread \subseteq CopyThread
        /\ DOMAIN copying = CopyThread
        /\ UNCHANGED <<mode, scanned, bin, copied, inMap, smallDone, largeDone, pending, main, pool, wpc,
                       processed, smallQueue, godQueue, godRunning, largeQueue, lpc, largeTask>>
    BY SSDAssumption DEF Control, Places, LargeEnds, CopyThread, TypeOK
  <1>1. p \in Path /\ s \in Source /\ p \notin SmallFiles(s)
    BY <1>0, CopyIs
  <1>2. JobsInv' /\ MapInv' /\ CountInv' /\ SameJobs /\ SameSmallJobs
    BY <1>0, OtherPlaces
  <1>3. \A r \in Source : LargeFiles(r)' = LargeFiles(r) /\ SmallFiles(r)' = SmallFiles(r)
    BY <1>0, FilesKept
  <1>4. \A u \in SmallThread : copying'[u] = copying[u]
    BY <1>0
  <1>5. SmallInv'
    BY <1>0, <1>2, <1>3, <1>4, SmallFrame DEF SameCopy
  <1>6. LargeInv'
    <2>1. LargeCopy' = {} /\ copying'[LargeThread] = NoCopy
      BY <1>0 DEF LargeCopy
    <2>2. \A r \in Source : (InLargeQueue(r)' <=> InLargeQueue(r)) /\ (InLargeTask(r)' <=> InLargeTask(r))
      BY <1>0 DEF InLargeQueue, InLargeTask
    <2>3. inMap \subseteq Source /\ \A r \in Source : SubmitterAt(r, {"small", "large"})' <=> SubmitterAt(r, {"small", "large"})
      BY <1>0, <1>2 DEF TypeOK, SameJobs
    <2> QED BY <1>0, <1>3, <2>1, <2>2, <2>3 DEF LargeInv
  <1>7. ProcessedInv'
    <2>1. \A q \in Path : SourceOf[q] \in Source
      BY SSDAssumption
    <2>2. \A q \in Path : SmallLeft(q)' <=> SmallLeft(q)
      BY <1>0, <1>2, <1>4, <2>1 DEF SmallLeft, Copies, SameSmallJobs
    <2>3. \A r \in Source : \A q \in SmallFiles(r) : q \in Path /\ q # p
      BY <1>0, <1>1, ToCopyIs
    <2>4. \A r \in Source : Processed(r)' = Processed(r)
      <3>1. \A r \in Source : \A q \in SmallFiles(r) : q \in Uncounted' <=> q \in Uncounted
        BY <1>0, <2>3 DEF Uncounted
      <3> QED BY <1>3, <2>2, <2>3, <3>1 DEF Processed
    <2>5. \A u \in SmallThread : \A r \in Source : Marks(u, r)' <=> Marks(u, r)
      BY <1>4 DEF Marks
    <2>6. \A r \in Source : AllProcessed(r)' <=> AllProcessed(r)
      BY <1>0, <1>3 DEF AllProcessed
    <2>7. refused \subseteq Path /\ smallDone \subseteq Source /\ inMap \subseteq Source
      BY <1>0 DEF TypeOK
    <2>8. \A q \in refused' : (q \in SmallFiles(SourceOf[q]))' => ~SmallLeft(q)'
      BY <1>0, <1>1, <1>3, <2>1, <2>2, <2>3, <2>7 DEF ProcessedInv
    <2> QED BY <1>0, <1>2, <2>4, <2>5, <2>6, <2>7, <2>8 DEF ProcessedInv, SameSmallJobs
  <1>8. Kept({p})
    <2>1. \A q \in Path : SmallLeft(q) => SmallLeft(q)'
      BY <1>0, <1>2, <1>4, SSDAssumption DEF SmallLeft, Copies, SameSmallJobs
    <2>2. ASSUME NEW q \in Path, q # p, LargeLeft(q) PROVE LargeLeft(q)'
      <3>1. SourceOf[q] \in Source /\ ~Copies(LargeThread, q)
        BY <2>2, SSDAssumption DEF Copies
      <3> QED BY <1>0, <1>2, <2>2, <3>1 DEF LargeLeft, InLargeQueue, InLargeTask, SameJobs
    <2> QED BY <1>2, <1>3, <2>1, <2>2, KeptIf DEF SameJobs
  <1> QED BY <1>2, <1>5, <1>6, <1>7, <1>8 DEF Places

(* ... and one that works for the small files of a source counts the file, *)
(* unless it was refused in a mode that does not count it.                 *)
SmallEnds(t, p, s) ==
  /\ UNCHANGED <<mode, scanned, bin, copied, inMap, smallDone, largeDone, pending, main, pool, wpc,
                 smallQueue, godQueue, godRunning, largeQueue, lpc, largeTask>>
  /\ \/ /\ mode \in {"Parallel", "Balanced"} /\ refused' = refused \cup {p}
        /\ processed' = processed /\ copying' = [copying EXCEPT ![t] = NoCopy]
     \/ /\ refused' = refused \/ (mode \notin {"Parallel", "Balanced"} /\ refused' = refused \cup {p})
        /\ processed' = [processed EXCEPT ![s] = @ + 1]
        /\ copying' = [copying EXCEPT ![t] = IF processed'[s] = Cardinality(SmallFiles(s)) THEN Copy(p, "mark", 0)
                                             ELSE NoCopy]

LEMMA SmallEndsPlaces ==
  ASSUME Control, NEW t \in CopyThread, t # LargeThread, copying[t] # NoCopy, copying[t].stage # "mark",
         NEW p, p = copying[t].path, NEW s, s = SourceOf[p], SmallEnds(t, p, s)
  PROVE  Places' /\ Kept({p}) /\ Processed(s)' \subseteq SmallFiles(s) /\ processed'[s] = Cardinality(Processed(s)')
  <1>0. /\ TypeOK /\ LargeInv /\ SmallInv /\ ProcessedInv
        /\ DOMAIN copying = CopyThread /\ DOMAIN processed = Source /\ LargeThread \in CopyThread
        /\ SmallThread \subseteq CopyThread
        /\ UNCHANGED <<mode, scanned, bin, copied, inMap, smallDone, largeDone, pending, main, pool, wpc,
                       smallQueue, godQueue, godRunning, largeQueue, lpc, largeTask>>
        /\ \A q \in Path : SourceOf[q] \in Source
        /\ refused \subseteq Path /\ smallDone \subseteq Source /\ inMap \subseteq Source /\ copied \subseteq Source
        /\ godQueue \subseteq Source /\ godRunning \subseteq Source /\ smallQueue \subseteq Path
    BY SSDAssumption DEF Control, Places, SmallEnds, CopyThread, TypeOK
  <1>1. /\ p \in Path /\ s \in Source /\ s \in inMap /\ s \notin copied /\ ~Waiting(s)
        /\ t \in SmallThread /\ InSmallCopy(p) /\ p \in SmallFiles(s) /\ s \notin godQueue
        /\ ~SubmitterAt(s, {"small"}) /\ p \notin smallQueue
        /\ \A u \in SmallThread : copying[u] # NoCopy /\ copying[u].path = p => u = t
    BY CopyIs
  <1>2. JobsInv' /\ MapInv' /\ CountInv' /\ SameJobs /\ SameSmallJobs
    BY <1>0, OtherPlaces
  <1>3. \A r \in Source : LargeFiles(r)' = LargeFiles(r) /\ SmallFiles(r)' = SmallFiles(r)
    BY <1>0, FilesKept
  <1> DEFINE c == copying'[t]
  <1>4. /\ c = NoCopy \/ (c # NoCopy /\ c.stage = "mark" /\ c.path = p)
        /\ \A u \in CopyThread : u # t => copying'[u] = copying[u]
    BY <1>0, <1>1, CopyValues, SSDAssumption DEF SmallEnds
  <1>5. LargeInv'
    BY <1>0, <1>2, <1>3, <1>4, LargeFrame DEF SameCopy
  <1> HIDE DEF c
  <1>6. \A q \in Path : InSmallCopy(q)' => InSmallCopy(q)
    BY <1>0, <1>1, <1>4 DEF InSmallCopy, c
  <1>7. SmallInv'
    <2>1. \A u, v \in SmallThread :
            copying'[u] # NoCopy /\ copying'[v] # NoCopy /\ copying'[u].path = copying'[v].path => u = v
      <3>1. \A u \in SmallThread : copying'[u] # NoCopy => copying[u] # NoCopy /\ copying'[u].path = copying[u].path
        BY <1>0, <1>4 DEF c
      <3> QED BY <1>0, <3>1 DEF SmallInv
    <2> QED BY <1>0, <1>2, <1>3, <1>6, <2>1 DEF SmallInv, SameSmallJobs
  <1>8. /\ \A u \in SmallThread : \A q : Copies(u, q)' <=> u # t /\ Copies(u, q)
        /\ \A u \in SmallThread : Copies(u, p) <=> u = t
        /\ \A q : Copies(t, q) <=> q = p
    BY <1>0, <1>1, <1>4 DEF Copies, c
  <1>9. SmallLeft(p) /\ ~SmallLeft(p)' /\ \A q \in Path : q # p => (SmallLeft(q)' <=> SmallLeft(q))
    <2>1. SmallLeft(p)
      BY <1>1, <1>8 DEF SmallLeft
    <2>2. ~SmallLeft(p)'
      BY <1>0, <1>1, <1>2, <1>8 DEF SmallLeft, SameSmallJobs
    <2>3. \A q \in Path : q # p => (SmallLeft(q)' <=> SmallLeft(q))
      BY <1>0, <1>2, <1>8 DEF SmallLeft, SameSmallJobs
    <2> QED BY <2>1, <2>2, <2>3
  <1>10. p \notin refused
    BY <1>0, <1>1, <1>9 DEF ProcessedInv
  <1>11. ~AllProcessed(s) /\ s \notin smallDone /\ \A u \in SmallThread : ~Marks(u, s)
    <2>1. ~AllProcessed(s)
      BY <1>1, <1>9, AllCounted
    <2> QED BY <1>0, <1>1, <2>1 DEF ProcessedInv
  <1>12. \A r \in Source : \A q \in SmallFiles(r) : q \in Path /\ SourceOf[q] = r
    BY <1>0, ToCopyIs
  <1>13. refused' \in {refused, refused \cup {p}}
    BY DEF SmallEnds
  <1>14. \A r \in Source : r # s => Processed(r)' = Processed(r)
    <2>1. ASSUME NEW r \in Source, r # s, NEW q \in SmallFiles(r)
          PROVE  (SmallLeft(q)' <=> SmallLeft(q)) /\ (q \in Uncounted' <=> q \in Uncounted)
      <3>1. q \in Path /\ q # p
        BY <1>1, <1>12, <2>1
      <3> QED BY <1>0, <1>9, <1>13, <3>1 DEF Uncounted
    <2> QED BY <1>3, <2>1 DEF Processed
  <1>15. \A u \in SmallThread : \A r \in Source :
           Marks(u, r)' <=> (u # t /\ Marks(u, r)) \/ (u = t /\ r = s /\ c # NoCopy)
    BY <1>0, <1>1, <1>4 DEF Marks, c
  <1>16. \A u \in SmallThread : \A r \in Source : u = t => ~Marks(u, r)
    BY DEF Marks
  <1>17. \A q \in refused' : (q \in SmallFiles(SourceOf[q]))' => ~SmallLeft(q)'
    <2>1. ASSUME NEW q \in refused', (q \in SmallFiles(SourceOf[q]))' PROVE ~SmallLeft(q)'
      <3>1. q = p \/ (q \in refused /\ q # p)
        BY <1>13, <2>1
      <3>2. CASE q = p
        BY <1>9, <3>2
      <3>3. CASE q \in refused /\ q # p
        BY <1>0, <1>3, <1>9, <2>1, <3>3 DEF ProcessedInv
      <3> QED BY <3>1, <3>2, <3>3
    <2> QED BY <2>1
  <1>18. /\ \A r \in Source \ copied : r # s => processed'[r] = processed[r]
         /\ processed[s] = Cardinality(Processed(s)) /\ IsFiniteSet(Processed(s)) /\ Cardinality(Processed(s)) \in Nat
    <2>1. IsFiniteSet(Processed(s)) /\ Cardinality(Processed(s)) \in Nat
      BY <1>0, <1>1, ToCopyFinite, FS_Subset, FS_CardinalityType DEF Processed
    <2> QED BY <1>0, <1>1, <2>1 DEF ProcessedInv, SmallEnds
  <1>21. Kept({p})
    <2>1. copying'[LargeThread] = copying[LargeThread]
      BY <1>0, <1>4
    <2>2. \A q \in Path : LargeLeft(q) => LargeLeft(q)'
      BY <1>0, <1>2, <2>1 DEF LargeLeft, InLargeQueue, InLargeTask, Copies, SameJobs
    <2> QED BY <1>2, <1>3, <1>9, <2>2, KeptIf DEF SameJobs
  <1>19. CASE /\ mode \in {"Parallel", "Balanced"} /\ refused' = refused \cup {p}
              /\ processed' = processed /\ copying' = [copying EXCEPT ![t] = NoCopy]
    <2>1. Processed(s)' = Processed(s)
      <3>1. p \notin Processed(s) /\ p \notin Processed(s)'
        BY <1>0, <1>9, <1>19 DEF Processed, Uncounted
      <3>2. ASSUME NEW q \in SmallFiles(s), q # p PROVE q \in Processed(s)' <=> q \in Processed(s)
        <4>1. q \in Path
          BY <1>1, <1>12
        <4> QED BY <1>0, <1>1, <1>3, <1>9, <1>19, <3>2, <4>1 DEF Processed, Uncounted
      <3> QED BY <1>1, <1>3, <3>1, <3>2 DEF Processed
    <2>2. c = NoCopy
      BY <1>0, <1>19 DEF c
    <2>3. \A r \in Source : AllProcessed(r)' <=> AllProcessed(r)
      BY <1>3, <1>19 DEF AllProcessed
    <2>4. \A u \in SmallThread : \A r \in Source : Marks(u, r)' <=> Marks(u, r)
      BY <1>15, <1>16, <2>2
    <2>5. \A r \in Source : Processed(r)' = Processed(r)
      BY <1>14, <2>1
    <2>6. ProcessedInv'
      BY <1>0, <1>2, <1>17, <1>19, <2>3, <2>4, <2>5 DEF ProcessedInv, SameSmallJobs
    <2>7. processed'[s] = Cardinality(Processed(s)') /\ Processed(s)' \subseteq SmallFiles(s)
      BY <1>18, <1>19, <2>1 DEF Processed
    <2> QED BY <1>2, <1>5, <1>7, <1>21, <2>6, <2>7 DEF Places
  <1>20. CASE /\ refused' = refused \/ (mode \notin {"Parallel", "Balanced"} /\ refused' = refused \cup {p})
              /\ processed' = [processed EXCEPT ![s] = @ + 1]
              /\ copying' = [copying EXCEPT ![t] = IF processed'[s] = Cardinality(SmallFiles(s)) THEN Copy(p, "mark", 0)
                                                   ELSE NoCopy]
    <2>1. Processed(s)' = Processed(s) \cup {p} /\ p \notin Processed(s)
      <3>1. p \notin Processed(s) /\ p \in Processed(s)'
        BY <1>0, <1>1, <1>3, <1>9, <1>10, <1>20 DEF Processed, Uncounted
      <3>2. ASSUME NEW q \in SmallFiles(s), q # p PROVE q \in Processed(s)' <=> q \in Processed(s)
        <4>1. q \in Path
          BY <1>1, <1>12
        <4> QED BY <1>0, <1>1, <1>3, <1>9, <1>20, <3>2, <4>1 DEF Processed, Uncounted
      <3> QED BY <1>1, <1>3, <3>1, <3>2 DEF Processed
    <2>2. processed'[s] = Cardinality(Processed(s)') /\ Processed(s)' \subseteq SmallFiles(s)
      <3>1. Cardinality(Processed(s) \cup {p}) = Cardinality(Processed(s)) + 1
        BY <1>18, <2>1, FS_AddElement
      <3>2. processed'[s] = processed[s] + 1
        BY <1>0, <1>1, <1>20
      <3> QED BY <1>1, <1>18, <2>1, <3>1, <3>2 DEF Processed
    <2>3. c # NoCopy <=> AllProcessed(s)'
      BY <1>0, <1>1, <1>3, <1>20, CopyValues, SSDAssumption DEF AllProcessed, c
    <2>4. \A r \in Source : r # s => (AllProcessed(r)' <=> AllProcessed(r))
      BY <1>0, <1>3, <1>20 DEF AllProcessed
    <2>5. \A r \in Source \ copied' : processed'[r] = Cardinality(Processed(r)')
      BY <1>0, <1>14, <1>18, <2>2 DEF ProcessedInv
    <2>6. \A r \in smallDone' : AllProcessed(r)'
      BY <1>0, <1>11, <2>4 DEF ProcessedInv
    <2>7. \A u \in SmallThread : \A r \in Source : Marks(u, r)' => AllProcessed(r)' /\ r \notin smallDone'
      BY <1>0, <1>11, <1>15, <2>3, <2>4 DEF ProcessedInv
    <2>8. \A u, v \in SmallThread : \A r \in Source : Marks(u, r)' /\ Marks(v, r)' => u = v
      BY <1>0, <1>11, <1>15 DEF ProcessedInv
    <2>9. \A r \in inMap' \ smallDone' : AllProcessed(r)' =>
            SubmitterAt(r, {"small"})' \/ \E u \in SmallThread : Marks(u, r)'
      <3>1. ASSUME NEW r \in inMap \ smallDone, AllProcessed(r)'
            PROVE  SubmitterAt(r, {"small"})' \/ \E u \in SmallThread : Marks(u, r)'
        <4>1. CASE r = s
          BY <1>1, <1>15, <2>3, <3>1, <4>1
        <4>2. CASE r # s
          <5>1. AllProcessed(r) /\ r \in Source
            BY <1>0, <2>4, <3>1, <4>2
          <5> QED BY <1>0, <1>2, <1>15, <1>16, <3>1, <5>1 DEF ProcessedInv, SameSmallJobs
        <4> QED BY <4>1, <4>2
      <3> QED BY <1>0, <3>1
    <2>10. ProcessedInv'
      BY <1>17, <2>5, <2>6, <2>7, <2>8, <2>9 DEF ProcessedInv
    <2> QED BY <1>2, <1>5, <1>7, <1>21, <2>2, <2>10 DEF Places
  <1> QED BY <1>19, <1>20 DEF SmallEnds

LEMMA EndsPlaces ==
  ASSUME Control, NEW t \in CopyThread, CopyStep(t), copying[t] # NoCopy, CopyRefused(t) \/ FinishCopy(t)
  PROVE  Places' /\ Kept({copying[t].path}) /\ processed' \in [Source -> 0 .. Cardinality(Path)] /\ refused' \subseteq Path
         /\ copying' \in [CopyThread -> CopyState \cup {NoCopy}]
  <1> PICK p : p = copying[t].path
    OBVIOUS
  <1> PICK s : s = SourceOf[p]
    OBVIOUS
  <1>0. /\ TypeOK /\ copying[t].stage # "mark" /\ p \in Path /\ s \in Source /\ Copy(p, "mark", 0) \in CopyState
    BY CopyIs, CopyValues, SSDAssumption DEF Control, CopyRefused, FinishCopy
  <1>1. /\ UNCHANGED <<mode, scanned, bin, copied, inMap, smallDone, largeDone, pending, main, pool, wpc,
                       smallQueue, godQueue, godRunning, largeQueue, lpc, largeTask>>
        /\ refused' \in {refused, refused \cup {p}}
    BY DEF CopyStep, CopyRefused, FinishCopy, disk, counts, status
  <1>2. CASE t = LargeThread
    <2>1. LargeEnds
      BY <1>1, <1>2 DEF CopyRefused, FinishCopy, Counted, Becomes, LargeEnds
    <2>2. processed' = processed /\ copying' = [copying EXCEPT ![LargeThread] = NoCopy]
      BY <2>1 DEF LargeEnds
    <2> QED BY <1>0, <1>1, <1>2, <2>1, <2>2, LargeEndsPlaces DEF TypeOK
  <1>3. CASE t # LargeThread
    <2>1. SmallEnds(t, p, s)
      BY <1>1, <1>3 DEF CopyRefused, FinishCopy, Counted, Becomes, SmallEnds
    <2>2. Places' /\ Kept({p}) /\ Processed(s)' \subseteq SmallFiles(s) /\ processed'[s] = Cardinality(Processed(s)')
      BY <1>0, <1>3, <2>1, SmallEndsPlaces
    <2>3. processed'[s] \in 0 .. Cardinality(Path)
      BY <1>0, <2>2, ToCopyFinite, FS_Subset, FS_CardinalityType
    <2>4. processed' \in [Source -> 0 .. Cardinality(Path)]
      BY <1>0, <2>1, <2>3 DEF SmallEnds, TypeOK
    <2>5. copying' \in [CopyThread -> CopyState \cup {NoCopy}]
      <3>1. \E c \in CopyState \cup {NoCopy} : copying' = [copying EXCEPT ![t] = c]
        BY <1>0, <2>1 DEF SmallEnds
      <3> QED BY <1>0, <3>1 DEF TypeOK
    <2> QED BY <1>0, <1>1, <2>2, <2>4, <2>5 DEF TypeOK
  <1> QED BY <1>2, <1>3

LEMMA PlacesStep ==
  ASSUME Control, Next
  PROVE  Places'
  <1>1. CASE Edit \/ MainSpuriousWake \/ ExitOnFailure
    <2>1. /\ UNCHANGED <<mode, scanned, bin, copied, inMap, smallDone, largeDone, pending, main, pool, wpc,
                         refused, processed, smallQueue, godQueue, godRunning, largeQueue, lpc, largeTask, copying>>
      BY <1>1 DEF Edit, MainSpuriousWake, ExitOnFailure, disk, counts, status, small, large
    <2> QED BY <2>1, StillPlaces DEF SameCopy
  <1>2. CASE MainStep
    BY <1>2, MainPlaces
  <1>3. CASE LargeStep \/ LargeSpuriousWake
    <2>1. CASE LargeMarks
      <3>1. ~LargeSpuriousWake
        BY <2>1 DEF LargeMarks, LargeSpuriousWake
      <3> QED BY <1>3, <2>1, <3>1, LargeMarksPlaces
    <2> QED BY <1>3, <2>1, LargeStepPlaces
  <1>4. ASSUME NEW w \in Worker, JobStep(w) PROVE Places'
    BY <1>4, TakeJobPlaces, NothingToCopyPlaces, SaveUnchangedPlaces, EnterMapPlaces, NoSmallFilesPlaces,
       SmallSubmittedPlaces, NoLargeFilesPlaces, LargeSubmittedPlaces DEF JobStep
  <1>5. ASSUME NEW s \in Source, GodStep(s) PROVE Places'
    BY <1>5, GodJobSubmitsPlaces, GodJobMarksPlaces DEF GodStep
  <1>6. ASSUME NEW t \in CopyThread, CopyStep(t) PROVE Places'
    BY <1>6, StartSmallPlaces, StartLargePlaces, OpenPlaces, EndsPlaces, LastFileMarksPlaces DEF CopyStep
  <1> QED BY <1>1, <1>2, <1>3, <1>4, <1>5, <1>6 DEF Next

LEMMA InitPlaces ==
  ASSUME Init
  PROVE  Places
  <1>0. TypeOK
    BY TypeInit
  <1>1. /\ left = Source /\ mpc = "update" /\ queue = <<>> /\ running = [w \in Worker |-> NoJob]
        /\ wpc = [w \in Worker |-> "idle"] /\ copied = {} /\ pending = 0
        /\ inMap = {} /\ smallDone = {} /\ largeDone = {} /\ processed = [s \in Source |-> 0]
        /\ smallQueue = {} /\ godQueue = {} /\ godRunning = {} /\ largeQueue = <<>> /\ largeTask = NoTask
        /\ lpc \in {"check", "none"} /\ copying = [t \in CopyThread |-> NoCopy] /\ refused = {}
    BY DEF Init, Pool!Init
  <1>2. \A s \in Source : Waiting(s) /\ ~Queued(s) /\ ~InLargeQueue(s) /\ ~InLargeTask(s)
    BY <1>1 DEF Waiting, Queued, InLargeQueue, InLargeTask
  <1>3. \A s \in Source : \A pcs \in SUBSET AtWork : ~SubmitterAt(s, pcs)
    BY <1>1, SSDAssumption DEF SubmitterAt, AtWork
  <1>4. \A s \in Source : /\ ~SubmitterAt(s, {"small"}) /\ ~SubmitterAt(s, {"save"}) /\ ~SubmitterAt(s, {"sync"})
                          /\ ~SubmitterAt(s, {"large"})
    BY <1>3 DEF AtWork
  <1>5. \A t \in CopyThread : copying[t] = NoCopy
    BY <1>1
  <1>6. LargeThread \in CopyThread /\ SmallThread \subseteq CopyThread
    BY DEF CopyThread
  <1>7. JobsInv
    BY <1>1, <1>2, <1>4, SSDAssumption DEF JobsInv
  <1>8. MapInv
    BY <1>1, <1>4 DEF MapInv
  <1>9. CountInv
    <2>1. ToCount = {}
      BY <1>1, <1>2, <1>4 DEF ToCount
    <2> QED BY <1>1, <2>1, FS_EmptySet DEF CountInv
  <1>10. LargeInv
    BY <1>1, <1>2, <1>5, <1>6 DEF LargeInv
  <1>11. SmallInv
    BY <1>1, <1>5, <1>6 DEF SmallInv, InSmallCopy
  <1>12. ProcessedInv
    <2>1. ASSUME NEW s \in Source PROVE Processed(s) = {}
      <3>1. \A p \in SmallFiles(s) : SourceOf[p] = s
        BY <1>0, ToCopyIs
      <3> QED BY <1>2, <3>1 DEF Processed, SmallLeft
    <2>2. \A s \in Source : processed[s] = Cardinality(Processed(s))
      BY <1>1, <2>1, FS_EmptySet
    <2> QED BY <1>1, <1>5, <1>6, <2>2 DEF ProcessedInv, Marks
  <1> QED BY <1>7, <1>8, <1>9, <1>10, <1>11, <1>12 DEF Places

-----------------------------------------------------------------------------
(* Types, step by step.                                                    *)
TypeLocal ==
  /\ copying' \in [CopyThread -> CopyState \cup {NoCopy}]
  /\ processed' \in [Source -> 0 .. Cardinality(Path)]
  /\ smallQueue' \subseteq Path /\ refused' \subseteq Path /\ largeTask' \in LargeTask \cup {NoTask}

LEMMA TypeMain ==
  ASSUME TypeOK, MainStep, UNCHANGED alive
  PROVE  TypeOK'
  <1>1. /\ UNCHANGED <<mode, scanned, src, newest, dest, short, bin, copied, entries, wpc, inMap, smallDone, largeDone,
                       processed, smallQueue, godQueue, godRunning, largeQueue, largeTask, copying, refused, alive>>
        /\ lpc' \in {lpc, "check"} /\ largeRunning' \in {largeRunning, FALSE}
    BY DEF MainStep, MainRuns, Stop, StopNotifies, JoinLargeFileThread, files, disk, status, small, large
  <1>2. UNCHANGED running /\ left' \subseteq left
    BY DEF MainStep, MainRuns, Stop, StopNotifies, JoinLargeFileThread, IncrementPendingSources, SubmitUpdate,
       JoinUpdates, UpdatesJoined, MarkAllSourcesSubmitted, MainBlocks, WaitUntilDone, Pool!Submit, Pool!JoinCall,
       Pool!JoinReturn, main, pool
  <1>3. /\ pending' \in {pending, pending + 1} /\ allSubmitted' \in {allSubmitted, TRUE}
        /\ mainWaits' \in {mainWaits, TRUE, FALSE}
        /\ mpc' \in {"update", "submit", "join", "markAll", "wait", "stop", "stopNotify", "joinThread", "done"}
    BY DEF MainStep, MainRuns, Stop, StopNotifies, JoinLargeFileThread, IncrementPendingSources, SubmitUpdate,
       JoinUpdates, UpdatesJoined, MarkAllSourcesSubmitted, MainBlocks, WaitUntilDone, counts, main, TypeOK
  <1>4. queue' \in Seq(Source)
    <2>1. queue' = queue \/ \E s \in Source : queue' = Append(queue, s)
      BY DEF MainStep, MainRuns, Stop, StopNotifies, JoinLargeFileThread, IncrementPendingSources, SubmitUpdate,
         JoinUpdates, UpdatesJoined, MarkAllSourcesSubmitted, MainBlocks, WaitUntilDone, Pool!Submit, Pool!JoinCall,
         Pool!JoinReturn, main, pool
    <2>2. queue \in Seq(Source)
      BY DEF TypeOK
    <2> QED BY <2>1, <2>2, AppendIs
  <1>5. pending' \in Nat /\ {allSubmitted', mainWaits', largeRunning', alive'} \subseteq BOOLEAN
    <2>1. pending \in Nat /\ allSubmitted \in BOOLEAN /\ mainWaits \in BOOLEAN /\ largeRunning \in BOOLEAN
          /\ alive \in BOOLEAN
      BY DEF TypeOK
    <2>2. pending' \in Nat
      BY <1>3, <2>1
    <2>3. allSubmitted' \in BOOLEAN
      BY <1>3, <2>1
    <2>4. mainWaits' \in BOOLEAN
      BY <1>3, <2>1
    <2>5. largeRunning' \in BOOLEAN /\ alive' \in BOOLEAN
      BY <1>1, <2>1
    <2> QED BY <2>2, <2>3, <2>4, <2>5
  <1>6. left' \subseteq Source /\ lpc' \in {"none", "check", "block", "waiting", "work", "exited"}
    BY <1>1, <1>2 DEF TypeOK
  <1> QED BY <1>1, <1>2, <1>3, <1>4, <1>5, <1>6 DEF TypeOK

(* The part of the type that a step of a job, a GodSpeed job, the large    *)
(* thread or a copy may change through MarkQueueDoneAndCheck.              *)
FlagTypes ==
  /\ dest' \in [Path -> Version \cup {Absent, Torn}] /\ bin' \in [Source -> Cache(Path, Version, MaxMiss)]
  /\ entries' \in Cache(Path, Version, MaxMiss)
  /\ copied' \subseteq Source /\ inMap' \subseteq Source /\ smallDone' \subseteq inMap' /\ largeDone' \subseteq inMap'
  /\ pending' \in Nat /\ {allSubmitted', mainWaits'} \subseteq BOOLEAN /\ short' \subseteq Path

LEMMA NoFlagTypes ==
  ASSUME TypeOK, UNCHANGED <<disk, counts, status>>
  PROVE  FlagTypes
  BY DEF TypeOK, disk, counts, status, FlagTypes

LEMMA MarkedTypes ==
  ASSUME Control, NEW s \in Source, SmallQueueDone(s) \/ LargeQueueDone(s)
  PROVE  FlagTypes
  <1>1. TypeOK /\ CountInv
    BY DEF Control, Places
  <1>2. CASE SmallQueueDone(s)
    BY <1>1, <1>2, FlagsType DEF SmallQueueDone, FlagTypes
  <1>3. CASE LargeQueueDone(s)
    BY <1>1, <1>3, FlagsType DEF LargeQueueDone, FlagTypes
  <1> QED BY <1>2, <1>3

LEMMA TypeJob ==
  ASSUME Control, NEW w \in Worker, JobStep(w), UNCHANGED alive
  PROVE  TypeOK'
  <1> PICK s : s = running[w]
    OBVIOUS
  <1>0. TypeOK /\ JobsInv
    BY DEF Control, Places
  <1>1. /\ UNCHANGED <<mode, scanned, src, newest, mpc, left, copying, refused, alive>>
        /\ processed' = processed /\ godRunning' = godRunning /\ largeRunning' = largeRunning /\ largeTask' = largeTask
    BY DEF JobStep, files, main, TakeJob, NothingToCopy, SaveUnchanged, EnterMap, SubmitSmallFiles, SubmitLargeFiles,
       small, large, NotifyLargeQueue
  <1>2. ASSUME wpc[w] # "idle" PROVE s \in Source
    BY <1>0, <1>2, WorkerIs
  <1>3. /\ queue' \in Seq(Source) /\ running' \in [Worker -> Source \cup {NoJob}]
        /\ wpc' \in [Worker -> {"idle", "sync", "save", "small", "large"}]
    <2>1. CASE TakeJob(w)
      <3>1. queue # <<>> /\ queue \in Seq(Source) /\ queue' = Tail(queue) /\ running' = [running EXCEPT ![w] = Head(queue)]
            /\ wpc' = [wpc EXCEPT ![w] = "sync"]
        BY <1>0, <2>1 DEF TakeJob, Pool!Take, TypeOK
      <3>2. Tail(queue) \in Seq(Source) /\ Head(queue) \in Source
        BY <3>1, TailIs
      <3> QED BY <1>0, <3>1, <3>2 DEF TypeOK
    <2>2. CASE Goto(w, "save") \/ Goto(w, "small") \/ Goto(w, "large")
      BY <1>0, <2>2 DEF Goto, pool, TypeOK
    <2>3. CASE EndJob(w)
      BY <1>0, <2>3 DEF EndJob, Pool!Finish, TypeOK
    <2> QED BY <2>1, <2>2, <2>3 DEF JobStep, NothingToCopy, SaveUnchanged, EnterMap, SubmitSmallFiles, SubmitLargeFiles
  <1>4. FlagTypes
    <2>1. CASE TakeJob(w)
      BY <1>0, <2>1, NoFlagTypes DEF TakeJob
    <2>2. CASE NothingToCopy(w)
      <3>1. pending \in Nat /\ allSubmitted \in BOOLEAN
        BY <1>0 DEF TypeOK
      <3>2. pending' \in Nat /\ {allSubmitted', mainWaits'} \subseteq BOOLEAN
        <4>1. pending' \in Nat
          BY <2>2, <3>1 DEF NothingToCopy
        <4>2. mainWaits' = FALSE /\ allSubmitted' = allSubmitted
          BY <2>2 DEF NothingToCopy
        <4> QED BY <3>1, <4>1, <4>2
      <3>3. UNCHANGED <<disk, status>>
        BY <2>2 DEF NothingToCopy
      <3> QED BY <1>0, <3>2, <3>3 DEF disk, status, TypeOK, FlagTypes
    <2>3. CASE SaveUnchanged(w)
      <3>1. s \in Source
        BY <1>2, <2>3 DEF SaveUnchanged
      <3>2. /\ dest' \in [Path -> Version \cup {Absent, Torn}] /\ bin' \in [Source -> Cache(Path, Version, MaxMiss)]
        BY <1>0, <2>3, <3>1, MarkedType, RefreshedType, DestWithoutType DEF SaveUnchanged, TypeOK
      <3> QED BY <1>0, <2>3, <3>2 DEF SaveUnchanged, counts, status, TypeOK, FlagTypes
    <2>4. CASE EnterMap(w)
      BY <1>0, <1>2, <2>4 DEF EnterMap, disk, counts, TypeOK, FlagTypes
    <2>5. CASE SubmitSmallFiles(w)
      BY <1>0, <1>2, <2>5, NoFlagTypes, MarkedTypes DEF SubmitSmallFiles
    <2>6. CASE SubmitLargeFiles(w)
      BY <1>0, <1>2, <2>6, NoFlagTypes, MarkedTypes DEF SubmitLargeFiles
    <2> QED BY <2>1, <2>2, <2>3, <2>4, <2>5, <2>6 DEF JobStep
  <1>5. smallQueue' \subseteq Path /\ godQueue' \subseteq Source
    <2>1. CASE SubmitSmallFiles(w)
      <3>1. s \in Source
        BY <1>2, <2>1 DEF SubmitSmallFiles
      <3>2. SmallFiles(s) \subseteq Path
        BY <1>0, <3>1, ToCopyIs
      <3> QED BY <1>0, <2>1, <3>1, <3>2 DEF SubmitSmallFiles, small, TypeOK
    <2>2. CASE ~SubmitSmallFiles(w)
      BY <1>0, <2>2 DEF JobStep, TakeJob, NothingToCopy, SaveUnchanged, EnterMap, SubmitLargeFiles, small, TypeOK
    <2> QED BY <2>1, <2>2
  <1>6. largeQueue' \in Seq(Source) /\ lpc' \in {lpc, "check"}
    <2>1. CASE SubmitLargeFiles(w)
      <3>1. s \in Source
        BY <1>2, <2>1 DEF SubmitLargeFiles
      <3>2. largeQueue \in Seq(Source)
        BY <1>0 DEF TypeOK
      <3> QED BY <2>1, <3>1, <3>2, AppendIs DEF SubmitLargeFiles, NotifyLargeQueue, large
    <2>2. CASE ~SubmitLargeFiles(w)
      BY <1>0, <2>2 DEF JobStep, TakeJob, NothingToCopy, SaveUnchanged, EnterMap, SubmitSmallFiles, large, TypeOK
    <2> QED BY <2>1, <2>2
  <1> QED BY <1>0, <1>1, <1>3, <1>4, <1>5, <1>6 DEF TypeOK, FlagTypes

LEMMA TypeGod ==
  ASSUME Control, NEW s \in Source, GodStep(s), UNCHANGED alive
  PROVE  TypeOK'
  <1>0. TypeOK
    BY DEF Control
  <1>1. FlagTypes
    BY <1>0, NoFlagTypes, MarkedTypes DEF GodStep, GodJobSubmits, GodJobMarks
  <1>2. SmallFiles(s) \subseteq Path
    BY <1>0, ToCopyIs
  <1>3. /\ smallQueue' \subseteq Path /\ godQueue' \subseteq Source /\ godRunning' \subseteq Source
        /\ processed' = processed
    BY <1>0, <1>2 DEF GodStep, GodJobSubmits, GodJobMarks, TypeOK
  <1>4. UNCHANGED <<mode, scanned, src, newest, mpc, left, queue, running, wpc, largeRunning, largeQueue, lpc, largeTask,
                    copying, refused, alive>>
    BY DEF GodStep, files, main, pool, large
  <1> QED BY <1>0, <1>1, <1>3, <1>4 DEF TypeOK, FlagTypes

LEMMA TypeLarge ==
  ASSUME Control, LargeStep \/ LargeSpuriousWake, UNCHANGED alive
  PROVE  TypeOK'
  <1>0. TypeOK /\ LargeInv
    BY DEF Control, Places
  <1>1. FlagTypes
    <2>1. CASE LargeMarks
      <3>1. largeTask.source \in Source
        BY <1>0, <2>1 DEF LargeMarks, LargeInv, TypeOK, LargeTask
      <3> QED BY <2>1, <3>1, MarkedTypes DEF LargeMarks
    <2>2. CASE ~LargeMarks
      BY <1>0, <2>2, NoFlagTypes DEF LargeStep, LargeSpuriousWake, NothingForLarge, LargeBlocks, LargeExits, TakeLargeQueue
    <2> QED BY <2>1, <2>2
  <1>2. /\ largeQueue' \in Seq(Source) /\ largeTask' \in LargeTask \cup {NoTask} /\ largeRunning' = largeRunning
        /\ lpc' \in {"none", "check", "block", "waiting", "work", "exited"}
    <2>1. CASE TakeLargeQueue
      <3>1. largeQueue \in Seq(Source) /\ largeQueue # <<>>
        BY <1>0, <2>1 DEF TakeLargeQueue, TypeOK
      <3>2. Tail(largeQueue) \in Seq(Source) /\ Head(largeQueue) \in Source
        BY <3>1, TailIs
      <3>3. LargeFiles(Head(largeQueue)) \subseteq Path
        BY <1>0, <3>2, ToCopyIs
      <3> QED BY <2>1, <3>2, <3>3 DEF TakeLargeQueue, LargeTask
    <2>2. CASE ~TakeLargeQueue
      BY <1>0, <2>2 DEF LargeStep, LargeSpuriousWake, NothingForLarge, LargeBlocks, LargeExits, LargeMarks, LargeGoto, TypeOK
    <2> QED BY <2>1, <2>2
  <1>3. UNCHANGED <<mode, scanned, src, newest, mpc, left, queue, running, wpc, processed, smallQueue, godQueue,
                    godRunning, copying, refused, alive>>
    BY DEF LargeStep, LargeSpuriousWake, files, main, pool, small
  <1> QED BY <1>0, <1>1, <1>2, <1>3 DEF TypeOK, FlagTypes

LEMMA TypeCopy ==
  ASSUME Control, NEW t \in CopyThread, CopyStep(t), UNCHANGED alive
  PROVE  TypeOK'
  <1> PICK p : p = copying[t].path
    OBVIOUS
  <1>0. TypeOK /\ LargeInv
    BY DEF Control, Places
  <1>1. ASSUME copying[t] # NoCopy PROVE p \in Path /\ SourceOf[p] \in Source /\ copying[t] \in CopyState
    BY <1>1, CopyIs
  <1>2. FlagTypes
    <2>1. CASE copying[t] # NoCopy /\ LastFileMarks(t)
      BY <1>1, <2>1, MarkedTypes DEF LastFileMarks
    <2>2. CASE StartSmall(t) \/ StartLarge(t) \/ CopyRefused(t)
      BY <1>0, <2>2, NoFlagTypes DEF StartSmall, StartLarge, CopyRefused
    <2>3. CASE copying[t] # NoCopy /\ OpenDestination(t)
      <3>1. dest' \in [Path -> Version \cup {Absent, Torn}]
        BY <1>0, <2>3 DEF OpenDestination, TypeOK
      <3> QED BY <1>0, <2>3, <3>1 DEF OpenDestination, counts, status, TypeOK, FlagTypes
    <2>4. CASE copying[t] # NoCopy /\ FinishCopy(t)
      <3>1. PICK v \in Outcomes(copying[t]) :
              /\ dest' = [dest EXCEPT ![p] = v]
              /\ short' = IF v = Torn /\ Unedited(copying[t]) THEN short \cup {p} ELSE short
        BY <2>4 DEF FinishCopy
      <3>2. copying[t].version \in Version /\ src[p] \in Version \cup {Absent}
        BY <1>0, <1>1, <2>4 DEF FinishCopy, TypeOK, CopyState
      <3>3. v \in Version \cup {Absent, Torn}
        BY <3>1, <3>2 DEF Outcomes, Unedited
      <3>4. dest' \in [Path -> Version \cup {Absent, Torn}]
        BY <1>0, <3>1, <3>3 DEF TypeOK
      <3>5. short' \subseteq Path
        BY <1>0, <1>1, <2>4, <3>1 DEF TypeOK
      <3> QED BY <1>0, <2>4, <3>4, <3>5 DEF FinishCopy, counts, status, TypeOK, FlagTypes
    <2> QED BY <2>1, <2>2, <2>3, <2>4 DEF CopyStep
  <1>3. TypeLocal
    <2>1. CASE copying[t] # NoCopy /\ (CopyRefused(t) \/ FinishCopy(t))
      <3>1. UNCHANGED <<smallQueue, largeTask>>
        BY <2>1 DEF CopyRefused, FinishCopy
      <3> QED BY <1>0, <2>1, <3>1, EndsPlaces DEF TypeOK, TypeLocal
    <2>2. ASSUME UNCHANGED <<processed, refused>>, smallQueue' \subseteq smallQueue,
                 largeTask' \in LargeTask \cup {NoTask},
                 \E c \in CopyState \cup {NoCopy} : copying' = [copying EXCEPT ![t] = c]
          PROVE  TypeLocal
      BY <1>0, <2>2 DEF TypeOK, TypeLocal
    <2>3. CASE StartSmall(t)
      <3>1. PICK q \in smallQueue : smallQueue' = smallQueue \ {q} /\ copying' = [copying EXCEPT ![t] = Copy(q, "start", 0)]
        BY <2>3 DEF StartSmall, Becomes
      <3>2. Copy(q, "start", 0) \in CopyState
        BY <1>0, <3>1, CopyValues DEF TypeOK
      <3> QED BY <1>0, <2>2, <2>3, <3>1, <3>2 DEF StartSmall, TypeOK
    <2>4. CASE StartLarge(t)
      <3>1. PICK q \in largeTask.todo : /\ largeTask' = [largeTask EXCEPT !.todo = @ \ {q}]
                                        /\ copying' = [copying EXCEPT ![t] = Copy(q, "start", 0)]
        BY <2>4 DEF StartLarge, Becomes
      <3>2. largeTask \in LargeTask
        BY <1>0, <2>4 DEF StartLarge, LargeInv, TypeOK
      <3>3. largeTask' \in LargeTask /\ Copy(q, "start", 0) \in CopyState
        BY <3>1, <3>2, CopyValues DEF LargeTask
      <3> QED BY <2>2, <2>4, <3>1, <3>3 DEF StartLarge, small
    <2>5. CASE copying[t] # NoCopy /\ OpenDestination(t)
      <3>1. src[p] \in Version /\ copying' = [copying EXCEPT ![t] = Copy(p, "open", src[p])]
        BY <1>0, <1>1, <2>5 DEF OpenDestination, Becomes, TypeOK
      <3>2. Copy(p, "open", src[p]) \in CopyState
        BY <1>1, <2>5, <3>1, CopyValues
      <3> QED BY <1>0, <2>2, <2>5, <3>1, <3>2 DEF OpenDestination, small, TypeOK
    <2>6. CASE LastFileMarks(t)
      BY <1>0, <2>2, <2>6 DEF LastFileMarks, Becomes, small, TypeOK
    <2> QED BY <2>1, <2>3, <2>4, <2>5, <2>6 DEF CopyStep
  <1>4. godQueue' = godQueue /\ godRunning' = godRunning
    BY DEF CopyStep, StartSmall, StartLarge, OpenDestination, CopyRefused, FinishCopy, LastFileMarks, small
  <1>5. UNCHANGED <<mode, scanned, src, newest, mpc, left, queue, running, wpc, largeRunning, largeQueue, lpc, alive>>
    BY DEF CopyStep, files, main, pool
  <1> QED BY <1>0, <1>2, <1>3, <1>4, <1>5 DEF TypeOK, FlagTypes, TypeLocal

LEMMA ControlStep == Control /\ [Next]_vars => Control'
  <1> SUFFICES ASSUME Control, [Next]_vars PROVE Control'
    OBVIOUS
  <1>0. TypeOK
    BY DEF Control
  <1>1. CASE Next
    <2>1. TypeOK'
      <3>1. CASE Edit /\ UNCHANGED alive
        <4>1. src' \in [Path -> Version \cup {Absent}] /\ newest' \in [Path -> 0 .. MaxVersion]
          <5>1. PICK p \in Edited :
                  \/ newest[p] < MaxVersion /\ src' = [src EXCEPT ![p] = newest[p] + 1]
                     /\ newest' = [newest EXCEPT ![p] = @ + 1]
                  \/ src' = [src EXCEPT ![p] = Absent] /\ newest' = newest
            BY <3>1 DEF Edit
          <5>2. p \in Path /\ newest[p] \in 0 .. MaxVersion
            BY <1>0, SSDAssumption DEF TypeOK
          <5>3. newest[p] < MaxVersion => newest[p] + 1 \in Version /\ newest[p] + 1 \in 0 .. MaxVersion
            BY <5>2, SSDAssumption DEF Version
          <5> QED BY <1>0, <5>1, <5>2, <5>3 DEF TypeOK
        <4> QED BY <1>0, <3>1, <4>1 DEF Edit, disk, main, pool, counts, status, small, large, TypeOK
      <3>2. CASE MainSpuriousWake /\ UNCHANGED alive
        BY <1>0, <3>2 DEF MainSpuriousWake, files, disk, main, pool, status, small, large, TypeOK
      <3>3. CASE ExitOnFailure
        BY <1>0, <3>3 DEF ExitOnFailure, files, disk, main, pool, counts, status, small, large, TypeOK
      <3> QED BY <1>0, <1>1, <3>1, <3>2, <3>3, TypeMain, TypeJob, TypeGod, TypeLarge, TypeCopy DEF Next
    <2> QED BY <1>1, <2>1, PlacesStep DEF Control
  <1>2. CASE UNCHANGED vars
    <2>1. TypeOK'
      BY <1>0, <1>2 DEF vars, files, disk, main, pool, counts, status, small, large, TypeOK
    <2>2. UNCHANGED <<mode, scanned, bin, copied, inMap, smallDone, largeDone, pending, main, pool, wpc,
                      refused, processed, smallQueue, godQueue, godRunning, largeQueue, lpc, largeTask, copying>>
      BY <1>2 DEF vars, disk, counts, status, small, large
    <2>3. Places'
      BY <2>2, StillPlaces DEF SameCopy
    <2> QED BY <2>1, <2>3 DEF Control
  <1> QED BY <1>1, <1>2

(* Where the sources and files of a run are, and how the counters follow   *)
(* them: the invariant every other result on SSDSync rests on.             *)
THEOREM ControlAlways == Spec => []Control
  <1>1. Init => Control
    BY TypeInit, InitPlaces DEF Control
  <1> QED BY <1>1, ControlStep, PTL DEF Spec

-----------------------------------------------------------------------------
(* Every variable of the copy phase keeps the values the code gives it:    *)
(* filesProcessed never exceeds the number of files, and                   *)
(* SSDPendingSources, decremented without a test, never wraps.             *)
THEOREM TypeCorrect == Spec => []TypeOK
  BY ControlAlways, PTL DEF Control

(* SSDPendingSources is exactly the number of sources submitted and        *)
(* neither saved nor found unchanged, so that WaitUntilDone cannot return  *)
(* early and the counter cannot wrap (SSDCopyQueue's decrements).          *)
THEOREM PendingCountsAlways == Spec => []PendingCounts
  <1>1. Control => PendingCounts
    <2> SUFFICES ASSUME Control PROVE PendingCounts
      OBVIOUS
    <2>1. ToCount = {s \in Source : \/ s \in inMap
                                    \/ \E i \in DOMAIN queue : queue[i] = s
                                    \/ \E w \in Worker : running[w] = s /\ wpc[w] = "sync"}
      BY DEF ToCount, Queued, SubmitterAt
    <2> QED BY <2>1 DEF Control, Places, CountInv, PendingCounts
  <1> QED BY <1>1, ControlAlways, PTL

LEMMA WorkingInMap ==
  ASSUME Control, NEW p \in Path, Working(p)
  PROVE  SourceOf[p] \in inMap /\ SourceOf[p] \notin copied
  <1>0. TypeOK /\ MapInv /\ LargeInv /\ SmallInv /\ SourceOf[p] \in Source
    BY SSDAssumption DEF Control, Places
  <1>1. CASE InCopy(p)
    <2>1. CASE p \in smallQueue
      BY <1>0, <2>1 DEF SmallInv, MapInv
    <2>2. CASE \E t \in CopyThread : copying[t] # NoCopy /\ copying[t].path = p
      BY <2>2, CopyIs
    <2>3. SourceOf[p] \in inMap
      BY <1>1, <2>1, <2>2 DEF InCopy
    <2> QED BY <1>0, <2>3 DEF MapInv
  <1>2. CASE largeTask # NoTask /\ p \in largeTask.todo
    <2>1. PICK s \in Source : s = largeTask.source
      BY <1>0, <1>2 DEF TypeOK, LargeTask
    <2>2. p \in LargeFiles(s) /\ s \in inMap
      BY <1>0, <1>2, <2>1 DEF LargeInv, InLargeTask
    <2>3. SourceOf[p] = s
      BY <1>0, <2>2, ToCopyIs
    <2> QED BY <1>0, <2>2, <2>3 DEF MapInv
  <1>3. CASE SourceOf[p] \in godQueue
    BY <1>0, <1>3 DEF SmallInv, MapInv
  <1>4. CASE \E i \in DOMAIN largeQueue : largeQueue[i] = SourceOf[p]
    BY <1>0, <1>4 DEF LargeInv, MapInv, InLargeQueue
  <1> QED BY <1>1, <1>2, <1>3, <1>4 DEF Working

(* MarkQueueDoneAndCheck saves a source only when no copy of any of its    *)
(* files is queued or under way, whichever queue ends first, in every mode *)
(* and for any number of threads and sources.                              *)
THEOREM SavedAfterLastCopyAlways == Spec => []SavedAfterLastCopy
  <1>1. Control => SavedAfterLastCopy
    BY WorkingInMap DEF SavedAfterLastCopy
  <1> QED BY <1>1, ControlAlways, PTL

(* When WaitUntilDone has returned, no file is queued or being copied, so  *)
(* that Stop cannot cut a copy short.                                      *)
THEOREM SettledAlways == Spec => []Settled
  <1>1. Control => Settled
    <2> SUFFICES ASSUME Control, mpc \in {"stop", "stopNotify", "joinThread", "done"}, NEW p \in Path, Working(p)
                 PROVE  FALSE
      BY DEF Settled
    <2>1. TypeOK /\ CountInv /\ pending = 0
      BY DEF Control, Places, CountInv
    <2>2. SourceOf[p] \in ToCount
      BY WorkingInMap, SSDAssumption DEF ToCount
    <2> QED BY <2>1, <2>2, NothingCounted
  <1> QED BY <1>1, ControlAlways, PTL

LEMMA ControlNoSourceForgotten == Control => NoSourceForgotten
  <1> SUFFICES ASSUME Control, NEW s \in inMap
               PROVE  /\ \/ s \in smallDone
                         \/ SubmitterAt(s, {"small"}) \/ s \in godQueue
                         \/ \E p \in SmallFiles(s) : InCopy(p)
                         \/ mode \in {"Parallel", "Balanced"} /\ SmallFiles(s) \cap refused # {}
                      /\ \/ s \in largeDone
                         \/ SubmitterAt(s, {"small", "large"})
                         \/ \E i \in DOMAIN largeQueue : largeQueue[i] = s
                         \/ largeTask # NoTask /\ largeTask.source = s
    BY DEF NoSourceForgotten
  <1>0. TypeOK /\ MapInv /\ LargeInv /\ SmallInv /\ ProcessedInv /\ s \in Source /\ s \notin copied /\ ~Waiting(s)
    BY DEF Control, Places, TypeOK, MapInv
  <1>1. \/ s \in largeDone
        \/ SubmitterAt(s, {"small", "large"})
        \/ \E i \in DOMAIN largeQueue : largeQueue[i] = s
        \/ largeTask # NoTask /\ largeTask.source = s
    BY <1>0 DEF LargeInv, InLargeQueue, InLargeTask
  <1>2. ASSUME s \notin smallDone, ~SubmitterAt(s, {"small"}), s \notin godQueue,
               \A p \in SmallFiles(s) : ~InCopy(p),
               ~(mode \in {"Parallel", "Balanced"} /\ SmallFiles(s) \cap refused # {})
        PROVE  FALSE
    <2>1. SmallThread \subseteq CopyThread
      BY DEF CopyThread
    <2>2. ASSUME NEW p \in SmallFiles(s) PROVE ~SmallLeft(p) /\ p \notin Uncounted
      <3>1. SourceOf[p] = s
        BY <1>0, ToCopyIs
      <3> QED BY <1>0, <1>2, <2>1, <2>2, <3>1 DEF SmallLeft, InCopy, Copies, Uncounted
    <2>3. Processed(s) = SmallFiles(s)
      BY <2>2 DEF Processed
    <2>4. PICK t \in SmallThread : Marks(t, s)
      BY <1>0, <1>2, <2>3 DEF ProcessedInv, AllProcessed
    <2>5. copying[t].path \in SmallFiles(s) /\ InCopy(copying[t].path)
      <3>1. t # LargeThread /\ t \in CopyThread
        BY <2>1, SSDAssumption
      <3> QED BY <2>4, <3>1, CopyIs DEF Marks, InCopy
    <2> QED BY <1>2, <2>5
  <1> QED BY <1>1, <1>2

(* No source is left in SSDSourceStatusMap with a flag that nobody will    *)
(* set, but for the failed copies SmallFileThreadPool does not count: the  *)
(* thread that counts the last small file is the one that marks it.        *)
THEOREM NoSourceForgottenAlways == Spec => []NoSourceForgotten
  BY ControlNoSourceForgotten, ControlAlways, PTL

-----------------------------------------------------------------------------
(* What is in the destination.                                             *)
LEMMA Values ==
  ASSUME TypeOK, NEW p \in Path
  PROVE  /\ SourceOf[p] \in Source /\ newest[p] \in Nat /\ Version \subseteq Nat
         /\ src[p] # Absent => src[p] \in Nat
         /\ scanned[p] # Absent => scanned[p] \in Nat /\ scanned[p] \in Version
         /\ \A s \in Source : p \in DOMAIN bin[s] => bin[s][p].hash \in Nat /\ bin[s][p].hash \in Version
         /\ p \in DOMAIN entries => entries[p].miss \in 0 .. MaxMiss
  <1>1. \A c \in Cache(Path, Version, MaxMiss) : p \in DOMAIN c => c[p].hash \in Version /\ c[p].miss \in 0 .. MaxMiss
    BY DEF Cache
  <1>2. Version \subseteq Nat
    BY DEF Version
  <1>3. bin \in [Source -> Cache(Path, Version, MaxMiss)] /\ entries \in Cache(Path, Version, MaxMiss)
    BY DEF TypeOK
  <1>4. \A s \in Source : p \in DOMAIN bin[s] => bin[s][p].hash \in Nat /\ bin[s][p].hash \in Version
    BY <1>1, <1>2, <1>3
  <1>5. p \in DOMAIN entries => entries[p].miss \in 0 .. MaxMiss
    BY <1>1, <1>3
  <1>6. SourceOf[p] \in Source /\ newest[p] \in Nat
    BY SSDAssumption DEF TypeOK
  <1>7. src[p] \in Version \cup {Absent} /\ scanned[p] \in Version \cup {Absent}
    BY DEF TypeOK
  <1> QED BY <1>2, <1>4, <1>5, <1>6, <1>7

(* A file that is being copied is cached with an older version than the    *)
(* scanned one, or not at all.                                             *)
LEMMA Outdated ==
  ASSUME Control, Truth, NEW p \in Path, p \in ToCopy(SourceOf[p])
  PROVE  /\ scanned[p] # Absent
         /\ p \in DOMAIN bin[SourceOf[p]] => bin[SourceOf[p]][p].hash # newest[p]
  <1>1. TypeOK /\ SourceOf[p] \in Source
    BY SSDAssumption DEF Control
  <1>2. scanned[p] # Absent /\ (p \in DOMAIN bin[SourceOf[p]] => bin[SourceOf[p]][p].hash # scanned[p])
    BY <1>1, ToCopyIs
  <1> QED BY <1>1, <1>2, Values DEF Truth, VersionsInv

(* What is copied no more, whether it had to be copied or not, is in the   *)
(* destination.                                                            *)
LEMMA Arrived ==
  ASSUME Control, Truth, NEW X, Kept(X), NEW p \in (Path \ refused) \ X,
         scanned[p] # Absent, scanned[p] = newest[p], ~ToBeCopied(p)'
  PROVE  dest[p] = newest[p] \/ p \in short
  <1>1. TypeOK /\ SourceOf[p] \in Source
    BY SSDAssumption DEF Control
  <1>2. CASE ~ToBeCopied(p)
    BY <1>2 DEF Truth, ScannedInv
  <1>3. CASE p \notin ToCopy(SourceOf[p])
    <2>1. p \in DOMAIN bin[SourceOf[p]] /\ bin[SourceOf[p]][p].hash = scanned[p]
      BY <1>1, <1>3, ToCopyIs
    <2> QED BY <2>1 DEF Truth, CachedInv
  <1> QED BY <1>2, <1>3 DEF Kept

(* Steps that change neither the destination nor a cache.                  *)
LEMMA DiskSame ==
  ASSUME Control, Truth, Kept({}), UNCHANGED <<src, newest, scanned, dest, short, bin, copied, entries, refused>>,
         \A t \in CopyThread : copying'[t] # NoCopy /\ copying'[t].stage = "open" => copying'[t] = copying[t]
  PROVE  Truth'
  <1>1. VersionsInv' /\ EntriesInv' /\ CachedInv'
    BY DEF Truth, VersionsInv, EntriesInv, CachedInv
  <1>2. OwnInv'
    BY DEF Truth, OwnInv, FilesOf
  <1>3. OpenInv'
    BY DEF Truth, OpenInv
  <1>4. ScannedInv'
    <2>1. ASSUME NEW p \in Path \ refused, scanned[p] # Absent, scanned[p] = newest[p], ~ToBeCopied(p)'
          PROVE  dest[p] = newest[p] \/ p \in short
      BY <2>1, Arrived
    <2> QED BY <2>1 DEF ScannedInv
  <1> QED BY <1>1, <1>2, <1>3, <1>4 DEF Truth

(* A user's edit makes a version that nothing knows.                       *)
LEMMA EditTruth ==
  ASSUME Control, Truth, Edit
  PROVE  Truth'
  <1>0. /\ TypeOK
        /\ UNCHANGED <<mode, scanned, dest, short, bin, copied, entries, inMap, smallDone, largeDone, pending, main, pool,
                       wpc, refused, processed, smallQueue, godQueue, godRunning, largeQueue, lpc, largeTask, copying>>
    BY DEF Control, Edit, disk, counts, status, small, large
  <1>1. Kept({})
    BY <1>0, StillPlaces DEF SameCopy
  <1>2. ASSUME NEW p \in Path
        PROVE  /\ newest'[p] \in Nat /\ newest[p] <= newest'[p] /\ (newest'[p] # newest[p] => src'[p] = newest'[p])
               /\ src'[p] # Absent => src'[p] = newest'[p] /\ (src'[p] = src[p] \/ src'[p] > newest[p])
    <2>1. /\ newest[p] \in Nat /\ (src[p] # Absent => src[p] = newest[p])
          /\ src \in [Path -> Version \cup {Absent}] /\ newest \in [Path -> 0 .. MaxVersion]
      BY <1>0, Values DEF Truth, VersionsInv, TypeOK
    <2>2. PICK q \in Edited :
            \/ /\ newest[q] < MaxVersion
               /\ src' = [src EXCEPT ![q] = newest[q] + 1] /\ newest' = [newest EXCEPT ![q] = @ + 1]
            \/ src' = [src EXCEPT ![q] = Absent] /\ newest' = newest
      BY DEF Edit
    <2>3. q \in Path
      BY SSDAssumption
    <2> QED BY <2>1, <2>2, <2>3
  <1>3. VersionsInv'
    <2>1. ASSUME NEW p \in Path
          PROVE  LET c == bin[SourceOf[p]]
                 IN  /\ src'[p] # Absent => src'[p] = newest'[p]
                     /\ scanned[p] # Absent => scanned[p] <= newest'[p]
                     /\ p \in DOMAIN c /\ scanned[p] # Absent => c[p].hash <= scanned[p]
                     /\ p \in DOMAIN c /\ scanned[p] = Absent /\ src'[p] # Absent => c[p].hash < src'[p]
                     /\ p \in DOMAIN c => c[p].hash <= newest'[p]
      <3> DEFINE c == bin[SourceOf[p]]
      <3>1. /\ scanned[p] # Absent => scanned[p] <= newest[p]
            /\ p \in DOMAIN c /\ scanned[p] # Absent => c[p].hash <= scanned[p]
            /\ p \in DOMAIN c /\ scanned[p] = Absent /\ src[p] # Absent => c[p].hash < src[p]
            /\ p \in DOMAIN c => c[p].hash <= newest[p]
        BY DEF Truth, VersionsInv
      <3>2. /\ p \in DOMAIN c => c[p].hash \in Nat
            /\ scanned[p] # Absent => scanned[p] \in Nat
            /\ newest[p] \in Nat /\ newest'[p] \in Nat
        BY <1>0, <1>2, Values
      <3> QED BY <1>2, <3>1, <3>2
    <2> QED BY <1>0, <2>1 DEF VersionsInv
  <1>4. OwnInv' /\ EntriesInv'
    BY <1>0 DEF Truth, OwnInv, EntriesInv, FilesOf
  <1>5. OpenInv'
    <2>1. ASSUME NEW t \in CopyThread, copying[t] # NoCopy, copying[t].stage = "open"
          PROVE  /\ dest[copying[t].path] = Torn /\ scanned[copying[t].path] <= copying[t].version
                 /\ copying[t].version <= newest'[copying[t].path]
      <3>1. copying[t] \in CopyState
        BY <1>0, <2>1 DEF TypeOK
      <3>2. copying[t].path \in Path /\ copying[t].version \in Nat
        BY <3>1 DEF CopyState, Version
      <3> QED BY <1>0, <1>2, <2>1, <3>2, Values DEF Truth, OpenInv
    <2> QED BY <1>0, <2>1 DEF OpenInv
  <1>6. CachedInv' /\ ScannedInv'
    <2>1. ASSUME NEW p \in Path \ refused, newest'[p] = newest[p]
          PROVE  /\ scanned[p] # Absent /\ p \in DOMAIN bin[SourceOf[p]] /\ bin[SourceOf[p]][p].hash = newest[p] =>
                      dest[p] = newest[p] \/ p \in short
                 /\ scanned[p] # Absent /\ scanned[p] = newest[p] /\ ~ToBeCopied(p)' =>
                      dest[p] = newest[p] \/ p \in short
      BY <1>1, Arrived DEF Truth, CachedInv
    <2>2. ASSUME NEW p \in Path \ refused, newest'[p] # newest[p]
          PROVE  /\ p \in DOMAIN bin[SourceOf[p]] => bin[SourceOf[p]][p].hash # newest'[p]
                 /\ scanned[p] # newest'[p] \/ scanned[p] = Absent
      <3>1. newest'[p] > newest[p] /\ newest[p] \in Nat
        BY <1>0, <1>2, <2>2, Values
      <3> QED BY <1>0, <3>1, Values DEF Truth, VersionsInv
    <2> QED BY <1>0, <2>1, <2>2 DEF CachedInv, ScannedInv
  <1> QED BY <1>3, <1>4, <1>5, <1>6 DEF Truth


(* SaveUnchanged: a source without files to copy is in the destination, and *)
(* what it deletes there is gone.                                          *)
LEMMA MarkedIs ==
  ASSUME NEW c, NEW P, NEW p \in DOMAIN MarkVisited(c, P)
  PROVE  p \in DOMAIN c /\ MarkVisited(c, P)[p].hash = c[p].hash
  BY DEF MarkVisited, Entry

LEMMA MarkedDomain ==
  ASSUME NEW c, NEW P
  PROVE  DOMAIN MarkVisited(c, P) = DOMAIN c
  BY DEF MarkVisited

LEMMA StaleIsOld ==
  ASSUME NEW c, NEW fresh, NEW maxMiss, NEW p \in StaleAfter(c, fresh, maxMiss)
  PROVE  p \in DOMAIN c \ DOMAIN fresh
  <1>1. p \notin DOMAIN fresh
    BY FreshNeverStale
  <1>2. p \in DOMAIN UpdateEntries(c, fresh)
    BY DEF StaleAfter, Stale
  <1> QED BY <1>1, <1>2, UpdatedDomain

LEMMA SaveUnchangedTruth ==
  ASSUME Control, Truth, NEW w \in Worker, JobStep(w), SaveUnchanged(w)
  PROVE  Truth'
  <1> PICK s : s = running[w]
    OBVIOUS
  <1> PICK c : c = MarkVisited(bin[s], DOMAIN Fresh(s))
    OBVIOUS
  <1> PICK X : X = StaleAfter(c, Fresh(s), MaxMiss)
    OBVIOUS
  <1>0. /\ TypeOK /\ JobsInv /\ MapInv /\ wpc[w] = "save" /\ DOMAIN bin = Source
        /\ dest' = DestWithout(X) /\ bin' = [bin EXCEPT ![s] = Refresh(c, Fresh(s), MaxMiss)]
        /\ UNCHANGED <<mode, scanned, src, newest, copying, refused, short, copied, entries>>
    BY DEF Control, Places, JobStep, SaveUnchanged, files, TypeOK
  <1>1. s \in Source /\ SubmitterAt(s, {"save"})
    BY <1>0, WorkerIs
  <1>2. ToCopy(s) = {} /\ s \notin copied /\ s \notin inMap
    <2>1. s \notin copied
      <3>1. SubmitterAt(s, {"save", "small"})
        BY <1>1 DEF SubmitterAt
      <3> QED BY <1>0, <3>1 DEF MapInv
    <2> QED BY <1>0, <1>1, <2>1 DEF JobsInv, MapInv
  <1>3. Kept({})
    BY SaveUnchangedPlaces
  <1>4. /\ DOMAIN Fresh(s) = {p \in FilesOf(s) : scanned[p] # Absent}
        /\ \A p \in DOMAIN Fresh(s) : Fresh(s)[p] = scanned[p]
    BY <1>0, <1>1, FreshType
  <1>5. DOMAIN bin[s] \subseteq FilesOf(s)
    BY <1>1, <1>2 DEF Truth, OwnInv
  <1>6. \A p \in X : p \in FilesOf(s) /\ scanned[p] = Absent
    <2>1. ASSUME NEW p \in X PROVE p \in FilesOf(s) /\ scanned[p] = Absent
      <3>1. p \in DOMAIN c \ DOMAIN Fresh(s)
        BY StaleIsOld
      <3>2. p \in FilesOf(s)
        BY <1>5, <3>1, MarkedDomain
      <3> QED BY <1>4, <3>1, <3>2
    <2> QED BY <2>1
  <1>7. \A p \in Path : p \notin X => dest'[p] = dest[p]
    BY <1>0 DEF DestWithout
  <1>8. \A r \in Source : bin'[r] = IF r = s THEN Refresh(c, Fresh(s), MaxMiss) ELSE bin[r]
    BY <1>0, <1>1
  <1>9. ASSUME NEW p \in DOMAIN bin'[s]
        PROVE  /\ p \in FilesOf(s)
               /\ scanned[p] # Absent => bin'[s][p].hash = scanned[p]
               /\ scanned[p] = Absent => p \in DOMAIN bin[s] /\ bin'[s][p].hash = bin[s][p].hash
    <2>1. \/ p \in DOMAIN Fresh(s) /\ bin'[s][p].hash = Fresh(s)[p]
          \/ p \in DOMAIN c \ DOMAIN Fresh(s) /\ bin'[s][p].hash = c[p].hash
      BY <1>1, <1>8, <1>9, RefreshIs
    <2>2. CASE p \in DOMAIN Fresh(s) /\ bin'[s][p].hash = Fresh(s)[p]
      BY <1>4, <2>2
    <2>3. CASE p \in DOMAIN c \ DOMAIN Fresh(s) /\ bin'[s][p].hash = c[p].hash
      <3>1. p \in DOMAIN bin[s] /\ c[p].hash = bin[s][p].hash
        BY <2>3, MarkedIs
      <3> QED BY <1>4, <1>5, <2>3, <3>1
    <2> QED BY <2>1, <2>2, <2>3
  <1>10. VersionsInv'
    <2>1. ASSUME NEW p \in Path
          PROVE  LET b == bin'[SourceOf[p]]
                 IN  /\ p \in DOMAIN b /\ scanned[p] # Absent => b[p].hash <= scanned[p]
                     /\ p \in DOMAIN b /\ scanned[p] = Absent /\ src[p] # Absent => b[p].hash < src[p]
                     /\ p \in DOMAIN b => b[p].hash <= newest[p]
      <3>1. CASE SourceOf[p] = s
        BY <1>0, <1>9, <3>1, Values DEF Truth, VersionsInv
      <3>2. CASE SourceOf[p] # s
        BY <1>0, <1>8, <3>2, Values DEF Truth, VersionsInv
      <3> QED BY <3>1, <3>2
    <2> QED BY <1>0, <2>1 DEF Truth, VersionsInv
  <1>11. OwnInv'
    BY <1>0, <1>8, <1>9 DEF Truth, OwnInv, FilesOf
  <1>12. EntriesInv'
    BY <1>0 DEF Truth, EntriesInv
  <1>13. OpenInv'
    <2>1. ASSUME NEW t \in CopyThread, copying[t] # NoCopy PROVE dest'[copying[t].path] = dest[copying[t].path]
      <3>1. copying[t].path \in Path /\ SourceOf[copying[t].path] \in inMap
        BY <2>1, CopyIs
      <3>2. copying[t].path \notin X
        BY <1>2, <1>6, <3>1 DEF FilesOf
      <3> QED BY <1>7, <3>1, <3>2
    <2> QED BY <1>0, <2>1 DEF Truth, OpenInv
  <1>14. CachedInv'
    <2>1. ASSUME NEW p \in Path \ refused, scanned[p] # Absent, p \in DOMAIN bin'[SourceOf[p]],
                 bin'[SourceOf[p]][p].hash = newest[p]
          PROVE  dest'[p] = newest[p] \/ p \in short
      <3>1. p \in DOMAIN bin[SourceOf[p]] /\ bin[SourceOf[p]][p].hash = newest[p]
        <4>1. CASE SourceOf[p] = s
          <5>1. p \notin ToCopy(s)
            BY <1>2
          <5>2. p \in DOMAIN bin[s] /\ bin[s][p].hash = scanned[p]
            BY <1>0, <1>1, <2>1, <4>1, <5>1, ToCopyIs
          <5> QED BY <1>9, <2>1, <4>1, <5>2
        <4>2. CASE SourceOf[p] # s
          BY <1>0, <1>8, <2>1, <4>2, Values
        <4> QED BY <4>1, <4>2
      <3>2. dest[p] = newest[p] \/ p \in short
        BY <2>1, <3>1 DEF Truth, CachedInv
      <3> QED BY <1>6, <1>7, <2>1, <3>2
    <2> QED BY <1>0, <2>1 DEF CachedInv
  <1>15. ScannedInv'
    <2>1. ASSUME NEW p \in Path \ refused, scanned[p] # Absent, scanned[p] = newest[p], ~ToBeCopied(p)'
          PROVE  dest'[p] = newest[p] \/ p \in short
      BY <1>3, <1>6, <1>7, <2>1, Arrived
    <2> QED BY <1>0, <2>1 DEF ScannedInv
  <1> QED BY <1>10, <1>11, <1>12, <1>13, <1>14, <1>15 DEF Truth

(* MarkQueueDoneAndCheck: a source is saved when its files have arrived, and *)
(* no live file of another one has been missed for long enough to go.      *)
LEMMA SavedTruth ==
  ASSUME Control, Truth, LiveFilesKept, Kept({}), MapInv', NEW s \in inMap,
         UNCHANGED <<mode, scanned, src, newest, refused>>,
         \A t \in CopyThread : copying'[t] # NoCopy /\ copying'[t].stage = "open" => copying'[t] = copying[t],
         short' = short, entries' = Refresh(entries, Fresh(s), MaxMiss), bin' = [bin EXCEPT ![s] = entries'],
         dest' = DestWithout(StaleAfter(entries, Fresh(s), MaxMiss)), copied' = copied \cup {s}
  PROVE  Truth'
  <1> PICK e : e = Refresh(entries, Fresh(s), MaxMiss)
    OBVIOUS
  <1>0. TypeOK /\ MapInv /\ s \in Source /\ s \notin copied /\ DOMAIN bin = Source /\ copied \subseteq Source
    BY DEF Control, Places, TypeOK, MapInv
  <1>1. /\ DOMAIN Fresh(s) = {p \in FilesOf(s) : scanned[p] # Absent}
        /\ \A p \in DOMAIN Fresh(s) : Fresh(s)[p] = scanned[p]
    BY <1>0, FreshType
  <1>2. /\ IsFiniteSet(copied) /\ Cardinality(copied) \in Nat /\ Cardinality(copied') = Cardinality(copied) + 1
        /\ Cardinality(copied') <= Cardinality(Source) /\ Cardinality(Source) \in Nat
    <2>1. IsFiniteSet(Source) /\ copied \subseteq Source /\ copied' \subseteq Source
      BY <1>0, SSDAssumption
    <2>2. IsFiniteSet(copied) /\ IsFiniteSet(copied')
      BY <2>1, FS_Subset
    <2> QED BY <1>0, <2>1, <2>2, FS_Subset, FS_CardinalityType, FS_AddElement
  <1>3. dest' = dest
    <2>1. ASSUME DeleteStale, NEW p \in StaleAfter(entries, Fresh(s), MaxMiss) PROVE FALSE
      <3>1. p \in DOMAIN entries
        BY <2>1, StaleIsOld
      <3>2. p \in DOMAIN entries /\ entries[p].miss = MaxMiss
        BY <1>0, <2>1, StaleMissedLongEnough, SSDAssumption DEF TypeOK
      <3>3. MaxMiss < Cardinality(copied) /\ Cardinality(Source) <= MaxMiss + 1 /\ MaxMiss \in Nat
        BY <2>1, <3>2, SSDAssumption DEF LiveFilesKept, Truth, EntriesInv
      <3> QED BY <1>2, <3>3
    <2> QED BY <1>0, <2>1 DEF DestWithout, TypeOK
  <1>4. \A r \in Source : bin'[r] = IF r = s THEN e ELSE bin[r]
    BY <1>0
  <1>5. ASSUME NEW p \in DOMAIN e
        PROVE  \/ p \in FilesOf(s) /\ scanned[p] # Absent /\ e[p].hash = scanned[p] /\ e[p].miss = 0
               \/ p \in DOMAIN entries /\ SourceOf[p] \in copied /\ scanned[p] # Absent
                  /\ e[p].miss \in {0, entries[p].miss + 1}
    <2>1. \/ p \in DOMAIN Fresh(s) /\ e[p].hash = Fresh(s)[p] /\ e[p].miss = 0
          \/ p \in DOMAIN entries /\ e[p].miss \in {0, entries[p].miss + 1}
      BY <1>5, RefreshIs
    <2> QED BY <1>1, <2>1 DEF Truth, EntriesInv
  <1>6. \A p \in Path : SourceOf[p] = s /\ p \in DOMAIN e => scanned[p] # Absent /\ e[p].hash = scanned[p]
    BY <1>0, <1>5
  <1>7. VersionsInv'
    <2>1. ASSUME NEW p \in Path
          PROVE  LET b == bin'[SourceOf[p]]
                 IN  /\ p \in DOMAIN b /\ scanned[p] # Absent => b[p].hash <= scanned[p]
                     /\ p \in DOMAIN b /\ scanned[p] = Absent /\ src[p] # Absent => b[p].hash < src[p]
                     /\ p \in DOMAIN b => b[p].hash <= newest[p]
      <3>1. CASE SourceOf[p] = s
        BY <1>0, <1>4, <1>6, <3>1, Values DEF Truth, VersionsInv
      <3>2. CASE SourceOf[p] # s
        BY <1>0, <1>4, <3>2, Values DEF Truth, VersionsInv
      <3> QED BY <3>1, <3>2
    <2> QED BY <2>1 DEF Truth, VersionsInv
  <1>8. OwnInv'
    BY <1>0, <1>4 DEF Truth, OwnInv, FilesOf
  <1>9. EntriesInv'
    <2>1. ASSUME NEW p \in DOMAIN e
          PROVE  SourceOf[p] \in copied' /\ scanned[p] # Absent /\ e[p].miss < Cardinality(copied')
      <3>1. CASE p \in FilesOf(s) /\ scanned[p] # Absent /\ e[p].miss = 0
        BY <1>2, <3>1 DEF FilesOf
      <3>2. CASE p \in DOMAIN entries /\ SourceOf[p] \in copied /\ scanned[p] # Absent
                 /\ e[p].miss \in {0, entries[p].miss + 1}
        <4>1. DOMAIN entries \subseteq Path
          BY <1>0 DEF TypeOK, Cache
        <4>2. entries[p].miss \in Nat /\ entries[p].miss < Cardinality(copied)
          BY <1>0, <3>2, <4>1, Values, SSDAssumption DEF Truth, EntriesInv
        <4> QED BY <1>2, <3>2, <4>2
      <3> QED BY <1>5, <3>1, <3>2
    <2> QED BY <2>1 DEF EntriesInv
  <1>10. OpenInv'
    BY <1>3 DEF Truth, OpenInv
  <1>11. ASSUME NEW p \in Path, SourceOf[p] = s PROVE ~ToBeCopied(p)'
    <2>1. ToCopy(s)' = {}
      <3>1. bin'[s] = e /\ Fresh(s)' = Fresh(s)
        BY <1>0, <1>4, FreshNext
      <3> QED BY <3>1, SecondRunCopiesNothing DEF ToCopy
    <2>2. SmallFiles(s)' = {} /\ LargeFiles(s)' = {}
      <3>1. LargeFiles(s)' = {}
        BY <2>1 DEF LargeFiles
      <3> QED BY <2>1, <3>1 DEF SmallFiles
    <2>3. ~Waiting(s)'
      BY DEF MapInv
    <2> QED BY <1>11, <2>2, <2>3 DEF ToBeCopied
  <1>12. ScannedInv'
    <2>1. ASSUME NEW p \in Path \ refused, scanned[p] # Absent, scanned[p] = newest[p], ~ToBeCopied(p)'
          PROVE  dest[p] = newest[p] \/ p \in short
      BY <2>1, Arrived
    <2> QED BY <1>3, <2>1 DEF ScannedInv
  <1>13. CachedInv'
    <2>1. ASSUME NEW p \in Path \ refused, scanned[p] # Absent, p \in DOMAIN bin'[SourceOf[p]],
                 bin'[SourceOf[p]][p].hash = newest[p]
          PROVE  dest[p] = newest[p] \/ p \in short
      <3>1. CASE SourceOf[p] = s
        BY <1>0, <1>4, <1>6, <1>11, <2>1, <3>1, Arrived
      <3>2. CASE SourceOf[p] # s
        BY <1>0, <1>4, <2>1, <3>2, Values DEF Truth, CachedInv
      <3> QED BY <3>1, <3>2
    <2> QED BY <1>3, <2>1 DEF CachedInv
  <1> QED BY <1>7, <1>8, <1>9, <1>10, <1>12, <1>13 DEF Truth

LEMMA FlagTruth ==
  ASSUME Control, Truth, LiveFilesKept, Places' /\ Kept({}), NEW s \in Source, NEW sd, NEW ld, FlagsBecome(s, sd, ld),
         UNCHANGED <<mode, scanned, src, newest, refused>>,
         \A t \in CopyThread : copying'[t] # NoCopy /\ copying'[t].stage = "open" => copying'[t] = copying[t]
  PROVE  Truth'
  <1>1. CASE UNCHANGED disk
    BY <1>1, DiskSame DEF disk
  <1>2. CASE ~UNCHANGED disk
    <2>1. /\ s \in inMap /\ entries' = Refresh(entries, Fresh(s), MaxMiss) /\ bin' = [bin EXCEPT ![s] = entries']
          /\ dest' = DestWithout(StaleAfter(entries, Fresh(s), MaxMiss)) /\ copied' = copied \cup {s} /\ short' = short
      BY <1>2 DEF FlagsBecome
    <2>2. MapInv'
      BY DEF Places
    <2> QED BY <2>1, <2>2, SavedTruth
  <1> QED BY <1>1, <1>2


(* A file whose copy has not ended is to be copied still, and no other     *)
(* thread writes it.                                                       *)
LEMMA CopyOf ==
  ASSUME Control, NEW t \in CopyThread, copying[t] # NoCopy, copying[t].stage # "mark", NEW p, p = copying[t].path
  PROVE  /\ p \in Path /\ SourceOf[p] \in Source /\ p \in ToCopy(SourceOf[p]) /\ ToBeCopied(p)
         /\ \A u \in CopyThread : copying[u] # NoCopy /\ copying[u].path = p => u = t
  <1>0. TypeOK /\ p \in Path /\ SourceOf[p] \in Source
    BY CopyIs DEF Control
  <1>1. CASE t = LargeThread
    <2>1. InLargeTask(SourceOf[p]) /\ p \in LargeFiles(SourceOf[p]) /\ p \notin SmallFiles(SourceOf[p])
      BY <1>1, CopyIs
    <2>2. LargeLeft(p)
      BY <1>1, <2>1 DEF LargeLeft, Copies
    <2>3. \A u \in CopyThread : copying[u] # NoCopy /\ copying[u].path = p => u = t
      BY <1>1, <2>1, CopyIs
    <2> QED BY <1>0, <2>1, <2>2, <2>3, ToCopyIs DEF ToBeCopied
  <1>2. CASE t # LargeThread
    <2>1. /\ t \in SmallThread /\ p \in SmallFiles(SourceOf[p])
          /\ \A u \in SmallThread : copying[u] # NoCopy /\ copying[u].path = p => u = t
      BY <1>2, CopyIs
    <2>2. SmallLeft(p)
      BY <2>1 DEF SmallLeft, Copies
    <2>3. \A u \in CopyThread : copying[u] # NoCopy /\ copying[u].path = p => u = t
      <3>1. ASSUME copying[LargeThread] # NoCopy, copying[LargeThread].path = p PROVE FALSE
        <4>1. LargeThread \in CopyThread
          BY DEF CopyThread
        <4> QED BY <2>1, <3>1, <4>1, CopyIs
      <3> QED BY <2>1, <3>1 DEF CopyThread
    <2> QED BY <1>0, <2>1, <2>2, <2>3, ToCopyIs DEF ToBeCopied
  <1> QED BY <1>1, <1>2

LEMMA OpenTruth ==
  ASSUME Control, Truth, NEW t \in CopyThread, CopyStep(t), copying[t] # NoCopy, OpenDestination(t)
  PROVE  Truth'
  <1> PICK p : p = copying[t].path
    OBVIOUS
  <1>0. /\ TypeOK /\ copying[t].stage = "start" /\ src[p] # Absent
        /\ dest' = [dest EXCEPT ![p] = Torn] /\ copying' = [copying EXCEPT ![t] = Copy(p, "open", src[p])]
        /\ DOMAIN dest = Path /\ DOMAIN copying = CopyThread
        /\ UNCHANGED <<mode, scanned, src, newest, refused, short, bin, copied, entries>>
    BY DEF Control, CopyStep, OpenDestination, Becomes, files, TypeOK
  <1>1. p \in Path /\ p \in ToCopy(SourceOf[p]) /\ ToBeCopied(p)
    BY <1>0, CopyOf
  <1>2. Kept({}) /\ ToBeCopied(p)'
    <2>1. Kept({})
      BY OpenPlaces
    <2> QED BY <1>1, <2>1 DEF Kept
  <1>3. \A q \in Path : dest'[q] = IF q = p THEN Torn ELSE dest[q]
    BY <1>0
  <1>4. scanned[p] # Absent /\ (p \in DOMAIN bin[SourceOf[p]] => bin[SourceOf[p]][p].hash # newest[p])
    BY <1>1, Outdated
  <1>5. src[p] \in Version /\ src[p] = newest[p] /\ scanned[p] <= newest[p] /\ newest[p] \in Nat
    BY <1>0, <1>1, <1>4, Values DEF Truth, VersionsInv, TypeOK
  <1>6. VersionsInv' /\ OwnInv' /\ EntriesInv'
    BY <1>0 DEF Truth, VersionsInv, OwnInv, EntriesInv, FilesOf
  <1>7. OpenInv'
    <2>1. /\ copying'[t].path = p /\ copying'[t].version = src[p]
      BY <1>0, <1>1, <1>5, CopyValues
    <2>2. ASSUME NEW u \in CopyThread, u # t, copying[u] # NoCopy, copying[u].stage = "open"
          PROVE  dest'[copying[u].path] = Torn
      <3>1. copying[u].path \in Path
        BY <2>2, CopyIs
      <3> QED BY <1>3, <2>2, <3>1 DEF Truth, OpenInv
    <2>3. \A u \in CopyThread : u # t => copying'[u] = copying[u]
      BY <1>0
    <2> QED BY <1>0, <1>1, <1>3, <1>5, <2>1, <2>2, <2>3 DEF Truth, OpenInv
  <1>8. CachedInv'
    BY <1>0, <1>3, <1>4 DEF Truth, CachedInv
  <1>9. ScannedInv'
    <2>1. ASSUME NEW q \in Path \ refused, scanned[q] # Absent, scanned[q] = newest[q], ~ToBeCopied(q)'
          PROVE  dest'[q] = newest[q] \/ q \in short
      <3>1. dest[q] = newest[q] \/ q \in short
        BY <1>2, <2>1, Arrived
      <3>2. q # p
        BY <1>2, <2>1
      <3> QED BY <1>3, <2>1, <3>1, <3>2
    <2> QED BY <1>0, <2>1 DEF ScannedInv
  <1> QED BY <1>6, <1>7, <1>8, <1>9 DEF Truth

(* What a thread does after a copy leaves the other copies alone.          *)
LEMMA EndsOthers ==
  ASSUME Control, NEW t \in CopyThread, CopyStep(t), copying[t] # NoCopy, CopyRefused(t) \/ FinishCopy(t)
  PROVE  /\ \A u \in CopyThread : u # t => copying'[u] = copying[u]
         /\ copying'[t] = NoCopy \/ copying'[t].stage = "mark"
  <1> PICK p : p = copying[t].path
    OBVIOUS
  <1>0. p \in Path /\ DOMAIN copying = CopyThread
    <2>1. p \in Path
      BY CopyIs
    <2> QED BY <2>1 DEF Control, TypeOK
  <1>1. copying' = [copying EXCEPT ![t] = NoCopy] \/ copying' = [copying EXCEPT ![t] = Copy(p, "mark", 0)]
    BY DEF CopyRefused, FinishCopy, Counted, Becomes
  <1> QED BY <1>0, <1>1, CopyValues

LEMMA FinishTruth ==
  ASSUME Control, Truth, NEW t \in CopyThread, CopyStep(t), copying[t] # NoCopy, FinishCopy(t)
  PROVE  Truth'
  <1> PICK p : p = copying[t].path
    OBVIOUS
  <1>0. /\ TypeOK /\ copying[t].stage = "open" /\ DOMAIN dest = Path
        /\ \E v \in Outcomes(copying[t]) :
             /\ dest' = [dest EXCEPT ![p] = v]
             /\ short' = IF v = Torn /\ Unedited(copying[t]) THEN short \cup {p} ELSE short
        /\ UNCHANGED <<mode, scanned, src, newest, refused, bin, copied, entries>>
    BY DEF Control, CopyStep, FinishCopy, files, TypeOK
  <1>1. /\ p \in Path /\ p \in ToCopy(SourceOf[p])
        /\ \A u \in CopyThread : copying[u] # NoCopy /\ copying[u].path = p => u = t
    BY <1>0, CopyOf
  <1>2. Kept({p})
    BY EndsPlaces
  <1>3. PICK v \in Outcomes(copying[t]) :
          /\ \A q \in Path : dest'[q] = IF q = p THEN v ELSE dest[q]
          /\ short \subseteq short'
          /\ v = Torn /\ Unedited(copying[t]) => p \in short'
    BY <1>0
  <1>4. scanned[p] # Absent /\ (p \in DOMAIN bin[SourceOf[p]] => bin[SourceOf[p]][p].hash # newest[p])
    BY <1>1, Outdated
  <1>5. scanned[p] = newest[p] => v = newest[p] \/ p \in short'
    <2>1. dest[p] = Torn /\ scanned[p] <= copying[t].version /\ copying[t].version <= newest[p]
      BY <1>0 DEF Truth, OpenInv
    <2>2. copying[t].version \in Nat
      BY <1>0 DEF TypeOK, CopyState, Version
    <2>3. scanned[p] = newest[p] => copying[t].version = newest[p]
      BY <1>0, <1>1, <1>4, <2>1, <2>2, Values
    <2>4. src[p] # Absent => src[p] = newest[p]
      BY <1>1 DEF Truth, VersionsInv
    <2> QED BY <1>3, <2>1, <2>3, <2>4, SSDAssumption DEF Outcomes, Unedited
  <1>6. VersionsInv' /\ OwnInv' /\ EntriesInv'
    BY <1>0 DEF Truth, VersionsInv, OwnInv, EntriesInv, FilesOf
  <1>7. OpenInv'
    <2>1. ASSUME NEW u \in CopyThread, copying'[u] # NoCopy, copying'[u].stage = "open"
          PROVE  u # t /\ copying'[u] = copying[u] /\ dest'[copying[u].path] = dest[copying[u].path]
      <3>1. u # t /\ copying'[u] = copying[u]
        BY <2>1, EndsOthers
      <3>2. copying[u].path \in Path /\ copying[u].path # p
        BY <1>1, <2>1, <3>1, CopyIs
      <3> QED BY <1>3, <3>1, <3>2
    <2> QED BY <1>0, <2>1 DEF Truth, OpenInv
  <1>8. CachedInv'
    BY <1>0, <1>3, <1>4 DEF Truth, CachedInv
  <1>9. ScannedInv'
    <2>1. ASSUME NEW q \in Path \ refused, scanned[q] # Absent, scanned[q] = newest[q], ~ToBeCopied(q)'
          PROVE  dest'[q] = newest[q] \/ q \in short'
      BY <1>2, <1>3, <1>5, <2>1, Arrived
    <2> QED BY <1>0, <2>1 DEF ScannedInv
  <1> QED BY <1>6, <1>7, <1>8, <1>9 DEF Truth

LEMMA RefusedTruth ==
  ASSUME Control, Truth, NEW t \in CopyThread, CopyStep(t), copying[t] # NoCopy, CopyRefused(t)
  PROVE  Truth'
  <1> PICK p : p = copying[t].path
    OBVIOUS
  <1>0. /\ refused' = refused \cup {p}
        /\ UNCHANGED <<mode, scanned, src, newest, dest, short, bin, copied, entries>>
    BY DEF CopyStep, CopyRefused, files, disk
  <1>1. Kept({p})
    BY EndsPlaces
  <1>2. VersionsInv' /\ OwnInv' /\ EntriesInv' /\ CachedInv'
    BY <1>0 DEF Truth, VersionsInv, OwnInv, EntriesInv, CachedInv, FilesOf
  <1>3. OpenInv'
    <2>1. \A u \in CopyThread : copying'[u] # NoCopy /\ copying'[u].stage = "open" => copying'[u] = copying[u]
      BY EndsOthers
    <2> QED BY <1>0, <2>1 DEF Truth, OpenInv
  <1>4. ScannedInv'
    <2>1. ASSUME NEW q \in Path \ refused', scanned[q] # Absent, scanned[q] = newest[q], ~ToBeCopied(q)'
          PROVE  dest[q] = newest[q] \/ q \in short
      BY <1>0, <1>1, <2>1, Arrived
    <2> QED BY <1>0, <2>1 DEF ScannedInv
  <1> QED BY <1>2, <1>3, <1>4 DEF Truth

LEMMA StartTruth ==
  ASSUME Control, Truth, NEW t \in CopyThread, CopyStep(t), StartSmall(t) \/ StartLarge(t)
  PROVE  Truth'
  <1>0. UNCHANGED <<src, newest, scanned, dest, short, bin, copied, entries, refused>> /\ DOMAIN copying = CopyThread
    BY DEF CopyStep, StartSmall, StartLarge, files, disk, Control, TypeOK
  <1>1. Kept({})
    BY StartSmallPlaces, StartLargePlaces
  <1>2. PICK p \in Path : copying' = [copying EXCEPT ![t] = Copy(p, "start", 0)]
    <2>1. smallQueue \subseteq Path /\ (lpc = "work" => largeTask.todo \subseteq Path)
      <3>1. lpc = "work" => largeTask \in LargeTask
        BY DEF Control, TypeOK, Places, LargeInv
      <3>2. smallQueue \subseteq Path
        BY DEF Control, TypeOK
      <3> QED BY <3>1, <3>2 DEF LargeTask
    <2> QED BY <2>1 DEF StartSmall, StartLarge, Becomes
  <1>3. \A u \in CopyThread : copying'[u] # NoCopy /\ copying'[u].stage = "open" => copying'[u] = copying[u]
    BY <1>0, <1>2, CopyValues
  <1> QED BY <1>0, <1>1, <1>3, DiskSame

LEMMA JobTruth ==
  ASSUME Control, Truth, LiveFilesKept, NEW w \in Worker, JobStep(w)
  PROVE  Truth'
  <1>0. /\ UNCHANGED <<mode, scanned, src, newest, refused, copying>>
        /\ \A t \in CopyThread : copying'[t] # NoCopy /\ copying'[t].stage = "open" => copying'[t] = copying[t]
    BY DEF JobStep, files
  <1>1. CASE TakeJob(w) \/ NothingToCopy(w) \/ EnterMap(w)
    <2>1. Kept({})
      BY <1>1, TakeJobPlaces, NothingToCopyPlaces, EnterMapPlaces
    <2>2. UNCHANGED disk
      BY <1>1 DEF TakeJob, NothingToCopy, EnterMap
    <2> QED BY <1>0, <2>1, <2>2, DiskSame DEF disk
  <1>2. CASE SaveUnchanged(w)
    BY <1>2, SaveUnchangedTruth
  <1>3. CASE SubmitSmallFiles(w)
    <2>1. CASE SmallFiles(running[w]) = {}
      <3>1. running[w] \in Source /\ SmallQueueDone(running[w])
        BY <1>3, <2>1, WorkerIs DEF SubmitSmallFiles, Control, Places
      <3>2. Places' /\ Kept({})
        BY <1>3, <2>1, NoSmallFilesPlaces
      <3> QED BY <1>0, <3>1, <3>2, FlagTruth DEF SmallQueueDone
    <2>2. CASE SmallFiles(running[w]) # {}
      <3>1. UNCHANGED disk
        BY <1>3, <2>2 DEF SubmitSmallFiles
      <3>2. Kept({})
        BY <1>3, <2>2, SmallSubmittedPlaces
      <3> QED BY <1>0, <3>1, <3>2, DiskSame DEF disk
    <2> QED BY <2>1, <2>2
  <1>4. CASE SubmitLargeFiles(w)
    <2>1. CASE LargeFiles(running[w]) = {}
      <3>1. running[w] \in Source /\ LargeQueueDone(running[w])
        BY <1>4, <2>1, WorkerIs DEF SubmitLargeFiles, Control, Places
      <3>2. Places' /\ Kept({})
        BY <1>4, <2>1, NoLargeFilesPlaces
      <3> QED BY <1>0, <3>1, <3>2, FlagTruth DEF LargeQueueDone
    <2>2. CASE LargeFiles(running[w]) # {}
      <3>1. UNCHANGED disk
        BY <1>4, <2>2 DEF SubmitLargeFiles
      <3>2. Kept({})
        BY <1>4, <2>2, LargeSubmittedPlaces
      <3> QED BY <1>0, <3>1, <3>2, DiskSame DEF disk
    <2> QED BY <2>1, <2>2
  <1> QED BY <1>1, <1>2, <1>3, <1>4 DEF JobStep

LEMMA GodTruth ==
  ASSUME Control, Truth, LiveFilesKept, NEW s \in Source, GodStep(s)
  PROVE  Truth'
  <1>0. /\ UNCHANGED <<mode, scanned, src, newest, refused, copying>>
        /\ \A t \in CopyThread : copying'[t] # NoCopy /\ copying'[t].stage = "open" => copying'[t] = copying[t]
    BY DEF GodStep, files
  <1>1. CASE GodJobSubmits(s)
    <2>1. UNCHANGED disk
      BY <1>1 DEF GodJobSubmits
    <2>2. Kept({})
      BY <1>1, GodJobSubmitsPlaces
    <2> QED BY <1>0, <2>1, <2>2, DiskSame DEF disk
  <1>2. CASE GodJobMarks(s)
    <2>1. LargeQueueDone(s)
      BY <1>2 DEF GodJobMarks
    <2>2. Places' /\ Kept({})
      BY <1>2, GodJobMarksPlaces
    <2> QED BY <1>0, <2>1, <2>2, FlagTruth DEF LargeQueueDone
  <1> QED BY <1>1, <1>2 DEF GodStep

LEMMA LargeTruth ==
  ASSUME Control, Truth, LiveFilesKept, LargeStep \/ LargeSpuriousWake
  PROVE  Truth'
  <1>0. /\ UNCHANGED <<mode, scanned, src, newest, refused, copying>>
        /\ \A t \in CopyThread : copying'[t] # NoCopy /\ copying'[t].stage = "open" => copying'[t] = copying[t]
    BY DEF LargeStep, LargeSpuriousWake, files
  <1>1. CASE LargeMarks
    <2>1. LargeStep
      BY <1>1 DEF LargeMarks, LargeSpuriousWake
    <2>2. largeTask.source \in Source /\ LargeQueueDone(largeTask.source)
      BY <1>1 DEF LargeMarks, Control, Places, LargeInv, TypeOK, LargeTask
    <2>3. Places' /\ Kept({})
      BY <1>1, <2>1, LargeMarksPlaces
    <2> QED BY <1>0, <2>2, <2>3, FlagTruth DEF LargeQueueDone
  <1>2. CASE ~LargeMarks
    <2>1. UNCHANGED disk
      BY <1>2 DEF LargeStep, LargeSpuriousWake, NothingForLarge, LargeBlocks, LargeExits, TakeLargeQueue
    <2>2. Kept({})
      BY <1>2, LargeStepPlaces
    <2> QED BY <1>0, <2>1, <2>2, DiskSame DEF disk
  <1> QED BY <1>1, <1>2

LEMMA CopyTruth ==
  ASSUME Control, Truth, LiveFilesKept, NEW t \in CopyThread, CopyStep(t)
  PROVE  Truth'
  <1>1. CASE StartSmall(t) \/ StartLarge(t)
    BY <1>1, StartTruth
  <1>2. CASE copying[t] # NoCopy /\ OpenDestination(t)
    BY <1>2, OpenTruth
  <1>3. CASE copying[t] # NoCopy /\ CopyRefused(t)
    BY <1>3, RefusedTruth
  <1>4. CASE copying[t] # NoCopy /\ FinishCopy(t)
    BY <1>4, FinishTruth
  <1>5. CASE copying[t] # NoCopy /\ LastFileMarks(t)
    <2>1. /\ SourceOf[copying[t].path] \in Source /\ SmallQueueDone(SourceOf[copying[t].path])
          /\ copying' = [copying EXCEPT ![t] = NoCopy] /\ DOMAIN copying = CopyThread
          /\ UNCHANGED <<mode, scanned, src, newest, refused>>
      <3>1. SourceOf[copying[t].path] \in Source
        BY <1>5, CopyIs
      <3> QED BY <1>5, <3>1 DEF LastFileMarks, Becomes, CopyStep, files, Control, TypeOK
    <2>2. Places' /\ Kept({})
      BY <1>5, LastFileMarksPlaces
    <2>3. \A u \in CopyThread : copying'[u] # NoCopy /\ copying'[u].stage = "open" => copying'[u] = copying[u]
      BY <2>1
    <2> QED BY <2>1, <2>2, <2>3, FlagTruth DEF SmallQueueDone
  <1> QED BY <1>1, <1>2, <1>3, <1>4, <1>5 DEF CopyStep

LEMMA TruthStep ==
  ASSUME LiveFilesKept, Control, Truth, [Next]_vars
  PROVE  Truth'
  <1>1. CASE Edit
    BY <1>1, EditTruth
  <1>2. CASE MainStep
    <2>1. Kept({})
      BY <1>2, MainPlaces
    <2>2. UNCHANGED <<src, newest, scanned, dest, short, bin, copied, entries, refused, copying>>
      BY <1>2 DEF MainStep, MainRuns, Stop, StopNotifies, JoinLargeFileThread, files, disk
    <2> QED BY <2>1, <2>2, DiskSame
  <1>3. CASE LargeStep \/ LargeSpuriousWake
    BY <1>3, LargeTruth
  <1>4. CASE MainSpuriousWake \/ ExitOnFailure \/ UNCHANGED vars
    <2>1. UNCHANGED <<mode, scanned, src, newest, dest, short, entries, bin, copied, inMap, smallDone, largeDone, pending, main,
                      pool, wpc, refused, processed, smallQueue, godQueue, godRunning, largeQueue, lpc, largeTask, copying>>
      BY <1>4 DEF MainSpuriousWake, ExitOnFailure, vars, disk, counts, status, small, large, files
    <2>2. Kept({})
      BY <2>1, StillPlaces DEF SameCopy
    <2> QED BY <2>1, <2>2, DiskSame
  <1>5. ASSUME NEW w \in Worker, JobStep(w) PROVE Truth'
    BY <1>5, JobTruth
  <1>6. ASSUME NEW s \in Source, GodStep(s) PROVE Truth'
    BY <1>6, GodTruth
  <1>7. ASSUME NEW t \in CopyThread, CopyStep(t) PROVE Truth'
    BY <1>7, CopyTruth
  <1> QED BY <1>1, <1>2, <1>3, <1>4, <1>5, <1>6, <1>7 DEF Next

LEMMA TruthInit ==
  ASSUME Init
  PROVE  Truth
  <1>0. TypeOK /\ SSDAssumption
    BY TypeInit, SSDAssumption
  <1>1. PICK was \in [Path -> Before] :
          /\ src = [p \in Path |-> CASE was[p] = "gone"    -> Absent
                                   [] was[p] = "changed" -> 2
                                   [] OTHER              -> 1]
          /\ newest = [p \in Path |-> IF was[p] = "changed" THEN 2 ELSE 1]
          /\ dest = [p \in Path |-> IF was[p] = "new" THEN Absent ELSE 1]
          /\ bin = [s \in Source |-> [p \in {q \in FilesOf(s) : was[q] # "new"} |-> Entry(1, FALSE, 0)]]
    BY DEF Init
  <1>2. /\ scanned = src /\ copied = {} /\ DOMAIN entries = {} /\ left = Source
        /\ \A t \in CopyThread : copying[t] = NoCopy
    BY DEF Init, EmptyCache
  <1>3. \A s \in Source : /\ DOMAIN bin[s] = {q \in FilesOf(s) : was[q] # "new"}
                          /\ \A p \in DOMAIN bin[s] : bin[s][p].hash = 1
    BY <1>1 DEF Entry
  <1>4. ASSUME NEW p \in Path
        PROVE  /\ SourceOf[p] \in Source
               /\ src[p] # Absent => src[p] = newest[p] /\ newest[p] \in {1, 2}
               /\ newest[p] \in {1, 2}
               /\ p \in DOMAIN bin[SourceOf[p]] => dest[p] = 1 /\ bin[SourceOf[p]][p].hash = 1
    <2>1. SourceOf[p] \in Source
      BY SSDAssumption
    <2>2. dest[p] = (IF was[p] = "new" THEN Absent ELSE 1) /\ newest[p] = (IF was[p] = "changed" THEN 2 ELSE 1)
      BY <1>1
    <2>3. src[p] = CASE was[p] = "gone" -> Absent [] was[p] = "changed" -> 2 [] OTHER -> 1
      BY <1>1
    <2> QED BY <1>3, <2>1, <2>2, <2>3
  <1>5. VersionsInv
    BY <1>2, <1>4 DEF VersionsInv
  <1>6. OwnInv /\ EntriesInv /\ OpenInv
    BY <1>2, <1>3 DEF OwnInv, EntriesInv, OpenInv
  <1>7. CachedInv
    BY <1>4 DEF CachedInv
  <1>8. ScannedInv
    BY <1>2, <1>4 DEF ScannedInv, ToBeCopied, Waiting
  <1> QED BY <1>5, <1>6, <1>7, <1>8 DEF Truth

LEMMA TruthAlways ==
  ASSUME LiveFilesKept
  PROVE  Spec => [](Control /\ Truth)
  <1>1. Init => Control /\ Truth
    BY TypeInit, InitPlaces, TruthInit DEF Control
  <1>2. Control /\ Truth /\ [Next]_vars => (Control /\ Truth)'
    BY TruthStep, ControlStep
  <1> QED BY <1>1, <1>2, PTL DEF Spec

(* The saved caches reflect the destination: a cached version that is the  *)
(* present one is there, but for the files whose copy was refused, or      *)
(* returned true over a part of them (FileCopier.cpp takes any result of   *)
(* copy_file_range that is not negative).  With one cache aged for all     *)
(* sources this holds if nothing is deleted, or StaleEntries is at least   *)
(* the number of sources less one.                                         *)
THEOREM CacheTruthfulUnlessRefusedAlways ==
  LiveFilesKept => (Spec => []CacheTruthfulUnlessRefused)
  <1> SUFFICES ASSUME LiveFilesKept PROVE Spec => []CacheTruthfulUnlessRefused
    OBVIOUS
  <1>1. Control /\ Truth => CacheTruthfulUnlessRefused
    <2> SUFFICES ASSUME Control, Truth, NEW p \in Path \ (refused \cup short),
                        p \in DOMAIN bin[SourceOf[p]], bin[SourceOf[p]][p].hash = src[p]
                 PROVE  dest[p] = src[p]
      BY DEF CacheTruthfulUnlessRefused
    <2>1. src[p] # Absent /\ src[p] \in Nat
      BY Values, SSDAssumption DEF Control
    <2>2. src[p] = newest[p]
      BY <2>1 DEF Truth, VersionsInv
    <2>3. scanned[p] # Absent
      BY <2>1 DEF Truth, VersionsInv
    <2> QED BY <2>2, <2>3 DEF Truth, CachedInv
  <1> QED BY <1>1, TruthAlways, PTL

(* When the run is over every scanned file is in the destination, but for  *)
(* those whose copy was refused or ended short or that were edited,        *)
(* whatever the mode.                                                      *)
THEOREM SuccessCopiesAllAlways ==
  LiveFilesKept => (Spec => []SuccessCopiesAll)
  <1> SUFFICES ASSUME LiveFilesKept PROVE Spec => []SuccessCopiesAll
    OBVIOUS
  <1>1. Control /\ Truth => SuccessCopiesAll
    <2> SUFFICES ASSUME Control, Truth, mpc = "done", NEW p \in Path \ (refused \cup short),
                        scanned[p] # Absent, scanned[p] = src[p]
                 PROVE  dest[p] = src[p]
      BY DEF SuccessCopiesAll
    <2> PICK s : s = SourceOf[p]
      OBVIOUS
    <2>0. TypeOK /\ JobsInv /\ MapInv /\ CountInv /\ LargeInv /\ SmallInv /\ s \in Source
      BY SSDAssumption DEF Control, Places
    <2>1. src[p] = newest[p]
      BY DEF Truth, VersionsInv
    <2>2. s \notin ToCount /\ s \notin inMap /\ s \notin left
      <3>1. ToCount = {} /\ left = {}
        BY <2>0, NothingCounted DEF CountInv, JobsInv
      <3> QED BY <2>0, <3>1 DEF ToCount
    <2>3. \A w \in Worker : running[w] = NoJob
      BY <2>0 DEF JobsInv, Pool!Idle
    <2>4. ~Waiting(s) /\ \A pcs : ~SubmitterAt(s, pcs)
      BY <2>0, <2>2, <2>3, SSDAssumption DEF ToCount, Waiting, SubmitterAt
    <2>5. ~SmallLeft(p)
      <3>1. s \notin godQueue /\ p \notin smallQueue
        BY <2>0, <2>2 DEF SmallInv
      <3>2. \A t \in SmallThread : ~Copies(t, p)
        BY <2>0, <2>2 DEF SmallInv, Copies, InSmallCopy
      <3> QED BY <2>4, <3>1, <3>2 DEF SmallLeft
    <2>6. ~LargeLeft(p)
      BY <2>0, <2>2, <2>4 DEF LargeInv, LargeLeft
    <2>7. ~ToBeCopied(p)
      BY <2>4, <2>5, <2>6 DEF ToBeCopied
    <2> QED BY <2>1, <2>7 DEF Truth, ScannedInv
  <1> QED BY <1>1, TruthAlways, PTL

-----------------------------------------------------------------------------
(* When a run of the copy phase can hang.  How the life of                 *)
(* SSDLargeFileThread and the flags go with the main thread's.             *)
LifeInv ==
  /\ mpc \in {"wait", "stop", "stopNotify", "joinThread", "done"} => allSubmitted
  /\ mpc = "submit" => left # {}
  /\ ~largeRunning <=> mpc \in {"stopNotify", "joinThread", "done"}
  /\ lpc = "exited" => ~largeRunning
  /\ lpc = "none" <=> mode \in {"Parallel", "GodSpeed"}
  /\ largeQueue # <<>> => mode \in {"Sequential", "Balanced"}
  /\ smallDone \cap largeDone = {}

(* The main thread is blocked on SSDSourcesDoneCV only while a source is   *)
(* pending, whoever decrements last notifies it, and what is in the large  *)
(* queue is pending.                                                       *)
MainWakeups == mainWaits => mpc = "wait" /\ pending > 0

Wakeups == LifeInv /\ MainWakeups

LEMMA WakeupsInit == Init => Wakeups
  <1> SUFFICES ASSUME Init PROVE Wakeups OBVIOUS
  <1>1. mode \in {"Sequential", "Parallel", "Balanced", "GodSpeed"} BY SSDAssumption DEF Init
  <1> QED BY <1>1 DEF Init, Wakeups, LifeInv, MainWakeups

(* Steps of the other threads.                                             *)
LEMMA WakeupsFrame ==
  ASSUME Wakeups, UNCHANGED <<mode, mpc, left, largeRunning, allSubmitted>>,
         lpc' = lpc \/ (lpc # "none" /\ lpc' # "none" /\ (lpc' = "exited" => ~largeRunning)),
         largeQueue' # <<>> => largeQueue # <<>> \/ mode \in {"Sequential", "Balanced"},
         smallDone' \cap largeDone' = {},
         mainWaits' => mainWaits /\ (pending' = pending \/ ~allSubmitted \/ pending' > 0)
  PROVE  Wakeups'
  BY DEF Wakeups, LifeInv, MainWakeups

LEMMA FlagsWake ==
  ASSUME Control, Wakeups, NEW s \in Source, NEW sd, NEW ld, FlagsBecome(s, sd, ld),
         \/ sd = smallDone /\ ld = largeDone \cup {s}
         \/ sd = smallDone \cup {s} /\ ld = largeDone
  PROVE  /\ smallDone' \cap largeDone' = {} /\ allSubmitted' = allSubmitted
         /\ mainWaits' => mainWaits /\ (pending' = pending \/ ~allSubmitted \/ pending' > 0)
  <1>0. smallDone \cap largeDone = {} BY DEF Wakeups, LifeInv
  <1>1. CASE s \notin inMap /\ UNCHANGED <<disk, counts, status>>
    BY <1>0, <1>1 DEF counts, status
  <1>2. CASE /\ s \in inMap /\ s \notin sd \cap ld
             /\ smallDone' = sd /\ largeDone' = ld
             /\ UNCHANGED <<disk, counts, inMap>>
    BY <1>0, <1>2 DEF counts
  <1>3. CASE s \in inMap \cap sd \cap ld
    <2>1. /\ smallDone' = sd \ {s} /\ largeDone' = ld \ {s} /\ pending' = pending - 1
          /\ mainWaits' = (mainWaits /\ ~(pending' = 0 /\ allSubmitted))
          /\ allSubmitted' = allSubmitted
      BY <1>3 DEF FlagsBecome
    <2>2. s \in ToCount BY <1>3 DEF ToCount
    <2>3. pending # 0 /\ pending \in Nat
      BY <2>2, NothingCounted DEF Control, Places, TypeOK
    <2>4. mainWaits' => mainWaits /\ (pending' # 0 \/ ~allSubmitted) BY <2>1, Zenon
    <2>5. pending' # 0 => pending' > 0 BY <2>1, <2>3
    <2> QED BY <1>0, <1>3, <2>1, <2>4, <2>5
  <1> QED BY <1>1, <1>2, <1>3 DEF FlagsBecome

LEMMA MainStepWakeups == ASSUME Control, Wakeups, MainStep PROVE Wakeups'
  <1> USE DEF Wakeups, LifeInv, MainWakeups
  <1>1. CASE MainRuns
    <2>0. UNCHANGED <<mode, largeRunning, lpc, largeQueue, smallDone, largeDone>>
      BY <1>1 DEF MainRuns, status, large
    <2>1. CASE IncrementPendingSources BY <2>0, <2>1 DEF IncrementPendingSources
    <2>2. ASSUME NEW s \in Source, SubmitUpdate(s) PROVE Wakeups'
      BY <2>0, <2>2 DEF SubmitUpdate, counts
    <2>3. CASE JoinUpdates \/ UpdatesJoined BY <2>0, <2>3 DEF JoinUpdates, UpdatesJoined, counts
    <2>4. CASE MarkAllSourcesSubmitted BY <2>0, <2>4 DEF MarkAllSourcesSubmitted
    <2>5. CASE MainBlocks
      <3>1. pending # 0
        <4> SUFFICES ASSUME pending = 0 PROVE FALSE OBVIOUS
        <4>1. largeQueue # <<>> BY <2>5 DEF MainBlocks, AllDone
        <4>2. 1 \in DOMAIN largeQueue /\ largeQueue[1] \in Source
          BY <4>1 DEF Control, TypeOK
        <4>3. largeQueue[1] \in inMap
          BY <4>2 DEF Control, Places, LargeInv, InLargeQueue
        <4>4. largeQueue[1] \in ToCount BY <4>2, <4>3 DEF ToCount
        <4> QED BY <4>4, NothingCounted DEF Control, Places
      <3>2. pending > 0 BY <3>1 DEF Control, TypeOK
      <3> QED BY <2>0, <2>5, <3>2 DEF MainBlocks, main
    <2>6. CASE WaitUntilDone BY <2>0, <2>6 DEF WaitUntilDone, counts
    <2> QED BY <1>1, <2>1, <2>2, <2>3, <2>4, <2>5, <2>6 DEF MainRuns
  <1>2. CASE Stop BY <1>2 DEF Stop, counts, status
  <1>3. CASE StopNotifies BY <1>3 DEF StopNotifies, counts, status
  <1>4. CASE JoinLargeFileThread BY <1>4 DEF JoinLargeFileThread, counts, status, large
  <1> QED BY <1>1, <1>2, <1>3, <1>4 DEF MainStep

LEMMA JobWakeups == ASSUME Control, Wakeups, NEW w \in Worker, JobStep(w) PROVE Wakeups'
  <1>0. /\ UNCHANGED <<mode, mpc, left>> /\ smallDone \cap largeDone = {}
        /\ wpc[w] # "idle" => running[w] \in Source
    BY WorkerIs DEF JobStep, main, Wakeups, LifeInv, Control, Places
  <1>1. CASE TakeJob(w) \/ SaveUnchanged(w) \/ EnterMap(w)
    BY <1>0, <1>1, WakeupsFrame DEF TakeJob, SaveUnchanged, EnterMap, counts, status, large
  <1>2. CASE NothingToCopy(w)
    BY <1>0, <1>2, WakeupsFrame DEF NothingToCopy, status, large
  <1>3. CASE SubmitSmallFiles(w)
    <2>1. UNCHANGED <<largeRunning, lpc, largeQueue>> BY <1>3 DEF SubmitSmallFiles, large
    <2>2. CASE SmallQueueDone(running[w])
      <3>1. /\ smallDone' \cap largeDone' = {} /\ allSubmitted' = allSubmitted
            /\ mainWaits' => mainWaits /\ (pending' = pending \/ ~allSubmitted \/ pending' > 0)
        BY <1>0, <1>3, <2>2, FlagsWake DEF SmallQueueDone, SubmitSmallFiles
      <3> QED BY <1>0, <2>1, <3>1, WakeupsFrame
    <2>3. CASE UNCHANGED <<counts, status>>
      BY <1>0, <2>1, <2>3, WakeupsFrame DEF counts, status
    <2> QED BY <1>3, <2>2, <2>3 DEF SubmitSmallFiles
  <1>4. CASE SubmitLargeFiles(w)
    <2>1. CASE LargeQueueDone(running[w]) /\ UNCHANGED large
      <3>1. /\ smallDone' \cap largeDone' = {} /\ allSubmitted' = allSubmitted
            /\ mainWaits' => mainWaits /\ (pending' = pending \/ ~allSubmitted \/ pending' > 0)
        BY <1>0, <1>4, <2>1, FlagsWake DEF LargeQueueDone, SubmitLargeFiles
      <3> QED BY <1>0, <2>1, <3>1, WakeupsFrame DEF large
    <2>2. CASE LargeFiles(running[w]) # {} /\ NotifyLargeQueue /\ UNCHANGED <<largeRunning, counts, status>>
      <3>1. mode \in {"Sequential", "Balanced"} BY <2>2 DEF LargeFiles
      <3>2. lpc' = lpc \/ (lpc # "none" /\ lpc' \notin {"none", "exited"})
        BY <2>2 DEF NotifyLargeQueue
      <3> QED BY <1>0, <2>2, <3>1, <3>2, WakeupsFrame DEF counts, status
    <2> QED BY <1>4, <2>1, <2>2 DEF SubmitLargeFiles
  <1> QED BY <1>1, <1>2, <1>3, <1>4 DEF JobStep

LEMMA LargeWakeups == ASSUME Control, Wakeups, LargeStep \/ LargeSpuriousWake PROVE Wakeups'
  <1>0. UNCHANGED <<mode, mpc, left>> /\ smallDone \cap largeDone = {}
    BY DEF LargeStep, LargeSpuriousWake, main, Wakeups, LifeInv
  <1>1. CASE LargeSpuriousWake \/ NothingForLarge \/ LargeBlocks \/ LargeExits
    BY <1>0, <1>1, WakeupsFrame
       DEF LargeSpuriousWake, NothingForLarge, LargeBlocks, LargeExits, LargeGoto, counts, status
  <1>2. CASE TakeLargeQueue
    BY <1>0, <1>2, WakeupsFrame DEF TakeLargeQueue, counts, status
  <1>3. CASE LargeMarks
    <2>1. largeTask.source \in Source
      BY <1>3 DEF LargeMarks, Control, Places, LargeInv, TypeOK, LargeTask
    <2>2. /\ smallDone' \cap largeDone' = {} /\ allSubmitted' = allSubmitted
          /\ mainWaits' => mainWaits /\ (pending' = pending \/ ~allSubmitted \/ pending' > 0)
      BY <1>3, <2>1, FlagsWake DEF LargeMarks, LargeQueueDone
    <2> QED BY <1>0, <1>3, <2>2, WakeupsFrame DEF LargeMarks
  <1> QED BY <1>1, <1>2, <1>3 DEF LargeStep

LEMMA GodWakeups == ASSUME Control, Wakeups, NEW s \in Source, GodStep(s) PROVE Wakeups'
  <1>0. UNCHANGED <<mode, mpc, left, largeRunning, lpc, largeQueue>> /\ smallDone \cap largeDone = {}
    BY DEF GodStep, main, large, Wakeups, LifeInv
  <1>1. CASE GodJobSubmits(s) BY <1>0, <1>1, WakeupsFrame DEF GodJobSubmits, counts, status
  <1>2. CASE GodJobMarks(s)
    <2>1. /\ smallDone' \cap largeDone' = {} /\ allSubmitted' = allSubmitted
          /\ mainWaits' => mainWaits /\ (pending' = pending \/ ~allSubmitted \/ pending' > 0)
      BY <1>2, FlagsWake DEF GodJobMarks, LargeQueueDone
    <2> QED BY <1>0, <2>1, WakeupsFrame
  <1> QED BY <1>1, <1>2 DEF GodStep

LEMMA CopyWakeups == ASSUME Control, Wakeups, NEW t \in CopyThread, CopyStep(t) PROVE Wakeups'
  <1>0. UNCHANGED <<mode, mpc, left, largeRunning, lpc, largeQueue>> /\ smallDone \cap largeDone = {}
    BY DEF CopyStep, main, Wakeups, LifeInv
  <1>1. CASE StartSmall(t) \/ StartLarge(t) \/ OpenDestination(t) \/ CopyRefused(t) \/ FinishCopy(t)
    <2>1. UNCHANGED <<counts, status>>
      BY <1>1 DEF StartSmall, StartLarge, OpenDestination, CopyRefused, FinishCopy
    <2> QED BY <1>0, <2>1, WakeupsFrame DEF counts, status
  <1>2. CASE copying[t] # NoCopy /\ LastFileMarks(t)
    <2>1. SourceOf[copying[t].path] \in Source BY <1>2, CopyIs
    <2>2. /\ smallDone' \cap largeDone' = {} /\ allSubmitted' = allSubmitted
          /\ mainWaits' => mainWaits /\ (pending' = pending \/ ~allSubmitted \/ pending' > 0)
      BY <1>2, <2>1, FlagsWake DEF LastFileMarks, SmallQueueDone
    <2> QED BY <1>0, <2>2, WakeupsFrame
  <1> QED BY <1>1, <1>2 DEF CopyStep

LEMMA WakeupsStep == Control /\ Wakeups /\ [Next]_vars => Wakeups'
  <1> SUFFICES ASSUME Control, Wakeups, [Next]_vars PROVE Wakeups' OBVIOUS
  <1>0. smallDone \cap largeDone = {} BY DEF Wakeups, LifeInv
  <1>1. CASE Edit \/ ExitOnFailure \/ UNCHANGED vars
    BY <1>0, <1>1, WakeupsFrame DEF Edit, ExitOnFailure, vars, main, counts, status, large
  <1>2. CASE MainSpuriousWake
    BY <1>0, <1>2, WakeupsFrame DEF MainSpuriousWake, main, status, large
  <1> QED BY <1>1, <1>2, MainStepWakeups, JobWakeups, LargeWakeups, GodWakeups, CopyWakeups DEF Next

(* What the guards of a thread's steps come to, but for the steps that     *)
(* only block it.                                                          *)
MainMoves ==
  \/ mpc \in {"update", "markAll", "stop", "stopNotify"}
  \/ mpc = "submit" /\ left # {}
  \/ mpc = "join" /\ Pool!Idle
  \/ mpc = "wait" /\ ~mainWaits /\ AllDone
  \/ mpc = "joinThread" /\ lpc \in {"none", "exited"}

JobMoves(w) == wpc[w] # "idle" \/ queue # <<>>

GodMoves(s) == s \in godRunning \/ (s \in godQueue /\ Cardinality(godRunning) < MaxGod)

(* LargeFileWorker's predicate. *)
LargeMayGo == largeQueue # <<>> \/ ~largeRunning

LargeMoves ==
  \/ lpc = "check" /\ LargeMayGo
  \/ lpc = "work" /\ largeTask.todo = {} /\ copying[LargeThread] = NoCopy

(* A thread with a copy ends it; one without takes a file of its pool.     *)
CopyMoves(t) ==
  \/ copying[t] # NoCopy
  \/ t # LargeThread /\ \E p \in smallQueue : t[1] = IF mode = "GodSpeed" THEN SourceOf[p] ELSE Shared
  \/ t = LargeThread /\ lpc = "work" /\ largeTask.todo # {}

Moving ==
  \/ MainMoves \/ LargeMoves
  \/ \E w \in Worker : JobMoves(w)
  \/ \E s \in Source : GodMoves(s)
  \/ \E t \in CopyThread : CopyMoves(t)

(* The two defects.  SSDLargeFileThread blocks, or is blocked, although    *)
(* its predicate holds: it tested it under a mutex that neither            *)
(* SubmitCopyQueues nor Stop takes.                                        *)
WakeupLost == lpc \in {"block", "waiting"} /\ LargeMayGo

(* A source of which SmallFileThreadPool failed to copy a file stays in    *)
(* the map: its filesProcessed never reaches the number of files.          *)
CopyNotCounted == \E s \in inMap : SmallFiles(s) \cap Uncounted # {}

(* A run that has not ended has a thread that can go on, unless one of the *)
(* two defects struck; neither can in GodSpeed mode.                       *)
HangsOnlySo ==
  /\ alive /\ mpc # "done" => Moving \/ WakeupLost \/ CopyNotCounted
  /\ mode = "GodSpeed" => ~WakeupLost /\ ~CopyNotCounted

(* The files of a source that are submitted and not copied.                *)
LEMMA InCopyMoves ==
  ASSUME Control, NEW p \in Path, InCopy(p)
  PROVE  \E t \in CopyThread : CopyMoves(t)
  <1>1. CASE \E t \in CopyThread : copying[t] # NoCopy BY <1>1 DEF CopyMoves
  <1>2. CASE p \in smallQueue
    <2>1. PICK t \in Thread : TRUE BY SSDAssumption
    <2> DEFINE c == IF mode = "GodSpeed" THEN SourceOf[p] ELSE Shared
    <2>2. c \in Source \cup {Shared} BY SSDAssumption
    <2>3. <<c, t>> \in SmallThread BY <2>2 DEF SmallThread
    <2>4. <<c, t>> \in CopyThread /\ <<c, t>> # LargeThread BY <2>3, SSDAssumption DEF CopyThread
    <2>5. <<c, t>>[1] = c OBVIOUS
    <2>6. CopyMoves(<<c, t>>) BY <1>2, <2>4, <2>5 DEF CopyMoves
    <2> QED BY <2>4, <2>6
  <1> QED BY <1>1, <1>2 DEF InCopy

LEMMA GodQueueMoves ==
  ASSUME Control, NEW s \in godQueue PROVE \E r \in Source : GodMoves(r)
  <1>1. godQueue \subseteq Source /\ godRunning \subseteq Source BY DEF Control, TypeOK
  <1>2. CASE godRunning = {}
    <2>1. Cardinality(godRunning) < MaxGod BY <1>2, FS_EmptySet, SSDAssumption
    <2> QED BY <1>1, <2>1 DEF GodMoves
  <1>3. CASE godRunning # {} BY <1>1, <1>3 DEF GodMoves
  <1> QED BY <1>2, <1>3

LEMMA LargeThreadMoves ==
  ASSUME Control, Wakeups, LargeMayGo \/ lpc = "work", lpc \notin {"none", "exited"}
  PROVE  Moving \/ WakeupLost
  <1>0. lpc \in {"none", "check", "block", "waiting", "work", "exited"} /\ LargeThread \in CopyThread
    BY DEF Control, TypeOK, CopyThread
  <1>1. CASE lpc = "check" BY <1>1 DEF Moving, LargeMoves
  <1>2. CASE lpc = "work"
    <2>1. LargeMoves \/ CopyMoves(LargeThread) BY <1>2 DEF LargeMoves, CopyMoves
    <2> QED BY <1>0, <2>1 DEF Moving
  <1>3. CASE lpc \in {"block", "waiting"} BY <1>3 DEF WakeupLost
  <1> QED BY <1>0, <1>1, <1>2, <1>3

(* While a source is pending somebody works on it, or a defect struck.     *)
LEMMA PendingMoves ==
  ASSUME Control, Wakeups, mpc = "wait", pending # 0
  PROVE  Moving \/ WakeupLost \/ CopyNotCounted
  <1>0. TypeOK /\ JobsInv /\ CountInv /\ MapInv /\ LargeInv BY DEF Control, Places
  <1>1. CASE \E w \in Worker : JobMoves(w) BY <1>1 DEF Moving
  <1>2. CASE \A w \in Worker : ~JobMoves(w)
    <2>1. queue = <<>> /\ \A w \in Worker : wpc[w] = "idle"
      BY <1>2, SSDAssumption DEF JobMoves
    <2>2. \A s \in Source : \A pcs : "idle" \notin pcs => ~SubmitterAt(s, pcs)
      BY <2>1 DEF SubmitterAt
    <2>3. ToCount # {}
      <3>1. ToCount = {} => Cardinality(ToCount) = 0 BY FS_EmptySet
      <3> QED BY <1>0, <3>1 DEF CountInv
    <2>4. PICK s \in Source : s \in inMap BY <2>1, <2>2, <2>3 DEF ToCount, Queued
    <2>5. s \notin smallDone \cap largeDone BY DEF Wakeups, LifeInv
    <2>6. NoSourceForgotten BY ControlNoSourceForgotten
    <2>7. CASE s \notin smallDone
      <3>1. \/ s \in godQueue
            \/ \E p \in SmallFiles(s) : InCopy(p)
            \/ mode \in {"Parallel", "Balanced"} /\ SmallFiles(s) \cap refused # {}
        BY <2>2, <2>4, <2>6, <2>7 DEF NoSourceForgotten
      <3>2. CASE s \in godQueue BY <3>2, GodQueueMoves DEF Moving
      <3>3. CASE \E p \in SmallFiles(s) : InCopy(p)
        BY <1>0, <3>3, ToCopyIs, InCopyMoves DEF Moving
      <3>4. CASE mode \in {"Parallel", "Balanced"} /\ SmallFiles(s) \cap refused # {}
        BY <2>4, <3>4 DEF CopyNotCounted, Uncounted
      <3> QED BY <3>1, <3>2, <3>3, <3>4
    <2>8. CASE s \notin largeDone
      <3>1. \/ \E i \in DOMAIN largeQueue : largeQueue[i] = s
            \/ largeTask # NoTask /\ largeTask.source = s
        BY <2>2, <2>4, <2>6, <2>8 DEF NoSourceForgotten
      <3>2. CASE largeTask # NoTask
        <4>1. lpc = "work" BY <1>0, <3>2 DEF LargeInv
        <4> QED BY <4>1, LargeThreadMoves
      <3>3. CASE \E i \in DOMAIN largeQueue : largeQueue[i] = s
        <4>1. largeQueue # <<>> BY <3>3
        <4>2. lpc \notin {"none", "exited"} BY <4>1 DEF Wakeups, LifeInv
        <4> QED BY <4>1, <4>2, LargeThreadMoves DEF LargeMayGo
      <3> QED BY <3>1, <3>2, <3>3
    <2> QED BY <2>5, <2>7, <2>8
  <1> QED BY <1>1, <1>2

(* The copy phase hangs only through the two defects, in every mode and    *)
(* for any sources, files, pools, edits and faults; in GodSpeed mode it    *)
(* never does (SSDCopyQueue.cpp, LargeFileWorker, SubmitCopyQueues,        *)
(* MarkQueueDoneAndCheck, WaitUntilDone and Stop).                         *)
THEOREM HangsOnlyThroughTheDefects == Spec => []HangsOnlySo
  <1>1. Control /\ Wakeups => HangsOnlySo
    <2> SUFFICES ASSUME Control, Wakeups PROVE HangsOnlySo OBVIOUS
    <2>0. /\ mpc \in {"update", "submit", "join", "markAll", "wait", "stop", "stopNotify",
                      "joinThread", "done"}
          /\ pending \in Nat /\ inMap \subseteq Source
      BY DEF Control, TypeOK
    <2>1. ASSUME mpc # "done" PROVE Moving \/ WakeupLost \/ CopyNotCounted
      <3>1. CASE mpc \in {"update", "markAll", "stop", "stopNotify"} BY <3>1 DEF Moving, MainMoves
      <3>2. CASE mpc = "submit" BY <3>2 DEF Moving, MainMoves, Wakeups, LifeInv
      <3>3. CASE mpc = "join"
        <4>1. CASE Pool!Idle BY <3>3, <4>1 DEF Moving, MainMoves
        <4>2. CASE ~Pool!Idle
          <5>1. \E w \in Worker : JobMoves(w)
            BY <4>2, SSDAssumption DEF JobMoves, Pool!Idle, Control, Places, JobsInv
          <5> QED BY <5>1 DEF Moving
        <4> QED BY <4>1, <4>2
      <3>4. CASE mpc = "wait"
        <4>1. CASE pending # 0 BY <3>4, <4>1, PendingMoves
        <4>2. CASE pending = 0
          <5>1. largeQueue = <<>>
            <6> SUFFICES ASSUME largeQueue # <<>> PROVE FALSE OBVIOUS
            <6>1. 1 \in DOMAIN largeQueue /\ largeQueue[1] \in Source BY DEF Control, TypeOK
            <6>2. largeQueue[1] \in ToCount
              BY <6>1 DEF Control, Places, LargeInv, InLargeQueue, ToCount
            <6> QED BY <4>2, <6>2, NothingCounted DEF Control, Places
          <5>2. AllDone /\ ~mainWaits
            BY <3>4, <4>2, <5>1 DEF AllDone, Wakeups, LifeInv, MainWakeups
          <5> QED BY <3>4, <5>2 DEF Moving, MainMoves
        <4> QED BY <4>1, <4>2
      <3>5. CASE mpc = "joinThread"
        <4>1. CASE lpc \in {"none", "exited"} BY <3>5, <4>1 DEF Moving, MainMoves
        <4>2. CASE lpc \notin {"none", "exited"}
          <5>1. LargeMayGo BY <3>5 DEF LargeMayGo, Wakeups, LifeInv
          <5> QED BY <4>2, <5>1, LargeThreadMoves
        <4> QED BY <4>1, <4>2
      <3> QED BY <2>0, <2>1, <3>1, <3>2, <3>3, <3>4, <3>5
    <2>2. ASSUME mode = "GodSpeed" PROVE ~WakeupLost /\ ~CopyNotCounted
      BY <2>2 DEF WakeupLost, CopyNotCounted, Uncounted, Wakeups, LifeInv
    <2> QED BY <2>1, <2>2 DEF HangsOnlySo
  <1>2. Control /\ Wakeups /\ [Next]_vars => Wakeups' BY WakeupsStep
  <1> QED BY <1>1, <1>2, WakeupsInit, ControlAlways, PTL DEF Spec


-----------------------------------------------------------------------------
(* The copy phase takes finitely many steps.  How far it still has to go   *)
(* is given by the phase of the main thread; the sources left to submit;   *)
(* the jobs queued and where each thread is in its job; the jobs of        *)
(* GodSpeed mode queued, then running; the sources queued for the large    *)
(* file thread, where it is in its loop and the files left of its source;  *)
(* the small files queued; and how far each copy is.  In this              *)
(* lexicographic order of numbers and finite sets, which has no infinite   *)
(* descent, each step goes down or only blocks or wakes a thread or edits  *)
(* a file.                                                                 *)
MainRank(pc) ==
  CASE pc \in {"update", "submit"} -> 7 [] pc = "join" -> 6 [] pc = "markAll" -> 5
    [] pc = "wait" -> 4 [] pc = "stop" -> 3 [] pc = "stopNotify" -> 2 [] pc = "joinThread" -> 1
    [] OTHER -> 0

JobRank(pc) ==
  CASE pc = "sync" -> 3 [] pc = "small" -> 2 [] pc \in {"large", "save"} -> 1 [] OTHER -> 0

LargeRank(pc) ==
  CASE pc = "work" -> 2 [] pc \in {"check", "block", "waiting"} -> 1 [] OTHER -> 0

CopyRank(c) ==
  CASE c = NoCopy -> 0 [] c # NoCopy /\ c.stage = "start" -> 3
    [] c # NoCopy /\ c.stage = "open" -> 2 [] OTHER -> 1

CopyAdvances(t) ==
  CopyRank(copying'[t]) < CopyRank(copying[t])
    /\ \A u \in CopyThread \ {t} : copying'[u] = copying[u]

CopiesAdvance ==
  \/ smallQueue' \subseteq smallQueue /\ smallQueue' # smallQueue
  \/ smallQueue' = smallQueue /\ \E t \in CopyThread : CopyAdvances(t)

LargeThreadAdvances ==
  \/ LargeRank(lpc') < LargeRank(lpc)
  \/ lpc' = lpc /\ (\/ /\ lpc = "work"
                       /\ largeTask'.todo \subseteq largeTask.todo
                       /\ largeTask'.todo # largeTask.todo
                    \/ largeTask' = largeTask /\ CopiesAdvance)

LargeAdvances ==
  \/ Len(largeQueue') < Len(largeQueue)
  \/ largeQueue' = largeQueue /\ LargeThreadAdvances

GodAdvances ==
  \/ godQueue' \subseteq godQueue /\ godQueue' # godQueue
  \/ godQueue' = godQueue /\ (\/ godRunning' \subseteq godRunning /\ godRunning' # godRunning
                              \/ godRunning' = godRunning /\ LargeAdvances)

JobAdvances(w) ==
  JobRank(wpc'[w]) < JobRank(wpc[w]) /\ \A v \in Worker \ {w} : wpc'[v] = wpc[v]

PoolAdvances ==
  \/ Len(queue') < Len(queue)
  \/ queue' = queue /\ (\/ \E w \in Worker : JobAdvances(w)
                        \/ wpc' = wpc /\ GodAdvances)

MainAdvances ==
  \/ left' \subseteq left /\ left' # left
  \/ left' = left /\ (\/ mpc = "update" /\ mpc' = "submit"
                      \/ mpc' = mpc /\ PoolAdvances)

Advances ==
  \/ MainRank(mpc') < MainRank(mpc)
  \/ MainRank(mpc') = MainRank(mpc) /\ MainAdvances

NothingDone ==
  /\ UNCHANGED <<disk, scanned, main, pool, wpc, pending, allSubmitted, status, small,
                 largeRunning, largeQueue, largeTask, copying, refused>>
  /\ LargeRank(lpc') = LargeRank(lpc)

CopyPhaseIsFinite == [][Advances \/ NothingDone]_vars

LEMMA MainGoesDown == ASSUME Control, MainStep PROVE Advances \/ NothingDone
  <1> USE DEF Advances, MainRank
  <1>1. CASE IncrementPendingSources BY <1>1 DEF IncrementPendingSources, MainAdvances
  <1>2. ASSUME NEW s \in Source, SubmitUpdate(s) PROVE Advances
    BY <1>2 DEF SubmitUpdate, MainAdvances
  <1>3. CASE JoinUpdates \/ UpdatesJoined BY <1>3 DEF JoinUpdates, UpdatesJoined
  <1>4. CASE MarkAllSourcesSubmitted BY <1>4 DEF MarkAllSourcesSubmitted
  <1>5. CASE MainRuns /\ MainBlocks
    BY <1>5 DEF MainRuns, MainBlocks, NothingDone, large
  <1>6. CASE WaitUntilDone BY <1>6 DEF WaitUntilDone
  <1>7. CASE Stop \/ StopNotifies BY <1>7 DEF Stop, StopNotifies
  <1>8. CASE JoinLargeFileThread BY <1>8 DEF JoinLargeFileThread
  <1>9. CASE MainRuns BY <1>1, <1>2, <1>3, <1>4, <1>5, <1>6, <1>9 DEF MainRuns
  <1> QED BY <1>7, <1>8, <1>9 DEF MainStep

LEMMA JobGoesDown == ASSUME Control, NEW w \in Worker, JobStep(w) PROVE Advances
  <1>0. wpc \in [Worker -> {"idle", "sync", "save", "small", "large"}] /\ queue \in Seq(Source)
    BY DEF Control, TypeOK
  <1>1. UNCHANGED <<mpc, left>> BY DEF JobStep, main
  <1>2. CASE TakeJob(w)
    <2>1. queue' = Tail(queue) /\ queue # <<>> BY <1>2 DEF TakeJob, Pool!Take
    <2>2. Len(queue') < Len(queue) BY <1>0, <2>1
    <2> QED BY <1>1, <2>2 DEF Advances, MainAdvances, PoolAdvances
  <1>3. CASE ~TakeJob(w)
    <2>1. queue' = queue
      BY <1>3 DEF JobStep, NothingToCopy, SaveUnchanged, EnterMap, SubmitSmallFiles,
                  SubmitLargeFiles, Goto, EndJob, Pool!Finish, pool
    <2>2. \/ wpc[w] = "sync" /\ wpc' = [wpc EXCEPT ![w] = "save"]
          \/ wpc[w] = "save" /\ wpc' = [wpc EXCEPT ![w] = "idle"]
          \/ wpc[w] = "sync" /\ wpc' = [wpc EXCEPT ![w] = "small"]
          \/ wpc[w] = "small" /\ wpc' = [wpc EXCEPT ![w] = "large"]
          \/ wpc[w] = "large" /\ wpc' = [wpc EXCEPT ![w] = "idle"]
      BY <1>3 DEF JobStep, NothingToCopy, SaveUnchanged, EnterMap, SubmitSmallFiles,
                  SubmitLargeFiles, Goto, EndJob
    <2>3. JobAdvances(w) BY <1>0, <2>2 DEF JobAdvances, JobRank
    <2> QED BY <1>1, <2>1, <2>3 DEF Advances, MainAdvances, PoolAdvances
  <1> QED BY <1>2, <1>3

(* Steps of the other threads leave the run's pool and the main thread.    *)
LEMMA BelowThePool ==
  ASSUME UNCHANGED <<mpc, left, queue, wpc>>, GodAdvances PROVE Advances
  BY DEF Advances, MainAdvances, PoolAdvances

LEMMA GodGoesDown == ASSUME Control, NEW s \in Source, GodStep(s) PROVE Advances
  <1>1. UNCHANGED <<mpc, left, queue, wpc>> BY DEF GodStep, main, pool
  <1>2. CASE GodJobSubmits(s) BY <1>1, <1>2, BelowThePool DEF GodJobSubmits, GodAdvances
  <1>3. CASE GodJobMarks(s) BY <1>1, <1>3, BelowThePool DEF GodJobMarks, GodAdvances
  <1> QED BY <1>2, <1>3 DEF GodStep

LEMMA LargeGoesDown == ASSUME Control, LargeStep PROVE Advances \/ NothingDone
  <1>1. UNCHANGED <<mpc, left, queue, wpc, godQueue, godRunning>>
    BY DEF LargeStep, main, pool, small
  <1>2. CASE NothingForLarge \/ LargeBlocks
    <2>1. LargeRank(lpc') = LargeRank(lpc)
      BY <1>2 DEF NothingForLarge, LargeBlocks, LargeGoto, LargeRank
    <2> QED BY <1>2, <2>1 DEF LargeStep, NothingForLarge, LargeBlocks, LargeGoto, NothingDone, counts
  <1>3. CASE LargeExits \/ LargeMarks
    <2>1. LargeRank(lpc') < LargeRank(lpc) /\ largeQueue' = largeQueue
      BY <1>3 DEF LargeExits, LargeMarks, LargeGoto, LargeRank
    <2> QED BY <1>1, <2>1, BelowThePool DEF GodAdvances, LargeAdvances, LargeThreadAdvances
  <1>4. CASE TakeLargeQueue
    <2>1. Len(largeQueue') < Len(largeQueue) BY <1>4 DEF TakeLargeQueue, Control, TypeOK
    <2> QED BY <1>1, <2>1, BelowThePool DEF GodAdvances, LargeAdvances
  <1> QED BY <1>2, <1>3, <1>4 DEF LargeStep

LEMMA CopyGoesDown == ASSUME Control, NEW t \in CopyThread, CopyStep(t) PROVE Advances
  <1>0. copying \in [CopyThread -> CopyState \cup {NoCopy}] /\ NoCopy \notin CopyState
    BY SSDAssumption DEF Control, TypeOK
  <1>1. UNCHANGED <<mpc, left, queue, wpc, largeQueue, lpc>> BY DEF CopyStep, main, pool
  <1>2. ASSUME UNCHANGED <<godQueue, godRunning, largeTask>>, CopiesAdvance PROVE Advances
    BY <1>1, <1>2, BelowThePool DEF GodAdvances, LargeAdvances, LargeThreadAdvances
  <1>3. CASE StartSmall(t)
    BY <1>2, <1>3 DEF StartSmall, CopiesAdvance
  <1>4. CASE StartLarge(t)
    <2>1. PICK p \in largeTask.todo : largeTask' = [largeTask EXCEPT !.todo = @ \ {p}]
      BY <1>4 DEF StartLarge
    <2>2. lpc = "work" /\ UNCHANGED <<godQueue, godRunning>> BY <1>4 DEF StartLarge, small
    <2>3. largeTask \in LargeTask BY <2>2 DEF Control, TypeOK, Places, LargeInv
    <2>4. largeTask'.todo = largeTask.todo \ {p} BY <2>1, <2>3 DEF LargeTask
    <2> QED BY <1>1, <2>2, <2>4, BelowThePool DEF GodAdvances, LargeAdvances, LargeThreadAdvances
  <1>5. ASSUME NEW c, copying' = [copying EXCEPT ![t] = c], CopyRank(c) < CopyRank(copying[t]),
               UNCHANGED <<smallQueue, godQueue, godRunning, largeTask>>
        PROVE  Advances
    BY <1>0, <1>2, <1>5 DEF CopiesAdvance, CopyAdvances
  <1>6. CASE copying[t] # NoCopy /\ OpenDestination(t)
    <2> DEFINE c == Copy(copying[t].path, "open", src[copying[t].path])
    <2>1. copying' = [copying EXCEPT ![t] = c] /\ copying[t].stage = "start"
      BY <1>6 DEF OpenDestination, Becomes
    <2>2. c.stage = "open" BY DEF Copy
    <2>3. CopyRank(c) < CopyRank(copying[t]) BY <1>6, <2>1, <2>2 DEF CopyRank
    <2>4. UNCHANGED <<smallQueue, godQueue, godRunning, largeTask>>
      BY <1>6 DEF OpenDestination, small
    <2> QED BY <2>1, <2>3, <2>4, <1>5
  <1>7. ASSUME copying[t] # NoCopy, Counted(t), copying[t].stage \in {"start", "open"},
               UNCHANGED <<smallQueue, godQueue, godRunning, largeTask>>
        PROVE  Advances
    <2> DEFINE m == Copy(copying[t].path, "mark", 0)
    <2>1. PICK c \in {NoCopy, m} : copying' = [copying EXCEPT ![t] = c]
      BY <1>7 DEF Counted, Becomes
    <2>2. m.stage = "mark" BY DEF Copy
    <2>3. CopyRank(c) < CopyRank(copying[t]) BY <1>7, <2>1, <2>2 DEF CopyRank
    <2> QED BY <1>5, <1>7, <2>1, <2>3
  <1>8. CASE copying[t] # NoCopy /\ CopyRefused(t)
    <2>1. UNCHANGED <<smallQueue, godQueue, godRunning, largeTask>> /\ copying[t].stage = "start"
      BY <1>8 DEF CopyRefused
    <2>2. CASE Becomes(t, NoCopy)
      <3>1. CopyRank(NoCopy) < CopyRank(copying[t]) BY <1>8, <2>1 DEF CopyRank
      <3> QED BY <1>5, <2>1, <2>2, <3>1 DEF Becomes
    <2> QED BY <1>7, <1>8, <2>1, <2>2 DEF CopyRefused
  <1>9. CASE copying[t] # NoCopy /\ FinishCopy(t) BY <1>7, <1>9 DEF FinishCopy
  <1>10. CASE copying[t] # NoCopy /\ LastFileMarks(t)
    <2>1. copying' = [copying EXCEPT ![t] = NoCopy] /\ copying[t].stage = "mark"
      BY <1>10 DEF LastFileMarks, Becomes
    <2>2. CopyRank(NoCopy) < CopyRank(copying[t]) BY <1>10, <2>1 DEF CopyRank
    <2>3. UNCHANGED <<smallQueue, godQueue, godRunning, largeTask>>
      BY <1>10 DEF LastFileMarks, small
    <2> QED BY <1>5, <2>1, <2>2, <2>3
  <1> QED BY <1>3, <1>4, <1>6, <1>8, <1>9, <1>10 DEF CopyStep

(* The copy phase does not go in circles: no edit, fault, mode or          *)
(* interleaving gives it infinitely many steps besides blocking and        *)
(* waking.  With HangsOnlySo this is why it ends, but for the two defects, *)
(* once its threads keep running (SSDCopyQueue.cpp, LargeFileWorker,       *)
(* SubmitCopyQueues and WaitUntilDone).                                    *)
THEOREM CopyStepsAreFinite == Spec => CopyPhaseIsFinite
  <1>1. Control /\ [Next]_vars => [Advances \/ NothingDone]_vars
    <2> SUFFICES ASSUME Control, Next PROVE Advances \/ NothingDone OBVIOUS
    <2>1. CASE Edit \/ ExitOnFailure
      BY <2>1 DEF Edit, ExitOnFailure, NothingDone, counts, large
    <2>2. CASE LargeSpuriousWake
      <3>1. LargeRank(lpc') = LargeRank(lpc)
        BY <2>2 DEF LargeSpuriousWake, LargeGoto, LargeRank
      <3> QED BY <2>2, <3>1 DEF LargeSpuriousWake, LargeGoto, NothingDone, counts
    <2>3. CASE MainSpuriousWake BY <2>3 DEF MainSpuriousWake, NothingDone, large
    <2> QED BY <2>1, <2>2, <2>3, MainGoesDown, JobGoesDown, GodGoesDown, LargeGoesDown, CopyGoesDown
            DEF Next
  <1> QED BY <1>1, ControlAlways, PTL DEF Spec, CopyPhaseIsFinite
=============================================================================
