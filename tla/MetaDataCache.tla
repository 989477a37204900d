---------------------------- MODULE MetaDataCache ----------------------------
(***************************************************************************)
(* The cache of one source (MetaDataCache::Entries and <ID>.bin) as a      *)
(* function from paths to entries, and the operations that transform it.   *)
(* A hash is abstracted to the version of the file it was computed from    *)
(* (FileHasher hashes path, size and mtime; two versions of a file are     *)
(* assumed to differ in size or mtime).                                    *)
(*                                                                         *)
(* `fresh' is what a scan found: a function from paths to versions         *)
(* (the vector freshFiles, hashed).                                        *)
(***************************************************************************)
EXTENDS Naturals

EmptyCache == [p \in {} |-> 0]

Cache(Paths, Versions, MaxMiss) ==
  UNION {[P -> [hash : Versions, visited : BOOLEAN, miss : 0 .. MaxMiss]] : P \in SUBSET Paths}

Entry(hash, visited, miss) == [hash |-> hash, visited |-> visited, miss |-> miss]

HasEntry(cache, p) == p \in DOMAIN cache

(* The files SyncEngine::Sync queues: new to the cache, or with another hash. *)
FilesToCopy(cache, fresh) ==
  {p \in DOMAIN fresh : HasEntry(cache, p) => cache[p].hash # fresh[p]}

MarkVisited(cache, Paths) ==
  [p \in DOMAIN cache |->
     IF p \in Paths THEN Entry(cache[p].hash, TRUE, 0) ELSE cache[p]]

(* UpdateEntry for every fresh file. *)
UpdateEntries(cache, fresh) ==
  [p \in DOMAIN cache \cup DOMAIN fresh |->
     IF p \in DOMAIN fresh THEN Entry(fresh[p], TRUE, 0)
     ELSE cache[p]]

(* The entries RemoveStaleEntries erases (and deletes from the destination). *)
MutStale(cache, maxMiss) ==
  {p \in DOMAIN cache : ~cache[p].visited /\ cache[p].miss + 1 >= maxMiss}

Stale(cache, maxMiss) ==
  {p \in DOMAIN cache : ~cache[p].visited /\ cache[p].miss + 1 > maxMiss}

MutRemoveNoStale(cache, maxMiss) ==
  [p \in DOMAIN cache |->
     IF cache[p].visited THEN Entry(cache[p].hash, FALSE, 0)
     ELSE Entry(cache[p].hash, FALSE, cache[p].miss + 1)]

RemoveStaleEntries(cache, maxMiss) ==
  [p \in DOMAIN cache \ Stale(cache, maxMiss) |->
     IF cache[p].visited THEN Entry(cache[p].hash, FALSE, 0)
     ELSE Entry(cache[p].hash, FALSE, cache[p].miss + 1)]

(* What a synchronised source does to a cache: update, then age the rest. *)
Refresh(cache, fresh, maxMiss) == RemoveStaleEntries(UpdateEntries(cache, fresh), maxMiss)

StaleAfter(cache, fresh, maxMiss) == Stale(UpdateEntries(cache, fresh), maxMiss)
=============================================================================
