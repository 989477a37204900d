------------------------ MODULE MetaDataCache_proofs ------------------------
(***************************************************************************)
(* What the cache operations guarantee for every cache, every scan and     *)
(* every StaleEntries.  No induction is needed: the loops of the code      *)
(* treat each entry on its own.                                            *)
(***************************************************************************)
EXTENDS MetaDataCache, TLAPS

(* An updated cache, entry by entry. *)
LEMMA UpdatedDomain ==
  ASSUME NEW cache, NEW fresh
  PROVE  DOMAIN UpdateEntries(cache, fresh) = DOMAIN cache \cup DOMAIN fresh
  BY DEF UpdateEntries

LEMMA UpdatedFresh ==
  ASSUME NEW cache, NEW fresh, NEW p \in DOMAIN fresh
  PROVE  /\ UpdateEntries(cache, fresh)[p].hash = fresh[p]
         /\ UpdateEntries(cache, fresh)[p].visited
         /\ UpdateEntries(cache, fresh)[p].miss = 0
  BY DEF UpdateEntries, Entry

LEMMA UpdatedOther ==
  ASSUME NEW cache, NEW fresh, NEW p \in DOMAIN cache \ DOMAIN fresh
  PROVE  UpdateEntries(cache, fresh)[p] = cache[p]
  BY DEF UpdateEntries

(* RemoveStaleEntries, entry by entry. *)
LEMMA KeptDomain ==
  ASSUME NEW cache, NEW maxMiss
  PROVE  DOMAIN RemoveStaleEntries(cache, maxMiss) = DOMAIN cache \ Stale(cache, maxMiss)
  BY DEF RemoveStaleEntries

LEMMA KeptEntry ==
  ASSUME NEW cache, NEW maxMiss, NEW p \in DOMAIN cache \ Stale(cache, maxMiss)
  PROVE  /\ RemoveStaleEntries(cache, maxMiss)[p].hash = cache[p].hash
         /\ ~RemoveStaleEntries(cache, maxMiss)[p].visited
         /\ cache[p].visited => RemoveStaleEntries(cache, maxMiss)[p].miss = 0
         /\ ~cache[p].visited => RemoveStaleEntries(cache, maxMiss)[p].miss = cache[p].miss + 1
  BY DEF RemoveStaleEntries, Entry

-----------------------------------------------------------------------------
(* RemoveStaleEntries never erases a file the scan found: a file that is   *)
(* in its source is neither forgotten nor deleted by its own source's run  *)
(* (MetaDataCache.cpp, UpdateEntry and RemoveStaleEntries).                *)
THEOREM FreshNeverStale ==
  ASSUME NEW cache, NEW fresh, NEW maxMiss
  PROVE  StaleAfter(cache, fresh, maxMiss) \cap DOMAIN fresh = {}
  <1>1. ASSUME NEW p \in DOMAIN fresh PROVE UpdateEntries(cache, fresh)[p].visited
    BY UpdatedFresh
  <1>2. \A p \in StaleAfter(cache, fresh, maxMiss) : ~UpdateEntries(cache, fresh)[p].visited
    BY DEF StaleAfter, Stale
  <1> QED BY <1>1, <1>2

(* What is erased was missed StaleEntries times before this run.           *)
THEOREM StaleMissedLongEnough ==
  ASSUME NEW Paths, NEW Versions, NEW maxMiss \in Nat,
         NEW cache \in Cache(Paths, Versions, maxMiss), NEW fresh,
         NEW p \in StaleAfter(cache, fresh, maxMiss)
  PROVE  p \in DOMAIN cache /\ cache[p].miss = maxMiss
  <1>1. p \notin DOMAIN fresh BY FreshNeverStale
  <1>2. p \in DOMAIN UpdateEntries(cache, fresh) /\ UpdateEntries(cache, fresh)[p].miss + 1 > maxMiss
    BY DEF StaleAfter, Stale
  <1>3. p \in DOMAIN cache \ DOMAIN fresh BY <1>1, <1>2, UpdatedDomain
  <1>4. UpdateEntries(cache, fresh)[p] = cache[p] BY <1>3, UpdatedOther
  <1>5. cache[p].miss \in 0 .. maxMiss BY <1>3 DEF Cache
  <1> QED BY <1>2, <1>3, <1>4, <1>5

(* After a source is synchronised its cache holds every scanned file with  *)
(* the scanned hash, and none of them counts as missed.                    *)
THEOREM RefreshRecordsScan ==
  ASSUME NEW cache, NEW fresh, NEW maxMiss, NEW p \in DOMAIN fresh
  PROVE  /\ p \in DOMAIN Refresh(cache, fresh, maxMiss)
         /\ Refresh(cache, fresh, maxMiss)[p].hash = fresh[p]
         /\ Refresh(cache, fresh, maxMiss)[p].miss = 0
  <1> DEFINE c == UpdateEntries(cache, fresh)
  <1>1. p \in DOMAIN c \ Stale(c, maxMiss)
    BY UpdatedDomain, FreshNeverStale DEF StaleAfter
  <1>2. c[p].hash = fresh[p] /\ c[p].visited BY UpdatedFresh
  <1> HIDE DEF c
  <1>3. p \in DOMAIN RemoveStaleEntries(c, maxMiss) BY <1>1, KeptDomain
  <1>4. /\ RemoveStaleEntries(c, maxMiss)[p].hash = fresh[p]
        /\ RemoveStaleEntries(c, maxMiss)[p].miss = 0
    BY <1>1, <1>2, KeptEntry
  <1> QED BY <1>3, <1>4 DEF Refresh, c

(* What a refreshed cache holds: the scan, and what was not stale of the   *)
(* cache.                                                                  *)
LEMMA RefreshIs ==
  ASSUME NEW c, NEW fresh, NEW maxMiss, NEW p \in DOMAIN Refresh(c, fresh, maxMiss)
  PROVE  LET e == Refresh(c, fresh, maxMiss)[p] IN
           \/ p \in DOMAIN fresh /\ e.hash = fresh[p] /\ e.miss = 0
           \/ /\ p \in DOMAIN c \ DOMAIN fresh /\ p \notin StaleAfter(c, fresh, maxMiss)
              /\ e.hash = c[p].hash /\ e.miss \in {0, c[p].miss + 1}
  <1> DEFINE u == UpdateEntries(c, fresh)
  <1>1. p \in DOMAIN u \ Stale(u, maxMiss)
    BY KeptDomain DEF Refresh
  <1>2. CASE p \in DOMAIN fresh
    BY <1>2, RefreshRecordsScan
  <1>3. CASE p \notin DOMAIN fresh
    <2>1. p \in DOMAIN c /\ u[p] = c[p]
      BY <1>1, <1>3, UpdatedDomain, UpdatedOther
    <2>2. /\ Refresh(c, fresh, maxMiss)[p].hash = u[p].hash
          /\ u[p].visited => Refresh(c, fresh, maxMiss)[p].miss = 0
          /\ ~u[p].visited => Refresh(c, fresh, maxMiss)[p].miss = u[p].miss + 1
      BY <1>1, KeptEntry DEF Refresh
    <2>3. p \notin StaleAfter(c, fresh, maxMiss)
      BY <1>1 DEF StaleAfter
    <2>4. Refresh(c, fresh, maxMiss)[p].hash = c[p].hash /\ Refresh(c, fresh, maxMiss)[p].miss \in {0, c[p].miss + 1}
      <3> HIDE DEF u
      <3> QED BY <2>1, <2>2
    <2> QED BY <1>3, <2>1, <2>3, <2>4
  <1> QED BY <1>2, <1>3

(* A second run over unchanged sources copies nothing (SyncEngine.cpp,     *)
(* Sync after the cache of a completed run).                               *)
THEOREM SecondRunCopiesNothing ==
  ASSUME NEW cache, NEW fresh, NEW maxMiss
  PROVE  FilesToCopy(Refresh(cache, fresh, maxMiss), fresh) = {}
  <1>1. ASSUME NEW p \in DOMAIN fresh
        PROVE  /\ p \in DOMAIN Refresh(cache, fresh, maxMiss)
               /\ Refresh(cache, fresh, maxMiss)[p].hash = fresh[p]
    BY RefreshRecordsScan
  <1> QED BY <1>1 DEF FilesToCopy, HasEntry

-----------------------------------------------------------------------------
(* Refreshing keeps the miss counts within StaleEntries, so what a run     *)
(* saves is again a cache.                                                 *)
THEOREM RefreshType ==
  ASSUME NEW Paths, NEW Versions, NEW maxMiss \in Nat,
         NEW cache \in Cache(Paths, Versions, maxMiss),
         NEW P \in SUBSET Paths, NEW fresh \in [P -> Versions]
  PROVE  Refresh(cache, fresh, maxMiss) \in Cache(Paths, Versions, maxMiss)
  <1> DEFINE c == UpdateEntries(cache, fresh)
             E == [hash : Versions, visited : BOOLEAN, miss : 0 .. maxMiss]
             new(p) == IF c[p].visited THEN Entry(c[p].hash, FALSE, 0)
                       ELSE Entry(c[p].hash, FALSE, c[p].miss + 1)
  <1>1. PICK Q \in SUBSET Paths : cache \in [Q -> E] BY DEF Cache
  <1> DEFINE R == (Q \cup P) \ Stale(c, maxMiss)
  <1>2. DOMAIN c = Q \cup P
    <2>1. DOMAIN cache = Q /\ DOMAIN fresh = P BY <1>1
    <2> QED BY <2>1, UpdatedDomain
  <1>3. ASSUME NEW p \in Q \cup P
        PROVE  c[p].hash \in Versions /\ c[p].miss \in 0 .. maxMiss
    <2>1. CASE p \in P
      <3>1. p \in DOMAIN fresh BY <2>1
      <3>2. c[p].hash = fresh[p] /\ c[p].miss = 0 BY <3>1, UpdatedFresh
      <3> QED BY <2>1, <3>2
    <2>2. CASE p \in Q \ P
      <3>1. p \in DOMAIN cache \ DOMAIN fresh BY <1>1, <2>2
      <3>2. c[p] = cache[p] BY <3>1, UpdatedOther
      <3> HIDE DEF c
      <3> QED BY <1>1, <2>2, <3>2
    <2> QED BY <2>1, <2>2
  <1>4. Refresh(cache, fresh, maxMiss) = [p \in R |-> new(p)]
    BY <1>2 DEF Refresh, RemoveStaleEntries
  <1> HIDE DEF c
  <1>5. ASSUME NEW p \in R PROVE new(p) \in E
    <2>1. c[p].hash \in Versions /\ c[p].miss \in 0 .. maxMiss /\ p \in DOMAIN c
      BY <1>2, <1>3
    <2>2. CASE c[p].visited BY <2>1, <2>2 DEF Entry
    <2>3. CASE ~c[p].visited
      <3>1. ~(c[p].miss + 1 > maxMiss) BY <2>1, <2>3 DEF Stale
      <3>2. c[p].miss + 1 \in 0 .. maxMiss BY <2>1, <3>1
      <3> QED BY <2>1, <2>3, <3>2 DEF Entry
    <2> QED BY <2>2, <2>3
  <1>6. R \in SUBSET Paths BY <1>1
  <1> HIDE DEF new, E, R
  <1>7. Refresh(cache, fresh, maxMiss) \in [R -> E] BY <1>4, <1>5
  <1> QED BY <1>6, <1>7 DEF Cache, E
=============================================================================
