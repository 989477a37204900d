--------------------------- MODULE Startup_proofs ---------------------------
(* For any configuration file, tree of directories, logs and clock:         *)
(*   what the parser accepts (NumbersUsable, AcceptedLinesKnown,            *)
(*   AcceptedApart), and that it accepts the same and makes the same of it  *)
(*   in every order of the lines that do not contend (OrderIndependent),    *)
(*   the logs that are kept (LogsKept),                                     *)
(*   what a scan finds (ScanExact) and where its files go (NoCollision),    *)
(*   and that each is hashed once (HashedOnce).                             *)
(* The invariant has a part for each: IInv (numbers and hashes), ConfigInv, *)
(* LogInv, ScanInv and PcInv.                                               *)
EXTENDS Startup, FileHasher_proofs, FiniteSetTheorems, SequenceTheorems,
        FunctionTheorems, WellFoundedInduction

(* What NumbersUsable needs of a parsed configuration. *)
Usable(c) ==
  /\ "settings" \in DOMAIN c
  /\ NumberKeys \subseteq DOMAIN c.settings
  /\ \A k \in NumberKeys : c.settings[k] \in 1 .. MaxShort

LEMMA NarrowRange ==
  ASSUME NEW n \in Int
  PROVE  /\ Narrow(n) \in 0 .. MaxShort
         /\ MaxShort \in Nat /\ MaxShort > 0
  <1>1. MaxShort \in Nat /\ MaxShort > 0
    BY DEF MaxShort
  <1>2. \A m \in Nat : n % (m + 1) \in 0 .. m
    OBVIOUS
  <1> QED BY <1>1, <1>2 DEF Narrow

LEMMA DefaultsUsable == Usable(InitialConfig)
  <1>1. /\ NumberKeys \subseteq DOMAIN Defaults
        /\ \A k \in NumberKeys : Defaults[k] \in 1 .. MaxShort
    <2>1. MaxShort \in Nat /\ 10 <= MaxShort
      BY DEF MaxShort
    <2>2. \A k \in NumberKeys : Defaults[k] \in {2, 5, 8, 10}
      BY DEF Defaults, NumberKeys, FlagKeys
    <2>3. NumberKeys \subseteq DOMAIN Defaults
      BY DEF Defaults
    <2> QED BY <2>1, <2>2, <2>3
  <1> QED BY <1>1 DEF Usable, InitialConfig

LEMMA ErrorUsable ==
  ASSUME NEW c, Usable(c), NEW key
  PROVE  Usable(Error(c, key))
  <1>1. /\ "settings" \in DOMAIN Error(c, key)
        /\ Error(c, key).settings = c.settings
    BY DEF Usable, Error
  <1> QED BY <1>1 DEF Usable

LEMMA SetUsable ==
  ASSUME NEW c, Usable(c), NEW key, NEW value, key \in NumberKeys => value \in 1 .. MaxShort
  PROVE  Usable(Set(c, key, value))
  <1>1. /\ "settings" \in DOMAIN Set(c, key, value)
        /\ Set(c, key, value).settings = [c.settings EXCEPT ![key] = value]
    BY DEF Usable, Set
  <1>2. \A k \in NumberKeys : [c.settings EXCEPT ![key] = value][k] \in 1 .. MaxShort
    BY DEF Usable
  <1> QED BY <1>1, <1>2 DEF Usable

(* A line keeps a configuration usable. *)
LEMMA EffectUsable ==
  ASSUME NEW c, Usable(c), NEW line \in Line
  PROVE  Usable(Effect(c, line))
  <1> DEFINE key == line.key
             value == line.value
  <1>1. Usable(Source(c, value)) /\ Usable(Exclude(c, value))
    BY ErrorUsable DEF Source, Exclude, Usable
  <1>2. Usable(Destination(c, value))
    BY ErrorUsable DEF Destination, Usable
  <1>3. ASSUME key \in DOMAIN Allowed PROVE Usable(Choice(c, key, value))
    <2>1. key \notin NumberKeys
      BY <1>3 DEF Allowed, NumberKeys
    <2>2. ASSUME key = "Mode", value \in Allowed[key]
          PROVE  ThreadsOf(value) \in 1 .. MaxShort
      <3>1. MaxShort \in Nat /\ 8 <= MaxShort
        BY DEF MaxShort
      <3> QED BY <2>2, <3>1, ConfigAssumption DEF ThreadsOf, Allowed
    <2>3. Usable(Set(c, key, value))
      BY <2>1, SetUsable
    <2>4. ASSUME key = "Mode", value \in Allowed[key]
          PROVE  Usable(Set(Set(c, key, value), "ThreadCount", ThreadsOf(value)))
      BY <2>2, <2>3, <2>4, SetUsable
    <2> QED BY <2>3, <2>4, ErrorUsable DEF Choice
  <1>4. ASSUME key \in FlagKeys PROVE Usable(Flag(c, key, value))
    <2>1. key \notin NumberKeys
      BY <1>4 DEF FlagKeys, NumberKeys
    <2> QED BY <2>1, ErrorUsable, SetUsable DEF Flag
  <1>5. ASSUME key \in NumberKeys PROVE Usable(Number(c, key, value))
    <2>1. value \in Int \cup {NotNumber}
      BY <1>5, StartupAssumption
    <2>2. CASE value = NotNumber \/ Narrow(value) = 0
      BY <2>2, ErrorUsable DEF Number
    <2>3. CASE ~(value = NotNumber \/ Narrow(value) = 0)
      <3>1. Narrow(value) \in 1 .. MaxShort
        BY <2>1, <2>3, NarrowRange
      <3> QED BY <2>3, <3>1, SetUsable DEF Number
    <2> QED BY <2>2, <2>3
  <1>6. Usable(Keyed(c, key, value))
    BY <1>1, <1>2, <1>3, <1>4, <1>5, ErrorUsable DEF Keyed
  <1>7. Usable([c EXCEPT !.dead = TRUE])
    BY DEF Usable
  <1> QED BY <1>6, <1>7, ErrorUsable DEF Effect

-----------------------------------------------------------------------------
(* How far hashing is: what the threads that ended have hashed, once. *)
Hashing ==
  pc \in {"hash", "sync"} =>
    /\ ended \in [config.sources -> SUBSET Nat]
    /\ \A s \in config.sources : ended[s] \subseteq Chunks(NumberOfFiles(s), Threads)
    /\ hashed = [s \in config.sources |->
                   [i \in 0 .. NumberOfFiles(s) - 1 |->
                      IF \E t \in ended[s] : i \in Chunk(t, NumberOfFiles(s), Threads)
                      THEN 1 ELSE 0]]

Found == pc \in {"scan", "hash", "sync"} => files \in [config.sources -> SUBSET RegularFile]

AllEnded ==
  pc = "sync" => \A s \in config.sources : ended[s] = Chunks(NumberOfFiles(s), Threads)

IInv == Usable(config) /\ Found /\ Hashing /\ AllEnded

LEMMA InitInv == Init => IInv
  BY DefaultsUsable DEF Init, IInv, Found, Hashing, AllEnded

(* The number of files is one, and the number of threads is not 0. *)
LEMMA Sizes ==
  ASSUME IInv, pc \in {"scan", "hash", "sync"}, NEW s \in config.sources
  PROVE  /\ NumberOfFiles(s) \in Nat
         /\ Threads \in Nat /\ Threads > 0
  <1>1. IsFiniteSet(files[s])
    BY PathsAssumption, FS_Subset DEF IInv, Found
  <1> QED BY <1>1, FS_CardinalityType DEF IInv, Usable, NumberOfFiles, Threads, NumberKeys

(* A thread that ends has hashed its files, and nobody had before. *)
LEMMA HashChunkInv ==
  ASSUME IInv, NEW s \in config.sources, HashChunk(s)
  PROVE  IInv'
  <1> USE DEF HashChunk
  <1> DEFINE n(r) == NumberOfFiles(r)
  <1>1. PICK t \in Chunks(n(s), Threads) \ ended[s] :
          /\ ended' = [ended EXCEPT ![s] = @ \cup {t}]
          /\ hashed' = [hashed EXCEPT ![s] =
               [i \in DOMAIN @ |-> IF i \in Chunk(t, n(s), Threads) THEN @[i] + 1 ELSE @[i]]]
    OBVIOUS
  <1>2. Usable(config)' /\ Found'
    BY DEF IInv, Usable, Found
  <1>3. \A r : (NumberOfFiles(r)' = NumberOfFiles(r)) /\ Threads' = Threads
    BY DEF NumberOfFiles, Threads
  <1>4. t \in Nat /\ t \in Chunks(n(s), Threads) /\ t \notin ended[s]
    BY <1>1 DEF Chunks
  <1>5. ended' \in [config.sources -> SUBSET Nat]
    BY <1>1, <1>4 DEF IInv, Hashing
  <1>6. \A r \in config.sources : ended'[r] \subseteq Chunks(n(r), Threads)
    BY <1>1, <1>4 DEF IInv, Hashing
  <1>7. ASSUME NEW i \in 0 .. n(s) - 1, i \in Chunk(t, n(s), Threads)
        PROVE  ~\E u \in ended[s] : i \in Chunk(u, n(s), Threads)
    <2>1. ended[s] \subseteq Chunks(n(s), Threads)
      BY DEF IInv, Hashing
    <2>2. n(s) \in Nat /\ Threads \in Nat /\ Threads > 0
      BY Sizes
    <2> HIDE DEF HashChunk
    <2> QED BY <1>4, <1>7, <2>1, <2>2, ChunksPartition
  <1> DEFINE was == [i \in 0 .. n(s) - 1 |->
                       IF \E u \in ended[s] : i \in Chunk(u, n(s), Threads) THEN 1 ELSE 0]
             is == [i \in 0 .. n(s) - 1 |->
                       IF \E u \in ended'[s] : i \in Chunk(u, n(s), Threads) THEN 1 ELSE 0]
  <1>8. hashed[s] = was
    BY DEF IInv, Hashing
  <1>9. ended'[s] = ended[s] \cup {t}
    BY <1>1 DEF IInv, Hashing
  <1>10. [i \in DOMAIN was |-> IF i \in Chunk(t, n(s), Threads) THEN was[i] + 1 ELSE was[i]] = is
    <2> HIDE DEF HashChunk, n
    <2> QED BY <1>7, <1>9
  <1>11. hashed' = [hashed EXCEPT ![s] = is]
    BY <1>1, <1>8, <1>10
  <1>12. \A r \in config.sources \ {s} : ended'[r] = ended[r]
    BY <1>1 DEF IInv, Hashing
  <1>13. hashed' = [r \in config.sources |->
                      [i \in 0 .. n(r) - 1 |->
                         IF \E u \in ended'[r] : i \in Chunk(u, n(r), Threads) THEN 1 ELSE 0]]
    <2>1. hashed = [r \in config.sources |->
                      [i \in 0 .. n(r) - 1 |->
                         IF \E u \in ended[r] : i \in Chunk(u, n(r), Threads) THEN 1 ELSE 0]]
      BY DEF IInv, Hashing
    <2> HIDE DEF HashChunk, n
    <2> QED BY <1>11, <1>12, <2>1
  <1>14. Hashing'
    <2>1. config' = config /\ files' = files
      OBVIOUS
    <2> HIDE DEF HashChunk
    <2> QED BY <2>1, <1>5, <1>6, <1>13 DEF Hashing, NumberOfFiles, Threads
  <1>15. AllEnded'
    BY DEF AllEnded
  <1> QED BY <1>2, <1>14, <1>15 DEF IInv

LEMMA NextInv ==
  ASSUME IInv, [Next]_vars
  PROVE  IInv'
  <1> USE DEF IInv, Found, Hashing, AllEnded, NumberOfFiles, Threads
  <1>1. CASE InitLog
    <2>1. config' = config
      BY <1>1 DEF InitLog
    <2>2. Usable(config)'
      BY <2>1 DEF Usable
    <2> QED BY <1>1, <2>1, <2>2 DEF InitLog
  <1>2. CASE ReadLine
    <2>1. PICK line \in Line : config' = Effect(config, line)
      BY <1>2 DEF ReadLine
    <2>2. Usable(config)'
      BY <2>1, EffectUsable
    <2> QED BY <1>2, <2>2 DEF ReadLine
  <1>3. CASE Die
    BY <1>3 DEF Die, Usable
  <1>4. CASE EndOfFile
    <2>1. Usable(config)'
      BY <1>4 DEF EndOfFile, Usable
    <2> QED BY <1>4, <2>1 DEF EndOfFile
  <1>5. CASE CleanupOldLogs
    BY <1>5 DEF CleanupOldLogs, Usable
  <1>6. CASE ScansJoined
    <2>1. Usable(config)' /\ Found' /\ AllEnded'
      BY <1>6 DEF ScansJoined, Usable
    <2>2. Hashing'
      BY <1>6 DEF ScansJoined
    <2> QED BY <2>1, <2>2
  <1>7. CASE HashesDone
    BY <1>7 DEF HashesDone, Usable
  <1>8. ASSUME NEW s \in config.sources, Scan(s) PROVE IInv'
    <2>1. Usable(config)' /\ Hashing' /\ AllEnded'
      BY <1>8 DEF Scan, Usable
    <2>2. Found'
      BY <1>8 DEF Scan
    <2> QED BY <2>1, <2>2
  <1>9. ASSUME NEW s \in config.sources, HashChunk(s) PROVE IInv'
    BY <1>9, HashChunkInv
  <1>10. CASE UNCHANGED vars
    BY <1>10 DEF vars, Usable
  <1> QED BY <1>1, <1>2, <1>3, <1>4, <1>5, <1>6, <1>7, <1>8, <1>9, <1>10 DEF Next

THEOREM Inductive == Spec => []IInv
  <1>1. IInv /\ [Next]_vars => IInv'
    BY NextInv
  <1> QED BY InitInv, <1>1, PTL DEF Spec

(* ThreadCount, StaleEntries, MaxLogFiles and the counts of the SSD modes   *)
(* are between 1 and 65535 whatever lines are read (ConfigParser.cpp: zero  *)
(* is tested after the conversion to unsigned short).                       *)
THEOREM NumbersAreUsable == Spec => []NumbersUsable
  <1>1. IInv => NumbersUsable
    BY DEF IInv, Usable, NumbersUsable
  <1> QED BY Inductive, <1>1, PTL

(* Every file of every source is hashed by exactly one thread before the    *)
(* hashes are used (FileHasher.cpp, HashFiles).                             *)
THEOREM EachFileHashedOnce == Spec => []HashedOnce
  <1>1. IInv => HashedOnce
    <2> SUFFICES ASSUME IInv, pc = "sync", NEW s \in config.sources, NEW i \in DOMAIN hashed[s]
                 PROVE  hashed[s][i] = 1
      BY DEF HashedOnce
    <2>1. NumberOfFiles(s) \in Nat /\ Threads \in Nat /\ Threads > 0
      BY Sizes
    <2>2. i \in 0 .. NumberOfFiles(s) - 1
      BY DEF IInv, Hashing
    <2>3. \E t \in ended[s] : i \in Chunk(t, NumberOfFiles(s), Threads)
      BY <2>1, <2>2, ChunksPartition DEF IInv, AllEnded
    <2> QED BY <2>2, <2>3 DEF IInv, Hashing
  <1> QED BY Inductive, <1>1, PTL

-----------------------------------------------------------------------------
(* Paths. *)
LEMMA PlainIs ==
  ASSUME NEW p \in Seq(STRING)
  PROVE  /\ Plain(p) \in Seq(STRING) /\ Len(p) \in Nat /\ Len(Plain(p)) \in Nat
         /\ \A i \in 1 .. Len(Plain(p)) : Plain(p)[i] = p[i]
         /\ ~HasSlash(p) => Plain(p) = p
         /\ HasSlash(p) => /\ Len(p) = Len(Plain(p)) + 1 /\ p[Len(p)] = NoName
                           /\ p = Append(Plain(p), NoName)
  <1>1. CASE HasSlash(p)
    <2>1. Len(p) \in Nat /\ Len(p) > 0 /\ p[Len(p)] = NoName
      BY <1>1, EmptySeq DEF HasSlash, Last
    <2>2. Plain(p) = SubSeq(p, 1, Len(p) - 1)
      BY <1>1 DEF Plain, Front
    <2>3. /\ Plain(p) \in Seq(STRING) /\ Len(Plain(p)) = Len(p) - 1
          /\ \A i \in 1 .. Len(p) - 1 : Plain(p)[i] = p[i]
      <3>1. \A i \in 1 .. Len(p) - 1 : p[i] \in STRING
        BY <2>1
      <3> DEFINE m == Len(p) - 1
      <3>2. m \in Int /\ 1 \in Int /\ m >= 0
        BY <2>1
      <3> HIDE DEF m
      <3>3. /\ SubSeq(p, 1, m) \in Seq(STRING)
            /\ Len(SubSeq(p, 1, m)) = IF 1 <= m THEN m - 1 + 1 ELSE 0
            /\ \A i \in 1 .. m - 1 + 1 : SubSeq(p, 1, m)[i] = p[1 + i - 1]
        BY <3>1, <3>2, SubSeqProperties DEF m
      <3>4. \A i \in 1 .. m : SubSeq(p, 1, m)[i] = p[i]
        BY <3>2, <3>3
      <3>5. Len(SubSeq(p, 1, m)) = m
        BY <3>2, <3>3
      <3>6. Plain(p) = SubSeq(p, 1, m)
        BY <2>2 DEF m
      <3>7. Plain(p) \in Seq(STRING) /\ Len(Plain(p)) = m /\ \A i \in 1 .. m : Plain(p)[i] = p[i]
        BY <3>3, <3>4, <3>5, <3>6
      <3> QED BY <3>7 DEF m
    <2>4. Append(Plain(p), NoName) \in Seq(STRING) /\ Len(Append(Plain(p), NoName)) = Len(p)
      BY <2>1, <2>3
    <2>5. \A i \in 1 .. Len(p) : Append(Plain(p), NoName)[i] = p[i]
      BY <2>1, <2>3
    <2>6. p = Append(Plain(p), NoName)
      BY <2>4, <2>5, SeqEqual
    <2> QED BY <1>1, <2>1, <2>3, <2>6
  <1>2. CASE ~HasSlash(p)
    BY <1>2 DEF Plain
  <1> QED BY <1>1, <1>2

LEMMA ExistingPlain ==
  ASSUME NEW p \in Existing
  PROVE  p \in Seq(STRING) /\ ~HasSlash(p) /\ Plain(p) = p
  <1>1. p \in Seq(STRING \ {NoName})
    BY PathsAssumption
  <1>2. p \in Seq(STRING) /\ \A i \in 1 .. Len(p) : p[i] # NoName
    BY <1>1
  <1>3. ~HasSlash(p)
    BY <1>2 DEF HasSlash, Last
  <1> QED BY <1>2, <1>3 DEF Plain

LEMMA PrefixIs ==
  ASSUME NEW s \in Seq(STRING), NEW t \in Seq(STRING)
  PROVE  /\ IsPrefix(s, t) => Len(s) <= Len(t) /\ \A i \in 1 .. Len(s) : s[i] = t[i]
         /\ Len(s) <= Len(t) /\ (\A i \in 1 .. Len(s) : s[i] = t[i]) => IsPrefix(s, t)
  <1>1. ASSUME Len(s) <= Len(t)
        PROVE  /\ SubSeq(s, 1, Len(s)) \in Seq(STRING) /\ SubSeq(t, 1, Len(s)) \in Seq(STRING)
               /\ Len(SubSeq(s, 1, Len(s))) = Len(s) /\ Len(SubSeq(t, 1, Len(s))) = Len(s)
               /\ \A i \in 1 .. Len(s) : SubSeq(s, 1, Len(s))[i] = s[i] /\ SubSeq(t, 1, Len(s))[i] = t[i]
    BY <1>1
  <1>2. ASSUME IsPrefix(s, t) PROVE Len(s) <= Len(t) /\ \A i \in 1 .. Len(s) : s[i] = t[i]
    <2>1. Len(s) <= Len(t) /\ SubSeq(s, 1, Len(s)) = SubSeq(t, 1, Len(s))
      BY <1>2 DEF IsPrefix
    <2> QED BY <1>1, <2>1
  <1>3. ASSUME Len(s) <= Len(t), \A i \in 1 .. Len(s) : s[i] = t[i] PROVE IsPrefix(s, t)
    <2>1. SubSeq(s, 1, Len(s)) = SubSeq(t, 1, Len(s))
      BY <1>1, <1>3, SeqEqual
    <2> QED BY <1>3, <2>1 DEF IsPrefix
  <1> QED BY <1>2, <1>3

(* What lies within a path without a slash is also its child for the test    *)
(* of the parser, which stops at the end of the shorter path.                *)
LEMMA WithinIsNested ==
  ASSUME NEW p \in Seq(STRING), NEW d \in Seq(STRING), ~HasSlash(d), Within(p, d)
  PROVE  IsParentDirectory(d, p)
  <1>1. Plain(d) = d /\ Plain(p) \in Seq(STRING)
    BY PlainIs
  <1>2. Len(d) <= Len(Plain(p)) /\ \A i \in 1 .. Len(d) : d[i] = Plain(p)[i]
    BY <1>1, PrefixIs DEF Within
  <1>3. \A i \in 1 .. Len(Plain(p)) : Plain(p)[i] = p[i]
    BY PlainIs
  <1>4. Len(d) \in Nat /\ Len(Plain(p)) \in Nat /\ DOMAIN d = 1 .. Len(d)
    BY <1>1
  <1> QED BY <1>2, <1>3, <1>4 DEF IsParentDirectory

-----------------------------------------------------------------------------
(* What the parser's other results need. *)
SettingKeys == NumberKeys \cup FlagKeys \cup DOMAIN Allowed

Fits(c) ==
  /\ DOMAIN c = {"sources", "skipped", "destination", "excludes", "settings", "errors", "restoring", "dead"}
  /\ c.sources \subseteq Resolved \cap Seq(STRING) /\ c.skipped \subseteq Resolved
  /\ c.destination \in (Resolved \cap Seq(STRING)) \cup {NoPath}
  /\ c.excludes \subseteq Seq(STRING)
  /\ c.restoring \in {{}, {TRUE}, {FALSE}}
  /\ c.dead \in BOOLEAN
  /\ DOMAIN c.settings = SettingKeys
  /\ \A k \in FlagKeys : c.settings[k] \in BOOLEAN
  /\ \A k \in DOMAIN Allowed : c.settings[k] \in Allowed[k]

(* Two sources differ where both have a name. *)
Apart(c) == \A s, t \in c.sources : s # t => ~IsParentDirectory(s, t)

(* Errors stay. *)
Follows(c, d) == Fits(d) /\ (Apart(c) => Apart(d)) /\ c.errors \subseteq d.errors

LEMMA KeysApart ==
  /\ NumberKeys \cap (FlagKeys \cup DOMAIN Allowed) = {}
  /\ FlagKeys \cap DOMAIN Allowed = {}
  /\ DOMAIN Allowed = {"Mode", "DiskType", "SSDMode"}
  BY DEF NumberKeys, FlagKeys, Allowed

LEMMA DefaultsFit == Fits(InitialConfig) /\ Apart(InitialConfig)
  <1>1. DOMAIN Defaults = SettingKeys
    BY DEF Defaults, SettingKeys
  <1>2. ASSUME NEW k \in FlagKeys PROVE Defaults[k] \in BOOLEAN
    <2> DEFINE on == k \in {"EnableBackupCopyAfterRun", "EnableCacheRestoreFromBackup"}
    <2>1. k \notin NumberKeys /\ k # "ThreadCount" /\ k # "StaleEntries" /\ k # "MaxLogFiles"
      BY DEF FlagKeys, NumberKeys
    <2>2. k # "Mode" /\ k # "DiskType" /\ k # "SSDMode"
      BY DEF FlagKeys
    <2>3. Defaults[k] = on
      BY <2>1, <2>2 DEF Defaults
    <2> QED BY <2>3
  <1>3. \A k \in DOMAIN Allowed : Defaults[k] \in Allowed[k]
    <2>1. Defaults["Mode"] = "BG" /\ Defaults["DiskType"] = "HDD" /\ Defaults["SSDMode"] = "Balanced"
      BY DEF Defaults, FlagKeys, NumberKeys, Allowed
    <2> QED BY <2>1 DEF Allowed
  <1> QED BY <1>1, <1>2, <1>3 DEF Fits, Apart, InitialConfig

LEMMA ErrorFits ==
  ASSUME NEW c, Fits(c), NEW key
  PROVE  Follows(c, Error(c, key)) /\ key \in Error(c, key).errors
  <1> DEFINE d == Error(c, key)
  <1>1. /\ DOMAIN d = DOMAIN c /\ d.errors = c.errors \cup {key}
        /\ \A f \in DOMAIN c \ {"errors"} : d[f] = c[f]
    BY DEF Error, Fits
  <1>2. Error(c, key) = d
    OBVIOUS
  <1> HIDE DEF d
  <1> QED BY <1>1, <1>2 DEF Follows, Fits, Apart

LEMMA SetFits ==
  ASSUME NEW c, Fits(c), NEW key \in SettingKeys, NEW value,
         key \in FlagKeys => value \in BOOLEAN,
         key \in DOMAIN Allowed => value \in Allowed[key]
  PROVE  Follows(c, Set(c, key, value))
  <1> DEFINE d == Set(c, key, value)
  <1>1. /\ DOMAIN d = DOMAIN c /\ d.settings = [c.settings EXCEPT ![key] = value]
        /\ \A f \in DOMAIN c \ {"settings"} : d[f] = c[f]
    BY DEF Set, Fits
  <1>2. DOMAIN d.settings = SettingKeys /\ \A k \in SettingKeys : d.settings[k] = IF k = key THEN value ELSE c.settings[k]
    BY <1>1 DEF Fits
  <1>4. Set(c, key, value) = d
    OBVIOUS
  <1> HIDE DEF d
  <1>3. (\A k \in FlagKeys : d.settings[k] \in BOOLEAN) /\ (\A k \in DOMAIN Allowed : d.settings[k] \in Allowed[k])
    BY <1>2 DEF Fits, SettingKeys
  <1> QED BY <1>1, <1>2, <1>3, <1>4 DEF Follows, Fits, Apart

LEMMA SourceFits ==
  ASSUME NEW c, Fits(c), NEW p, p = Relative \/ p \in Seq(STRING)
  PROVE  Follows(c, Source(c, p))
  <1>1. CASE p = Relative \/ ~Exists(p) \/ ~(IsDirectory(p) \/ IsRegularFile(p))
    BY <1>1, ErrorFits DEF Source
  <1>2. CASE ~(p = Relative \/ ~Exists(p) \/ ~(IsDirectory(p) \/ IsRegularFile(p)))
    <2>1. p \in Resolved \cap Seq(STRING)
      <3>1. p \in RegularFile \/ (Plain(p) \in Directory /\ p \in {Plain(p), Append(Plain(p), NoName)})
        BY <1>2, PlainIs DEF IsDirectory, IsRegularFile
      <3> QED BY <1>2, <3>1 DEF Resolved
    <2>2. CASE Nested(c, p)
      <3> DEFINE d == [c EXCEPT !.skipped = @ \cup {p}]
      <3>1. Source(c, p) = d
        BY <1>2, <2>2 DEF Source
      <3>2. /\ DOMAIN d = DOMAIN c /\ d.skipped = c.skipped \cup {p}
            /\ \A f \in DOMAIN c \ {"skipped"} : d[f] = c[f]
        BY DEF Fits
      <3> HIDE DEF d
      <3> QED BY <2>1, <3>1, <3>2 DEF Follows, Fits, Apart
    <2>3. CASE ~Nested(c, p)
      <3> DEFINE d == [c EXCEPT !.sources = @ \cup {p}]
      <3>1. Source(c, p) = d
        BY <1>2, <2>3 DEF Source
      <3>2. /\ DOMAIN d = DOMAIN c /\ d.sources = c.sources \cup {p}
            /\ \A f \in DOMAIN c \ {"sources"} : d[f] = c[f]
        BY DEF Fits
      <3> HIDE DEF d
      <3>3. Apart(c) => Apart(d)
        BY <2>3, <3>2 DEF Apart, Nested
      <3> QED BY <2>1, <3>1, <3>2, <3>3 DEF Follows, Fits
    <2> QED BY <2>2, <2>3
  <1> QED BY <1>1, <1>2

LEMMA DestinationFits ==
  ASSUME NEW c, Fits(c), NEW p, p = Relative \/ p \in Seq(STRING)
  PROVE  Follows(c, Destination(c, p))
  <1>1. CASE p = Relative \/ c.destination # NoPath \/ ~IsDirectory(p)
    BY <1>1, ErrorFits DEF Destination
  <1>2. CASE ~(p = Relative \/ c.destination # NoPath \/ ~IsDirectory(p))
    <2>1. p \in Resolved \cap Seq(STRING)
      <3>1. Plain(p) \in Directory /\ p \in {Plain(p), Append(Plain(p), NoName)}
        BY <1>2, PlainIs DEF IsDirectory
      <3> QED BY <1>2, <3>1 DEF Resolved
    <2> DEFINE now == c.settings["EnableCacheRestoreFromBackup"]
               d == [c EXCEPT !.destination = p, !.restoring = {now}]
    <2>2. Destination(c, p) = d
      BY <1>2 DEF Destination
    <2>3. now \in BOOLEAN
      BY DEF Fits, FlagKeys
    <2>4. /\ DOMAIN d = DOMAIN c /\ d.destination = p /\ d.restoring = {now}
          /\ \A f \in DOMAIN c \ {"destination", "restoring"} : d[f] = c[f]
      BY DEF Fits
    <2>5. {now} \in {{}, {TRUE}, {FALSE}}
      BY <2>3
    <2> HIDE DEF d, now
    <2> QED BY <2>1, <2>2, <2>4, <2>5 DEF Follows, Fits, Apart
  <1> QED BY <1>1, <1>2

LEMMA ExcludeFits ==
  ASSUME NEW c, Fits(c), NEW p, p = Relative \/ p \in Seq(STRING)
  PROVE  Follows(c, Exclude(c, p))
  <1>1. CASE p = Relative
    BY <1>1, ErrorFits DEF Exclude
  <1>2. CASE p # Relative
    <2> DEFINE d == [c EXCEPT !.excludes = @ \cup {p}]
    <2>1. Exclude(c, p) = d
      BY <1>2 DEF Exclude
    <2>2. /\ DOMAIN d = DOMAIN c /\ d.excludes = c.excludes \cup {p}
          /\ \A f \in DOMAIN c \ {"excludes"} : d[f] = c[f]
      BY DEF Fits
    <2> HIDE DEF d
    <2> QED BY <1>2, <2>1, <2>2 DEF Follows, Fits, Apart
  <1> QED BY <1>1, <1>2

KnownKeys == {"Source", "Destination", "Exclude"} \cup DOMAIN Defaults

LEMMA KeyedFits ==
  ASSUME NEW c, Fits(c), NEW key, NEW value,
         key \in {"Source", "Destination", "Exclude"} => value = Relative \/ value \in Seq(STRING)
  PROVE  Follows(c, Keyed(c, key, value)) /\ (key \notin KnownKeys => Keyed(c, key, value).errors # {})
  <1>1. DOMAIN Defaults = SettingKeys
    BY DEF Defaults, SettingKeys
  <1>2. CASE key \in {"Source", "Destination", "Exclude"}
    <2>1. \/ key = "Source" /\ Keyed(c, key, value) = Source(c, value)
          \/ key = "Destination" /\ Keyed(c, key, value) = Destination(c, value)
          \/ key = "Exclude" /\ Keyed(c, key, value) = Exclude(c, value)
      <3>4. key \notin DOMAIN Allowed \cup FlagKeys \cup NumberKeys
        BY <1>2, KeysApart DEF FlagKeys, NumberKeys
      <3>1. CASE key = "Source"
        BY <3>1, <3>4 DEF Keyed
      <3>2. CASE key = "Destination"
        BY <3>2, <3>4 DEF Keyed
      <3>3. CASE key = "Exclude"
        BY <3>3, <3>4 DEF Keyed
      <3> QED BY <1>2, <3>1, <3>2, <3>3
    <2> QED BY <1>2, <2>1, SourceFits, DestinationFits, ExcludeFits DEF KnownKeys
  <1>3. CASE key \in DOMAIN Allowed
    <2>1. Keyed(c, key, value) = Choice(c, key, value) /\ key \in SettingKeys /\ key \notin FlagKeys
      BY <1>3, KeysApart DEF Keyed, SettingKeys
    <2>2. CASE value \notin Allowed[key]
      BY <1>1, <2>1, <2>2, ErrorFits DEF Choice, KnownKeys
    <2>3. CASE value \in Allowed[key]
      <3>1. Follows(c, Set(c, key, value))
        BY <1>3, <2>1, <2>3, SetFits
      <3>2. "ThreadCount" \in SettingKeys \ (FlagKeys \cup DOMAIN Allowed)
        BY KeysApart DEF SettingKeys, NumberKeys
      <3>3. Follows(Set(c, key, value), Set(Set(c, key, value), "ThreadCount", ThreadsOf(value)))
        BY <3>1, <3>2, SetFits DEF Follows
      <3>4. Follows(c, Set(Set(c, key, value), "ThreadCount", ThreadsOf(value)))
        BY <3>1, <3>3 DEF Follows
      <3> QED BY <1>1, <2>1, <2>3, <3>1, <3>4 DEF Choice, KnownKeys
    <2> QED BY <2>2, <2>3
  <1>4. CASE key \in FlagKeys
    <2>1. Keyed(c, key, value) = Flag(c, key, value) /\ key \in SettingKeys /\ key \notin DOMAIN Allowed
      BY <1>4, KeysApart DEF Keyed, SettingKeys, FlagKeys
    <2>2. Follows(c, Set(c, key, value = "YES"))
      BY <2>1, SetFits
    <2> QED BY <1>1, <2>1, <2>2, ErrorFits DEF Flag, KnownKeys
  <1>5. CASE key \in NumberKeys
    <2>1. Keyed(c, key, value) = Number(c, key, value) /\ key \in SettingKeys /\ key \notin FlagKeys \cup DOMAIN Allowed
      BY <1>5, KeysApart DEF Keyed, SettingKeys, NumberKeys
    <2>2. Follows(c, Set(c, key, Narrow(value)))
      BY <2>1, SetFits
    <2> QED BY <1>1, <2>1, <2>2, ErrorFits DEF Number, KnownKeys
  <1>6. CASE key \notin {"Source", "Destination", "Exclude"} \cup SettingKeys
    <2>1. Keyed(c, key, value) = Error(c, "key")
      BY <1>6 DEF Keyed, SettingKeys
    <2> QED BY <2>1, ErrorFits
  <1> QED BY <1>2, <1>3, <1>4, <1>5, <1>6 DEF SettingKeys

KnownLine(line) == line.key \in KnownKeys /\ (line.equal = NoEqual => line.length > MaxShort)

LEMMA EffectFits ==
  ASSUME NEW c, Fits(c), NEW line \in Line
  PROVE  LET d == Effect(c, line)
         IN  /\ Follows(c, d) /\ (c.dead => d = c)
             /\ c.dead \/ line.length = 0 \/ KnownLine(line) \/ d.errors # {} \/ d.dead
  <1>1. CASE c.dead \/ line.length = 0
    <2>1. Effect(c, line) = c
      BY <1>1 DEF Effect
    <2> QED BY <1>1, <2>1 DEF Follows
  <1>2. CASE ~(c.dead \/ line.length = 0) /\ SplitAt(line) + 1 > line.length
    <2> DEFINE d == [c EXCEPT !.dead = TRUE]
    <2>1. Effect(c, line) = d
      BY <1>2 DEF Effect
    <2>2. DOMAIN d = DOMAIN c /\ d.dead = TRUE /\ \A f \in DOMAIN c \ {"dead"} : d[f] = c[f]
      BY DEF Fits
    <2> HIDE DEF d
    <2> QED BY <1>2, <2>1, <2>2 DEF Follows, Fits, Apart
  <1>3. CASE ~(c.dead \/ line.length = 0) /\ ~(SplitAt(line) + 1 > line.length)
    <2>1. Effect(c, line) = Keyed(c, line.key, line.value)
      BY <1>3 DEF Effect
    <2>2. Follows(c, Effect(c, line)) /\ (line.key \notin KnownKeys => Effect(c, line).errors # {})
      BY <2>1, KeyedFits, StartupAssumption
    <2>3. line.equal = NoEqual => line.length > MaxShort
      BY <1>3, StartupAssumption DEF SplitAt, MaxShort
    <2> QED BY <1>3, <2>2, <2>3 DEF KnownLine
  <1> QED BY <1>1, <1>2, <1>3

-----------------------------------------------------------------------------
(* A file that starts a synchronisation passed the tests at its end. *)
Checked(c) ==
  /\ c.errors = {} /\ ~c.dead /\ c.destination # NoPath
  /\ \A s \in c.sources : ~IsParentDirectory(s, c.destination)
  /\ c.settings["DestinationTopFolderInsteadOfFullPath"] =>
       \A s, t \in c.sources : s # t => FileName(s) # FileName(t)

LEMMA AcceptedIsChecked ==
  ASSUME NEW c, Accepted(c)
  PROVE  Checked(c)
  <1> DEFINE test(e) ==
       CASE e = "no source" -> c.sources = {}
         [] e = "no destination" -> c.destination = NoPath
         [] e = "overlap" -> c.destination # NoPath /\ Overlapping(c) # {}
         [] e = "same names" -> /\ c.destination # NoPath
                                /\ c.settings["DestinationTopFolderInsteadOfFullPath"]
                                /\ SameNames(c)
  <1>1. ~c.dead /\ c.errors = {} /\ FinalErrors(c) = {}
    BY DEF Accepted
  <1>2. FinalErrors(c) = {e \in {"no source", "no destination", "overlap", "same names"} : test(e)}
    BY DEF FinalErrors
  <1>3. ~test("no destination") /\ ~test("overlap") /\ ~test("same names")
    <2> HIDE DEF test
    <2> QED BY <1>1, <1>2
  <1>4. c.destination # NoPath
    BY <1>3
  <1>5. Overlapping(c) = {}
    BY <1>3, <1>4
  <1>6. c.settings["DestinationTopFolderInsteadOfFullPath"] => ~SameNames(c)
    BY <1>3, <1>4
  <1> HIDE DEF test
  <1> QED BY <1>1, <1>4, <1>5, <1>6 DEF Checked, Overlapping, SameNames

ConfigInv ==
  /\ Fits(config) /\ Apart(config)
  /\ lines \in Seq(Line) /\ Len(lines) <= MaxLines
  /\ \A i \in 1 .. Len(lines) :
       lines[i].length > 0 /\ ~KnownLine(lines[i]) => config.errors # {} \/ config.dead
  /\ Going => Checked(config)

LEMMA ConfigInvInit == Init => ConfigInv
  <1> SUFFICES ASSUME Init PROVE ConfigInv
    OBVIOUS
  <1>1. config = InitialConfig /\ lines = <<>> /\ pc = "start"
    BY DEF Init
  <1>2. lines \in Seq(Line) /\ Len(lines) = 0
    BY <1>1
  <1> QED BY <1>1, <1>2, DefaultsFit, StartupAssumption DEF ConfigInv, Going

LEMMA ConfigInvStep ==
  ASSUME ConfigInv, [Next]_vars
  PROVE  ConfigInv'
  <1>1. CASE ReadLine
    <2>1. PICK line \in Line : lines' = Append(lines, line) /\ config' = Effect(config, line)
      BY <1>1 DEF ReadLine
    <2>2. Len(lines) < MaxLines /\ ~config.dead /\ pc' = "parse"
      BY <1>1 DEF ReadLine
    <2>3. /\ Fits(config') /\ Apart(config') /\ config.errors \subseteq config'.errors
          /\ line.length = 0 \/ KnownLine(line) \/ config'.errors # {} \/ config'.dead
      BY <2>1, <2>2, EffectFits DEF ConfigInv, Follows
    <2>4. /\ lines \in Seq(Line) /\ lines' \in Seq(Line) /\ Len(lines') = Len(lines) + 1 /\ Len(lines) \in Nat
          /\ \A i \in 1 .. Len(lines) : lines'[i] = lines[i]
          /\ lines'[Len(lines) + 1] = line
      BY <2>1 DEF ConfigInv
    <2>5. ASSUME NEW i \in 1 .. Len(lines'), lines'[i].length > 0, ~KnownLine(lines'[i])
          PROVE  config'.errors # {} \/ config'.dead
      <3>1. CASE i = Len(lines) + 1
        BY <2>3, <2>4, <2>5, <3>1
      <3>2. CASE i \in 1 .. Len(lines)
        BY <2>2, <2>3, <2>4, <2>5, <3>2 DEF ConfigInv
      <3> QED BY <2>4, <3>1, <3>2
    <2>6. Fits(config)' /\ Apart(config)'
      BY <2>3 DEF Fits, Apart
    <2>7. Len(lines') <= MaxLines
      BY <2>2, <2>4, StartupAssumption
    <2>8. ~Going'
      BY <2>2 DEF Going
    <2> QED BY <2>4, <2>5, <2>6, <2>7, <2>8 DEF ConfigInv, KnownLine
  <1>2. CASE EndOfFile
    <2>1. /\ UNCHANGED lines
          /\ config' = [config EXCEPT !.errors = @ \cup FinalErrors(config)]
          /\ pc' \in {"cleanup", "refused"} /\ (pc' = "cleanup" => Accepted(config))
      BY <1>2 DEF EndOfFile
    <2>2. /\ DOMAIN config' = DOMAIN config /\ config'.errors = config.errors \cup FinalErrors(config)
          /\ \A f \in DOMAIN config \ {"errors"} : config'[f] = config[f]
      BY <2>1 DEF ConfigInv, Fits
    <2>3. Fits(config)' /\ Apart(config)'
      BY <2>2 DEF ConfigInv, Fits, Apart
    <2>4. Going' => Checked(config)'
      <3>1. Going' => Accepted(config)
        BY <2>1 DEF Going
      <3>2. Accepted(config) => FinalErrors(config) = {} /\ Checked(config)
        BY AcceptedIsChecked DEF Accepted
      <3> QED BY <2>2, <3>1, <3>2 DEF ConfigInv, Fits, Checked
    <2>5. config.errors \subseteq config'.errors /\ config'.dead = config.dead
      BY <2>2 DEF ConfigInv, Fits
    <2> QED BY <2>1, <2>3, <2>4, <2>5 DEF ConfigInv
  <1>3. CASE \/ InitLog \/ Die \/ CleanupOldLogs \/ ScansJoined \/ HashesDone \/ UNCHANGED vars
             \/ \E s \in config.sources : Scan(s) \/ HashChunk(s)
    <2>1. UNCHANGED <<lines, config>> /\ (Going' => Going)
      BY <1>3 DEF InitLog, Die, CleanupOldLogs, ScansJoined, HashesDone, vars, Scan, HashChunk, Going
    <2>2. Fits(config)' /\ Apart(config)' /\ (Checked(config) => Checked(config)')
      BY <2>1 DEF ConfigInv, Fits, Apart, Checked
    <2> QED BY <2>1, <2>2 DEF ConfigInv
  <1> QED BY <1>1, <1>2, <1>3 DEF Next

THEOREM ConfigAlways == Spec => []ConfigInv
  BY ConfigInvInit, ConfigInvStep, PTL DEF Spec

(* A file that starts a synchronisation has only lines with a key of the    *)
(* program before the place where the parser splits them, and one without   *)
(* '=' only if it is longer than 65535 characters.                          *)
THEOREM AcceptedLinesAreKnown == Spec => []AcceptedLinesKnown
  <1>1. ASSUME ConfigInv, Going, NEW line \in Range(lines), line.length > 0
        PROVE  line.key \in KnownKeys /\ (line.equal = NoEqual => line.length > MaxShort)
    <2>1. PICK i \in 1 .. Len(lines) : line = lines[i]
      BY <1>1 DEF ConfigInv, Range
    <2> QED BY <1>1, <2>1 DEF ConfigInv, Checked, KnownLine
  <1>2. ConfigInv => AcceptedLinesKnown
    BY <1>1 DEF AcceptedLinesKnown, KnownKeys
  <1> QED BY ConfigAlways, <1>2, PTL

(* What Parse accepts has no source within another and no destination       *)
(* within a source, but for those written with a slash at the end.          *)
THEOREM AcceptedAreApart == Spec => []AcceptedApart
  <1>1. ASSUME ConfigInv, Going, NEW s \in config.sources, ~HasSlash(s)
        PROVE  /\ ~Within(config.destination, s)
               /\ \A t \in config.sources \ {s} : ~Within(t, s)
    <2>1. config.sources \subseteq Seq(STRING) /\ config.destination \in Seq(STRING)
      BY <1>1 DEF ConfigInv, Fits, Checked
    <2>2. ~Within(config.destination, s)
      BY <1>1, <2>1, WithinIsNested DEF ConfigInv, Checked
    <2>3. ASSUME NEW t \in config.sources \ {s} PROVE ~Within(t, s)
      BY <1>1, <2>1, <2>3, WithinIsNested DEF ConfigInv, Apart
    <2> QED BY <2>2, <2>3
  <1>2. ConfigInv => AcceptedApart
    BY <1>1 DEF AcceptedApart
  <1> QED BY ConfigAlways, <1>2, PTL

-----------------------------------------------------------------------------
(* The rank of a time among the times of a set numbers them from 1, so as    *)
(* many are removed as have a rank up to that number: the oldest ones.       *)
LEMMA OldestOf ==
  ASSUME NEW L, IsFiniteSet(L), L \subseteq Int, NEW n \in Nat, n <= Cardinality(L),
         NEW O, O = {l \in L : Cardinality({m \in L : m <= l}) <= n}
  PROVE  /\ Cardinality(L \ O) = Cardinality(L) - n
         /\ \A a \in O, b \in L \ O : a < b
  <1> DEFINE upTo(l) == {m \in L : m <= l}
             rank == [l \in L |-> Cardinality(upTo(l))]
             N == Cardinality(L)
  <1>1. N \in Nat
    BY FS_CardinalityType
  <1>2. ASSUME NEW l \in L
        PROVE  IsFiniteSet(upTo(l)) /\ Cardinality(upTo(l)) \in 1 .. N
    <2>1. upTo(l) \in SUBSET L /\ l \in upTo(l)
      OBVIOUS
    <2>2. IsFiniteSet(upTo(l)) /\ Cardinality(upTo(l)) <= N
      BY <2>1, FS_Subset
    <2>3. Cardinality(upTo(l)) \in Nat /\ Cardinality(upTo(l)) # 0
      BY <2>1, <2>2, FS_CardinalityType, FS_EmptySet
    <2> QED BY <1>1, <2>2, <2>3
  <1>3. ASSUME NEW l \in L, NEW m \in L, l < m
        PROVE  Cardinality(upTo(l)) < Cardinality(upTo(m))
    <2>1. upTo(l) \in SUBSET upTo(m) /\ upTo(l) # upTo(m)
      <3>1. m \in upTo(m) /\ m \notin upTo(l)
        BY <1>3
      <3>2. \A k \in L : k <= l => k <= m
        BY <1>3
      <3> QED BY <3>1, <3>2
    <2>2. /\ Cardinality(upTo(l)) <= Cardinality(upTo(m))
          /\ Cardinality(upTo(l)) # Cardinality(upTo(m))
      BY <1>2, <2>1, FS_Subset
    <2>3. Cardinality(upTo(l)) \in Int /\ Cardinality(upTo(m)) \in Int
      BY <1>2
    <2> HIDE DEF upTo
    <2> QED BY <2>2, <2>3
  <1> HIDE DEF upTo
  <1>4. rank \in [L -> 1 .. N]
    BY <1>2
  <1>5. \A l, m \in L : rank[l] = rank[m] => l = m
    <2> SUFFICES ASSUME NEW l \in L, NEW m \in L, l # m PROVE rank[l] # rank[m]
      OBVIOUS
    <2>1. l < m \/ m < l
      OBVIOUS
    <2>2. Cardinality(upTo(l)) \in Int /\ Cardinality(upTo(m)) \in Int
      BY <1>2
    <2> QED BY <1>3, <2>1, <2>2
  <1>6. \A l, m \in L : l < m => rank[l] < rank[m]
    BY <1>3
  <1>7. O = {l \in L : rank[l] <= n}
    BY DEF upTo
  <1> HIDE DEF rank
  <1>8. rank \in Injection(L, 1 .. N)
    BY <1>4, <1>5 DEF Injection, IsInjective
  <1>9. \A k \in 1 .. N : \E l \in L : rank[l] = k
    <2>1. IsFiniteSet(1 .. N) /\ Cardinality(1 .. N) = N
      BY <1>1, FS_Interval
    <2>2. rank \in Surjection(L, 1 .. N)
      BY <1>8, <2>1, FS_Injection
    <2> QED BY <2>2 DEF Surjection
  <1>10. Cardinality(O) = n
    <2> DEFINE f == [l \in O |-> rank[l]]
    <2>1. f \in [O -> 1 .. n]
      <3>1. ASSUME NEW l \in O PROVE rank[l] \in 1 .. n
        <4>1. l \in L /\ rank[l] <= n
          BY <1>7
        <4>2. rank[l] \in 1 .. N
          BY <1>4, <4>1
        <4> HIDE DEF N
        <4> QED BY <1>1, <4>1, <4>2
      <3> QED BY <3>1
    <2>2. \A k \in 1 .. n : \E l \in O : f[l] = k
      BY <1>1, <1>7, <1>9
    <2>3. \A a, b \in O : f[a] = f[b] => a = b
      BY <1>5, <1>7
    <2> HIDE DEF f
    <2>4. f \in Bijection(O, 1 .. n)
      BY <2>1, <2>2, <2>3 DEF Bijection, Injection, Surjection, IsInjective
    <2>5. ExistsBijection(1 .. n, O)
      BY <2>4, Fun_ExistsBijSymmetric DEF ExistsBijection
    <2> QED BY <2>5, FS_CountingElements
  <1>11. O \subseteq L /\ L \cap O = O
    BY <1>7
  <1>12. Cardinality(L \ O) = N - n
    <2>1. Cardinality(L \ O) = Cardinality(L) - Cardinality(L \cap O)
      BY FS_Difference
    <2> QED BY <1>10, <1>11, <2>1
  <1>13. ASSUME NEW a \in O, NEW b \in L \ O PROVE a < b
    <2>1. a \in Int /\ b \in Int /\ rank[a] \in Int /\ rank[b] \in Int /\ rank[a] <= n /\ ~(rank[b] <= n)
      BY <1>4, <1>7
    <2>2. a # b /\ ~(b < a)
      BY <1>6, <1>7, <2>1
    <2> QED BY <2>1, <2>2
  <1> QED BY <1>12, <1>13

Scanning == pc \in {"scan", "hash", "sync"}

LogInv ==
  /\ log \in Times /\ logs \subseteq OldLogs \cup {log}
  /\ pc = "start" => logs = OldLogs
  /\ pc # "start" /\ ~Scanning => logs = OldLogs \cup {log}
  /\ LogsKept

LEMMA LogsKeptStep ==
  ASSUME IInv, LogInv, CleanupOldLogs
  PROVE  LogInv'
  <1> DEFINE max == config.settings["MaxLogFiles"]
             all == OldLogs \cup {log}
             excess == Cardinality(all) - max
  <1>1. logs = all /\ UNCHANGED <<log, config>> /\ pc' = "scan"
    BY DEF LogInv, CleanupOldLogs, Scanning
  <1>2. IsFiniteSet(all) /\ all \subseteq Int /\ Cardinality(all) \in Nat
    BY StartupAssumption, FS_AddElement, FS_CardinalityType DEF LogInv
  <1>3. max \in Nat /\ max > 0
    BY DEF IInv, Usable, NumberKeys
  <1>4. CASE excess <= 0
    <2>1. logs' = all
      BY <1>1, <1>4 DEF CleanupOldLogs
    <2> HIDE DEF all, max
    <2>2. Cardinality(all) <= max
      BY <1>2, <1>3, <1>4
    <2>3. LogsKept'
      BY <1>1, <2>1, <2>2 DEF LogsKept, all, max
    <2> QED BY <1>1, <2>1, <2>3 DEF LogInv, Scanning, all
  <1>5. CASE ~(excess <= 0)
    <2> DEFINE O == {l \in all : Cardinality({m \in all : m <= l}) <= excess}
    <2>1. logs' = all \ O
      BY <1>1, <1>5 DEF CleanupOldLogs, Oldest
    <2>2. excess \in Nat /\ excess <= Cardinality(all)
      BY <1>2, <1>3, <1>5
    <2> HIDE DEF all, excess
    <2>3. Cardinality(all \ O) = Cardinality(all) - excess /\ \A a \in O, b \in all \ O : a < b
      BY <1>2, <2>2, OldestOf
    <2> HIDE DEF O, max
    <2>4. Cardinality(all \ O) = max /\ Cardinality(all) > max
      BY <1>2, <1>3, <1>5, <2>3 DEF excess
    <2>5. ASSUME \A other \in OldLogs : other <= log, log \notin all \ O PROVE FALSE
      <3>1. all \ O # {}
        BY <1>3, <2>4, FS_EmptySet
      <3>2. PICK kept \in all \ O : TRUE
        BY <3>1
      <3>3. log \in O /\ kept \in OldLogs
        BY <2>5, <3>2 DEF all
      <3>4. log < kept /\ kept <= log /\ log \in Int /\ kept \in Int
        BY <1>2, <2>3, <2>5, <3>2, <3>3 DEF all
      <3> QED BY <3>4
    <2>6. LogsKept'
      <3>1. ~(Cardinality(all) <= max)
        BY <1>2, <1>3, <2>4
      <3>2. \A old \in all \ (all \ O), kept \in all \ O : old < kept
        BY <2>3
      <3> QED BY <1>1, <2>1, <2>4, <2>5, <3>1, <3>2 DEF LogsKept, all, max
    <2> QED BY <1>1, <2>1, <2>6 DEF LogInv, Scanning, all
  <1> QED BY <1>4, <1>5

LEMMA LogInvStep ==
  ASSUME IInv, LogInv, [Next]_vars
  PROVE  LogInv'
  <1>1. CASE InitLog
    BY <1>1 DEF InitLog, LogInv, Scanning, LogsKept
  <1>2. CASE ReadLine \/ Die \/ EndOfFile
    BY <1>2 DEF ReadLine, Die, EndOfFile, LogInv, Scanning, LogsKept
  <1>3. CASE ScansJoined \/ HashesDone \/ UNCHANGED vars \/ \E s \in config.sources : Scan(s) \/ HashChunk(s)
    <2>1. UNCHANGED <<log, logs, config>> /\ (Scanning' = Scanning) /\ (pc = "start" <=> pc' = "start")
      BY <1>3 DEF ScansJoined, HashesDone, vars, Scan, HashChunk, Scanning
    <2> QED BY <2>1 DEF LogInv, LogsKept, Scanning
  <1> QED BY <1>1, <1>2, <1>3, LogsKeptStep DEF Next

(* As many logs are kept as configured, the newest by name, and this        *)
(* process's own log unless the clock stepped back behind an older one.     *)
THEOREM LogsAreKept == Spec => []LogsKept
  <1>1. Init => LogInv
    BY DEF Init, LogInv, Scanning, LogsKept
  <1>2. LogInv => LogsKept
    BY DEF LogInv
  <1> QED BY Inductive, <1>1, LogInvStep, <1>2, PTL DEF Spec

-----------------------------------------------------------------------------
(* Within, element by element. *)
LEMMA WithinIs ==
  ASSUME NEW p \in Seq(STRING), NEW d \in Seq(STRING)
  PROVE  LET P == Plain(p)
             D == Plain(d)
         IN  /\ Within(p, d) => Len(D) <= Len(P) /\ \A i \in 1 .. Len(D) : D[i] = P[i]
             /\ Len(D) <= Len(P) /\ (\A i \in 1 .. Len(D) : D[i] = P[i]) => Within(p, d)
  <1>1. Plain(p) \in Seq(STRING) /\ Plain(d) \in Seq(STRING)
    BY PlainIs
  <1> QED BY <1>1, PrefixIs DEF Within

LEMMA WithinTransitive ==
  ASSUME NEW p \in Seq(STRING), NEW d \in Seq(STRING), NEW c \in Seq(STRING), Within(p, d), Within(d, c)
  PROVE  Within(p, c)
  <1> DEFINE P == Plain(p)
             D == Plain(d)
             C == Plain(c)
  <1>1. Len(P) \in Nat /\ Len(D) \in Nat /\ Len(C) \in Nat
    BY PlainIs
  <1>2. /\ Len(C) <= Len(D) /\ Len(D) <= Len(P)
        /\ \A i \in 1 .. Len(C) : C[i] = D[i]
        /\ \A i \in 1 .. Len(D) : D[i] = P[i]
    BY WithinIs
  <1> HIDE DEF P, D, C
  <1>3. Len(C) <= Len(P) /\ \A i \in 1 .. Len(C) : C[i] = P[i]
    BY <1>1, <1>2
  <1> QED BY <1>3, WithinIs DEF P, C

LEMMA WithinEqual ==
  ASSUME NEW p \in Seq(STRING), NEW d \in Seq(STRING), Within(p, d), Len(Plain(p)) <= Len(Plain(d))
  PROVE  Plain(p) = Plain(d)
  <1> DEFINE P == Plain(p)
             D == Plain(d)
  <1>1. P \in Seq(STRING) /\ D \in Seq(STRING) /\ Len(P) \in Nat /\ Len(D) \in Nat
    BY PlainIs
  <1>2. Len(D) <= Len(P) /\ \A i \in 1 .. Len(D) : D[i] = P[i]
    BY WithinIs
  <1> HIDE DEF P, D
  <1>3. Len(P) = Len(D)
    BY <1>1, <1>2 DEF P, D
  <1> QED BY <1>1, <1>2, <1>3, SeqEqual DEF P, D

LEMMA WithinItself == ASSUME NEW p \in Seq(STRING) PROVE Within(p, p)
  <1>1. Len(Plain(p)) \in Nat
    BY PlainIs
  <1> QED BY <1>1, WithinIs

(* The source itself, as a directory or a file. *)
LEMMA ResolvedIs ==
  ASSUME NEW s \in Resolved, s \in Seq(STRING)
  PROVE  \/ Plain(s) \in Directory /\ s \notin RegularFile
         \/ s \in RegularFile /\ Plain(s) = s /\ s \notin Directory
  <1>1. CASE s \in Directory
    BY <1>1, ExistingPlain, PathsAssumption DEF Existing
  <1>2. CASE s \in RegularFile
    BY <1>2, ExistingPlain, PathsAssumption DEF Existing
  <1>3. ASSUME NEW d \in Directory, s = Append(d, NoName), s \notin RegularFile PROVE Plain(s) \in Directory
    <2>1. d \in Seq(STRING) /\ Len(s) \in Nat
      BY ExistingPlain DEF Existing
    <2>2. Len(s) = Len(d) + 1 /\ s[Len(s)] = NoName /\ \A i \in 1 .. Len(d) : s[i] = d[i]
      BY <1>3, <2>1
    <2>3. HasSlash(s)
      <3>1. Len(s) # 0
        BY <2>1, <2>2
      <3>2. s # <<>>
        BY <3>1
      <3> QED BY <2>2, <3>2 DEF HasSlash, Last
    <2>4. /\ Plain(s) \in Seq(STRING) /\ Len(s) = Len(Plain(s)) + 1 /\ Len(Plain(s)) \in Nat
          /\ \A i \in 1 .. Len(Plain(s)) : Plain(s)[i] = s[i]
      BY <2>3, PlainIs
    <2>5. Len(Plain(s)) = Len(d)
      BY <2>1, <2>2, <2>4
    <2>6. Plain(s) = d
      BY <2>1, <2>2, <2>4, <2>5, SeqEqual
    <2> QED BY <2>6
  <1> QED BY <1>1, <1>2, <1>3 DEF Resolved

(* What lies above an existing path is a directory. *)
LEMMA Above ==
  ASSUME NEW p \in Existing, NEW n \in Nat, n < Len(p)
  PROVE  /\ SubSeq(p, 1, n) \in Directory /\ SubSeq(p, 1, n) \in Seq(STRING)
         /\ Len(SubSeq(p, 1, n)) = n
         /\ \A i \in 1 .. n : SubSeq(p, 1, n)[i] = p[i]
  <1>1. p \in Seq(STRING) /\ Len(p) \in Nat
    BY ExistingPlain
  <1>2. n \in 0 .. Len(p) - 1
    BY <1>1
  <1>3. SubSeq(p, 1, n) \in Directory
    BY <1>2, PathsAssumption
  <1>4. \A i \in 1 .. n : p[i] \in STRING
    BY <1>1, <1>2
  <1>5. /\ SubSeq(p, 1, n) \in Seq(STRING)
        /\ Len(SubSeq(p, 1, n)) = IF 1 <= n THEN n - 1 + 1 ELSE 0
        /\ \A i \in 1 .. n - 1 + 1 : SubSeq(p, 1, n)[i] = p[1 + i - 1]
    BY <1>4, SubSeqProperties
  <1>6. \A i \in 1 .. n : SubSeq(p, 1, n)[i] = p[i]
    BY <1>5
  <1>7. Len(SubSeq(p, 1, n)) = n
    BY <1>5
  <1> QED BY <1>3, <1>5, <1>6, <1>7

(* Nothing lies within a regular file but the file. *)
LEMMA RegularWithin ==
  ASSUME NEW f \in RegularFile, NEW s \in RegularFile, Within(f, s)
  PROVE  f = s
  <1>1. /\ f \in Seq(STRING) /\ s \in Seq(STRING) /\ Plain(f) = f /\ Plain(s) = s
        /\ Len(f) \in Nat /\ Len(s) \in Nat /\ f \in Existing
    BY ExistingPlain DEF Existing
  <1>2. Len(s) <= Len(f) /\ \A i \in 1 .. Len(s) : s[i] = f[i]
    BY <1>1, WithinIs
  <1>3. CASE Len(s) < Len(f)
    <2>1. /\ SubSeq(f, 1, Len(s)) \in Directory /\ SubSeq(f, 1, Len(s)) \in Seq(STRING)
          /\ Len(SubSeq(f, 1, Len(s))) = Len(s)
          /\ \A i \in 1 .. Len(s) : SubSeq(f, 1, Len(s))[i] = f[i]
      BY <1>1, <1>3, Above
    <2>2. SubSeq(f, 1, Len(s)) = s
      BY <1>1, <1>2, <2>1, SeqEqual
    <2> QED BY <2>1, <2>2, PathsAssumption
  <1>4. CASE Len(s) = Len(f)
    BY <1>1, <1>2, <1>4, SeqEqual
  <1> QED BY <1>1, <1>2, <1>3, <1>4

(* An entry of a directory is one name longer. *)
LEMMA EntryIs ==
  ASSUME NEW d \in Seq(STRING), NEW p \in Entries(d)
  PROVE  /\ p \in Existing /\ Len(Plain(p)) = Len(Plain(d)) + 1 /\ Within(p, d)
         /\ \A e \in Seq(STRING) : ~HasSlash(e) /\ Within(p, e) => e = p \/ Within(d, e)
  <1> DEFINE D == Plain(d)
  <1>1. /\ p \in Existing /\ p # <<>> /\ Front(p) = D
        /\ p \in Seq(STRING) /\ Plain(p) = p /\ Len(p) \in Nat /\ D \in Seq(STRING) /\ Len(D) \in Nat
    BY ExistingPlain, PlainIs DEF Entries
  <1> HIDE DEF D
  <1>2. Len(p) > 0
    BY <1>1, EmptySeq
  <1> DEFINE n == Len(p) - 1
  <1>3. n \in Nat /\ n < Len(p) /\ D = SubSeq(p, 1, n) /\ Len(p) = n + 1
    BY <1>1, <1>2 DEF Front
  <1> HIDE DEF n
  <1>4. Len(D) = n /\ \A i \in 1 .. n : D[i] = p[i]
    BY <1>1, <1>3, Above
  <1>5. Within(p, d)
    <2>1. Len(D) <= Len(p) /\ \A i \in 1 .. Len(D) : D[i] = p[i]
      BY <1>3, <1>4
    <2> QED BY <1>1, <2>1, WithinIs DEF D
  <1>6. ASSUME NEW e \in Seq(STRING), ~HasSlash(e), Within(p, e), e # p PROVE Within(d, e)
    <2>1. Plain(e) = e /\ Len(e) \in Nat
      BY <1>6, PlainIs
    <2>2. Len(e) <= Len(p) /\ \A i \in 1 .. Len(e) : e[i] = p[i]
      BY <1>1, <1>6, <2>1, WithinIs
    <2>3. Len(e) # Len(p)
      BY <1>1, <1>6, <2>2, SeqEqual
    <2>4. Len(e) <= Len(D)
      BY <1>3, <1>4, <2>1, <2>2, <2>3
    <2>5. \A i \in 1 .. Len(e) : e[i] = D[i]
      BY <1>3, <1>4, <2>1, <2>2, <2>4
    <2> QED BY <1>1, <2>1, <2>4, <2>5, WithinIs DEF D
  <1> QED BY <1>1, <1>3, <1>4, <1>5, <1>6 DEF D

(* What lies within a directory lies within one of its entries. *)
LEMMA ReachedByEntry ==
  ASSUME NEW d \in Seq(STRING), Plain(d) \in Directory, NEW f \in RegularFile, Within(f, d)
  PROVE  \E p \in Entries(d) : Within(f, p) /\ (p = f \/ p \in Directory)
  <1> DEFINE D == Plain(d)
             n == Len(D)
  <1>1. /\ f \in Seq(STRING) /\ Plain(f) = f /\ Len(f) \in Nat /\ f \in Existing
        /\ D \in Seq(STRING) /\ n \in Nat /\ D \in Directory /\ f \notin Directory
    BY ExistingPlain, PlainIs, PathsAssumption DEF Existing
  <1>2. n <= Len(f) /\ \A i \in 1 .. n : D[i] = f[i]
    BY <1>1, WithinIs
  <1> HIDE DEF D
  <1>3. n < Len(f)
    <2>1. n = Len(f) => D = f
      BY <1>1, <1>2, SeqEqual
    <2> QED BY <1>1, <1>2, <2>1
  <1>4. SubSeq(f, 1, n) = D
    <2>1. /\ SubSeq(f, 1, n) \in Seq(STRING) /\ Len(SubSeq(f, 1, n)) = n
          /\ \A i \in 1 .. n : SubSeq(f, 1, n)[i] = f[i]
      BY <1>1, <1>3, Above
    <2> QED BY <1>1, <1>2, <2>1, SeqEqual
  <1>5. CASE n + 1 = Len(f)
    <2>1. f # <<>> /\ Front(f) = D
      <3>1. Len(f) - 1 = n
        BY <1>1, <1>5
      <3>2. f # <<>>
        BY <1>1, <1>5, EmptySeq
      <3> QED BY <1>4, <3>1, <3>2 DEF Front
    <2>2. f \in Entries(d)
      BY <1>1, <2>1 DEF Entries, D
    <2> QED BY <1>1, <2>2, WithinItself
  <1>6. CASE n + 1 < Len(f)
    <2> DEFINE p == SubSeq(f, 1, n + 1)
    <2>1. /\ p \in Directory /\ p \in Seq(STRING) /\ Len(p) = n + 1
          /\ \A i \in 1 .. n + 1 : p[i] = f[i]
      BY <1>1, <1>6, Above
    <2> HIDE DEF p
    <2>2. p \in Existing /\ Plain(p) = p /\ n < Len(p)
      BY <1>1, <2>1, ExistingPlain DEF Existing
    <2>3. SubSeq(p, 1, n) = D
      <3>1. /\ SubSeq(p, 1, n) \in Seq(STRING) /\ Len(SubSeq(p, 1, n)) = n
            /\ \A i \in 1 .. n : SubSeq(p, 1, n)[i] = p[i]
        BY <1>1, <2>2, Above
      <3>2. \A i \in 1 .. n : SubSeq(p, 1, n)[i] = D[i]
        BY <1>1, <1>2, <2>1, <3>1
      <3> QED BY <1>1, <3>1, <3>2, SeqEqual
    <2>4. p # <<>> /\ Front(p) = D
      <3>1. Len(p) - 1 = n
        BY <1>1, <2>1
      <3>2. p # <<>>
        BY <1>1, <2>1, EmptySeq
      <3> QED BY <2>3, <3>1, <3>2 DEF Front
    <2>5. p \in Entries(d)
      BY <2>2, <2>4 DEF Entries, D
    <2>6. Within(f, p)
      <3>1. Len(p) <= Len(f) /\ \A i \in 1 .. Len(p) : p[i] = f[i]
        BY <1>6, <2>1
      <3> QED BY <1>1, <2>1, <2>2, <3>1, WithinIs
    <2> QED BY <2>1, <2>5, <2>6
  <1> QED BY <1>1, <1>3, <1>5, <1>6

-----------------------------------------------------------------------------
(* A scan of s skips what lies below an exclude spelled as the scan spells   *)
(* it; the rest it has found, or it lies in what is still to be looked into. *)
Skips(e, s) == e = s \/ (~HasSlash(e) /\ Within(e, s) /\ e # Plain(s))

Clear(excludes, s, p) == ~\E e \in excludes : Skips(e, s) /\ Within(p, e)

ScanOf(excludes, s, dirs, found) ==
  /\ \A d \in dirs :
       d = s \/ (d \in Directory /\ Within(d, s) /\ d # Plain(s) /\ Clear(excludes, s, d))
  /\ \A f \in found : Within(f, s) /\ Clear(excludes, s, f)
  /\ \A f \in RegularFile :
       Within(f, s) /\ Clear(excludes, s, f) /\ f \notin found => \E d \in dirs : Within(f, d)

ScanInv ==
  Scanning =>
    /\ stack \in [config.sources -> SUBSET Resolved]
    /\ files \in [config.sources -> SUBSET RegularFile]
    /\ \A s \in config.sources : ScanOf(config.excludes, s, stack[s], files[s])
    /\ pc # "scan" => \A s \in config.sources : stack[s] = {}

(* A directory of the stack that is not excluded lies below no exclude, and  *)
(* one above a file to be found is not excluded.                             *)
LEMMA ClearOf ==
  ASSUME NEW X, X \subseteq Seq(STRING), NEW s \in Seq(STRING), NEW d \in Seq(STRING),
         d = s \/ (~HasSlash(d) /\ Within(d, s) /\ d # Plain(s) /\ Clear(X, s, d))
  PROVE  /\ d \notin X => Clear(X, s, d)
         /\ \A f \in Seq(STRING) : Within(f, d) /\ Clear(X, s, f) => d \notin X
  <1>1. ASSUME d \notin X PROVE Clear(X, s, d)
    <2>1. SUFFICES ASSUME d = s, NEW e \in X, Skips(e, s), Within(s, e) PROVE FALSE
      BY DEF Clear
    <2>2. e # s /\ ~HasSlash(e) /\ Within(e, s) /\ e # Plain(s) /\ e \in Seq(STRING)
      BY <1>1, <2>1 DEF Skips
    <2>3. Plain(e) = e /\ Len(Plain(e)) \in Nat /\ Len(Plain(s)) \in Nat
      BY <2>2, PlainIs
    <2>4. Len(Plain(s)) <= Len(Plain(e)) /\ Len(Plain(e)) <= Len(Plain(s))
      BY <2>1, <2>2, WithinIs
    <2> QED BY <2>1, <2>2, <2>3, <2>4, WithinEqual
  <1>2. ASSUME NEW f \in Seq(STRING), Within(f, d), Clear(X, s, f), d \in X PROVE FALSE
    <2>1. Skips(d, s)
      BY DEF Skips
    <2> QED BY <1>2, <2>1 DEF Clear
  <1> QED BY <1>1, <1>2

(* An entry of such a directory, too, but for an excluded one.               *)
LEMMA EntryClear ==
  ASSUME NEW X, X \subseteq Seq(STRING), NEW s \in Seq(STRING), NEW d \in Seq(STRING),
         Within(d, s), Clear(X, s, d), NEW p \in Entries(d)
  PROVE  /\ p \in Seq(STRING) /\ ~HasSlash(p) /\ Within(p, s) /\ p # Plain(s)
         /\ p \notin X => Clear(X, s, p)
         /\ \A f \in Seq(STRING) : Within(f, p) /\ Clear(X, s, f) => p \notin X
  <1>1. /\ p \in Existing /\ Len(Plain(p)) = Len(Plain(d)) + 1 /\ Within(p, d)
        /\ \A e \in Seq(STRING) : ~HasSlash(e) /\ Within(p, e) => e = p \/ Within(d, e)
    BY EntryIs
  <1>2. p \in Seq(STRING) /\ ~HasSlash(p) /\ Plain(p) = p
    BY <1>1, ExistingPlain
  <1>3. Within(p, s)
    BY <1>1, <1>2, WithinTransitive
  <1>4. p # Plain(s)
    <2>1. Len(Plain(s)) <= Len(Plain(d)) /\ Len(Plain(s)) \in Nat /\ Len(Plain(d)) \in Nat
      BY WithinIs, PlainIs
    <2> QED BY <1>1, <1>2, <2>1
  <1>5. ASSUME p \notin X PROVE Clear(X, s, p)
    <2>1. SUFFICES ASSUME NEW e \in X, Skips(e, s), Within(p, e) PROVE FALSE
      BY DEF Clear
    <2>2. Within(d, e)
      BY <1>1, <1>5, <2>1 DEF Skips
    <2> QED BY <2>1, <2>2 DEF Clear
  <1>6. ASSUME NEW f \in Seq(STRING), Within(f, p), Clear(X, s, f) PROVE p \notin X
    <2>1. Skips(p, s)
      BY <1>2, <1>3, <1>4 DEF Skips
    <2> QED BY <1>6, <2>1 DEF Clear
  <1> QED BY <1>2, <1>3, <1>4, <1>5, <1>6

(* What looking into one path of the stack leaves to find.                   *)
Entered(X, d) == IF d \notin X /\ IsDirectory(d) THEN {p \in Entries(d) : p \notin X} ELSE {}

DirsAfter(X, dirs, d) == (dirs \ {d}) \cup (Entered(X, d) \cap Directory)

FoundAfter(X, found, d) ==
  found \cup (Entered(X, d) \cap RegularFile) \cup IF d \notin X THEN {d} \cap RegularFile ELSE {}

LEMMA ScanOne ==
  ASSUME NEW X, X \subseteq Seq(STRING), NEW s \in Resolved, s \in Seq(STRING),
         NEW dirs \in SUBSET Resolved, NEW found \in SUBSET RegularFile,
         ScanOf(X, s, dirs, found), NEW d \in dirs
  PROVE  /\ DirsAfter(X, dirs, d) \in SUBSET Resolved
         /\ FoundAfter(X, found, d) \in SUBSET RegularFile
         /\ ScanOf(X, s, DirsAfter(X, dirs, d), FoundAfter(X, found, d))
  <1> DEFINE new == Entered(X, d)
             dirs2 == DirsAfter(X, dirs, d)
             found2 == FoundAfter(X, found, d)
  <1>1. /\ new = IF d \notin X /\ IsDirectory(d) THEN {p \in Entries(d) : p \notin X} ELSE {}
        /\ dirs2 = (dirs \ {d}) \cup (new \cap Directory)
        /\ found2 = found \cup (new \cap RegularFile) \cup IF d \notin X THEN {d} \cap RegularFile ELSE {}
    BY DEF Entered, DirsAfter, FoundAfter
  <1> HIDE DEF new, dirs2, found2
  <1>2. /\ d \in Seq(STRING) /\ Within(d, s)
        /\ d = s \/ (~HasSlash(d) /\ Within(d, s) /\ d # Plain(s) /\ Clear(X, s, d) /\ d \in Directory)
    BY ExistingPlain, WithinItself DEF ScanOf, Existing
  <1>3. dirs2 \in SUBSET Resolved /\ found2 \in SUBSET RegularFile
    BY <1>1 DEF Resolved
  <1>4. /\ d \notin X => Clear(X, s, d)
        /\ \A f \in Seq(STRING) : Within(f, d) /\ Clear(X, s, f) => d \notin X
    BY <1>2, ClearOf
  <1>5. ASSUME NEW p \in new
        PROVE  p \in Seq(STRING) /\ Within(p, s) /\ p # Plain(s) /\ Clear(X, s, p)
    <2>1. d \notin X /\ p \in Entries(d) /\ p \notin X
      BY <1>5, <1>1
    <2> QED BY <1>2, <1>4, <2>1, EntryClear
  <1>6. \A b \in dirs2 : b = s \/ (b \in Directory /\ Within(b, s) /\ b # Plain(s) /\ Clear(X, s, b))
    BY <1>5, <1>1 DEF ScanOf
  <1>7. \A f \in found2 : Within(f, s) /\ Clear(X, s, f)
    BY <1>2, <1>4, <1>5, <1>1 DEF ScanOf
  <1>8. ASSUME NEW f \in RegularFile, Within(f, s), Clear(X, s, f), f \notin found2
        PROVE  \E b \in dirs2 : Within(f, b)
    <2>1. f \in Seq(STRING)
      BY ExistingPlain DEF Existing
    <2>2. PICK b \in dirs : Within(f, b)
      BY <1>1, <1>8 DEF ScanOf
    <2>3. CASE b # d
      BY <1>1, <2>2, <2>3
    <2>4. CASE b = d
      <3>1. d \notin X
        BY <1>4, <1>8, <2>1, <2>2, <2>4
      <3>2. d \notin RegularFile
        <4>1. d \in RegularFile => f = d
          BY <2>2, <2>4, RegularWithin
        <4> QED BY <1>8, <1>1, <3>1, <4>1
      <3>3. Plain(d) \in Directory
        BY <1>2, <3>2, ResolvedIs
      <3>4. PICK p \in Entries(d) : Within(f, p) /\ (p = f \/ p \in Directory)
        BY <1>2, <2>2, <2>4, <3>3, ReachedByEntry
      <3>5. p \notin X
        BY <1>2, <1>4, <1>8, <2>1, <3>1, <3>4, EntryClear
      <3>6. p \in new
        BY <1>1, <3>1, <3>3, <3>4, <3>5 DEF IsDirectory
      <3>7. p # f
        BY <1>8, <1>1, <3>6
      <3> QED BY <1>1, <3>4, <3>6, <3>7
    <2> QED BY <2>3, <2>4
  <1> QED BY <1>3, <1>6, <1>7, <1>8 DEF ScanOf, dirs2, found2

LEMMA ScanInvStep ==
  ASSUME ConfigInv, ScanInv, [Next]_vars
  PROVE  ScanInv'
  <1>1. config.sources \subseteq Resolved \cap Seq(STRING) /\ config.excludes \subseteq Seq(STRING)
    BY DEF ConfigInv, Fits
  <1>2. CASE InitLog \/ ReadLine \/ Die \/ EndOfFile
    BY <1>2 DEF InitLog, ReadLine, Die, EndOfFile, ScanInv, Scanning
  <1>3. CASE CleanupOldLogs
    <2>1. /\ UNCHANGED config /\ pc' = "scan"
          /\ stack' = [s \in config.sources |-> {s}] /\ files' = [s \in config.sources |-> {}]
      BY <1>3 DEF CleanupOldLogs
    <2>2. stack' \in [config.sources -> SUBSET Resolved] /\ files' \in [config.sources -> SUBSET RegularFile]
      BY <1>1, <2>1
    <2>3. ASSUME NEW s \in config.sources PROVE ScanOf(config.excludes, s, {s}, {})
      BY DEF ScanOf
    <2> QED BY <2>1, <2>2, <2>3 DEF ScanInv, ScanOf, Clear
  <1>4. ASSUME NEW t \in config.sources, Scan(t) PROVE ScanInv'
    <2>1. PICK d \in stack[t] :
            LET found == IF Scannable(d) /\ IsDirectory(d)
                         THEN {p \in Entries(d) : Scannable(p)} ELSE {}
                single == {d} \cap RegularFile
            IN  /\ stack' = [stack EXCEPT ![t] = (@ \ {d}) \cup (found \cap Directory)]
                /\ files' = [files EXCEPT ![t] =
                               @ \cup (found \cap RegularFile)
                                 \cup IF Scannable(d) THEN single ELSE {}]
      BY <1>4 DEF Scan
    <2>2. pc = "scan" /\ pc' = "scan" /\ UNCHANGED config
      BY <1>4 DEF Scan
    <2>3. \A p : Scannable(p) <=> p \notin config.excludes
      BY DEF Scannable, IsExcluded
    <2> DEFINE dirs == DirsAfter(config.excludes, stack[t], d)
               found2 == FoundAfter(config.excludes, files[t], d)
    <2>4. /\ stack \in [config.sources -> SUBSET Resolved] /\ files \in [config.sources -> SUBSET RegularFile]
          /\ \A s \in config.sources : ScanOf(config.excludes, s, stack[s], files[s])
      BY <2>2 DEF ScanInv, Scanning
    <2>5. dirs \in SUBSET Resolved /\ found2 \in SUBSET RegularFile /\ ScanOf(config.excludes, t, dirs, found2)
      <3>1. t \in Resolved /\ t \in Seq(STRING) /\ config.excludes \subseteq Seq(STRING)
        BY <1>1
      <3>2. /\ stack[t] \in SUBSET Resolved /\ files[t] \in SUBSET RegularFile
            /\ ScanOf(config.excludes, t, stack[t], files[t]) /\ d \in stack[t]
        BY <2>1, <2>4
      <3> QED BY <3>1, <3>2, ScanOne
    <2>6. stack' = [stack EXCEPT ![t] = dirs] /\ files' = [files EXCEPT ![t] = found2]
      BY <2>1, <2>3 DEF DirsAfter, FoundAfter, Entered
    <2> HIDE DEF dirs, found2
    <2>7. /\ stack' \in [config.sources -> SUBSET Resolved] /\ files' \in [config.sources -> SUBSET RegularFile]
          /\ \A s \in config.sources : stack'[s] = (IF s = t THEN dirs ELSE stack[s])
          /\ \A s \in config.sources : files'[s] = (IF s = t THEN found2 ELSE files[s])
      BY <2>4, <2>5, <2>6
    <2>8. \A s \in config.sources : ScanOf(config.excludes, s, stack'[s], files'[s])
      BY <2>4, <2>5, <2>7
    <2> QED BY <2>2, <2>7, <2>8 DEF ScanInv, ScanOf, Clear
  <1>5. CASE ScansJoined \/ HashesDone \/ UNCHANGED vars \/ \E s \in config.sources : HashChunk(s)
    <2>1. /\ UNCHANGED <<config, stack, files>> /\ (Scanning' => Scanning)
          /\ pc' # "scan" => pc # "scan" \/ \A s \in config.sources : stack[s] = {}
      BY <1>5 DEF ScansJoined, HashesDone, vars, HashChunk, Scanning
    <2> QED BY <2>1 DEF ScanInv, ScanOf, Clear, Scanning
  <1> QED BY <1>2, <1>3, <1>4, <1>5 DEF Next

THEOREM ScanAlways == Spec => []ScanInv
  <1>1. Init => ScanInv
    BY DEF Init, ScanInv, Scanning
  <1> QED BY ConfigAlways, <1>1, ScanInvStep, PTL DEF Spec

(* A scan finds exactly the files under its source that lie below no path   *)
(* excluded with the spelling the scan uses (FileScanner.cpp).              *)
THEOREM ScanIsExact == Spec => []ScanExact
  <1>1. ASSUME ScanInv, pc \in {"hash", "sync"}, NEW s \in config.sources
        PROVE  files[s] = {f \in RegularFile : Within(f, s) /\ Clear(config.excludes, s, f)}
    <2>1. /\ stack[s] = {} /\ files[s] \subseteq RegularFile
          /\ ScanOf(config.excludes, s, stack[s], files[s])
      BY <1>1 DEF ScanInv, Scanning
    <2> QED BY <2>1 DEF ScanOf
  <1>2. ScanInv => ScanExact
    BY <1>1 DEF ScanExact, Clear, Skips
  <1> QED BY ScanAlways, <1>2, PTL

-----------------------------------------------------------------------------
(* Where a file is copied to, below the destination. *)
Placed(top, f, s) ==
  IF ~top THEN f
  ELSE IF IsRegularFile(s) THEN <<FileName(f)>>
  ELSE (IF FileName(s) = NoName THEN <<>> ELSE <<FileName(s)>>)
         \o SubSeq(f, Len(Plain(s)) + 1, Len(f))

LEMMA FileNameIs ==
  ASSUME NEW p \in Seq(STRING)
  PROVE  FileName(p) \in STRING \cup {NoName} /\ (p # <<>> /\ ~HasSlash(p) => FileName(p) # NoName /\ FileName(p) \in STRING)
  <1>1. CASE p = <<>>
    BY <1>1 DEF FileName
  <1>2. CASE p # <<>>
    <2>1. Len(p) \in Nat /\ Len(p) # 0
      BY <1>2, EmptySeq
    <2>2. FileName(p) = p[Len(p)] /\ p[Len(p)] \in STRING
      BY <1>2, <2>1 DEF FileName, Last
    <2> QED BY <1>2, <2>2 DEF HasSlash, Last, FileName
  <1> QED BY <1>1, <1>2

(* What follows the source's path in a file's. *)
LEMMA RestIs ==
  ASSUME NEW f \in RegularFile, NEW s \in Seq(STRING), ~HasSlash(s), Within(f, s)
  PROVE  LET R == SubSeq(f, Len(Plain(s)) + 1, Len(f))
         IN  /\ f \in Seq(STRING) /\ Len(f) \in Nat /\ Len(s) \in Nat /\ Len(s) <= Len(f)
             /\ R \in Seq(STRING) /\ Len(R) = Len(f) - Len(s)
             /\ \A i \in 1 .. Len(s) : f[i] = s[i]
             /\ \A i \in Len(s) + 1 .. Len(f) : f[i] = R[i - Len(s)]
  <1>1. f \in Seq(STRING) /\ Plain(f) = f /\ Plain(s) = s /\ Len(f) \in Nat /\ Len(s) \in Nat
    BY ExistingPlain, PlainIs DEF Existing
  <1>2. Len(s) <= Len(f) /\ \A i \in 1 .. Len(s) : s[i] = f[i]
    BY <1>1, WithinIs
  <1> DEFINE m == Len(s) + 1
             n == Len(f)
             R == SubSeq(f, m, n)
  <1>3. m \in Int /\ n \in Int /\ m >= 1 /\ m <= n + 1
    BY <1>1, <1>2
  <1>4. \A i \in m .. n : f[i] \in STRING
    BY <1>1, <1>3
  <1>5. R = SubSeq(f, m, n)
    OBVIOUS
  <1> HIDE DEF m, n, R
  <1>6. /\ SubSeq(f, m, n) \in Seq(STRING)
        /\ Len(SubSeq(f, m, n)) = IF m <= n THEN n - m + 1 ELSE 0
        /\ \A i \in 1 .. n - m + 1 : SubSeq(f, m, n)[i] = f[m + i - 1]
    BY <1>3, <1>4, SubSeqProperties
  <1>7. R \in Seq(STRING) /\ Len(R) = n - m + 1 /\ \A i \in 1 .. n - m + 1 : R[i] = f[m + i - 1]
    BY <1>3, <1>5, <1>6
  <1>8. ASSUME NEW i \in m .. n PROVE f[i] = R[i - Len(s)]
    <2>1. i - Len(s) \in 1 .. n - m + 1 /\ m + (i - Len(s)) - 1 = i
      BY <1>1, <1>3 DEF m
    <2> QED BY <1>7, <2>1
  <1>9. Len(R) = n - Len(s)
    BY <1>1, <1>3, <1>7 DEF m
  <1> QED BY <1>1, <1>2, <1>7, <1>8, <1>9 DEF m, n, R

LEMMA CancelLeft ==
  ASSUME NEW a \in Seq(STRING), NEW b \in Seq(STRING), NEW c \in Seq(STRING), a \o b = a \o c
  PROVE  b = c
  BY ConcatSimplifications

LEMMA OneName ==
  ASSUME NEW S, NEW name \in S
  PROVE  <<name>> \in Seq(S) /\ Len(<<name>>) = 1 /\ <<name>>[1] = name
  OBVIOUS

(* In top-folder mode the first name is the source's. *)
LEMMA PlacedTop ==
  ASSUME NEW s \in Resolved, s \in Seq(STRING), s # <<>>, ~HasSlash(s),
         NEW f \in RegularFile, Within(f, s)
  PROVE  /\ Placed(TRUE, f, s) \in Seq(STRING)
         /\ Placed(TRUE, f, s)[1] = FileName(s)
  <1>1. CASE s \in RegularFile
    <2>1. f = s
      BY <1>1, RegularWithin
    <2>2. Placed(TRUE, f, s) = <<FileName(s)>> /\ FileName(s) \in STRING
      BY <1>1, <2>1, FileNameIs DEF Placed, IsRegularFile
    <2> QED BY <2>2, OneName
  <1>2. CASE s \notin RegularFile
    <2> DEFINE R == SubSeq(f, Len(Plain(s)) + 1, Len(f))
               name == FileName(s)
    <2>1. R \in Seq(STRING) /\ name # NoName /\ name \in STRING
      BY RestIs, FileNameIs
    <2>2. Placed(TRUE, f, s) = <<name>> \o R
      BY <1>2, <2>1 DEF Placed, IsRegularFile
    <2> HIDE DEF R, name
    <2> DEFINE one == <<name>>
    <2>3. one \in Seq(STRING) /\ Len(one) = 1 /\ one[1] = name
      BY <2>1, OneName
    <2>4. Placed(TRUE, f, s) = one \o R
      BY <2>2
    <2> HIDE DEF one
    <2>5. one \o R \in Seq(STRING) /\ (one \o R)[1] = name
      <3>1. /\ one \o R \in Seq(STRING)
            /\ \A i \in 1 .. Len(one) + Len(R) :
                 (one \o R)[i] = IF i <= Len(one) THEN one[i] ELSE R[i - Len(one)]
        BY <2>1, <2>3, ConcatProperties
      <3>2. Len(R) \in Nat /\ 1 \in 1 .. Len(one) + Len(R)
        BY <2>1, <2>3
      <3>3. (one \o R)[1] = IF 1 <= Len(one) THEN one[1] ELSE R[1 - Len(one)]
        BY <3>1, <3>2
      <3> QED BY <2>3, <3>1, <3>3
    <2> QED BY <2>4, <2>5 DEF name
  <1> QED BY <1>1, <1>2

LEMMA PlacedIs ==
  ASSUME NEW s \in Resolved, s \in Seq(STRING), ~HasSlash(s),
         NEW f \in RegularFile, Within(f, s), NEW top \in BOOLEAN
  PROVE  Placed(top, f, s) \in Seq(STRING)
  <1> DEFINE R == SubSeq(f, Len(Plain(s)) + 1, Len(f))
             head == IF FileName(s) = NoName THEN <<>> ELSE <<FileName(s)>>
  <1>1. f \in Seq(STRING) /\ R \in Seq(STRING)
    BY RestIs
  <1>2. head \in Seq(STRING)
    <2>1. <<>> \in Seq(STRING)
      OBVIOUS
    <2>2. FileName(s) # NoName => FileName(s) \in STRING
      BY FileNameIs
    <2> QED BY <2>1, <2>2, OneName
  <1>3. s \in RegularFile => <<FileName(f)>> \in Seq(STRING)
    <2>1. s \in RegularFile /\ s # <<>> => f = s /\ FileName(f) \in STRING
      BY RegularWithin, FileNameIs
    <2>2. <<>> \notin RegularFile
      BY PathsAssumption
    <2> QED BY <2>1, <2>2, OneName
  <1>4. Placed(top, f, s) = IF ~top THEN f ELSE IF s \in RegularFile THEN <<FileName(f)>> ELSE head \o R
    BY DEF Placed, IsRegularFile
  <1> HIDE DEF R, head
  <1>5. head \o R \in Seq(STRING)
    BY <1>1, <1>2, ConcatProperties
  <1> QED BY <1>1, <1>3, <1>4, <1>5

LEMMA PlacedApart ==
  ASSUME NEW s \in Resolved, s \in Seq(STRING), ~HasSlash(s),
         NEW t \in Resolved, t \in Seq(STRING), ~HasSlash(t),
         NEW f \in RegularFile, Within(f, s), NEW g \in RegularFile, Within(g, t),
         NEW top \in BOOLEAN,
         s # t => ~IsParentDirectory(s, t) /\ (top => FileName(s) # FileName(t)),
         Placed(top, f, s) = Placed(top, g, t)
  PROVE  s = t /\ f = g
  <1>1. /\ f \in Seq(STRING) /\ Len(f) \in Nat /\ Len(s) \in Nat /\ Len(s) <= Len(f)
        /\ \A i \in 1 .. Len(s) : f[i] = s[i]
        /\ DOMAIN s = 1 .. Len(s)
    BY RestIs
  <1>2. /\ g \in Seq(STRING) /\ Len(g) \in Nat /\ Len(t) \in Nat /\ Len(t) <= Len(g)
        /\ \A i \in 1 .. Len(t) : g[i] = t[i]
        /\ DOMAIN t = 1 .. Len(t)
    BY RestIs
  <1>3. ASSUME s # t PROVE FALSE
    <2>1. CASE ~top
      <3>1. f = g
        BY <2>1 DEF Placed
      <3>2. \A i \in DOMAIN s \cap DOMAIN t : s[i] = t[i]
        BY <1>1, <1>2, <3>1
      <3> QED BY <1>3, <3>2 DEF IsParentDirectory
    <2>2. CASE top
      <3>1. s # <<>> /\ t # <<>>
        <4>1. DOMAIN <<>> = {}
          OBVIOUS
        <4> QED BY <1>3, <4>1 DEF IsParentDirectory
      <3>2. Placed(TRUE, f, s)[1] = FileName(s) /\ Placed(TRUE, g, t)[1] = FileName(t)
        BY <3>1, PlacedTop
      <3> QED BY <1>3, <2>2, <3>2
    <2> QED BY <2>1, <2>2
  <1>4. f = g
    <2>1. CASE ~top
      BY <2>1 DEF Placed
    <2>2. CASE s \in RegularFile
      BY <1>3, <2>2, RegularWithin
    <2>3. CASE top /\ s \notin RegularFile
      <3> DEFINE m == Len(Plain(s)) + 1
                 R == SubSeq(f, Len(Plain(s)) + 1, Len(f))
                 Q == SubSeq(g, Len(Plain(s)) + 1, Len(g))
                 head == IF FileName(s) = NoName THEN <<>> ELSE <<FileName(s)>>
      <3>1. R \in Seq(STRING) /\ Len(R) = Len(f) - Len(s) /\ \A i \in Len(s) + 1 .. Len(f) : f[i] = R[i - Len(s)]
        BY RestIs
      <3>2. Q \in Seq(STRING) /\ Len(Q) = Len(g) - Len(s) /\ \A i \in Len(s) + 1 .. Len(g) : g[i] = Q[i - Len(s)]
        BY <1>3, RestIs
      <3>3. head \in Seq(STRING)
        <4>1. <<>> \in Seq(STRING)
          OBVIOUS
        <4>2. FileName(s) # NoName => FileName(s) \in STRING
          BY FileNameIs
        <4> QED BY <4>1, <4>2, OneName
      <3>4. Placed(top, f, s) = head \o R /\ Placed(top, g, s) = head \o Q
        BY <2>3 DEF Placed, IsRegularFile
      <3> HIDE DEF R, Q, head
      <3>5. R = Q
        BY <1>3, <3>1, <3>2, <3>3, <3>4, CancelLeft
      <3>6. Len(f) = Len(g)
        BY <1>1, <1>2, <3>1, <3>2, <3>5
      <3>7. ASSUME NEW i \in 1 .. Len(f) PROVE f[i] = g[i]
        <4>1. i \in 1 .. Len(s) \/ i \in Len(s) + 1 .. Len(f)
          BY <1>1
        <4> QED BY <1>1, <1>2, <1>3, <3>1, <3>2, <3>5, <3>6, <4>1
      <3> QED BY <1>1, <1>2, <3>6, <3>7, SeqEqual
    <2> QED BY <2>1, <2>2, <2>3
  <1> QED BY <1>3, <1>4

(* Two files of the sources never share a destination path (FileCopier.cpp, *)
(* FinalDestPath), whatever the sources, the excludes and the directories.  *)
THEOREM NoneCollide == Spec => []NoCollision
  <1>1. ASSUME ConfigInv, ScanInv, pc \in {"hash", "sync"},
               NEW s \in config.sources, ~HasSlash(s), NEW t \in config.sources, ~HasSlash(t),
               NEW f \in files[s], NEW g \in files[t],
               FinalDestPath(config.destination, config.settings["DestinationTopFolderInsteadOfFullPath"], f, s)
                 = FinalDestPath(config.destination, config.settings["DestinationTopFolderInsteadOfFullPath"], g, t)
        PROVE  <<s, f>> = <<t, g>>
    <2> DEFINE top == config.settings["DestinationTopFolderInsteadOfFullPath"]
               D == Plain(config.destination)
    <2>1. /\ s \in Resolved /\ s \in Seq(STRING) /\ t \in Resolved /\ t \in Seq(STRING)
          /\ s # t => ~IsParentDirectory(s, t)
      BY <1>1 DEF ConfigInv, Fits, Apart
    <2>2. top \in BOOLEAN
      BY <1>1 DEF ConfigInv, Fits, FlagKeys
    <2>3. Checked(config) /\ (top /\ s # t => FileName(s) # FileName(t))
      BY <1>1 DEF ConfigInv, Going, Checked
    <2>4. D \in Seq(STRING)
      BY <1>1, <2>3, PlainIs DEF ConfigInv, Fits, Checked
    <2>5. f \in RegularFile /\ Within(f, s) /\ g \in RegularFile /\ Within(g, t)
      BY <1>1 DEF ScanInv, Scanning, ScanOf
    <2>6. D \o Placed(top, f, s) = D \o Placed(top, g, t)
      BY <1>1 DEF FinalDestPath, Placed
    <2> HIDE DEF D, top
    <2>7. Placed(top, f, s) \in Seq(STRING) /\ Placed(top, g, t) \in Seq(STRING)
      BY <1>1, <2>1, <2>2, <2>5, PlacedIs
    <2>8. Placed(top, f, s) = Placed(top, g, t)
      BY <2>4, <2>6, <2>7, CancelLeft
    <2> QED BY <1>1, <2>1, <2>2, <2>3, <2>5, <2>8, PlacedApart DEF top
  <1>2. ConfigInv /\ ScanInv => NoCollision
    BY <1>1 DEF NoCollision
  <1> QED BY ConfigAlways, ScanAlways, <1>2, PTL

-----------------------------------------------------------------------------
PcInv == pc \in {"start", "parse", "cleanup", "scan", "hash", "sync", "refused", "died"}

LEMMA PcInvStep ==
  ASSUME PcInv, [Next]_vars
  PROVE  PcInv'
  BY DEF PcInv, Next, InitLog, ReadLine, Die, EndOfFile, CleanupOldLogs, ScansJoined, HashesDone,
         Scan, HashChunk, vars

(* Every variable keeps its type; the flag CheckCacheIntegrity reads is     *)
(* read once at most.                                                       *)
THEOREM TypeCorrect == Spec => []TypeOK
  <1>1. Init => PcInv /\ LogInv
    BY DEF Init, PcInv, LogInv, Scanning, LogsKept
  <1>2. PcInv /\ ConfigInv /\ LogInv /\ ScanInv => TypeOK
    <2> SUFFICES ASSUME PcInv, ConfigInv, LogInv, ScanInv PROVE TypeOK
      OBVIOUS
    <2>1. log \in Times /\ logs \subseteq OldLogs \cup {log}
      BY DEF LogInv
    <2>2. Len(lines) <= MaxLines /\ Range(lines) \subseteq Line
      BY DEF ConfigInv, Range
    <2>3. config.restoring \subseteq BOOLEAN /\ Cardinality(config.restoring) <= 1
      <3>1. config.restoring \in {{}, {TRUE}, {FALSE}}
        BY DEF ConfigInv, Fits
      <3>2. ASSUME NEW S \in {{}, {TRUE}, {FALSE}} PROVE S \subseteq BOOLEAN /\ Cardinality(S) <= 1
        <4>1. CASE S = {}
          BY <4>1, FS_EmptySet
        <4>2. ASSUME NEW b \in BOOLEAN, S = {b} PROVE S \subseteq BOOLEAN /\ Cardinality(S) <= 1
          BY <4>2, FS_Singleton
        <4> QED BY <4>1, <4>2
      <3> QED BY <3>1, <3>2
    <2>4. /\ config.sources \cup config.skipped \subseteq Resolved
          /\ config.destination \in Resolved \cup {NoPath}
          /\ DOMAIN config.settings = NumberKeys \cup FlagKeys \cup DOMAIN Allowed
          /\ \A k \in FlagKeys : config.settings[k] \in BOOLEAN
          /\ \A k \in DOMAIN Allowed : config.settings[k] \in Allowed[k]
      BY DEF ConfigInv, Fits, SettingKeys
    <2> QED BY <2>1, <2>2, <2>3, <2>4 DEF TypeOK, PcInv, ScanInv, Scanning
  <1> QED BY Inductive, ConfigAlways, ScanAlways, <1>1, PcInvStep, LogInvStep, <1>2, PTL DEF Spec

-----------------------------------------------------------------------------
(* Two neighbouring lines.  A line that leaves neither an error nor a skipped *)
(* source was admitted, and then its effect is a plain update.               *)
Quiet(c) == c.errors = {} /\ c.skipped = {} /\ ~c.dead

Writes(line) == IF line.key = "Mode" THEN {"Mode", "ThreadCount"} ELSE {line.key}

Written(line, k) ==
  IF line.key = "Mode" THEN IF k = "Mode" THEN line.value ELSE ThreadsOf(line.value)
  ELSE IF line.key \in FlagKeys THEN line.value = "YES"
  ELSE IF line.key \in NumberKeys THEN Narrow(line.value)
  ELSE line.value

SettingsAfter(settings, line) ==
  IF line.key \in SettingKeys
  THEN [k \in SettingKeys |-> IF k \in Writes(line) THEN Written(line, k) ELSE settings[k]]
  ELSE settings

After(c, line) ==
  [sources |-> IF line.key = "Source" THEN c.sources \cup {line.value} ELSE c.sources,
   skipped |-> c.skipped,
   destination |-> IF line.key = "Destination" THEN line.value ELSE c.destination,
   excludes |-> IF line.key = "Exclude" THEN c.excludes \cup {line.value} ELSE c.excludes,
   settings |-> SettingsAfter(c.settings, line),
   errors |-> c.errors,
   restoring |-> IF line.key = "Destination" THEN {c.settings["EnableCacheRestoreFromBackup"]}
                 ELSE c.restoring,
   dead |-> c.dead]

(* What a line must be, and what it must find. *)
Valid(line) ==
  /\ ~(SplitAt(line) + 1 > line.length)
  /\ line.key \in {"Source", "Destination", "Exclude"} \cup SettingKeys
  /\ line.key \in {"Source", "Destination", "Exclude"} => line.value # Relative
  /\ line.key = "Source" => IsDirectory(line.value) \/ IsRegularFile(line.value)
  /\ line.key = "Destination" => IsDirectory(line.value)
  /\ line.key \in DOMAIN Allowed => line.value \in Allowed[line.key]
  /\ line.key \in FlagKeys => line.value \in {"YES", "NO"}
  /\ line.key \in NumberKeys => ~(line.value = NotNumber \/ Narrow(line.value) = 0)

Room(c, line) ==
  /\ line.key = "Source" => ~Nested(c, line.value)
  /\ line.key = "Destination" => c.destination = NoPath

LEMMA KeyedKinds ==
  ASSUME NEW c, NEW key, NEW value
  PROVE  /\ key = "Source" => Keyed(c, key, value) = Source(c, value)
         /\ key = "Destination" => Keyed(c, key, value) = Destination(c, value)
         /\ key = "Exclude" => Keyed(c, key, value) = Exclude(c, value)
         /\ key \in DOMAIN Allowed => Keyed(c, key, value) = Choice(c, key, value)
         /\ key \in FlagKeys => Keyed(c, key, value) = Flag(c, key, value)
         /\ key \in NumberKeys => Keyed(c, key, value) = Number(c, key, value)
         /\ key \notin {"Source", "Destination", "Exclude"} \cup SettingKeys =>
              Keyed(c, key, value) = Error(c, "key")
         /\ {"Source", "Destination", "Exclude"} \cap SettingKeys = {}
  <1>1. {"Source", "Destination", "Exclude"} \cap SettingKeys = {}
    BY KeysApart DEF SettingKeys, FlagKeys, NumberKeys
  <1>2. CASE key = "Source"
    BY <1>1, <1>2 DEF Keyed, SettingKeys
  <1>3. CASE key = "Destination"
    BY <1>1, <1>3 DEF Keyed, SettingKeys
  <1>4. CASE key = "Exclude"
    BY <1>1, <1>4 DEF Keyed, SettingKeys
  <1>5. CASE key \in DOMAIN Allowed
    BY <1>1, <1>5, KeysApart DEF Keyed, SettingKeys
  <1>6. CASE key \in FlagKeys
    BY <1>1, <1>6, KeysApart DEF Keyed, SettingKeys
  <1>7. CASE key \in NumberKeys
    BY <1>1, <1>7, KeysApart DEF Keyed, SettingKeys
  <1>8. CASE key \notin {"Source", "Destination", "Exclude"} \cup SettingKeys
    BY <1>1, <1>8 DEF Keyed, SettingKeys
  <1> QED BY <1>1, <1>2, <1>3, <1>4, <1>5, <1>6, <1>7, <1>8 DEF SettingKeys

(* A setting is written as a function of the keys. *)
LEMMA SetIs ==
  ASSUME NEW c, Fits(c), NEW line, line.key \in SettingKeys, NEW d,
         \/ line.key # "Mode" /\ d = Set(c, line.key, Written(line, line.key))
         \/ line.key = "Mode" /\ d = Set(Set(c, "Mode", line.value), "ThreadCount", ThreadsOf(line.value))
  PROVE  d = After(c, line)
  <1> DEFINE s == c.settings
             new == SettingsAfter(s, line)
  <1>1. line.key \notin {"Source", "Destination", "Exclude"}
    BY KeyedKinds
  <1>2. new = [k \in SettingKeys |-> IF k \in Writes(line) THEN Written(line, k) ELSE s[k]]
    BY DEF SettingsAfter
  <1>3. DOMAIN s = SettingKeys /\ {"Mode", "ThreadCount"} \subseteq SettingKeys
    BY DEF Fits, SettingKeys, Allowed, NumberKeys
  <1>4. DOMAIN d = DOMAIN c /\ d = [f \in DOMAIN c |-> IF f = "settings" THEN d.settings ELSE c[f]]
    BY DEF Set, Fits
  <1>5. d.settings = new
    <2>1. CASE line.key # "Mode"
      <3> DEFINE v == Written(line, line.key)
      <3>1. d.settings = [s EXCEPT ![line.key] = v]
        BY <2>1 DEF Set, Fits
      <3>2. Writes(line) = {line.key}
        BY <2>1 DEF Writes
      <3>3. new = [k \in SettingKeys |-> IF k = line.key THEN v ELSE s[k]]
        BY <1>2, <3>2
      <3> HIDE DEF v, s, new
      <3> QED BY <1>3, <3>1, <3>3
    <2>2. CASE line.key = "Mode"
      <3> DEFINE v == line.value
                 n == ThreadsOf(v)
      <3>1. d.settings = [[s EXCEPT !["Mode"] = v] EXCEPT !["ThreadCount"] = n]
        BY <2>2 DEF Set, Fits
      <3>2. Writes(line) = {"Mode", "ThreadCount"} /\ Written(line, "Mode") = v /\ Written(line, "ThreadCount") = n
        BY <2>2 DEF Writes, Written
      <3> HIDE DEF v, n, s
      <3>3. new = [k \in SettingKeys |-> IF k = "ThreadCount" THEN n ELSE IF k = "Mode" THEN v ELSE s[k]]
        BY <1>2, <3>2
      <3> HIDE DEF new
      <3> QED BY <1>3, <3>1, <3>3
    <2> QED BY <2>1, <2>2
  <1>6. DOMAIN c = {"sources", "skipped", "destination", "excludes", "settings", "errors", "restoring", "dead"}
    BY DEF Fits
  <1>7. /\ After(c, line) = [f \in DOMAIN c |-> After(c, line)[f]]
        /\ \A f \in DOMAIN c \ {"settings"} : After(c, line)[f] = c[f]
        /\ After(c, line).settings = new
    BY <1>1, <1>6 DEF After
  <1> HIDE DEF new
  <1> QED BY <1>4, <1>5, <1>7

LEMMA AdmittedIs ==
  ASSUME NEW c, Fits(c), ~c.dead, NEW line \in Line, line.length # 0, Valid(line), Room(c, line)
  PROVE  Effect(c, line) = After(c, line)
  <1> DEFINE key == line.key
             value == line.value
  <1>1. Effect(c, line) = Keyed(c, key, value)
    BY DEF Effect, Valid
  <1>2. DOMAIN c = {"sources", "skipped", "destination", "excludes", "settings", "errors", "restoring", "dead"}
    BY DEF Fits
  <1>3. CASE key \in {"Source", "Destination", "Exclude"}
    <2>1. SettingsAfter(c.settings, line) = c.settings
      BY <1>3, KeyedKinds DEF SettingsAfter
    <2>2. CASE key = "Source"
      <3>1. Keyed(c, key, value) = [c EXCEPT !.sources = @ \cup {value}]
        BY <2>2, KeyedKinds DEF Source, Valid, Room, Exists
      <3> QED BY <1>1, <1>2, <2>1, <2>2, <3>1 DEF After
    <2>3. CASE key = "Destination"
      <3>1. Keyed(c, key, value) =
              [c EXCEPT !.destination = value,
                        !.restoring = {c.settings["EnableCacheRestoreFromBackup"]}]
        BY <2>3, KeyedKinds DEF Destination, Valid, Room
      <3> QED BY <1>1, <1>2, <2>1, <2>3, <3>1 DEF After
    <2>4. CASE key = "Exclude"
      <3>1. Keyed(c, key, value) = [c EXCEPT !.excludes = @ \cup {value}]
        <4>1. value # Relative
          BY <2>4 DEF Valid
        <4>2. Keyed(c, key, value) = Exclude(c, value)
          BY <2>4, KeyedKinds
        <4> QED BY <4>1, <4>2 DEF Exclude
      <3> QED BY <1>1, <1>2, <2>1, <2>4, <3>1 DEF After
    <2> QED BY <1>3, <2>2, <2>3, <2>4
  <1>4. CASE key \in SettingKeys
    <2>1. CASE key \in DOMAIN Allowed
      <3>1. Keyed(c, key, value) =
              IF key = "Mode" THEN Set(Set(c, "Mode", value), "ThreadCount", ThreadsOf(value))
              ELSE Set(c, key, value)
        BY <2>1, KeyedKinds DEF Choice, Valid
      <3>2. key # "Mode" => Written(line, key) = value
        BY <2>1, KeysApart DEF Written
      <3> QED BY <1>1, <1>4, <3>1, <3>2, SetIs
    <2>2. CASE key \in FlagKeys
      <3> DEFINE v == Written(line, key)
      <3>1. key # "Mode"
        BY <2>2, KeysApart
      <3>2. Keyed(c, key, value) = Set(c, key, v)
        <4>1. Keyed(c, key, value) = Set(c, key, value = "YES")
          BY <2>2, KeyedKinds DEF Flag, Valid
        <4>2. v = (value = "YES")
          BY <2>2, <3>1 DEF Written
        <4> QED BY <4>1, <4>2
      <3> QED BY <1>1, <1>4, <3>1, <3>2, SetIs
    <2>3. CASE key \in NumberKeys
      <3>1. key # "Mode" /\ Written(line, key) = Narrow(value)
        BY <2>3, KeysApart DEF Written
      <3>2. Keyed(c, key, value) = Set(c, key, Narrow(value))
        BY <2>3, KeyedKinds DEF Number, Valid
      <3> QED BY <1>1, <1>4, <3>1, <3>2, SetIs
    <2> QED BY <1>4, <2>1, <2>2, <2>3 DEF SettingKeys
  <1> QED BY <1>3, <1>4 DEF Valid

(* Whatever else leaves an error, a skipped source or an exception. *)
LEMMA QuietIsAdmitted ==
  ASSUME NEW c, Fits(c), NEW line \in Line, line.length # 0, Quiet(Effect(c, line))
  PROVE  ~c.dead /\ Valid(line) /\ Room(c, line)
  <1> DEFINE key == line.key
             value == line.value
             d == Effect(c, line)
  <1>1. ASSUME NEW e PROVE ~Quiet(Error(c, e))
    BY ErrorFits DEF Quiet
  <1>2. ~c.dead
    BY DEF Effect, Quiet
  <1>3. ~(SplitAt(line) + 1 > line.length)
    <2>1. SplitAt(line) + 1 > line.length => d = [c EXCEPT !.dead = TRUE]
      BY <1>2 DEF Effect
    <2>2. [c EXCEPT !.dead = TRUE].dead
      BY DEF Fits
    <2> QED BY <2>1, <2>2 DEF Quiet
  <1>4. d = Keyed(c, key, value)
    BY <1>2, <1>3 DEF Effect
  <1>5. \A e : d # Error(c, e)
    BY <1>1
  <1>6. key \in {"Source", "Destination", "Exclude"} \cup SettingKeys
    BY <1>4, <1>5, KeyedKinds
  <1>7. key = "Source" =>
          value # Relative /\ (IsDirectory(value) \/ IsRegularFile(value)) /\ ~Nested(c, value)
    <2>1. key = "Source" => d = Source(c, value)
      BY <1>4, KeyedKinds
    <2>2. key = "Source" => value # Relative /\ Exists(value) /\ (IsDirectory(value) \/ IsRegularFile(value))
      BY <1>5, <2>1 DEF Source
    <2>3. key = "Source" /\ Nested(c, value) => d = [c EXCEPT !.skipped = @ \cup {value}]
      BY <2>1, <2>2 DEF Source
    <2>4. [c EXCEPT !.skipped = @ \cup {value}].skipped # {}
      BY DEF Fits
    <2> QED BY <2>2, <2>3, <2>4 DEF Quiet
  <1>8. key = "Destination" => value # Relative /\ c.destination = NoPath /\ IsDirectory(value)
    <2>1. key = "Destination" => d = Destination(c, value)
      BY <1>4, KeyedKinds
    <2>2. value = Relative \/ c.destination # NoPath \/ ~IsDirectory(value) =>
            Destination(c, value) = Error(c, "Destination")
      BY DEF Destination
    <2> HIDE DEF d
    <2> QED BY <1>5, <2>1, <2>2
  <1>9. key = "Exclude" => value # Relative
    BY <1>4, <1>5, KeyedKinds DEF Exclude
  <1>10. key \in DOMAIN Allowed => value \in Allowed[key]
    BY <1>4, <1>5, KeyedKinds DEF Choice
  <1>11. key \in FlagKeys => value \in {"YES", "NO"}
    BY <1>4, <1>5, KeyedKinds DEF Flag
  <1>12. key \in NumberKeys => ~(value = NotNumber \/ Narrow(value) = 0)
    BY <1>4, <1>5, KeyedKinds DEF Number
  <1> HIDE DEF d
  <1> QED BY <1>2, <1>3, <1>4, <1>6, <1>7, <1>8, <1>9, <1>10, <1>11, <1>12 DEF Valid, Room

(* The pairs of lines whose order decides (Contested says it of a file). *)
Contend(a, b) ==
  \/ a.key = b.key /\ a.key \in SettingKeys /\ a.value # b.value
  \/ {a.key, b.key} = {"Mode", "ThreadCount"}
  \/ "EnableCacheRestoreFromBackup" \in {a.key, b.key}

LEMMA SettingsCommute ==
  ASSUME NEW s, NEW a, NEW b, ~Contend(a, b)
  PROVE  /\ SettingsAfter(SettingsAfter(s, a), b) = SettingsAfter(SettingsAfter(s, b), a)
         /\ SettingsAfter(s, b)["EnableCacheRestoreFromBackup"] = s["EnableCacheRestoreFromBackup"]
         /\ SettingsAfter(s, a)["EnableCacheRestoreFromBackup"] = s["EnableCacheRestoreFromBackup"]
  <1>1. ASSUME NEW l \in {a, b}
        PROVE  SettingsAfter(s, l)["EnableCacheRestoreFromBackup"] = s["EnableCacheRestoreFromBackup"]
    <2>1. "EnableCacheRestoreFromBackup" \notin Writes(l)
      BY DEF Contend, Writes
    <2>2. "EnableCacheRestoreFromBackup" \in SettingKeys
      BY DEF SettingKeys, FlagKeys
    <2> QED BY <2>1, <2>2 DEF SettingsAfter
  <1>2. CASE a.key \in SettingKeys /\ b.key \in SettingKeys
    <2>1. ASSUME NEW k \in Writes(a) \cap Writes(b) PROVE Written(a, k) = Written(b, k)
      <3>1. a.key = b.key
        BY <2>1 DEF Contend, Writes
      <3>2. a.value = b.value
        BY <1>2, <3>1 DEF Contend
      <3> QED BY <3>1, <3>2 DEF Written
    <2> DEFINE A == Writes(a)
               B == Writes(b)
               va == [k \in SettingKeys |-> Written(a, k)]
               vb == [k \in SettingKeys |-> Written(b, k)]
    <2>2. \A k \in A \cap B \cap SettingKeys : va[k] = vb[k]
      BY <2>1
    <2>3. \A t : /\ SettingsAfter(t, a) = [k \in SettingKeys |-> IF k \in A THEN va[k] ELSE t[k]]
                 /\ SettingsAfter(t, b) = [k \in SettingKeys |-> IF k \in B THEN vb[k] ELSE t[k]]
      BY <1>2 DEF SettingsAfter
    <2> HIDE DEF A, B, va, vb
    <2> DEFINE sa == SettingsAfter(s, a)
               sb == SettingsAfter(s, b)
    <2>4. /\ sa = [k \in SettingKeys |-> IF k \in A THEN va[k] ELSE s[k]]
          /\ sb = [k \in SettingKeys |-> IF k \in B THEN vb[k] ELSE s[k]]
          /\ SettingsAfter(sa, b) = [k \in SettingKeys |-> IF k \in B THEN vb[k] ELSE sa[k]]
          /\ SettingsAfter(sb, a) = [k \in SettingKeys |-> IF k \in A THEN va[k] ELSE sb[k]]
      BY <2>3
    <2> HIDE DEF sa, sb
    <2>5. SettingsAfter(sa, b) = SettingsAfter(sb, a)
      BY <2>2, <2>4
    <2> QED BY <1>1, <2>5 DEF sa, sb
  <1>3. CASE ~(a.key \in SettingKeys /\ b.key \in SettingKeys)
    <2>1. \/ \A t : SettingsAfter(t, a) = t
          \/ \A t : SettingsAfter(t, b) = t
      BY <1>3 DEF SettingsAfter
    <2> QED BY <1>1, <2>1
  <1> QED BY <1>2, <1>3

LEMMA AdmittedCommute ==
  ASSUME NEW c, NEW a \in Line, NEW b \in Line, Valid(a), Valid(b), ~Contend(a, b),
         Room(c, a), Room(After(c, a), b)
  PROVE  /\ Room(c, b) /\ Room(After(c, b), a)
         /\ After(After(c, a), b) = After(After(c, b), a)
  <1>1. ~(a.key = "Destination" /\ b.key = "Destination")
    <2> SUFFICES ASSUME a.key = "Destination", b.key = "Destination" PROVE FALSE
      OBVIOUS
    <2>1. a.value = NoPath
      BY DEF Room, After
    <2>2. a.value \in Seq(STRING) /\ Plain(a.value) \in Directory
      BY StartupAssumption DEF Valid, IsDirectory
    <2>3. a.value = Plain(a.value) \/ a.value = Append(Plain(a.value), NoName)
      BY <2>2, PlainIs
    <2> QED BY <2>1, <2>2, <2>3, ConfigAssumption
  <1>2. /\ After(c, a).sources = IF a.key = "Source" THEN c.sources \cup {a.value} ELSE c.sources
        /\ After(c, b).sources = IF b.key = "Source" THEN c.sources \cup {b.value} ELSE c.sources
        /\ After(c, a).destination = IF a.key = "Destination" THEN a.value ELSE c.destination
        /\ After(c, b).destination = IF b.key = "Destination" THEN b.value ELSE c.destination
    BY DEF After
  <1>3. Room(c, b)
    BY <1>1, <1>2 DEF Room, Nested
  <1>4. Room(After(c, b), a)
    BY <1>1, <1>2 DEF Room, Nested
  <1>5. After(After(c, a), b) = After(After(c, b), a)
    <2> DEFINE ab == After(After(c, a), b)
               ba == After(After(c, b), a)
               sab == SettingsAfter(SettingsAfter(c.settings, a), b)
               sba == SettingsAfter(SettingsAfter(c.settings, b), a)
               flag == c.settings["EnableCacheRestoreFromBackup"]
    <2>1. /\ SettingsAfter(c.settings, b)["EnableCacheRestoreFromBackup"] = flag
          /\ SettingsAfter(c.settings, a)["EnableCacheRestoreFromBackup"] = flag
          /\ sab = sba
      BY SettingsCommute
    <2>2. ab = [sources |-> (IF a.key = "Source" THEN c.sources \cup {a.value} ELSE c.sources)
                              \cup IF b.key = "Source" THEN {b.value} ELSE {},
                skipped |-> c.skipped,
                destination |-> IF b.key = "Destination" THEN b.value
                                ELSE IF a.key = "Destination" THEN a.value ELSE c.destination,
                excludes |-> (IF a.key = "Exclude" THEN c.excludes \cup {a.value} ELSE c.excludes)
                               \cup IF b.key = "Exclude" THEN {b.value} ELSE {},
                settings |-> sab, errors |-> c.errors,
                restoring |-> IF b.key = "Destination" THEN {flag}
                              ELSE IF a.key = "Destination" THEN {flag} ELSE c.restoring,
                dead |-> c.dead]
      BY <2>1 DEF After
    <2>3. ba = [sources |-> (IF b.key = "Source" THEN c.sources \cup {b.value} ELSE c.sources)
                              \cup IF a.key = "Source" THEN {a.value} ELSE {},
                skipped |-> c.skipped,
                destination |-> IF a.key = "Destination" THEN a.value
                                ELSE IF b.key = "Destination" THEN b.value ELSE c.destination,
                excludes |-> (IF b.key = "Exclude" THEN c.excludes \cup {b.value} ELSE c.excludes)
                               \cup IF a.key = "Exclude" THEN {a.value} ELSE {},
                settings |-> sba, errors |-> c.errors,
                restoring |-> IF a.key = "Destination" THEN {flag}
                              ELSE IF b.key = "Destination" THEN {flag} ELSE c.restoring,
                dead |-> c.dead]
      BY <2>1 DEF After
    <2> HIDE DEF ab, ba, sab, sba, flag
    <2>4. /\ ab.sources = ba.sources /\ ab.excludes = ba.excludes
          /\ ab.destination = ba.destination /\ ab.restoring = ba.restoring
      BY <1>1, <2>2, <2>3
    <2>5. /\ DOMAIN ab = DOMAIN ba /\ ab = [f \in DOMAIN ab |-> ab[f]] /\ ba = [f \in DOMAIN ba |-> ba[f]]
          /\ DOMAIN ab = {"sources", "skipped", "destination", "excludes", "settings", "errors", "restoring", "dead"}
          /\ ab.skipped = ba.skipped /\ ab.settings = ba.settings /\ ab.errors = ba.errors /\ ab.dead = ba.dead
      BY <2>1, <2>2, <2>3
    <2>6. \A f \in DOMAIN ab : ab[f] = ba[f]
      BY <2>4, <2>5
    <2>7. ab = ba
      BY <2>5, <2>6
    <2> QED BY <2>7 DEF ab, ba
  <1> QED BY <1>3, <1>4, <1>5

(* Two neighbouring lines that do not contend can be exchanged: if the one   *)
(* order leaves neither an error nor a skipped source, the other leads to    *)
(* the same configuration.  OrderIndependent says it of every order of the   *)
(* lines of a file.                                                          *)
THEOREM NeighboursCommute ==
  ASSUME NEW c, Fits(c), NEW a \in Line, NEW b \in Line, ~Contend(a, b),
         Quiet(Effect(Effect(c, a), b))
  PROVE  Effect(Effect(c, b), a) = Effect(Effect(c, a), b)
  <1>1. ASSUME NEW d, NEW l \in Line, l.length = 0 PROVE Effect(d, l) = d
    BY <1>1 DEF Effect
  <1>2. CASE a.length = 0 \/ b.length = 0
    BY <1>1, <1>2
  <1>3. CASE a.length # 0 /\ b.length # 0
    <2> DEFINE d == Effect(c, a)
    <2>1. Fits(d)
      BY EffectFits DEF Follows
    <2>2. ~d.dead /\ Valid(b) /\ Room(d, b)
      BY <1>3, <2>1, QuietIsAdmitted
    <2>3. Effect(d, b) = After(d, b)
      BY <1>3, <2>1, <2>2, AdmittedIs
    <2>4. Quiet(d)
      <3> HIDE DEF d
      <3>1. After(d, b).errors = d.errors /\ After(d, b).skipped = d.skipped /\ After(d, b).dead = d.dead
        BY DEF After
      <3>2. Quiet(Effect(d, b))
        BY DEF d
      <3> QED BY <2>3, <3>1, <3>2 DEF Quiet
    <2>5. ~c.dead /\ Valid(a) /\ Room(c, a)
      BY <1>3, <2>4, QuietIsAdmitted
    <2>6. d = After(c, a)
      BY <1>3, <2>5, AdmittedIs
    <2>7. /\ Room(c, b) /\ Room(After(c, b), a)
          /\ After(After(c, a), b) = After(After(c, b), a)
      BY <2>2, <2>5, <2>6, AdmittedCommute
    <2>8. Effect(c, b) = After(c, b)
      BY <1>3, <2>2, <2>5, <2>7, AdmittedIs
    <2>9. Fits(Effect(c, b)) /\ ~Effect(c, b).dead
      <3>1. After(c, b).dead = c.dead
        BY DEF After
      <3> QED BY <2>5, <2>8, <3>1, EffectFits DEF Follows
    <2>10. Effect(Effect(c, b), a) = After(After(c, b), a)
      BY <1>3, <2>5, <2>7, <2>8, <2>9, AdmittedIs
    <2> QED BY <2>3, <2>6, <2>7, <2>10
  <1> QED BY <1>2, <1>3

-----------------------------------------------------------------------------
(* Induction over the lines.  Natural numbers are well founded, so that of a *)
(* set of them that is not empty there is a least: a claim that holds of 0    *)
(* and of n + 1 when it holds of n has no least exception, hence none.       *)
LEMMA LeastElement ==
  ASSUME NEW T, T \subseteq Nat, T # {}
  PROVE  \E n \in T : \A m \in T : n <= m
  <1> DEFINE R == OpToRel(<, Nat)
  <1>1. IsWellFoundedOn(R, Nat)
    BY NatLessThanWellFounded
  <1>2. \A m, n \in Nat : <<m, n>> \in R <=> m < n
    BY DEF OpToRel
  <1> HIDE DEF R
  <1>3. PICK n \in T : \A m \in T : ~(<<m, n>> \in R)
    BY <1>1, WFMin
  <1>4. ASSUME NEW m \in T PROVE n <= m
    <2>1. m \in Nat /\ n \in Nat
      OBVIOUS
    <2>2. ~(m < n)
      BY <1>2, <1>3, <2>1
    <2> QED BY <2>1, <2>2
  <1> QED BY <1>4

(* The set of the numbers a claim holds of. *)
LEMMA Inductively ==
  ASSUME NEW N \in Nat, NEW S, 0 \in S, \A n \in 0 .. N - 1 : n \in S => n + 1 \in S
  PROVE  \A n \in 0 .. N : n \in S
  <1> DEFINE T == {n \in 0 .. N : n \notin S}
  <1> SUFFICES ASSUME T # {} PROVE FALSE
    OBVIOUS
  <1>1. T \subseteq Nat
    OBVIOUS
  <1>2. PICK n \in T : \A m \in T : n <= m
    <2> HIDE DEF T
    <2> QED BY <1>1, LeastElement
  <1>3. n \in 0 .. N /\ n \notin S /\ n # 0
    OBVIOUS
  <1>4. n - 1 \in 0 .. N - 1 /\ n - 1 \in 0 .. N /\ n - 1 + 1 = n /\ ~(n <= n - 1)
    BY <1>3
  <1>5. n - 1 \notin S
    BY <1>3, <1>4
  <1>6. n - 1 \in T
    BY <1>4, <1>5
  <1> QED BY <1>2, <1>4, <1>6

(* The fold of Parsed, step by step: g[n] is what the first n lines lead to. *)
Steps(l, g) ==
  /\ DOMAIN g = 0 .. Len(l) /\ g[0] = InitialConfig
  /\ \A n \in 1 .. Len(l) : g[n] = Effect(g[n - 1], l[n])

Folded(f, s, l) == IF s = {} THEN InitialConfig ELSE Effect(f[s \ {Max(s)}], l[Max(s)])

LEMMA FoldDefined ==
  ASSUME NEW l, NEW N \in Nat
  PROVE  \E f : f = [s \in SUBSET (1 .. N) |-> Folded(f, s, l)]
  <1> DEFINE D(n) == \E f : f = [s \in SUBSET (1 .. n) |-> Folded(f, s, l)]
             S == {n \in 0 .. N : D(n)}
  <1>1. D(0)
    <2> DEFINE f == [s \in SUBSET (1 .. 0) |-> InitialConfig]
    <2>1. \A s \in SUBSET (1 .. 0) : s = {}
      OBVIOUS
    <2>2. f = [s \in SUBSET (1 .. 0) |-> Folded(f, s, l)]
      BY <2>1 DEF Folded
    <2> QED BY <2>2
  <1>2. ASSUME NEW n \in 0 .. N - 1, D(n) PROVE D(n + 1)
    <2>1. PICK f : f = [s \in SUBSET (1 .. n) |-> Folded(f, s, l)]
      BY <1>2
    <2> DEFINE h == [s \in SUBSET (1 .. n + 1) |->
                       IF n + 1 \in s THEN Effect(f[s \ {n + 1}], l[n + 1]) ELSE f[s]]
    <2>2. ASSUME NEW s \in SUBSET (1 .. n + 1) PROVE h[s] = Folded(h, s, l)
      <3>1. CASE n + 1 \in s
        <4>1. Max(s) = n + 1
          <5>1. \A y \in s : y \in 1 .. n + 1
            OBVIOUS
          <5>2. \A y \in s : n + 1 >= y
            BY <5>1
          <5>3. \A x \in s : (\A y \in s : x >= y) => x = n + 1
            BY <3>1, <5>1
          <5> QED BY <3>1, <5>2, <5>3 DEF Max
        <4>2. s \ {n + 1} \in SUBSET (1 .. n + 1) /\ n + 1 \notin s \ {n + 1}
          OBVIOUS
        <4>3. h[s \ {n + 1}] = f[s \ {n + 1}]
          BY <4>2
        <4>4. h[s] = Effect(f[s \ {n + 1}], l[n + 1])
          BY <3>1
        <4> HIDE DEF h
        <4> QED BY <3>1, <4>1, <4>3, <4>4 DEF Folded
      <3>2. CASE n + 1 \notin s
        <4>1. s \in SUBSET (1 .. n)
          <5>1. \A y \in s : y \in 1 .. n + 1 /\ y # n + 1
            BY <3>2
          <5>2. \A y \in s : y \in 1 .. n
            BY <5>1
          <5> QED BY <5>2
        <4>2. h[s] = f[s] /\ f[s] = Folded(f, s, l)
          BY <2>1, <3>2, <4>1
        <4>3. n + 1 \notin s \ {Max(s)} /\ s \ {Max(s)} \in SUBSET (1 .. n + 1)
          BY <3>2
        <4>4. h[s \ {Max(s)}] = f[s \ {Max(s)}]
          BY <4>3
        <4> HIDE DEF h
        <4> QED BY <4>2, <4>4 DEF Folded
      <3> QED BY <3>1, <3>2
    <2>3. h = [s \in SUBSET (1 .. n + 1) |-> h[s]]
      OBVIOUS
    <2> HIDE DEF h
    <2>4. h = [s \in SUBSET (1 .. n + 1) |-> Folded(h, s, l)]
      BY <2>2, <2>3
    <2> QED BY <2>4
  <1> HIDE DEF D
  <1>3. 0 \in S /\ \A n \in 0 .. N - 1 : n \in S => n + 1 \in S
    BY <1>1, <1>2
  <1>4. \A n \in 0 .. N : n \in S
    <2> HIDE DEF S
    <2> QED BY <1>3, Inductively
  <1>5. D(N)
    BY <1>4
  <1> QED BY <1>5 DEF D

LEMMA ParsedIs ==
  ASSUME NEW l, NEW N \in Nat, DOMAIN l = 1 .. N, Len(l) = N
  PROVE  \E g : Steps(l, g) /\ Parsed(l) = g[N]
  <1> DEFINE iter == CHOOSE f : f = [s \in SUBSET (1 .. N) |-> Folded(f, s, l)]
             g == [n \in 0 .. N |-> iter[1 .. n]]
  <1>1. Parsed(l) = iter[1 .. N]
    BY DEF Parsed, FoldLeft, MapThenFoldSet, Max, Folded
  <1>2. iter = [s \in SUBSET (1 .. N) |-> Folded(iter, s, l)]
    BY FoldDefined
  <1> HIDE DEF iter
  <1>3. g[0] = InitialConfig
    <2>1. 1 .. 0 = {} /\ g[0] = iter[1 .. 0] /\ 1 .. 0 \in SUBSET (1 .. N)
      OBVIOUS
    <2> QED BY <1>2, <2>1 DEF Folded
  <1>4. ASSUME NEW n \in 1 .. N PROVE g[n] = Effect(g[n - 1], l[n])
    <2>1. 1 .. n \in SUBSET (1 .. N) /\ n \in 1 .. n /\ 1 .. n # {}
      <3>1. n \in Nat /\ n >= 1 /\ n <= N
        OBVIOUS
      <3>2. n \in 1 .. n
        BY <3>1
      <3>3. 1 .. n \subseteq 1 .. N
        BY <3>1
      <3> QED BY <3>2, <3>3
    <2>2. Max(1 .. n) = n
      <3>1. \A x \in 1 .. n : (\A y \in 1 .. n : x >= y) => x = n
        BY <2>1
      <3>2. \A y \in 1 .. n : n >= y
        OBVIOUS
      <3> QED BY <2>1, <3>1, <3>2 DEF Max
    <2>3. (1 .. n) \ {n} = 1 .. n - 1
      OBVIOUS
    <2>4. iter[1 .. n] = Effect(iter[1 .. n - 1], l[n])
      BY <1>2, <2>1, <2>2, <2>3 DEF Folded
    <2>5. n - 1 \in 0 .. N /\ n \in 0 .. N
      OBVIOUS
    <2> QED BY <2>4, <2>5
  <1>5. g[N] = iter[1 .. N]
    <2>1. N \in 0 .. N
      OBVIOUS
    <2> QED BY <2>1
  <1>6. Steps(l, g)
    BY <1>3, <1>4 DEF Steps
  <1> QED BY <1>1, <1>5, <1>6

-----------------------------------------------------------------------------
(* A file whose lines do not contend: what it leads to is a function of the  *)
(* set of its lines.                                                         *)
RestoreKey == "EnableCacheRestoreFromBackup"

Sets(line, k) == line.key \in SettingKeys /\ k \in Writes(line)

Keyless(L, key) == \A line \in L : line.key # key

Values(L, key) == {line.value : line \in {x \in L : x.key = key}}

SettingIn(L, k) ==
  IF \E line \in L : Sets(line, k) THEN Written(CHOOSE line \in L : Sets(line, k), k) ELSE Defaults[k]

ConfigOf(L) ==
  [sources |-> Values(L, "Source"), skipped |-> {},
   destination |-> IF Keyless(L, "Destination") THEN NoPath
                   ELSE (CHOOSE line \in L : line.key = "Destination").value,
   excludes |-> Values(L, "Exclude"), settings |-> [k \in SettingKeys |-> SettingIn(L, k)],
   errors |-> {}, restoring |-> IF Keyless(L, "Destination") THEN {} ELSE {Defaults[RestoreKey]},
   dead |-> FALSE]

LEMMA ConfigOfNone == ConfigOf({}) = InitialConfig
  <1>1. Values({}, "Source") = {} /\ Values({}, "Exclude") = {} /\ Keyless({}, "Destination")
    BY DEF Values, Keyless
  <1>2. \A k : SettingIn({}, k) = Defaults[k]
    BY DEF SettingIn
  <1>3. DOMAIN Defaults = SettingKeys /\ Defaults = [k \in DOMAIN Defaults |-> Defaults[k]]
    <2>1. DOMAIN Defaults = SettingKeys
      BY DEF Defaults, SettingKeys
    <2>2. Defaults = [k \in DOMAIN Defaults |-> Defaults[k]]
      <3> DEFINE value(k) ==
            CASE k = "ThreadCount" -> 2
              [] k = "StaleEntries" -> 5
              [] k = "MaxLogFiles" -> 10
              [] k \in NumberKeys \ {"ThreadCount", "StaleEntries", "MaxLogFiles"} -> 8
              [] k \in FlagKeys -> k \in {"EnableBackupCopyAfterRun", "EnableCacheRestoreFromBackup"}
              [] k = "Mode" -> "BG"
              [] k = "DiskType" -> "HDD"
              [] k = "SSDMode" -> "Balanced"
      <3>1. Defaults = [k \in NumberKeys \cup FlagKeys \cup DOMAIN Allowed |-> value(k)]
        BY DEF Defaults
      <3> HIDE DEF value
      <3> QED BY <3>1
    <2> QED BY <2>1, <2>2
  <1>4. [k \in SettingKeys |-> SettingIn({}, k)] = Defaults
    <2> DEFINE d == Defaults
    <2>1. d = [k \in SettingKeys |-> d[k]]
      BY <1>3
    <2>2. \A k : SettingIn({}, k) = d[k]
      BY <1>2
    <2> HIDE DEF d
    <2>3. [k \in SettingKeys |-> SettingIn({}, k)] = d
      BY <2>1, <2>2
    <2> QED BY <2>3 DEF d
  <1> QED BY <1>1, <1>4 DEF ConfigOf, InitialConfig

LEMMA ConfigOfRecord ==
  ASSUME NEW L
  PROVE  LET d == ConfigOf(L)
         IN  /\ DOMAIN d = {"sources", "skipped", "destination", "excludes", "settings", "errors", "restoring", "dead"}
             /\ d = [f \in DOMAIN d |-> d[f]] /\ d.errors = {}
  <1> DEFINE d == ConfigOf(L)
             vs == Values(L, "Source")
             vx == Values(L, "Exclude")
             vd == IF Keyless(L, "Destination") THEN NoPath
                   ELSE (CHOOSE x \in L : x.key = "Destination").value
             vr == IF Keyless(L, "Destination") THEN {} ELSE {Defaults[RestoreKey]}
             vk == [k \in SettingKeys |-> SettingIn(L, k)]
  <1>1. d = [sources |-> vs, skipped |-> {}, destination |-> vd, excludes |-> vx, settings |-> vk,
             errors |-> {}, restoring |-> vr, dead |-> FALSE]
    BY DEF ConfigOf
  <1> HIDE DEF d, vs, vx, vd, vr, vk
  <1>2. /\ DOMAIN d = {"sources", "skipped", "destination", "excludes", "settings", "errors", "restoring", "dead"}
        /\ d = [f \in DOMAIN d |-> d[f]] /\ d.errors = {}
    BY <1>1
  <1> QED BY <1>2 DEF d

(* One line more. *)
LEMMA ConfigOfMore ==
  ASSUME NEW L, NEW line,
         line.key = "Destination" => Keyless(L, "Destination"),
         Keyless(L \cup {line}, RestoreKey),
         \A x, y \in L \cup {line} : \A k \in SettingKeys :
           Sets(x, k) /\ Sets(y, k) => Written(x, k) = Written(y, k)
  PROVE  After(ConfigOf(L), line) = ConfigOf(L \cup {line})
  <1> DEFINE M == L \cup {line}
             c == ConfigOf(L)
             d == ConfigOf(M)
             a == After(c, line)
  <1>1. ASSUME NEW key
        PROVE  Values(M, key) = IF line.key = key THEN Values(L, key) \cup {line.value} ELSE Values(L, key)
    BY DEF Values
  <1>2. Keyless(M, "Destination") <=> Keyless(L, "Destination") /\ line.key # "Destination"
    BY DEF Keyless
  <1>3. /\ c.sources = Values(L, "Source") /\ c.excludes = Values(L, "Exclude") /\ c.skipped = {}
        /\ c.settings = [k \in SettingKeys |-> SettingIn(L, k)]
        /\ c.destination = IF Keyless(L, "Destination") THEN NoPath
                           ELSE (CHOOSE x \in L : x.key = "Destination").value
        /\ c.restoring = IF Keyless(L, "Destination") THEN {} ELSE {Defaults[RestoreKey]}
        /\ c.errors = {} /\ c.dead = FALSE
    BY DEF ConfigOf
  <1>4. RestoreKey \in SettingKeys /\ \A x : Sets(x, RestoreKey) => x.key = RestoreKey
    BY DEF RestoreKey, SettingKeys, FlagKeys, Sets, Writes
  <1>5. c.settings[RestoreKey] = Defaults[RestoreKey]
    <2>1. \A x \in L : ~Sets(x, RestoreKey)
      BY <1>4 DEF Keyless
    <2>2. SettingIn(L, RestoreKey) = Defaults[RestoreKey]
      BY <2>1 DEF SettingIn
    <2> HIDE DEF c
    <2> QED BY <1>3, <1>4, <2>2
  <1>6. a.destination = d.destination
    <2>1. CASE line.key = "Destination"
      <3>1. \A x \in M : x.key = "Destination" => x = line
        BY <2>1 DEF Keyless
      <3>2. (CHOOSE x \in M : x.key = "Destination") = line
        BY <2>1, <3>1
      <3> QED BY <1>2, <2>1, <3>2 DEF After, ConfigOf
    <2>2. CASE line.key # "Destination"
      <3>1. Keyless(L, "Destination") => a.destination = d.destination
        BY <1>2, <1>3, <2>2 DEF After, ConfigOf
      <3>2. ASSUME ~Keyless(L, "Destination")
            PROVE  (CHOOSE x \in M : x.key = "Destination") = (CHOOSE x \in L : x.key = "Destination")
        <4>1. \A x : x \in M /\ x.key = "Destination" <=> x \in L /\ x.key = "Destination"
          BY <2>2
        <4> QED BY <4>1
      <3>3. a.destination = c.destination
        BY <2>2 DEF After
      <3>4. ~Keyless(M, "Destination") => d.destination = (CHOOSE x \in M : x.key = "Destination").value
        BY DEF ConfigOf
      <3> HIDE DEF a, c, d, M
      <3> QED BY <1>2, <1>3, <2>2, <3>1, <3>2, <3>3, <3>4
    <2> QED BY <2>1, <2>2
  <1>7. a.settings = d.settings
    <2>1. ASSUME NEW k \in SettingKeys
          PROVE  SettingIn(M, k) = IF Sets(line, k) THEN Written(line, k) ELSE SettingIn(L, k)
      <3>1. CASE Sets(line, k)
        <4> DEFINE x == CHOOSE y \in M : Sets(y, k)
        <4>1. x \in M /\ Sets(x, k) /\ line \in M
          BY <3>1
        <4>2. SettingIn(M, k) = Written(x, k)
          BY <3>1 DEF SettingIn
        <4>3. Written(x, k) = Written(line, k)
          <5> HIDE DEF x, M
          <5>1. \A u, v \in M : Sets(u, k) /\ Sets(v, k) => Written(u, k) = Written(v, k)
            BY DEF M
          <5> QED BY <3>1, <4>1, <5>1
        <4> QED BY <3>1, <4>2, <4>3
      <3>2. CASE ~Sets(line, k)
        <4>1. \A x : x \in M /\ Sets(x, k) <=> x \in L /\ Sets(x, k)
          BY <3>2
        <4>2. (CHOOSE x \in M : Sets(x, k)) = (CHOOSE x \in L : Sets(x, k))
          BY <4>1
        <4>3. (\E x \in M : Sets(x, k)) <=> (\E x \in L : Sets(x, k))
          BY <4>1
        <4> HIDE DEF M
        <4> QED BY <3>2, <4>2, <4>3 DEF SettingIn
      <3> QED BY <3>1, <3>2
    <2>2. a.settings = SettingsAfter(c.settings, line) /\ d.settings = [k \in SettingKeys |-> SettingIn(M, k)]
      BY DEF After, ConfigOf
    <2>3. CASE line.key \in SettingKeys
      <3>1. a.settings = [k \in SettingKeys |-> IF k \in Writes(line) THEN Written(line, k) ELSE c.settings[k]]
        BY <2>2, <2>3 DEF SettingsAfter
      <3>2. \A k \in SettingKeys : c.settings[k] = SettingIn(L, k)
        BY <1>3
      <3>3. \A k : Sets(line, k) <=> k \in Writes(line)
        BY <2>3 DEF Sets
      <3>4. ASSUME NEW k \in SettingKeys
            PROVE  (IF k \in Writes(line) THEN Written(line, k) ELSE c.settings[k]) = SettingIn(M, k)
        <4> HIDE DEF c, M
        <4> QED BY <2>1, <3>2, <3>3
      <3> HIDE DEF a, c, d, M
      <3> QED BY <2>2, <3>1, <3>4
    <2>4. CASE line.key \notin SettingKeys
      <3>1. a.settings = [k \in SettingKeys |-> SettingIn(L, k)]
        BY <1>3, <2>2, <2>4 DEF SettingsAfter
      <3>2. \A k \in SettingKeys : SettingIn(M, k) = SettingIn(L, k)
        BY <2>1, <2>4 DEF Sets
      <3> HIDE DEF a, c, d, M
      <3> QED BY <2>2, <3>1, <3>2
    <2> QED BY <2>3, <2>4
  <1>8. /\ a.sources = d.sources /\ a.excludes = d.excludes /\ a.skipped = d.skipped
        /\ a.errors = d.errors /\ a.dead = d.dead
    BY <1>1, <1>3 DEF After, ConfigOf
  <1>9. a.restoring = d.restoring
    BY <1>2, <1>3, <1>5 DEF After, ConfigOf, RestoreKey
  <1>10. /\ DOMAIN a = DOMAIN d /\ a = [f \in DOMAIN a |-> a[f]] /\ d = [f \in DOMAIN d |-> d[f]]
         /\ DOMAIN a = {"sources", "skipped", "destination", "excludes", "settings", "errors", "restoring", "dead"}
    <2>1. /\ DOMAIN a = {"sources", "skipped", "destination", "excludes", "settings", "errors", "restoring", "dead"}
          /\ a = [f \in DOMAIN a |-> a[f]]
      <3> HIDE DEF c
      <3> QED BY DEF After
    <2>2. /\ DOMAIN d = {"sources", "skipped", "destination", "excludes", "settings", "errors", "restoring", "dead"}
          /\ d = [f \in DOMAIN d |-> d[f]]
      BY ConfigOfRecord
    <2> HIDE DEF a, d
    <2> QED BY <2>1, <2>2
  <1> HIDE DEF a, d
  <1>11. \A f \in DOMAIN a : a[f] = d[f]
    BY <1>6, <1>7, <1>8, <1>9, <1>10
  <1>12. a = d
    BY <1>10, <1>11
  <1> QED BY <1>12 DEF a, d

Compatible(a, b) ==
  /\ ~Contend(a, b) /\ ~(a.key = "Destination" /\ b.key = "Destination")
  /\ a.key = "Source" /\ b.key = "Source" => ~IsParentDirectory(a.value, b.value)

LinesOf(l, n) == {l[i] : i \in {j \in 1 .. n : l[j].length # 0}}

(* Nothing is wrong with the first n lines, in whatever order they come.     *)
Orderly(l, n) ==
  /\ \A i \in 1 .. n : l[i].length # 0 => Valid(l[i]) /\ l[i].key # RestoreKey
  /\ \A i, j \in 1 .. n :
       i # j /\ l[i].length # 0 /\ l[j].length # 0 => Compatible(l[i], l[j])

LEMMA OrderlyMeans ==
  ASSUME NEW l, NEW n \in Nat, Orderly(l, n + 1), l[n + 1].length # 0
  PROVE  LET L == LinesOf(l, n)
             line == l[n + 1]
         IN  /\ line.key = "Destination" => Keyless(L, "Destination")
             /\ Keyless(L \cup {line}, RestoreKey)
             /\ \A x, y \in L \cup {line} : \A k \in SettingKeys :
                  Sets(x, k) /\ Sets(y, k) => Written(x, k) = Written(y, k)
             /\ Room(ConfigOf(L), line)
             /\ LinesOf(l, n + 1) = L \cup {line}
  <1> DEFINE L == LinesOf(l, n)
             line == l[n + 1]
  <1>1. \A x \in L : \E i \in 1 .. n : x = l[i] /\ l[i].length # 0
    BY DEF LinesOf
  <1>2. n + 1 \in 1 .. n + 1 /\ \A i \in 1 .. n : i \in 1 .. n + 1 /\ i # n + 1
    OBVIOUS
  <1>3. \A x \in L \cup {line} : \E i \in 1 .. n + 1 : x = l[i] /\ l[i].length # 0
    BY <1>1, <1>2
  <1>4. \A x \in L : Compatible(x, line) /\ Compatible(line, x)
    BY <1>1, <1>2 DEF Orderly
  <1>5. line.key = "Destination" => Keyless(L, "Destination")
    BY <1>4 DEF Compatible, Keyless
  <1>6. Keyless(L \cup {line}, RestoreKey)
    BY <1>3 DEF Orderly, Keyless
  <1>7. ASSUME NEW x \in L \cup {line}, NEW y \in L \cup {line}, NEW k \in SettingKeys, Sets(x, k), Sets(y, k)
        PROVE  Written(x, k) = Written(y, k)
    <2>1. x = y \/ ~Contend(x, y)
      BY <1>3 DEF Orderly, Compatible
    <2>2. CASE ~Contend(x, y)
      <3>1. x.key = y.key
        BY <1>7, <2>2 DEF Sets, Contend, Writes
      <3>2. x.value = y.value
        BY <1>7, <2>2, <3>1 DEF Sets, Contend
      <3> QED BY <3>1, <3>2 DEF Written
    <2> QED BY <2>1, <2>2
  <1>8. Room(ConfigOf(L), line)
    <2>1. ConfigOf(L).sources = Values(L, "Source")
          /\ (Keyless(L, "Destination") => ConfigOf(L).destination = NoPath)
      BY DEF ConfigOf
    <2>2. line.key = "Source" => ~Nested(ConfigOf(L), line.value)
      <3> SUFFICES ASSUME line.key = "Source", NEW s \in Values(L, "Source")
                   PROVE  ~IsParentDirectory(s, line.value) /\ ~IsParentDirectory(line.value, s)
        BY <2>1 DEF Nested
      <3>1. PICK x \in L : x.key = "Source" /\ s = x.value
        BY DEF Values
      <3> QED BY <1>4, <3>1 DEF Compatible
    <2> QED BY <1>5, <2>1, <2>2 DEF Room
  <1>9. LinesOf(l, n + 1) = L \cup {line}
    <2>1. {j \in 1 .. n + 1 : l[j].length # 0} = {j \in 1 .. n : l[j].length # 0} \cup {n + 1}
      <3>1. \A j : j \in 1 .. n + 1 <=> j \in 1 .. n \/ j = n + 1
        BY <1>2
      <3> QED BY <3>1
    <2> QED BY <2>1 DEF LinesOf
  <1> QED BY <1>5, <1>6, <1>7, <1>8, <1>9

LEMMA OrderlyStep ==
  ASSUME NEW l \in Seq(Line), NEW g, Steps(l, g), NEW n \in 0 .. Len(l) - 1, Orderly(l, n + 1),
         Fits(g[n]), g[n] = ConfigOf(LinesOf(l, n))
  PROVE  Fits(g[n + 1]) /\ g[n + 1] = ConfigOf(LinesOf(l, n + 1))
  <1> DEFINE line == l[n + 1]
             c == g[n]
  <1>1. n + 1 \in 1 .. Len(l) /\ n + 1 - 1 = n /\ n \in Nat
    OBVIOUS
  <1>2. line \in Line /\ g[n + 1] = Effect(c, line)
    BY <1>1 DEF Steps
  <1>3. Fits(g[n + 1])
    BY <1>2, EffectFits DEF Follows
  <1>4. CASE line.length = 0
    <2>1. Effect(c, line) = c
      BY <1>4 DEF Effect
    <2>2. \A j : j \in 1 .. n + 1 /\ l[j].length # 0 <=> j \in 1 .. n /\ l[j].length # 0
      BY <1>1, <1>4
    <2>3. LinesOf(l, n + 1) = LinesOf(l, n)
      BY <2>2 DEF LinesOf
    <2> QED BY <1>2, <1>3, <2>1, <2>3
  <1>5. CASE line.length # 0
    <2>1. Valid(line)
      BY <1>1, <1>5 DEF Orderly
    <2>2. c.dead = FALSE
      BY DEF ConfigOf
    <2>3. Room(c, line) /\ After(c, line) = ConfigOf(LinesOf(l, n + 1))
      <3> DEFINE L == LinesOf(l, n)
      <3>1. /\ line.key = "Destination" => Keyless(L, "Destination")
            /\ Keyless(L \cup {line}, RestoreKey)
            /\ \A x, y \in L \cup {line} : \A k \in SettingKeys :
                 Sets(x, k) /\ Sets(y, k) => Written(x, k) = Written(y, k)
            /\ Room(ConfigOf(L), line)
            /\ LinesOf(l, n + 1) = L \cup {line}
        BY <1>1, <1>5, OrderlyMeans
      <3> HIDE DEF L, line
      <3>2. After(ConfigOf(L), line) = ConfigOf(L \cup {line})
        BY <3>1, ConfigOfMore
      <3>3. c = ConfigOf(L)
        BY DEF L
      <3> QED BY <3>1, <3>2, <3>3
    <2>4. Effect(c, line) = After(c, line)
      BY <1>2, <1>5, <2>1, <2>2, <2>3, AdmittedIs
    <2> QED BY <1>2, <1>3, <2>3, <2>4
  <1> QED BY <1>4, <1>5

LEMMA OrderlyParse ==
  ASSUME NEW l \in Seq(Line), NEW g, Steps(l, g), NEW m \in 0 .. Len(l), Orderly(l, m)
  PROVE  \A n \in 0 .. m : Fits(g[n]) /\ g[n] = ConfigOf(LinesOf(l, n))
  <1> DEFINE S == {n \in 0 .. m : Fits(g[n]) /\ g[n] = ConfigOf(LinesOf(l, n))}
  <1>1. 0 \in S
    <2>1. LinesOf(l, 0) = {}
      BY DEF LinesOf
    <2>2. g[0] = InitialConfig
      BY DEF Steps
    <2>3. Fits(g[0]) /\ g[0] = ConfigOf(LinesOf(l, 0))
      BY <2>1, <2>2, DefaultsFit, ConfigOfNone
    <2>4. 0 \in 0 .. m
      OBVIOUS
    <2> QED BY <2>3, <2>4
  <1>2. ASSUME NEW n \in 0 .. m - 1, n \in S PROVE n + 1 \in S
    <2>1. n \in 0 .. Len(l) - 1 /\ n + 1 \in 0 .. m /\ 1 .. n + 1 \subseteq 1 .. m
      OBVIOUS
    <2>2. Orderly(l, n + 1)
      BY <2>1 DEF Orderly
    <2>3. Fits(g[n + 1]) /\ g[n + 1] = ConfigOf(LinesOf(l, n + 1))
      BY <1>2, <2>1, <2>2, OrderlyStep
    <2> QED BY <2>1, <2>3
  <1>3. \A n \in 0 .. m : n \in S
    <2> HIDE DEF S
    <2>1. m \in Nat
      OBVIOUS
    <2> QED BY <1>1, <1>2, <2>1, Inductively
  <1> QED BY <1>3

(* A step that ends quietly began quietly, and its line was admitted. *)
LEMMA QuietStep ==
  ASSUME NEW c, Fits(c), NEW line \in Line, Quiet(Effect(c, line))
  PROVE  Quiet(c) /\ (line.length # 0 => Valid(line) /\ Room(c, line))
  <1>1. CASE line.length = 0
    BY <1>1 DEF Effect
  <1>2. CASE line.length # 0
    <2>1. ~c.dead /\ Valid(line) /\ Room(c, line)
      BY <1>2, QuietIsAdmitted
    <2>2. Effect(c, line) = After(c, line)
      BY <1>2, <2>1, AdmittedIs
    <2>3. After(c, line).errors = c.errors /\ After(c, line).skipped = c.skipped /\ After(c, line).dead = c.dead
      BY DEF After
    <2>4. Quiet(c)
      BY <2>2, <2>3 DEF Quiet
    <2> QED BY <2>1, <2>4
  <1> QED BY <1>1, <1>2

LEMMA StepsFit ==
  ASSUME NEW l \in Seq(Line), NEW g, Steps(l, g)
  PROVE  \A n \in 0 .. Len(l) : Fits(g[n])
  <1> DEFINE S == {n \in 0 .. Len(l) : Fits(g[n])}
  <1>1. 0 \in S
    <2>1. Fits(g[0])
      BY DefaultsFit DEF Steps
    <2> QED BY <2>1
  <1>2. ASSUME NEW n \in 0 .. Len(l) - 1, n \in S PROVE n + 1 \in S
    <2>1. n + 1 \in 1 .. Len(l) /\ n + 1 - 1 = n
      OBVIOUS
    <2>2. g[n + 1] = Effect(g[n], l[n + 1]) /\ l[n + 1] \in Line
      BY <2>1 DEF Steps
    <2>3. Fits(g[n + 1])
      BY <1>2, <2>2, EffectFits DEF Follows
    <2> QED BY <2>1, <2>3
  <1>3. \A n \in 0 .. Len(l) : n \in S
    <2> HIDE DEF S
    <2>1. Len(l) \in Nat
      OBVIOUS
    <2> QED BY <1>1, <1>2, <2>1, Inductively
  <1> QED BY <1>3

(* Errors and skipped sources stay: what ends quietly was always quiet. *)
LEMMA StepsQuiet ==
  ASSUME NEW l \in Seq(Line), NEW g, Steps(l, g), Quiet(g[Len(l)])
  PROVE  \A n \in 0 .. Len(l) : Quiet(g[n])
  <1> DEFINE N == Len(l)
             S == {k \in 0 .. N : Quiet(g[N - k])}
  <1>0. N \in Nat
    OBVIOUS
  <1> HIDE DEF N
  <1>1. 0 \in S
    BY <1>0 DEF N
  <1>2. ASSUME NEW k \in 0 .. N - 1, k \in S PROVE k + 1 \in S
    <2> DEFINE n == N - k
    <2>1. n \in 1 .. N /\ n - 1 \in 0 .. N /\ N - (k + 1) = n - 1 /\ k + 1 \in 0 .. N
      BY <1>0
    <2> HIDE DEF n
    <2>2. g[n] = Effect(g[n - 1], l[n]) /\ l[n] \in Line
      BY <2>1 DEF Steps, N
    <2>3. Fits(g[n - 1])
      BY <2>1, StepsFit DEF N
    <2>4. Quiet(g[n])
      BY <1>2 DEF n
    <2>5. Quiet(g[n - 1])
      BY <2>2, <2>3, <2>4, QuietStep
    <2> QED BY <2>1, <2>5
  <1>3. \A k \in 0 .. N : k \in S
    <2> HIDE DEF S
    <2> QED BY <1>0, <1>1, <1>2, Inductively
  <1>4. ASSUME NEW n \in 0 .. N PROVE Quiet(g[n])
    <2>1. N - n \in 0 .. N /\ N - (N - n) = n
      BY <1>0
    <2>2. N - n \in S
      BY <1>3, <2>1
    <2> QED BY <2>1, <2>2
  <1> QED BY <1>4 DEF N

LEMMA DestinationIsPath ==
  ASSUME NEW line \in Line, Valid(line), line.key = "Destination"
  PROVE  line.value # NoPath
  <1> SUFFICES ASSUME line.value = NoPath PROVE FALSE
    OBVIOUS
  <1>1. line.value \in Seq(STRING) /\ Plain(line.value) \in Directory
    BY StartupAssumption DEF Valid, IsDirectory
  <1>2. line.value = Plain(line.value) \/ line.value = Append(Plain(line.value), NoName)
    BY <1>1, PlainIs
  <1> QED BY <1>1, <1>2, ConfigAssumption

(* A file that ends quietly and in which no two lines contend is orderly.    *)
LEMMA QuietIsOrderly ==
  ASSUME NEW l \in Seq(Line), NEW g, Steps(l, g), Quiet(g[Len(l)]),
         \A i \in 1 .. Len(l) : l[i].key # RestoreKey,
         \A i, j \in 1 .. Len(l) : i # j => ~Contend(l[i], l[j])
  PROVE  Orderly(l, Len(l))
  <1> DEFINE S == {n \in 0 .. Len(l) : Orderly(l, n)}
  <1>0. Len(l) \in Nat
    OBVIOUS
  <1>1. 0 \in S
    <2>1. Orderly(l, 0)
      BY DEF Orderly
    <2> QED BY <1>0, <2>1
  <1>2. ASSUME NEW n \in 0 .. Len(l) - 1, n \in S PROVE n + 1 \in S
    <2> DEFINE line == l[n + 1]
               c == g[n]
               L == LinesOf(l, n)
    <2>1. n \in 0 .. Len(l) /\ n + 1 \in 0 .. Len(l) /\ n + 1 \in 1 .. Len(l) /\ n + 1 - 1 = n
      OBVIOUS
    <2>2. Fits(c) /\ Quiet(g[n + 1]) /\ g[n + 1] = Effect(c, line) /\ line \in Line
      BY <2>1, StepsFit, StepsQuiet DEF Steps
    <2>3. line.length # 0 => Valid(line) /\ Room(c, line)
      BY <2>2, QuietStep
    <2>4. Orderly(l, n)
      BY <1>2
    <2>5. c = ConfigOf(L)
      <3>1. n \in 0 .. n
        BY <2>1
      <3> QED BY <2>1, <2>4, <3>1, OrderlyParse
    <2>6. ASSUME NEW i \in 1 .. n, l[i].length # 0, line.length # 0
          PROVE  Compatible(l[i], line) /\ Compatible(line, l[i])
      <3>1. i \in 1 .. Len(l) /\ i # n + 1 /\ l[i] \in L /\ l[i] \in Line
        BY <2>1, <2>6 DEF LinesOf
      <3>2. ~Contend(l[i], line) /\ ~Contend(line, l[i])
        BY <2>1, <3>1
      <3>3. line.key = "Source" /\ l[i].key = "Source" =>
              ~IsParentDirectory(l[i].value, line.value) /\ ~IsParentDirectory(line.value, l[i].value)
        <4>1. l[i].key = "Source" => l[i].value \in Values(L, "Source")
          BY <3>1 DEF Values
        <4>2. c.sources = Values(L, "Source")
          BY <2>5 DEF ConfigOf
        <4> QED BY <2>3, <2>6, <4>1, <4>2 DEF Room, Nested
      <3>4. ~(line.key = "Destination" /\ l[i].key = "Destination")
        <4> SUFFICES ASSUME line.key = "Destination", l[i].key = "Destination" PROVE FALSE
          OBVIOUS
        <4> DEFINE x == CHOOSE y \in L : y.key = "Destination"
        <4>1. ~Keyless(L, "Destination")
          BY <3>1 DEF Keyless
        <4>2. x \in L /\ x.key = "Destination"
          BY <3>1
        <4>3. c.destination = x.value
          BY <2>5, <4>1 DEF ConfigOf
        <4>4. c.destination = NoPath
          BY <2>3, <2>6 DEF Room
        <4> HIDE DEF x
        <4>5. PICK j \in 1 .. n : x = l[j] /\ l[j].length # 0
          BY <4>2 DEF LinesOf
        <4>6. Valid(x) /\ x \in Line
          BY <2>1, <2>4, <4>5 DEF Orderly
        <4> QED BY <4>2, <4>3, <4>4, <4>6, DestinationIsPath
      <3> QED BY <3>2, <3>3, <3>4 DEF Compatible
    <2>7. Orderly(l, n + 1)
      <3> HIDE DEF c, L
      <3>1. \A i : i \in 1 .. n + 1 <=> i \in 1 .. n \/ i = n + 1
        BY <2>1
      <3>2. \A i \in 1 .. n + 1 : l[i].length # 0 => Valid(l[i]) /\ l[i].key # RestoreKey
        BY <2>1, <2>3, <2>4, <3>1 DEF Orderly
      <3>3. ASSUME NEW i \in 1 .. n + 1, NEW j \in 1 .. n + 1, i # j, l[i].length # 0, l[j].length # 0
            PROVE  Compatible(l[i], l[j])
        <4>1. CASE i \in 1 .. n /\ j \in 1 .. n
          BY <2>4, <3>3, <4>1 DEF Orderly
        <4>2. CASE i = n + 1 /\ j \in 1 .. n
          BY <2>6, <3>3, <4>2
        <4>3. CASE i \in 1 .. n /\ j = n + 1
          BY <2>6, <3>3, <4>3
        <4> QED BY <3>1, <3>3, <4>1, <4>2, <4>3
      <3> QED BY <3>2, <3>3 DEF Orderly
    <2> QED BY <2>1, <2>7
  <1>3. \A n \in 0 .. Len(l) : n \in S
    <2> HIDE DEF S
    <2> QED BY <1>0, <1>1, <1>2, Inductively
  <1>4. Len(l) \in 0 .. Len(l)
    BY <1>0
  <1> QED BY <1>3, <1>4

(* Another order of orderly lines is orderly, and leads to the same.         *)
LEMMA OtherOrder ==
  ASSUME NEW l \in Seq(Line), Orderly(l, Len(l)), NEW f \in Bijection(DOMAIN l, DOMAIN l)
  PROVE  LET m == [i \in DOMAIN l |-> l[f[i]]]
         IN  Parsed(m) = ConfigOf(LinesOf(l, Len(l)))
  <1> DEFINE N == Len(l)
             m == [i \in 1 .. N |-> l[f[i]]]
  <1>1. N \in Nat /\ DOMAIN l = 1 .. N
    OBVIOUS
  <1>2. f \in Bijection(1 .. N, 1 .. N)
    BY <1>1
  <1>3. /\ f \in [1 .. N -> 1 .. N] /\ \A w \in 1 .. N : \E v \in 1 .. N : f[v] = w
        /\ \A i, j \in 1 .. N : i # j => f[i] # f[j]
    <2> DEFINE D == 1 .. N
    <2>1. f \in Bijection(D, D)
      BY <1>2
    <2> HIDE DEF D
    <2>2. f \in [D -> D] /\ (\A a, b \in D : f[a] = f[b] => a = b) /\ \A t \in D : \E s \in D : f[s] = t
      BY <2>1, Fun_BijectionProperties
    <2>3. \A i, j \in D : i # j => f[i] # f[j]
      BY <2>2
    <2> QED BY <2>2, <2>3 DEF D
  <1>4. m \in Seq(Line) /\ Len(m) = N /\ DOMAIN m = 1 .. N
    <2>1. \A i \in 1 .. N : l[f[i]] \in Line
      BY <1>1, <1>3
    <2> QED BY <1>1, <2>1
  <1>5. Orderly(m, N)
    <2>1. \A i \in 1 .. N : f[i] \in 1 .. N /\ m[i] = l[f[i]]
      BY <1>3
    <2> HIDE DEF m
    <2>2. Orderly(l, N)
      OBVIOUS
    <2> HIDE DEF N
    <2>3. ASSUME NEW i \in 1 .. N, m[i].length # 0 PROVE Valid(m[i]) /\ m[i].key # RestoreKey
      BY <2>1, <2>2, <2>3 DEF Orderly
    <2>4. ASSUME NEW i \in 1 .. N, NEW j \in 1 .. N, i # j, m[i].length # 0, m[j].length # 0
          PROVE  Compatible(m[i], m[j])
      <3>1. f[i] # f[j]
        BY <1>3, <2>4
      <3> QED BY <2>1, <2>2, <2>4, <3>1 DEF Orderly
    <2> QED BY <2>3, <2>4 DEF Orderly
  <1>6. LinesOf(m, N) = LinesOf(l, N)
    <2>1. \A i \in 1 .. N : f[i] \in 1 .. N /\ m[i] = l[f[i]]
      BY <1>3
    <2> HIDE DEF m, N
    <2>2. ASSUME NEW x \in LinesOf(m, N) PROVE x \in LinesOf(l, N)
      BY <2>1 DEF LinesOf
    <2>3. ASSUME NEW x \in LinesOf(l, N) PROVE x \in LinesOf(m, N)
      <3>1. PICK w \in 1 .. N : x = l[w] /\ l[w].length # 0
        BY DEF LinesOf
      <3>2. PICK v \in 1 .. N : f[v] = w
        BY <1>3
      <3>3. m[v] = x /\ m[v].length # 0
        BY <2>1, <3>1, <3>2
      <3> QED BY <3>3 DEF LinesOf
    <2> QED BY <2>2, <2>3
  <1>7. Parsed(m) = ConfigOf(LinesOf(m, N))
    <2> HIDE DEF m
    <2>1. PICK g : Steps(m, g) /\ Parsed(m) = g[N]
      BY <1>1, <1>4, ParsedIs
    <2>2. N \in 0 .. Len(m) /\ N \in 0 .. N
      BY <1>1, <1>4
    <2>3. g[N] = ConfigOf(LinesOf(m, N))
      BY <1>4, <1>5, <2>1, <2>2, OrderlyParse
    <2> QED BY <2>1, <2>3
  <1>8. m = [i \in DOMAIN l |-> l[f[i]]]
    BY <1>1
  <1> HIDE DEF m
  <1> QED BY <1>6, <1>7, <1>8

(* One line more, for the fold. *)
LEMMA ParsedMore ==
  ASSUME NEW l \in Seq(Line), NEW line \in Line
  PROVE  Parsed(Append(l, line)) = Effect(Parsed(l), line)
  <1> DEFINE N == Len(l)
             m == Append(l, line)
  <1>1. /\ N \in Nat /\ DOMAIN l = 1 .. N /\ m \in Seq(Line) /\ Len(m) = N + 1 /\ DOMAIN m = 1 .. N + 1
        /\ m[N + 1] = line /\ \A i \in 1 .. N : m[i] = l[i]
    OBVIOUS
  <1> HIDE DEF m
  <1>2. PICK g : Steps(l, g) /\ Parsed(l) = g[N]
    BY <1>1, ParsedIs
  <1>3. PICK h : Steps(m, h) /\ Parsed(m) = h[N + 1]
    BY <1>1, ParsedIs
  <1> DEFINE S == {n \in 0 .. N : h[n] = g[n]}
  <1>4. 0 \in S
    BY <1>1, <1>2, <1>3 DEF Steps
  <1>5. ASSUME NEW n \in 0 .. N - 1, n \in S PROVE n + 1 \in S
    <2>1. n + 1 \in 1 .. N /\ n + 1 \in 1 .. N + 1 /\ n + 1 \in 0 .. N /\ n + 1 - 1 = n
      BY <1>1
    <2>2. h[n + 1] = Effect(h[n], m[n + 1]) /\ g[n + 1] = Effect(g[n], l[n + 1])
      BY <1>1, <1>2, <1>3, <2>1 DEF Steps
    <2>3. h[n + 1] = g[n + 1]
      BY <1>1, <1>5, <2>1, <2>2
    <2> QED BY <2>1, <2>3
  <1>6. N \in S
    <2>1. N \in 0 .. N
      BY <1>1
    <2> HIDE DEF S
    <2> QED BY <1>1, <1>4, <1>5, <2>1, Inductively
  <1>7. N + 1 \in 1 .. N + 1 /\ N + 1 - 1 = N
    BY <1>1
  <1>8. h[N + 1] = Effect(h[N], m[N + 1])
    BY <1>1, <1>3, <1>7 DEF Steps
  <1>9. h[N] = g[N]
    BY <1>6
  <1> QED BY <1>1, <1>2, <1>3, <1>8, <1>9 DEF m

(* What was read so far leads to what is parsed.                             *)
ParsedInv ==
  /\ lines \in Seq(Line) /\ Fits(config)
  /\ pc \in {"start", "parse"} => config = Parsed(lines)
  /\ pc = "cleanup" =>
       /\ Fits(Parsed(lines)) /\ Accepted(Parsed(lines))
       /\ config = [Parsed(lines) EXCEPT !.errors = @ \cup FinalErrors(Parsed(lines))]

LEMMA ParsedInvInit == Init => ParsedInv
  <1> SUFFICES ASSUME Init PROVE ParsedInv
    OBVIOUS
  <1>1. pc = "start" /\ lines = <<>> /\ config = InitialConfig
    BY DEF Init
  <1>2. lines \in Seq(Line) /\ Len(lines) = 0 /\ DOMAIN lines = 1 .. 0
    BY <1>1
  <1>3. PICK g : Steps(lines, g) /\ Parsed(lines) = g[0]
    BY <1>2, ParsedIs
  <1>4. Parsed(lines) = InitialConfig
    BY <1>3 DEF Steps
  <1> QED BY <1>1, <1>2, <1>4, DefaultsFit DEF ParsedInv

LEMMA ParsedInvStep ==
  ASSUME ParsedInv, ConfigInv, ConfigInv', [Next]_vars
  PROVE  ParsedInv'
  <1>0. (lines \in Seq(Line))' /\ Fits(config)'
    BY DEF ConfigInv
  <1>1. CASE ReadLine
    <2>1. PICK line \in Line : lines' = Append(lines, line) /\ config' = Effect(config, line)
      BY <1>1 DEF ReadLine
    <2>2. pc = "parse" /\ pc' = "parse"
      BY <1>1 DEF ReadLine
    <2>3. config' = Parsed(Append(lines, line))
      BY <2>1, <2>2, ParsedMore DEF ParsedInv
    <2> QED BY <1>0, <2>1, <2>2, <2>3 DEF ParsedInv, Parsed
  <1>2. CASE EndOfFile
    <2>1. /\ UNCHANGED lines /\ pc = "parse" /\ pc' \in {"cleanup", "refused"}
          /\ config' = [config EXCEPT !.errors = @ \cup FinalErrors(config)]
          /\ (pc' = "cleanup" => Accepted(config))
      BY <1>2 DEF EndOfFile
    <2>2. config = Parsed(lines) /\ Fits(Parsed(lines))
      BY <2>1 DEF ParsedInv
    <2> DEFINE c == Parsed(lines)
    <2>3. Parsed(lines)' = c
      BY <2>1 DEF Parsed
    <2>4. /\ c = config /\ Fits(c) /\ config' = [c EXCEPT !.errors = @ \cup FinalErrors(c)]
          /\ (pc' = "cleanup" => Accepted(c))
      BY <2>1, <2>2
    <2>5. ParsedInv' <=> /\ (lines \in Seq(Line))' /\ Fits(config)'
                         /\ pc' \in {"start", "parse"} => config' = Parsed(lines)'
                         /\ pc' = "cleanup" =>
                              /\ Fits(Parsed(lines)') /\ Accepted(Parsed(lines)')
                              /\ config' = [Parsed(lines)' EXCEPT !.errors = @ \cup FinalErrors(Parsed(lines)')]
      BY DEF ParsedInv, Fits, Accepted, FinalErrors, Overlapping, SameNames
    <2> HIDE DEF c
    <2> QED BY <1>0, <2>1, <2>3, <2>4, <2>5
  <1>3. CASE \/ InitLog \/ Die \/ CleanupOldLogs \/ ScansJoined \/ HashesDone \/ UNCHANGED vars
             \/ \E s \in config.sources : Scan(s) \/ HashChunk(s)
    <2>1. /\ UNCHANGED <<lines, config>>
          /\ pc' \in {"start", "parse"} => pc \in {"start", "parse"}
          /\ pc' = "cleanup" => pc = "cleanup"
      BY <1>3 DEF InitLog, Die, CleanupOldLogs, ScansJoined, HashesDone, vars, Scan, HashChunk
    <2> QED BY <1>0, <2>1 DEF ParsedInv, Parsed, Accepted, FinalErrors
  <1> QED BY <1>1, <1>2, <1>3 DEF Next

(* The order of the lines of a configuration file that is accepted decides   *)
(* nothing, unless lines contend: every other order is accepted too, and     *)
(* leads to the same sources, destination, excludes and settings.            *)
THEOREM OrderDecidesNothing == Spec => []OrderIndependent
  <1>1. ASSUME ParsedInv, pc = "cleanup", ~Contested, NEW l \in Orders
        PROVE  Accepted(Parsed(l)) /\ Parsed(l) = config
    <2> DEFINE c == Parsed(lines)
               N == Len(lines)
    <2>1. /\ lines \in Seq(Line) /\ Fits(c) /\ Accepted(c)
          /\ config = [c EXCEPT !.errors = @ \cup FinalErrors(c)]
      BY <1>1 DEF ParsedInv
    <2>2. N \in Nat /\ DOMAIN lines = 1 .. N
      BY <2>1
    <2>3. ~c.dead /\ c.errors = {} /\ FinalErrors(c) = {}
      BY <2>1 DEF Accepted
    <2>4. config.skipped = c.skipped
      <3> HIDE DEF c
      <3> QED BY <2>1 DEF Fits
    <2>5. Quiet(c)
      BY <1>1, <2>3, <2>4 DEF Contested, Quiet
    <2>6. \A i \in 1 .. N : lines[i].key \in Keys
      BY <2>2 DEF Keys, Range
    <2>7. \A i \in 1 .. N : lines[i].key # RestoreKey
      BY <1>1, <2>6 DEF Contested, RestoreKey
    <2>8. ASSUME NEW i \in 1 .. N, NEW j \in 1 .. N, i # j PROVE ~Contend(lines[i], lines[j])
      <3>1. DOMAIN Defaults = SettingKeys
        BY DEF Defaults, SettingKeys
      <3>2. ~(lines[i].key = lines[j].key /\ lines[i].key \in SettingKeys /\ lines[i].value # lines[j].value)
        BY <1>1, <2>2, <3>1 DEF Contested
      <3>3. {lines[i].key, lines[j].key} # {"Mode", "ThreadCount"}
        BY <1>1, <2>6 DEF Contested
      <3>4. "EnableCacheRestoreFromBackup" \notin {lines[i].key, lines[j].key}
        BY <1>1, <2>6 DEF Contested
      <3> QED BY <3>2, <3>3, <3>4 DEF Contend
    <2>9. PICK g : Steps(lines, g) /\ c = g[N]
      BY <2>2, ParsedIs
    <2>10. Orderly(lines, N)
      BY <2>1, <2>5, <2>7, <2>8, <2>9, QuietIsOrderly
    <2>11. c = ConfigOf(LinesOf(lines, N))
      <3>1. N \in 0 .. N
        BY <2>2
      <3> QED BY <2>1, <2>9, <2>10, <3>1, OrderlyParse
    <2>12. PICK f \in Bijection(DOMAIN lines, DOMAIN lines) : l = [i \in DOMAIN lines |-> lines[f[i]]]
      BY DEF Orders
    <2>13. Parsed(l) = c
      BY <2>1, <2>10, <2>11, <2>12, OtherOrder
    <2>14. config = c
      <3>1. config = [c EXCEPT !.errors = {}]
        <4> HIDE DEF c
        <4> QED BY <2>1, <2>3
      <3>2. [ConfigOf(LinesOf(lines, N)) EXCEPT !.errors = {}] = ConfigOf(LinesOf(lines, N))
        <4> DEFINE r == ConfigOf(LinesOf(lines, N))
        <4>1. r = [x \in DOMAIN r |-> r[x]] /\ r.errors = {}
          BY ConfigOfRecord
        <4> HIDE DEF r
        <4>2. [r EXCEPT !.errors = {}] = r
          BY <4>1
        <4> QED BY <4>2 DEF r
      <3> HIDE DEF c
      <3> QED BY <2>11, <3>1, <3>2
    <2> HIDE DEF c
    <2> QED BY <2>1, <2>13, <2>14
  <1>2. ParsedInv => OrderIndependent
    BY <1>1 DEF OrderIndependent
  <1>3. Spec => []ParsedInv
    BY ParsedInvInit, ParsedInvStep, ConfigAlways, PTL DEF Spec
  <1> QED BY <1>2, <1>3, PTL
=============================================================================
