------------------------------ MODULE Startup ------------------------------
(* A process from its start to the hashes it compares with the cache: the   *)
(* log is opened (Logger), the configuration parsed line by line            *)
(* (ConfigParser), old logs removed, each source scanned by a job           *)
(* (FileScanner) and its files hashed by one thread per chunk (FileHasher). *)
(* The markers, the pool and what follows are in Recovery, ThreadPool and   *)
(* the Sync modules.  The directories do not change meanwhile.              *)
EXTENDS ConfigParser, FileHasher

CONSTANTS
  Line,     \* the lines a configuration file may have
  MaxLines, \* bound: lines of a file
  Times,    \* the times a process may start at; local time can step back
  OldLogs   \* the times of the logs there are

ASSUME StartupAssumption ==
  /\ MaxLines \in Nat /\ Times \cup OldLogs \subseteq Int /\ IsFiniteSet(OldLogs)
  /\ \A line \in Line :
       /\ line.length \in Nat /\ (line.equal = NoEqual \/ line.equal \in Nat)
       /\ line.key \in NumberKeys => line.value = NotNumber \/ line.value \in Int
       /\ line.key \in {"Source", "Destination", "Exclude"} =>
            line.value = Relative \/ line.value \in Seq(STRING)

VARIABLES
  pc,     \* "start", "parse", "cleanup", "scan", "hash", "sync", "refused", "died"
  logs,   \* the names of the files in Sync_Logs: times
  log,    \* the time in CurrentLogFilePath
  lines,  \* history: the lines read
  config, \* what is parsed
  stack,  \* DirStack of each source's job
  files,  \* Files of each source's job
  hashed, \* hashed[s][i]: how often file i of source s was hashed
  ended   \* ended[s]: the chunks of source s whose threads have ended

vars == <<pc, logs, log, lines, config, stack, files, hashed, ended>>

Init ==
  /\ pc = "start" /\ logs = OldLogs /\ log \in Times
  /\ lines = <<>> /\ config = InitialConfig
  /\ stack = <<>> /\ files = <<>> /\ hashed = <<>> /\ ended = <<>>

InitLog ==
  /\ pc = "start"
  /\ logs' = logs \cup {log}
  /\ pc' = "parse"
  /\ UNCHANGED <<log, lines, config, stack, files, hashed, ended>>

ReadLine ==
  /\ pc = "parse" /\ Len(lines) < MaxLines /\ ~config.dead
  /\ \E line \in Line : lines' = Append(lines, line) /\ config' = Effect(config, line)
  /\ UNCHANGED <<pc, logs, log, stack, files, hashed, ended>>

(* The uncaught exception. *)
Die ==
  /\ pc = "parse" /\ config.dead
  /\ pc' = "died"
  /\ UNCHANGED <<logs, log, lines, config, stack, files, hashed, ended>>

EndOfFile ==
  /\ pc = "parse" /\ ~config.dead
  /\ config' = [config EXCEPT !.errors = @ \cup FinalErrors(config)]
  /\ pc' = IF Accepted(config) THEN "cleanup" ELSE "refused"
  /\ UNCHANGED <<logs, log, lines, stack, files, hashed, ended>>

MutOldest(n) == {l \in logs : Cardinality({m \in logs : m >= l}) <= n}

(* Names sort as the times they contain; the loop removes from the front. *)
Oldest(n) == {l \in logs : Cardinality({m \in logs : m <= l}) <= n}

CleanupOldLogs ==
  /\ pc = "cleanup"
  /\ LET max == config.settings["MaxLogFiles"]
         excess == Cardinality(logs) - max
     IN  logs' = IF excess <= 0 THEN logs ELSE logs \ Oldest(excess)
  /\ pc' = "scan"
  /\ stack' = [s \in config.sources |-> {s}]
  /\ files' = [s \in config.sources |-> {}]
  /\ UNCHANGED <<log, lines, config, hashed, ended>>

-----------------------------------------------------------------------------
(* Excludes are compared as strings. *)
IsExcluded(p) == p \in config.excludes

MutScannable(p) == p \notin config.excludes \/ IsDirectory(p)

Scannable(p) == ~IsExcluded(p)

(* The root of a source, or a directory from the stack (in any order: the  *)
(* order decides nothing but that of Files).                               *)
Scan(s) ==
  /\ pc = "scan"
  /\ \E current \in stack[s] :
       LET found == IF Scannable(current) /\ IsDirectory(current)
                    THEN {p \in Entries(current) : Scannable(p)} ELSE {}
           single == {current} \cap RegularFile
       IN  /\ stack' = [stack EXCEPT ![s] = (@ \ {current}) \cup (found \cap Directory)]
           /\ files' = [files EXCEPT ![s] =
                          @ \cup (found \cap RegularFile)
                            \cup IF Scannable(current) THEN single ELSE {}]
  /\ UNCHANGED <<pc, logs, log, lines, config, hashed, ended>>

NumberOfFiles(s) == Cardinality(files[s])

Threads == config.settings["ThreadCount"]

ScansJoined ==
  /\ pc = "scan" /\ \A s \in config.sources : stack[s] = {}
  /\ pc' = "hash"
  /\ hashed' = [s \in config.sources |-> [i \in 0 .. NumberOfFiles(s) - 1 |-> 0]]
  /\ ended' = [s \in config.sources |-> {}]
  /\ UNCHANGED <<logs, log, lines, config, stack, files>>

(* The thread of a chunk hashes its files, which no other thread touches. *)
HashChunk(s) ==
  /\ pc = "hash"
  /\ \E t \in Chunks(NumberOfFiles(s), Threads) \ ended[s] :
       /\ ended' = [ended EXCEPT ![s] = @ \cup {t}]
       /\ hashed' = [hashed EXCEPT ![s] =
            [i \in DOMAIN @ |-> IF i \in Chunk(t, NumberOfFiles(s), Threads) THEN @[i] + 1 ELSE @[i]]]
  /\ UNCHANGED <<pc, logs, log, lines, config, stack, files>>

(* Every future was waited for, in every job. *)
HashesDone ==
  /\ pc = "hash"
  /\ \A s \in config.sources : ended[s] = Chunks(NumberOfFiles(s), Threads)
  /\ pc' = "sync"
  /\ UNCHANGED <<logs, log, lines, config, stack, files, hashed, ended>>

Next ==
  \/ InitLog \/ ReadLine \/ Die \/ EndOfFile \/ CleanupOldLogs
  \/ ScansJoined \/ HashesDone
  \/ \E s \in config.sources : Scan(s) \/ HashChunk(s)

(* The main thread and the jobs keep running; a file ends somewhere. *)
Spec == Init /\ [][Next]_vars /\ WF_vars(Next)
-----------------------------------------------------------------------------
Resolved == Directory \cup {Append(d, NoName) : d \in Directory} \cup RegularFile

(* Every variable has the values the code gives it.                        *)
TypeOK ==
  /\ pc \in {"start", "parse", "cleanup", "scan", "hash", "sync", "refused", "died"}
  /\ log \in Times /\ logs \subseteq OldLogs \cup {log}
  /\ Len(lines) <= MaxLines /\ Range(lines) \subseteq Line
  /\ config.sources \cup config.skipped \subseteq Resolved
  /\ config.destination \in Resolved \cup {NoPath}
  /\ config.restoring \subseteq BOOLEAN /\ Cardinality(config.restoring) <= 1
  /\ DOMAIN config.settings = NumberKeys \cup FlagKeys \cup DOMAIN Allowed
  /\ \A k \in FlagKeys : config.settings[k] \in BOOLEAN
  /\ \A k \in DOMAIN Allowed : config.settings[k] \in Allowed[k]
  /\ pc \in {"scan", "hash", "sync"} =>
       /\ stack \in [config.sources -> SUBSET Resolved]
       /\ files \in [config.sources -> SUBSET RegularFile]

Within(p, d) == IsPrefix(Plain(d), Plain(p))

Going == pc \in {"cleanup", "scan", "hash", "sync"}

(* What Parse accepts has no source inside another and no destination      *)
(* inside a source (else each run would copy the copies of the last), as   *)
(* long as the outer one is not written with a trailing slash.             *)
AcceptedApart ==
  Going =>
    \A s \in config.sources : ~HasSlash(s) =>
      /\ ~Within(config.destination, s)
      /\ \A t \in config.sources \ {s} : ~Within(t, s)

(* No number the program uses is 0: ThreadCount divides the files into     *)
(* chunks and is the size of the pool, StaleEntries and MaxLogFiles bound  *)
(* what is deleted.                                                        *)
NumbersUsable == \A k \in NumberKeys : config.settings[k] \in 1 .. MaxShort

(* A file starts a synchronisation only if every line of it is, up to the  *)
(* place where the parser splits it, a key of the program.  So no line is  *)
(* passed over, and one without '=' gets through only where the 16-bit     *)
(* position finds a key in it: beyond 65535 characters.                    *)
AcceptedLinesKnown ==
  Going =>
    \A line \in Range(lines) : line.length > 0 =>
      /\ line.key \in {"Source", "Destination", "Exclude"} \cup DOMAIN Defaults
      /\ line.equal = NoEqual => line.length > MaxShort

Keys == {line.key : line \in Range(lines)}

(* The lines whose order decides: two for one setting, Mode and            *)
(* ThreadCount, nested sources, and the flag that CheckCacheIntegrity      *)
(* reads when the destination's line is parsed.                            *)
Contested ==
  \/ \E i, j \in DOMAIN lines :
        /\ lines[i].key = lines[j].key /\ lines[i].key \in DOMAIN Defaults
        /\ lines[i].value # lines[j].value
  \/ {"Mode", "ThreadCount"} \subseteq Keys
  \/ config.skipped # {}
  \/ "EnableCacheRestoreFromBackup" \in Keys

Orders ==
  {[i \in DOMAIN lines |-> lines[f[i]]] : f \in Bijection(DOMAIN lines, DOMAIN lines)}

(* The order of the lines does not matter but for those: another order is  *)
(* accepted too, with the same sources, destination, excludes and settings.*)
OrderIndependent ==
  pc = "cleanup" /\ ~Contested =>
    \A l \in Orders : Accepted(Parsed(l)) /\ Parsed(l) = config

(* A scan finds the files under its source, but for those under a path     *)
(* excluded with the spelling the scan uses: the source's own for the      *)
(* source, no trailing slash for what is below it.                         *)
ScanExact ==
  pc \in {"hash", "sync"} =>
    \A s \in config.sources :
      files[s] = {f \in RegularFile :
                    /\ Within(f, s)
                    /\ ~\E e \in config.excludes :
                         /\ e = s \/ (~HasSlash(e) /\ Within(e, s) /\ e # Plain(s))
                         /\ Within(f, e)}

(* Two files of the sources never share a destination path, as long as in  *)
(* top-folder mode no source ends in a slash (it has no name then) and no  *)
(* source overlaps another one for that reason.                            *)
NoCollision ==
  pc \in {"hash", "sync"} =>
    LET top == config.settings["DestinationTopFolderInsteadOfFullPath"]
        To(f, s) == FinalDestPath(config.destination, top, f, s)
    IN  \A s, t \in {u \in config.sources : ~HasSlash(u)} :
          \A f \in files[s], g \in files[t] : <<s, f>> # <<t, g>> => To(f, s) # To(g, t)

(* When the hashes are used every file of every source was hashed by       *)
(* exactly one thread, for any number of files and threads.                *)
HashedOnce == pc = "sync" => \A s \in config.sources : \A i \in DOMAIN hashed[s] : hashed[s][i] = 1

(* Cleaning up keeps as many logs as configured, the newest by name; this  *)
(* process's own is among them unless the clock stepped back behind others.*)
LogsKept ==
  pc \in {"scan", "hash", "sync"} =>
    LET all == OldLogs \cup {log}
        max == config.settings["MaxLogFiles"]
    IN  /\ Cardinality(logs) = IF Cardinality(all) <= max THEN Cardinality(all) ELSE max
        /\ \A old \in all \ logs, kept \in logs : old < kept
        /\ (\A other \in OldLogs : other <= log) => log \in logs
=============================================================================
