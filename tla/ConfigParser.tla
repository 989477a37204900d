---------------------------- MODULE ConfigParser ----------------------------
(* ConfigParser::Parse, as the effect of one line of the file on what was   *)
(* parsed so far, and the validation at the end of the file.                *)
(*                                                                          *)
(* A line is a record: the position of its first '=' (NoEqual if it has     *)
(* none), its length, and the key and the value the parser finds in it: the *)
(* text before and after the place where it splits the line (SplitAt),      *)
(* without the blanks it removes, of which a key may lose thousands.  The   *)
(* value of a number is what stoi reads at its front.  Errors are the keys  *)
(* of the lines, or the names of the final tests, they came from; their     *)
(* wording is left out.                                                     *)
EXTENDS Integers, FiniteSets, Paths

CONSTANTS
  Hardware,  \* std::thread::hardware_concurrency
  Relative,  \* a value that is not an absolute path
  NotNumber, \* a value stoi refuses
  NoEqual, NoPath

(* The largest unsigned short. *)
MaxShort == 65535

ASSUME ConfigAssumption ==
  /\ Hardware \in 0 .. MaxShort /\ NoEqual \notin Int
  /\ \A d \in Directory : NoPath # d /\ NoPath # Append(d, NoName)

NumberKeys ==
  {"ThreadCount", "GodSpeedParallelSourcesCount", "GodSpeedParallelFilesPerSourcesCount",
   "ParallelFilesPerSourceCount", "StaleEntries", "MaxLogFiles"}

FlagKeys ==
  {"DeleteStaleFromDest", "EnableBackupCopyAfterRun", "EnableCacheRestoreFromBackup",
   "DestinationTopFolderInsteadOfFullPath"}

Allowed ==
  [Mode |-> {"BG", "Inter", "GodSpeed"},
   DiskType |-> {"SSD", "HDD"},
   SSDMode |-> {"Sequential", "Parallel", "Balanced", "GodSpeed"}]

(* InitializeDefaults. *)
Defaults ==
  [k \in NumberKeys \cup FlagKeys \cup DOMAIN Allowed |->
     CASE k = "ThreadCount" -> 2
       [] k = "StaleEntries" -> 5
       [] k = "MaxLogFiles" -> 10
       [] k \in NumberKeys \ {"ThreadCount", "StaleEntries", "MaxLogFiles"} -> 8
       [] k \in FlagKeys -> k \in {"EnableBackupCopyAfterRun", "EnableCacheRestoreFromBackup"}
       [] k = "Mode" -> "BG"
       [] k = "DiskType" -> "HDD"
       [] k = "SSDMode" -> "Balanced"]

(* restoring: EnableCacheRestoreFromBackup when CheckCacheIntegrity was    *)
(* called, or {} before.  dead: did an exception end the process?          *)
InitialConfig ==
  [sources |-> {}, skipped |-> {}, destination |-> NoPath, excludes |-> {},
   settings |-> Defaults, errors |-> {}, restoring |-> {}, dead |-> FALSE]

-----------------------------------------------------------------------------
Error(c, key) == [c EXCEPT !.errors = @ \cup {key}]

Set(c, key, value) == [c EXCEPT !.settings[key] = value]

MutNested(c, p) == \E s \in c.sources : IsParentDirectory(s, p) /\ Len(s) <= Len(p)

Nested(c, p) == \E s \in c.sources : IsParentDirectory(s, p) \/ IsParentDirectory(p, s)

MutSource(c, p) ==
  IF p = Relative \/ ~Exists(p) THEN Error(c, "Source")
  ELSE IF Nested(c, p) THEN [c EXCEPT !.skipped = @ \cup {p}]
  ELSE [c EXCEPT !.sources = @ \cup {p}]

Source(c, p) ==
  IF p = Relative \/ ~Exists(p) THEN Error(c, "Source")
  ELSE IF ~(IsDirectory(p) \/ IsRegularFile(p)) THEN Error(c, "Source")
  ELSE IF Nested(c, p) THEN [c EXCEPT !.skipped = @ \cup {p}]
  ELSE [c EXCEPT !.sources = @ \cup {p}]

MutDestination(c, p) ==
  IF p = Relative \/ ~IsDirectory(p) THEN Error(c, "Destination")
  ELSE [c EXCEPT !.destination = p,
                 !.restoring = {c.settings["EnableCacheRestoreFromBackup"]}]

(* The cache is checked, and restored, with the settings read so far. *)
Destination(c, p) ==
  IF p = Relative \/ c.destination # NoPath \/ ~IsDirectory(p) THEN Error(c, "Destination")
  ELSE [c EXCEPT !.destination = p,
                 !.restoring = {c.settings["EnableCacheRestoreFromBackup"]}]

Exclude(c, p) ==
  IF p = Relative THEN Error(c, "Exclude") ELSE [c EXCEPT !.excludes = @ \cup {p}]

ThreadsOf(mode) ==
  CASE mode = "BG" -> 2 [] mode = "Inter" -> 4
    [] mode = "GodSpeed" -> IF Hardware = 0 THEN 8 ELSE Hardware

Choice(c, key, value) ==
  IF value \notin Allowed[key] THEN Error(c, key)
  ELSE IF key = "Mode" THEN Set(Set(c, key, value), "ThreadCount", ThreadsOf(value))
  ELSE Set(c, key, value)

Flag(c, key, value) ==
  IF value \notin {"YES", "NO"} THEN Error(c, key) ELSE Set(c, key, value = "YES")

(* A conversion to unsigned short. *)
Narrow(n) == n % (MaxShort + 1)

MutNumber(c, key, value) ==
  IF value = NotNumber \/ value <= 0 THEN Error(c, key)
  ELSE Set(c, key, Narrow(value))

(* Zero is tested after the conversion. *)
Number(c, key, value) ==
  IF value = NotNumber \/ Narrow(value) = 0 THEN Error(c, key)
  ELSE Set(c, key, Narrow(value))

(* The position of '=' is an unsigned short, and npos becomes 65535.       *)
SplitAt(line) == IF line.equal = NoEqual THEN MaxShort ELSE Narrow(line.equal)

Keyed(c, key, value) ==
  CASE key = "Source" -> Source(c, value)
    [] key = "Destination" -> Destination(c, value)
    [] key = "Exclude" -> Exclude(c, value)
    [] key \in DOMAIN Allowed -> Choice(c, key, value)
    [] key \in FlagKeys -> Flag(c, key, value)
    [] key \in NumberKeys -> Number(c, key, value)
    [] OTHER -> Error(c, "key")

MutEffect(c, line) ==
  IF c.dead \/ line.length = 0 \/ line.equal = NoEqual THEN c
  ELSE Keyed(c, line.key, line.value)

(* substr throws when the line is too short for the place of the split,    *)
(* and nothing catches it.  Otherwise the line counts with the key and the *)
(* value found there, at its first '=' or not.                             *)
Effect(c, line) ==
  IF c.dead \/ line.length = 0 THEN c
  ELSE IF SplitAt(line) + 1 > line.length THEN [c EXCEPT !.dead = TRUE]
  ELSE Keyed(c, line.key, line.value)

-----------------------------------------------------------------------------
(* The end of the file. *)
Overlapping(c) == {s \in c.sources : IsParentDirectory(s, c.destination)}

MutSameNames(c) == FALSE

SameNames(c) ==
  \E s, t \in c.sources \ Overlapping(c) : s # t /\ FileName(s) = FileName(t)

FinalErrors(c) ==
  {e \in {"no source", "no destination", "overlap", "same names"} :
     CASE e = "no source" -> c.sources = {}
       [] e = "no destination" -> c.destination = NoPath
       [] e = "overlap" -> c.destination # NoPath /\ Overlapping(c) # {}
       [] e = "same names" -> /\ c.destination # NoPath
                              /\ c.settings["DestinationTopFolderInsteadOfFullPath"]
                              /\ SameNames(c)}

Accepted(c) == ~c.dead /\ c.errors \cup FinalErrors(c) = {}

Parsed(lines) == FoldLeft(Effect, InitialConfig, lines)
=============================================================================
