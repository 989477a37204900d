------------------------------ MODULE SyncRun ------------------------------
(***************************************************************************)
(* What a run of the program in HDD mode does, source by source, without   *)
(* its threads, queues, counts and notifications: all sources are scanned  *)
(* before any is compared with its cache; a source either has nothing to   *)
(* copy and is saved, or is queued, copied and saved, one source at a      *)
(* time, or given up; and the main thread goes on when all are done.       *)
(*                                                                         *)
(* HDDSync is shown to implement this module, with its threads, and so is  *)
(* Recovery, whose runs are described at this grain.                       *)
(***************************************************************************)
CONSTANT Source

VARIABLES
  run,   \* "off", "scan", "sync", or "ended": the main thread waits no more
  stage  \* stage[s]: how far the run is with source s; "out": not configured

vars == <<run, stage>>

Stages ==
  {"out", "unscanned", "scanned", "unchanged", "queued", "copying", "saving", "done"}

At(where) == {s \in Source : stage[s] = where}

AllOut == [s \in Source |-> "out"]

Init == run = "off" /\ stage = AllOut

Begin ==
  /\ run = "off" /\ run' = "scan"
  /\ \E configured \in (SUBSET Source) \ {{}} :
       stage' = [s \in Source |-> IF s \in configured THEN "unscanned" ELSE "out"]

Scan ==
  /\ run = "scan"
  /\ \E found \in (SUBSET At("unscanned")) \ {{}} :
       stage' = [s \in Source |-> IF s \in found THEN "scanned" ELSE stage[s]]
  /\ UNCHANGED run

ScansJoined ==
  /\ run = "scan" /\ At("unscanned") = {}
  /\ run' = "sync"
  /\ UNCHANGED stage

Move(s, from, to) ==
  /\ run = "sync" /\ stage[s] = from
  /\ stage' = [stage EXCEPT ![s] = to]
  /\ UNCHANGED run

(* A job compares the scan with the cache. *)
Compare(s) == Move(s, "scanned", "unchanged") \/ Move(s, "scanned", "queued")

SaveUnchanged(s) == Move(s, "unchanged", "done")

TakeTask(s) == At("copying") \cup At("saving") = {} /\ Move(s, "queued", "copying")

EndCopies(s) == Move(s, "copying", "saving") \/ Move(s, "copying", "done")

SaveCopied(s) == Move(s, "saving", "done")

WaitUntilDone ==
  /\ run = "sync" /\ At("done") \cup At("out") = Source
  /\ run' = "ended"
  /\ UNCHANGED stage

Leave == run = "ended" /\ run' = "off" /\ stage' = AllOut

(* The process is killed, or ends itself in HandleCopyFailure. *)
Exit == run # "off" /\ run' = "off" /\ stage' = AllOut

Progress ==
  \/ Scan \/ ScansJoined
  \/ \E s \in Source : Compare(s) \/ SaveUnchanged(s) \/ TakeTask(s) \/ EndCopies(s) \/ SaveCopied(s)
  \/ WaitUntilDone \/ Leave

Next == Begin \/ Progress \/ Exit

Safety == Init /\ [][Next]_vars

(* A run that has begun goes on, unless the process ends. *)
Spec == Safety /\ WF_vars(Progress)
=============================================================================
