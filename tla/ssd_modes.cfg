SPECIFICATION Spec
CONSTANTS
  s1 = s1
  s2 = s2
  p1 = p1
  p2 = p2
  p3 = p3
  Source = {s1, s2}
  Path = {p1, p2, p3}
  SourceOf <- SourceOfFile
  Large = {p2}
  Modes = {"Sequential", "Parallel", "Balanced", "GodSpeed"}
  Worker = {w1}
  Thread = {t1, t2}
  MaxGod = 2
  Before = {"new", "gone"}
  Edited = {p1}
  MaxMiss = 1
  DeleteStale = TRUE
  Faults = {"refuse", "abort", "short"}
  MaxVersion = 2
  Shared = Shared
  LargeThread = LargeThread
  Absent = Absent
  Torn = Torn
  NoJob = NoJob
  NoCopy = NoCopy
  NoTask = NoTask
INVARIANTS
  TypeOK
  PendingCounts
  SavedAfterLastCopy
  Settled
  NoSourceForgotten
  CacheTruthfulUnlessRefused
  SuccessCopiesAll
CHECK_DEADLOCK FALSE
