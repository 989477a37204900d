SPECIFICATION Spec
CONSTANTS
  s1 = s1
  s2 = s2
  p1 = p1
  p2 = p2
  Source = {s1, s2}
  Path = {p1, p2}
  SourceOf <- OnePerSource
  Worker = {w1, w2}
  MaxMiss = 1
  DeleteStale = FALSE
  TopFolder = TRUE
  Edits = {"modify"}
  Faults = {"refuse", "abort", "short"}
  MaxVersion = 2
  MaxRuns = 1
  Absent = Absent
  Torn = Torn
  NoJob = NoJob
  NoFile = NoFile
  NoTask = NoTask
INVARIANTS
  PendingCounts
  Settled
  SuccessCopiesAll
PROPERTIES
  ImplementsSyncRun
  RunEnds
CHECK_DEADLOCK FALSE
