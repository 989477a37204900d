SPECIFICATION Spec
CONSTANTS
  s1 = s1
  s2 = s2
  p1 = p1
  p2 = p2
  Source = {s1}
  Path = {p1, p2}
  SourceOf <- OneSource
  Worker = {w1}
  MaxMiss = 1
  DeleteStale = TRUE
  TopFolder = FALSE
  Edits = {"modify", "remove", "reappear"}
  Faults = {"refuse", "abort", "short"}
  MaxVersion = 2
  MaxRuns = 4
  Absent = Absent
  Torn = Torn
  NoJob = NoJob
  NoFile = NoFile
  NoTask = NoTask
INVARIANTS
  TypeOK
  CacheTruthful
  CopiedFlagTruthful
PROPERTIES
  DeletesOnlyStale
CHECK_DEADLOCK FALSE
SYMMETRY Files
