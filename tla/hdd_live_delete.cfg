SPECIFICATION Spec
CONSTANTS
  s1 = s1
  s2 = s2
  p1 = p1
  p2 = p2
  Source = {s1, s2}
  Path = {p1, p2}
  SourceOf <- OnePerSource
  Worker = {w1}
  MaxMiss = 1
  DeleteStale = TRUE
  TopFolder = FALSE
  Edits = {}
  Faults = {}
  MaxVersion = 1
  MaxRuns = 2
  Absent = Absent
  Torn = Torn
  NoJob = NoJob
  NoFile = NoFile
  NoTask = NoTask
PROPERTIES
  DeletesOnlyStale
CHECK_DEADLOCK FALSE
