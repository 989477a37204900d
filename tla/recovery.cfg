SPECIFICATION Spec
CONSTANTS
  s1 = s1
  s2 = s2
  p1 = p1
  p2 = p2
  Source = {s1, s2}
  Path = {p1, p2}
  SourceOf <- OnePerSource
  Configs = {{s1, s2}}
  MaxMiss = 1
  BackUp = TRUE
  Restore = TRUE
  Editable = {p1}
  Faults = {"kill", "abort", "refuse", "short"}
  MaxVersion = 2
  MaxFaults = 2
  Absent = Absent
  Torn = Torn
  Missing = Missing
  NoFile = NoFile
  NoSource = NoSource
INVARIANTS
  TypeOK
  CacheTruthfulUnlessLost
  SuccessIsCopied
  IDsDistinct
PROPERTIES
  ImplementsSyncRun
  ChangesAreMarked
  EventuallyInSyncUnlessDamaged
CHECK_DEADLOCK FALSE
CONSTRAINTS
  IndexKept
  OneEdit
