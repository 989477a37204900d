SPECIFICATION Spec
CONSTANTS
  s1 = s1
  s2 = s2
  p1 = p1
  p2 = p2
  Source = {s1}
  Path = {p1}
  SourceOf <- OneSource
  Configs = {{s1}}
  MaxMiss = 1
  BackUp = TRUE
  Restore = TRUE
  Editable = {p1}
  Faults = {"kill"}
  MaxVersion = 2
  MaxFaults = 1
  Absent = Absent
  Torn = Torn
  Missing = Missing
  NoFile = NoFile
  NoSource = NoSource
PROPERTIES
  BackupRecovers
CHECK_DEADLOCK FALSE
