SPECIFICATION Spec
CONSTANTS
  Directory <- Dirs
  RegularFile <- Files
  OtherFile <- Sockets
  Hardware = 4
  Relative = Relative
  NotNumber = NotNumber
  NoEqual = NoEqual
  NoPath = NoPath
  Line <- Lines
  MaxLines = 4
  Times <- StartTimes
  OldLogs <- LogTimes
INVARIANTS
  TypeOK
  AcceptedApart
  NumbersUsable
  AcceptedLinesKnown
  OrderIndependent
  ScanExact
  NoCollision
  HashedOnce
  LogsKept
CHECK_DEADLOCK FALSE
