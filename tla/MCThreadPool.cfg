SPECIFICATION Spec
CONSTANTS
  Worker = {w1, w2}
  Job = {j1, j2, j3}
  NoJob = NoJob
INVARIANTS
  TypeOK
  CounterExact
  JoinSound
  DestructorDrains
  JobsRunOnce
PROPERTIES
  EveryJobRuns
  DestructorReturns
  ImplementsWorkPool
CHECK_DEADLOCK FALSE
