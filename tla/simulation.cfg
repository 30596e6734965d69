\* Every start up to 2, length up to 5 and interval up to 4, three attempts.
CONSTANTS
  Configs <- SmallConfigs
  MaxAttempts = 3
SPECIFICATION RepeatedSpec
\* The last attempt ends.
CHECK_DEADLOCK FALSE
INVARIANTS
  TypeOK
  BoundedRollback
  CheckpointIsOfItsTick
  ParquetAfterNpz
  ReturnedRunIsComplete
  StubLeavesNoTick
  OneTornPerRetry
  OwnCheckpointIsNear
  ReturnedRunIsWhole
PROPERTIES
  NothingStaleIsRead
  ImplementsPeriodicCheckpoints
