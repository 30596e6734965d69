\* Two overlapping invocations and six documents, Redis may fail, fair.
CONSTANTS
  o1 = o1
  o2 = o2
  Orchestrators <- Two
  Faults <- RedisFaults
  EngineReports = FALSE
  Null = Null
  Invalid = Invalid
  Infinity = 1000
  RunId = "run-1"
  Documents <- SomeDocuments
  OtherDocuments <- OwnNames
SPECIFICATION ConfiguredFairSpec
\* The commands end.
CHECK_DEADLOCK FALSE
INVARIANTS
  CacheAgreesWithRegistry
  EngineRunsSubmittedConfig
  CompletedRunIsValid
PROPERTIES
  EndIsNoticed
  ImplementsConfigRegister
