\* One invocation, nothing fails, and another run whose document names this one.
CONSTANTS
  o1 = o1
  o2 = o2
  Orchestrators <- One
  Faults <- NoFaults
  EngineReports = FALSE
  Null = Null
  Invalid = Invalid
  Infinity = 1000
  RunId = "run-1"
  Documents <- TwoDocuments
  OtherDocuments <- WithCopy
SPECIFICATION ConfiguredSpec
\* The commands end.
CHECK_DEADLOCK FALSE
INVARIANT EngineRunsSubmittedConfig
