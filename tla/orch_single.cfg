\* One invocation, every fault, an engine that reports nothing itself, and another run
\* whose document names this one.
CONSTANTS
  o1 = o1
  o2 = o2
  Orchestrators <- One
  Faults <- AllFaults
  EngineReports = FALSE
  Null = Null
  Invalid = Invalid
  Infinity = 1000
  RunId = "run-1"
  Documents <- TwoDocuments
  OtherDocuments <- WithCopy
SPECIFICATION ConfiguredSpec
\* The command ends.
CHECK_DEADLOCK FALSE
INVARIANTS
  DoneMeansReclaimed
  EndedAtAgreesWithStatus
PROPERTIES
  StatusMovesForward
  TeardownAfterVerdict
  ImplementsLifecycle
