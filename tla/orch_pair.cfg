\* Two overlapping invocations, every fault, an engine that reports its verdict, and
\* another run whose document names this one.
CONSTANTS
  o1 = o1
  o2 = o2
  Orchestrators <- Two
  Faults <- AllFaults
  EngineReports = TRUE
  Null = Null
  Invalid = Invalid
  Infinity = 1000
  RunId = "run-1"
  Documents <- TwoDocuments
  OtherDocuments <- WithCopy
SPECIFICATION ConfiguredSpec
SYMMETRY SymmetricTwo
\* The commands end.
CHECK_DEADLOCK FALSE
INVARIANTS
  TypeOK
  CompletedHasSummary
  InstanceIsRegistered
  EngineRunsConfigOfSomeRow
PROPERTY TeardownIsRecorded
