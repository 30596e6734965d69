\* One invocation, SQL statements may fail.
CONSTANTS
  o1 = o1
  Orchestrators <- One
  Faults <- SqlFaults
  EngineReports = FALSE
SPECIFICATION Spec
\* The commands end.
CHECK_DEADLOCK FALSE
INVARIANT NoOrphanVm
