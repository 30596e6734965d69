\* One invocation, no faults: the summary may come between the two halves of a poll.
CONSTANTS
  o1 = o1
  Orchestrators <- One
  Faults <- NoFaults
  EngineReports = FALSE
SPECIFICATION Spec
\* The commands end.
CHECK_DEADLOCK FALSE
INVARIANT FailedHasNoSummary
