\* One instance and one command, nothing fails, no line is torn or refused.
CONSTANTS
  o1 = o1
  Orchestrators <- One
  Faults <- NoFaults
  EngineReports = FALSE
  LineWidth = 1
  FlushEvery = 2
  MaxEvents = 3
  TornVisible = FALSE
  Rejected <- NoEvent
  TooLong <- NoEvent
  MaxRestarts = 0
SPECIFICATION PlatformSpec
\* The command ends.
CHECK_DEADLOCK FALSE
INVARIANT CompletedRunIsArchived
