\* One instance and one command, every fault, one restart of the shipper, fair.
CONSTANTS
  o1 = o1
  Orchestrators <- One
  Faults <- AllFaults
  EngineReports = FALSE
  LineWidth = 1
  FlushEvery = 2
  MaxEvents = 3
  TornVisible = FALSE
  Rejected <- NoEvent
  TooLong <- NoEvent
  MaxRestarts = 1
SPECIFICATION PlatformFairSpec
\* The command ends.
CHECK_DEADLOCK FALSE
INVARIANT LossIsBounded
PROPERTIES
  ImplementsRunLog
  LogOutlivesCommand
  ArchiveIsFinal
