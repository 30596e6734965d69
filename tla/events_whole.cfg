\* A reader sees writes end where the text layer ends them; one restart, fair.
CONSTANTS
  LineWidth = 2
  FlushEvery = 2
  MaxEvents = 6
  TornVisible = FALSE
  Rejected <- SecondEvent
  TooLong <- SixthEvent
  MaxRestarts = 1
SPECIFICATION FairSpec
\* The engine ends and the shipper has nothing left to do.
CHECK_DEADLOCK FALSE
INVARIANTS
  BoundedCrashLoss
  NothingSkipped
  ArchiveIsOrdered
  QuietMeansArchived
PROPERTIES
  ClosedLogIsArchived
  ImplementsDurableLog
