\* Two restarts, and a reader that may see any prefix of a write.
CONSTANTS
  LineWidth = 3
  FlushEvery = 2
  MaxEvents = 5
  TornVisible = TRUE
  Rejected <- SecondEvent
  TooLong <- FifthEvent
  MaxRestarts = 2
SPECIFICATION Spec
\* The engine ends and the shipper has nothing left to do.
CHECK_DEADLOCK FALSE
INVARIANTS
  TypeOK
  ArchivedIsLogged
  OneSkipPerObject
PROPERTY ArchiveStable
