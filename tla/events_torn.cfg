\* A reader that may see any prefix of a write.
CONSTANTS
  LineWidth = 2
  FlushEvery = 2
  MaxEvents = 4
  TornVisible = TRUE
  Rejected <- NoEvent
  TooLong <- NoEvent
  MaxRestarts = 0
SPECIFICATION Spec
\* The engine ends and the shipper has nothing left to do.
CHECK_DEADLOCK FALSE
INVARIANT FullFidelity
