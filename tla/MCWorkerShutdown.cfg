CONSTANTS
  Rows = {r1, r2}
  NoRow = none
  TheBatch = b
  MaxQueues = 2
  MaxCooldown = 2
  MaxFailures = 2
  MaxFaults = 1
  MaxRestarts = 1
SPECIFICATION FairSpec
INVARIANTS
  PublishedHasJob
  DatabaseOutlivesWork
  CleanExit
PROPERTIES
  ShutdownCompletes
  EveryRowProcessed
CHECK_DEADLOCK FALSE
