CONSTANTS
  Rows = {1, 2, 3}
  Nodes = {n1, n2}
  Malformed = {2}
  BatchSize = 2
  RequeueLimit = 1
  JobAttempts = 2
  MaxJobs = 2
  MaxFaults = 1
SYMMETRY Symmetry
SPECIFICATION Spec
INVARIANTS
  InboxAgreesWithOutbox
PROPERTIES
  DecidedStaysDecided
  FailuresCountedOnce
CHECK_DEADLOCK FALSE
