CONSTANTS
  Rows = {1, 2}
  Nodes = {n1, n2}
  Malformed = {1}
  BatchSize = 1
  RequeueLimit = 1
  JobAttempts = 2
  MaxJobs = 2
  MaxFaults = 2
SPECIFICATION FairSpec
PROPERTIES
  AcceptedIsDecided
CHECK_DEADLOCK FALSE
