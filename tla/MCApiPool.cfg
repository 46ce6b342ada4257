SPECIFICATION FairSpec
CONSTANTS
  k1 = k1
  k2 = k2
  Requests = {r1, r2, r3, r4}
  Entries = {k1, k2}
  Incoming <- MCIncoming
  Connections = {c1, c2}
  Nobody = Nobody
  MaxFaults = 1
INVARIANTS
  NobodyStuck
PROPERTIES
  EveryRequestEnds
CHECK_DEADLOCK FALSE
