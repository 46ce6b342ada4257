CONSTANTS
  Clients = {c1, c2, c3}
  Keys = {k1, k2}
  Bodies = {a, b}
  IntentIds = {1, 2, 3, 4}
  NoSnapshot = NoSnapshot
  MaxFaults = 2
SPECIFICATION FairSpec
INVARIANTS
  OneIntentPerKey
  SameKeySameAnswer
PROPERTIES
  EveryClientAnswered
CHECK_DEADLOCK FALSE
