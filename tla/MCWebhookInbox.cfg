CONSTANTS
  Requests = {r1, r2, r3}
  EventIds = {"ev1", "ev2"}
  Nonces = {"n1", "n2"}
  Bodies = {"a", "b"}
  Incoming <- MCIncoming
  StoredBefore <- MCStoredBefore
  MaxFaults = 1
SPECIFICATION FairSpec
INVARIANTS
  AnswersAreTrue
  AcceptedOnce
  ConflictsAreClassified
PROPERTIES
  EveryRequestAnswered
CHECK_DEADLOCK FALSE
