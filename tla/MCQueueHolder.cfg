CONSTANTS
  Publishers = {p1, p2, p3}
  MaxQueues = 4
SPECIFICATION FairSpec
INVARIANTS
  NoQueueLeaks
  RetryUsesAnotherQueue
PROPERTIES
  EveryPublishEnds
