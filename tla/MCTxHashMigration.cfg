CONSTANTS
  Intents = {1, 2, 3}
  Spellings <- MCSpellings
  Canonical <- MCCanonical
  Workers = {w1, w2}
  NoHash = NoHash
  MaxRuns = 2
SPECIFICATION Spec
INVARIANTS
  OneHolderEach
PROPERTIES
  NoSecondUse
CHECK_DEADLOCK FALSE
