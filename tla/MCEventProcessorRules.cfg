CONSTANTS
  Events = {e1, e2}
  p1 = p1
  p2 = p2
  Intents = {p1, p2}
  Workers = {w1, w2}
  h1 = h1
  h2 = h2
  HashIds = {h1, h2}
  Amounts = {1, 2}
  Assets = {"USDC", "ETH"}
  Payloads <- RulePayloads
  InitialIntents <- RuleIntents
  Terms <- MCTerms
  NoEvent = NoEvent
  NoIntent = NoIntent
  NoTxHash = NoTxHash
  MaxFaults = 1
SPECIFICATION FairSpec
INVARIANTS
  RejectionStaysTrue
PROPERTIES
  ImplementsLedger
  EveryEventDecided
