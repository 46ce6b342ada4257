CONSTANTS
  Events = {e1, e2, e3}
  p1 = p1
  p2 = p2
  Intents = {p1, p2}
  Workers = {w1, w2, w3}
  h1 = h1
  h2 = h2
  HashIds = {h1, h2}
  Amounts = {1}
  Assets = {"USDC"}
  Payloads <- RacePayloads
  InitialIntents <- RaceIntents
  Terms <- MCTerms
  NoEvent = NoEvent
  NoIntent = NoIntent
  NoTxHash = NoTxHash
  MaxFaults = 1
SYMMETRY Symmetry
SPECIFICATION Spec
INVARIANTS
  ProcessedMeansPaid
  NoDeadlock
PROPERTIES
  HashConfirmsOnce
  ConfirmedWithItsEvent
