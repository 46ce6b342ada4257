CONSTANTS
  Nodes = {n1, n2, n3}
  Root = n1
  Bodies <- MCBodies
  MaxDepth = 2
  Strings <- MCStrings
  Digits = {0, 5}
  IntegerDigits = 2
  FractionDigits = 2
  MaxDigits = 3
  Primitives = {p, q}
  JsonKeys <- MCJsonKeys
  MaxNesting = 2
  Inputs <- MCInputs
  Errors = {1, 2, 3, 4}
  Nothing = Nothing
  Heaps <- MCHeaps
  MaxCauseDepth = 2
SPECIFICATION CallSpec
INVARIANTS
  CleanMeansClean
  ScanIsExact
  AmountKept
  PaidMeansEqual
  
  OutagesAndDataErrors
  CauseIsNamed
CHECK_DEADLOCK FALSE
