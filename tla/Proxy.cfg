CONSTANTS
  Calls <- MCCalls
  EnvSizes = {0, 1, 2}
  OutLens = {0, 1, 2}
SPECIFICATION FairProxySpec
CHECK_DEADLOCK FALSE
INVARIANTS
  GlobExact
  StopsShortIndented
  HopIsOneRule
PROPERTIES
  EvaluateReturns
