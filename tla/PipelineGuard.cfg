CONSTANTS
  Tasks = {t1, t2}
  u1 = u1
  u2 = u2
  k1 = k1
  k2 = k2
  h1 = h1
  Keys = {k1, k2}
  Urls = {u1, u2}
  KeyOf <- MCKeyOf
  HostOf <- MCHostOf
  Targets <- MCTargets
  Secure = {k2}
  Offered <- MCOffered
  Limit = 1
  MaxRedirects = 2
  MaxFetches = 1
  GuardHeld = TRUE
SPECIFICATION FairPipelineSpec
CHECK_DEADLOCK FALSE
PROPERTIES
  FetchReturns
