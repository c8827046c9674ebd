CONSTANTS
  Tasks = {t1, t2}
  u1 = u1
  u2 = u2
  k1 = k1
  k2 = k2
  h1 = h1
  Keys = {k1, k2}
  Urls = {u1, u2}
  KeyOf <- MCKeyOf
  HostOf <- MCHostOf
  Targets <- MCTargets
  Secure = {k2}
  Offered <- MCOffered
  Limit = 1
  MaxRedirects = 4
  MaxFetches = 1
  GuardHeld = FALSE
SPECIFICATION PipelineSpec
CHECK_DEADLOCK FALSE
INVARIANTS
  RefusedForARival
  OneRetryPerRequest
  HandleExclusive
  RedirectTrail
