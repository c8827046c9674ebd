CONSTANTS
  MaxConns = 2
  RingIds = {r1, r2}
  Descs = {d1, d2}
  Capacity = 2
  MaxSend = 3
  Timeout = "finite"
  Disciplined = TRUE
SPECIFICATION FairSpec
INVARIANTS
  PausedIffOffPoller
  PausedIsVisited
  FullRingIsPaused
  NoLostWakeup
PROPERTIES
  SocketDrained
  PausedResumes
