SPECIFICATION FairSpec
CONSTANTS
  Codings = {"identity", "gzip", "br", "zstd"}
  InputLen = 5
  Ratio = 2
  OutCap = 4
  Capacity = 3
INVARIANTS RingIsPrefix AcceptedIsAccounted
PROPERTY FeedReturns
CHECK_DEADLOCK FALSE
