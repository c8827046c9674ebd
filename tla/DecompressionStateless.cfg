SPECIFICATION Spec
CONSTANTS
  Codings = {"br", "zstd"}
  InputLen = 4
  Ratio = 2
  OutCap = 4
  Capacity = 4
INVARIANT ClosedIsComplete
CHECK_DEADLOCK FALSE
