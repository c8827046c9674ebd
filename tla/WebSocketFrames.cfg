SPECIFICATION Spec
CONSTANTS
  Urls = {u1}
  MaxConns = 1
  MaxMsgs = 2
  MaxFrames = 3
  Timeout = 1
  MaxCuts = 0
INVARIANT NoMessageForgotten
