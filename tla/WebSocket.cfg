SPECIFICATION FairSpec
CONSTANTS
  Urls = {u1}
  MaxConns = 2
  MaxMsgs = 2
  MaxFrames = 2
  Timeout = 1
  MaxCuts = 1
INVARIANTS UrlNamesNewest 
PROPERTIES ClosingIsFinal SilentIsRemoved
