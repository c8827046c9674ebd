CONSTANTS
  MaxReq = 6
  PlainBuf = 2
  SockBuf = 2
  Verdicts = {TRUE, FALSE}
  Names = {TRUE, FALSE}
SPECIFICATION MCSpec
CHECK_DEADLOCK FALSE
INVARIANTS
  RequestsInOrder
  
  NothingBeforeVerified
  HandleMeansVerified
  TlsRequestsInOrder
PROPERTIES
  AcceptedIsAnswered
  CallsReturn
