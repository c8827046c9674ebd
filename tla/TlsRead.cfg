CONSTANTS
  MaxReq = 2
  PlainBuf = 2
  Verdicts = {TRUE, FALSE}
SPECIFICATION FairTlsSpec
CHECK_DEADLOCK FALSE
PROPERTY ReadExposesPlaintext
