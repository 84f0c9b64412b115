CONSTANTS
  NumSlots = 4
  BufSize = 2
  MaxIovLen = 3
  MaxIovCnt = 2
  MaxMsgs = 3
  ExternalTxSync = FALSE
  CopyFaults = FALSE
SPECIFICATION Spec
PROPERTY RingRecovers
CHECK_DEADLOCK FALSE
