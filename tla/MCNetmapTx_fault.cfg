CONSTANTS
  NumSlots = 4
  BufSize = 2
  MaxIovLen = 3
  MaxIovCnt = 2
  MaxMsgs = 3
  ExternalTxSync = TRUE
  CopyFaults = TRUE
SPECIFICATION Spec
INVARIANT WireCarriesMessages
CHECK_DEADLOCK FALSE
