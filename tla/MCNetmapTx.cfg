CONSTANTS
  NumSlots = 4
  BufSize = 2
  MaxIovLen = 3
  MaxIovCnt = 2
  MaxMsgs = 3
  ExternalTxSync = TRUE
  CopyFaults = FALSE
SPECIFICATION Spec
INVARIANT TypeOK
INVARIANT WireCarriesMessages
INVARIANT BusySlotsUntouched
PROPERTY ImplementsIngestChannel
CHECK_DEADLOCK FALSE
