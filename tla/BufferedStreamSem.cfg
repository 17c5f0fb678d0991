CONSTANTS
  bufferSize = 4
  readThreshold = 2
  readSize = 1
  readyThreshold = 2
  notReadyThreshold = 1
  waitForReady = FALSE
  SemaphoreClient = TRUE
  EarlyClose = FALSE
  StreamEnd = 6
  InitialOffsets = {1}
  MaxOpens = 1
  MaxLen = 3
  SemMax = 2
  Null = Null
SPECIFICATION Spec
INVARIANTS NoMissedReady
CHECK_DEADLOCK FALSE
