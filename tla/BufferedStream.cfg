CONSTANTS
  bufferSize = 4
  readThreshold = 2
  readSize = 2
  readyThreshold = 2
  notReadyThreshold = 2
  waitForReady = TRUE
  SemaphoreClient = FALSE
  EarlyClose = FALSE
  StreamEnd = 5
  InitialOffsets = {1}
  MaxOpens = 2
  MaxLen = 3
  SemMax = 2
  Null = Null
SPECIFICATION FairSpec
INVARIANTS NoOverrun ReadsTheStream
PROPERTIES CallsReturn Drains
