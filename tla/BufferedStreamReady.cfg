CONSTANTS
  bufferSize = 4
  readThreshold = 2
  readSize = 1
  readyThreshold = 3
  notReadyThreshold = 1
  waitForReady = FALSE
  SemaphoreClient = TRUE
  EarlyClose = FALSE
  StreamEnd = 9
  InitialOffsets = {1}
  MaxOpens = 1
  MaxLen = 3
  SemMax = 2
  Null = Null
SPECIFICATION Spec
INVARIANTS NoMissedReady

\* A client waiting on readySem for a stream that ends before it is ready waits
\* for ever: the semaphore is given only when the buffer becomes ready.
CHECK_DEADLOCK FALSE
