CONSTANTS
  Name = {n, dot}
  AppleName = {dot}
  Byte = {zero, one}
  Zero = zero
  BlockSize = 2
  Scratch = 1
  MaxFiles = 2
  MaxLen = 3
  MayCut = TRUE
  CountWhen = {"between"}
  MaxFrameSize = 4
  BUFFER_SIZE = 12
  HeadRead = 4
  HeadKept = 3
  Streams <- SomeStreams
  JunkSizes = {0, 2, 12}
  ReadBuf = 4
  HeadBytes = 3
  NoSyncSkip = 6
  EncodedStreams <- SomeEncoded
  MaxOpens = 2
SPECIFICATION MCSpec
INVARIANTS ArchiveReadBack 
PROPERTIES EndsAreReached
CHECK_DEADLOCK FALSE
