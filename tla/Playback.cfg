CONSTANTS
  Track = {"t1", "t2"}
  Sample = {0}
  PCM_CHUNK_SIZE = 2
  ChunkBytes = 3
  Chunks = 2
  SizeValues = 64
  MaxWrite = 3
  Threshold = 2
  MaxClears = 2
SPECIFICATION PlaybackSpec
PROPERTIES KeepsPlaying
