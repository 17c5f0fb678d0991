CONSTANTS
  Track = {"t1", "t2"}
  Sample = {0, 1}
  PCM_CHUNK_SIZE = 2
  ChunkBytes = 3
  Chunks = 2
  SizeValues = 64
  MaxWrite = 2
  Pipelines <- SomePipelines
  NoPipeline = none
  Volume = {0, 50, 100}
  ChunkSamples = {1, 2}
  Duration = {2, 3}
  QueryAnytime = FALSE
  MaxCalls = 3
  Parameters <- SomeParameters
SPECIFICATION MCSpec
INVARIANTS BufferInv ChunksAsConfigured FiltersAsNamed
PROPERTIES ImplementsChannel EveryChunkReturns
