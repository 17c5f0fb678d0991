CONSTANTS
  Block <- TwoByteBlocks
  Blank = Blank
  SIZE = 2
  buff_size = 2
  MaxFeed = 5
  MaxBytes = 11
  MaxCalls = 2
  MaxFaults = 1
  Rates = {8000, 44100}
  Volumes = {0, 60}
  Unwatched = {"power", "volume", "gain", "adc"}
  EarVolumes = {0, 100, 255, 300}
  AcRates = {8000, 44100, 192000, 1}
  RingSize = 4
  UpTo = 2
  MaxSent = 8
  MaxRetries = 2
  FRAMES_PER_BLOCK = 2
  Samples <- SomeSamples
  MaxGiven = 5
SPECIFICATION MCSpec
INVARIANTS NothingLost RegistersHold SamplesOnTheWire
PROPERTIES ImplementsQueue FedIsPlayed
CHECK_DEADLOCK FALSE
