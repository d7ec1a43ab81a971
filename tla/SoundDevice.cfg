SPECIFICATION LiveSpec
CONSTANTS
  BYTES = 2
  FRAMES = 3
  CHUNK = 2
  f1 = f1
  f2 = f2
  Silence = f0
  Frame <- TwoFrames
  Batches <- Pairs
INVARIANTS TypeOK WholeFrames NotWhilePlaying
PROPERTIES DeviceFifo QueuedIsPlayed WriteReturns
