SPECIFICATION LiveSessionSpec
CONSTANTS
  SIZE = 4
  CHUNK = 2
  MaxBurst = 4
  Silence = f0
  Frame = {f0, f1}
INVARIANT NoOverwrite
PROPERTIES ImplementsFifo QueuedIsPlayed

