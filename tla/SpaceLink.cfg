SPECIFICATION FairSpec
CONSTANTS
  ApiThreads = {w1}
  Second = 1
  Latency = 0
  Jitter = 1
  Bandwidth = 1
  MaxBatch = 2
  MaxFrames = 4
INVARIANTS TypeOK FramesAreAccounted
CHECK_DEADLOCK FALSE
PROPERTIES DeliversInOrder FramesArrive
