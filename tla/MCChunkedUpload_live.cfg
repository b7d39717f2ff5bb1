SPECIFICATION FairSpec
CONSTANTS
  Blobbers = {b1, b2, b3}
  ParityShards = 2
  Thresh = 2
  Workers = {w1, w2}
  Main = main
  Capacity = 1
  Chunks = 4
  ChunkNumber = 2
  MaxBlocks = 1
  Kinds = {TRUE, FALSE}
  Faults = {"read", "build", "send", "duplicate", "throttle", "race", "lost", "cancel", "crash"}
  MaxFaults = 2
  MaxAttempts = 2
PROPERTY UploadReturns
CHECK_DEADLOCK FALSE
