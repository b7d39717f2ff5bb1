SPECIFICATION Spec
CONSTANTS
  Blobbers = {b1, b2, b3}
  ParityShards = 2
  Thresh = 2
  Workers = {w1, w2}
  Main = main
  Capacity = 1
  Chunks = 5
  ChunkNumber = 2
  MaxBlocks = 1
  Kinds = {TRUE, FALSE}
  Faults = {"read", "send", "lost", "duplicate", "cancel", "crash", "expire"}
  MaxFaults = 3
  MaxAttempts = 3
SYMMETRY Symmetry
INVARIANTS TypeOK UploadComplete SavedUploaded FailsOnlyOnFault
CHECK_DEADLOCK FALSE
