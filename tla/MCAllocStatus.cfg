SPECIFICATION Spec
CONSTANTS
  Blobbers = {b1, b2, b3, b4, b5}
  DataShards = 3
  ParityShards = 2
  MaxVersion = 2
SYMMETRY BlobberSymmetry
INVARIANT FoldDecision
PROPERTY RollbackSparesQuorum
CHECK_DEADLOCK FALSE
