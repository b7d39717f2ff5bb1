SPECIFICATION Spec
CONSTANTS
  b1 = b1
  b2 = b2
  b3 = b3
  Blobbers = {b1, b2, b3}
  DataShards = 1
  MaxRequests = 1
  Cases <- MissedBoth
  PageLimit = 3
  UserBatch = 1
  RepairBatch = 2
  WritePaths = {1, 3}
  Allowed <- Mergeable
  Faults = {}
  MaxFaults = 0
INVARIANT RepairsAll
