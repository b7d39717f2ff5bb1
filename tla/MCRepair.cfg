SPECIFICATION FairSpec
CONSTANTS
  b1 = b1
  b2 = b2
  b3 = b3
  Blobbers = {b1, b2, b3}
  DataShards = 1
  MaxRequests = 2
  Cases <- Repairable
  PageLimit = 3
  UserBatch = 1
  RepairBatch = 2
  WritePaths = {1, 3}
  Allowed <- Mergeable
  Faults = {"list", "operation", "commit", "cancel", "crash", "write"}
  MaxFaults = 1
INVARIANTS TypeOK VersionHonest Repaired ModeRestored
PROPERTY RepairEnds
