SPECIFICATION SyncFairSpec
CONSTANTS
  Trees <- SmallTrees
  Calls <- SmallCalls
  Replicas <- SmallReplicas
  Excluded <- HiddenPaths
  Filters = {7}
  UploadPaths <- SmallUploads
  MaxCalls = 2
  PageLimit = 2
  BatchSize = 2
  Faults = {"list", "batch", "refuse", "crash", "upload"}
  MaxFaults = 1
INVARIANTS AsIfInOrder NothingLost SyncAgree NewKept
PROPERTY CallReturns
