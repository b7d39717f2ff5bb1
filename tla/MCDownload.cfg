SPECIFICATION FairSpec
CONSTANTS
  Blobbers = {b1, b2, b3}
  Thresh = 2
  NumBlocks = 3
  PartialLast = FALSE
  Limit = 2
  Modes = {TRUE, FALSE}
  Faults = {"meta", "marker", "race", "block", "write", "cancel", "crash"}
  MaxFaults = 2
  MaxAttempts = 2
INVARIANTS  SavedWritten FailsBeyondParity
PROPERTY DownloadReturns
CHECK_DEADLOCK FALSE
