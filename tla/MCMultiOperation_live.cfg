SPECIFICATION FairSpec
CONSTANTS
  Blobbers = {b1, b2}
  DataShards = 2
  ParityShards = 0
  MaxVersion = 2
  Thresh = 2
  Conns = {c1, c2}
  Probes = {p1}
  NoConn = NoConn
  Modes = {TRUE, FALSE}
  MaxOps = 1
  Faults = {"op", "lock", "unreachable", "refuse", "late", "rollback", "crash"}
  MaxFaults = 1
INVARIANT FailedUndone
PROPERTY ProcessReturns
CHECK_DEADLOCK FALSE
