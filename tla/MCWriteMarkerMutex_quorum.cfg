SPECIFICATION Spec
CONSTANTS
  Conns = {c1, c2}
  NoConn = NoConn
  N = 3
  Thresh = 2
  AddConsensus = 0
  Faults = {"refuse", "lost", "limit", "timeout", "cancel", "crash"}
  MaxFaults = 1
  MaxRefresh <- NoRefresh
SYMMETRY ConnSymmetry
VIEW View
INVARIANTS TypeOK LockQuorum MutualExclusion NoHoldAndWait
CHECK_DEADLOCK FALSE
