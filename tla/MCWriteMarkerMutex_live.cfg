SPECIFICATION FairSpec
CONSTANTS
  Conns = {c1, c2}
  NoConn = NoConn
  N = 2
  Thresh = 2
  AddConsensus = 0
  Faults = {"lost", "crash"}
  MaxFaults = 2
  MaxRefresh <- OneRefresh
INVARIANTS NoOrphanLock LeadInRange
PROPERTY CallsReturn
CHECK_DEADLOCK FALSE
