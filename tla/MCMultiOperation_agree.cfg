SPECIFICATION Spec
CONSTANTS
  Blobbers = {b1, b2, b3, b4}
  DataShards = 2
  ParityShards = 2
  MaxVersion = 3
  Thresh = 3
  Conns = {c1, c2, c3}
  Probes = {}
  NoConn = NoConn
  Modes = {FALSE}
  MaxOps = 1
  Faults = {"refresh", "refuse", "lost", "rollback", "crash"}
  MaxFaults = 2
SYMMETRY Symmetry
VIEW View
INVARIANTS TypeOK AckedKept FailedUndone VersionAgreement
PROPERTY OneHistory
CHECK_DEADLOCK FALSE
