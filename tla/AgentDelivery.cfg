SPECIFICATION FairSpec
CONSTANTS
  Samples = {s1, s2}
  Reqs = {r1, r2}
  MaxNow = 1
  Past = 0
  Future = 0
  Retention = 0
  NoReceipt = NoReceipt
  None = None
  MaxQueue = 1
  MaxBatch = 2
  MaxFaults = 1
INVARIANTS StoredOnce NoSilentLoss
PROPERTY Settles
CHECK_DEADLOCK FALSE
