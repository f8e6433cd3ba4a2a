SPECIFICATION Spec
CONSTANTS
  Bucket = 2
  Retention = 6
  RefreshWindow = 4
  Late = 2
  Early = 1
  Gap = 2
  Chunk = 1
  MaxRawSamples = 1
  MaxQueryRange = 4
  Reboot = 3
  Reset = 5
  Unmeasured = {1}
  MaxTime = 7
  MaxSamples = 2
  None = None
INVARIANTS RollupsSound NothingDropped
PROPERTIES HistoryKept
CHECK_DEADLOCK FALSE
