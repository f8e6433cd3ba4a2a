SPECIFICATION Spec
CONSTANTS
  Accounts = {root, user, other}
  Root = root
  Deleters = {d1, d2}
  None = None
  MaxAttempts = 2
  MaxChanges = 1
INVARIANTS RemovalWorksAlone EvidenceKept OneAgent RemovedStaysRemoved
SYMMETRY Symmetry
CHECK_DEADLOCK FALSE
