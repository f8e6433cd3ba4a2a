SPECIFICATION FairSpec
CONSTANTS
  Mutators = {m1, m2}
  Requests = {r1}
  Sessions = {s1}
  Policies = {p1, p2}
  MaxVersion = 3
  None = None
INVARIANTS Fenced SessionsFollowRow
PROPERTIES UsedWhileCurrent ChangeEnds
CHECK_DEADLOCK FALSE
