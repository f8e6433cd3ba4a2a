SPECIFICATION FairSpec
CONSTANTS
  Ops = {o1}
  Instances = {i1, i2, i3}
  None = None
  MaxSeq = 4
INVARIANT ResultAccounted
PROPERTIES ResultsFinal RunningEnds
