SPECIFICATION HubSpec
INVARIANTS ReleasedWhole DoneMeansReclaimed
PROPERTIES KeepsContract Reclaimed
CHECK_DEADLOCK FALSE
