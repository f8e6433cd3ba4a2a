SPECIFICATION LeaseHubSpec
CONSTANTS
  MaxOps = 3
  None = None
INVARIANT Settlement
PROPERTIES OperationsApart OwnerAnswered
CHECK_DEADLOCK FALSE
