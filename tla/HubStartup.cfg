SPECIFICATION Spec
CONSTANTS
  Hubs = {h1, h2}
  Legacy = legacy
  Later = later
  Baseline = baseline
  Narrow = narrow
  None = None
  Bad = bad
  MaxChanges = 2
  MaxStarts = 2
INVARIANTS ChoicesKept ServesMigrated SettingsCommitted
PROPERTIES SettingsArrive
CHECK_DEADLOCK FALSE
