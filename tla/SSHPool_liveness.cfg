SPECIFICATION FairSpec
CONSTANTS
  Servers = {s1}
  Borrowers = {b1, b2}
  Entries = {e1}
  Clients = {c1, c2}
  Fingerprints = {f1}
  None = None
  MaxConns = 1
  MaxGeneration = 2
PROPERTY Drains
CHECK_DEADLOCK FALSE
