SPECIFICATION Spec
CONSTANTS
  Servers = {s1}
  Borrowers = {b1, b2}
  Entries = {e1}
  Clients = {c1, c2}
  Fingerprints = {f1, f2}
  None = None
  MaxConns = 2
  MaxGeneration = 3
SYMMETRY Symmetry
INVARIANTS SlotsExact SoleOwner CacheMatchesConfiguration
PROPERTY StaleForever
CHECK_DEADLOCK FALSE
