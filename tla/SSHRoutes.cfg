SPECIFICATION Spec
CONSTANTS
  a = a
  j = j
  h1 = h1
  h2 = h2
  Servers = {a, j}
  Creds = {c1}
  Hosts = {h1, h2}
  Home <- MCHome
  Requested = {a}
  Getters = {g1, g2}
  Testers = {g2}
  Editors = {e1}
  None = None
  Deleted = Deleted
  Direct = Direct
  Proxies = {}
  MaxWrites = 2
INVARIANTS RowsConsistent HandedOutVerified HeldLeaseCurrent
CHECK_DEADLOCK FALSE
