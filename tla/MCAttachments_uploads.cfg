\* Both backends, clients that send a checksum and clients that do not.
CONSTANTS
  n1 = n1
  n2 = n2
  f1 = f1
  u1 = u1
  u2 = u2
  h1 = h1
  Servers <- TwoNodes
  Hooks <- OneHook
  Nodes <- TwoNodes
  Files <- OneFile
  Attempts <- TwoAttempts
  Ttl = 2
  MaxTime = 2
  MaxEvents = 3
  MaxFaults = 2
SYMMETRY Alike
SPECIFICATION Spec
INVARIANTS ListedIsIntact OpensEverywhere RevokedHooksAreQuiet
CHECK_DEADLOCK FALSE
