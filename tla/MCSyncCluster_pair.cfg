\* Two nodes, racing handlers, crashes and lost requests.
CONSTANTS
  n1 = n1
  n2 = n2
  n3 = n3
  other = other
  Altered = Altered
  Keys <- AnyKey
  Strays <- SomeStrays
  Nodes <- Two
  Peers <- Mesh
  Trusted <- AllTrusted
  MaxEvents = 2
  MaxHandlers = 2
  MaxFaults = 2
SPECIFICATION Spec
SYMMETRY NodeSymmetry
INVARIANTS TypeOK ChainVerifies Agreement IndexMatchesFile AckedIsDurable ClockTellsAll
PROPERTIES ReplicatesLog
CHECK_DEADLOCK FALSE
