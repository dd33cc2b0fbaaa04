CONSTANTS
  n1 = n1
  n2 = n2
  n3 = n3
  other = other
  Altered = Altered
  Keys <- AnyKey
  Strays <- NoStrays
  Nodes <- Three
  Peers <- Ring
  Trusted <- SelfTrusted
  MaxEvents = 1
  MaxHandlers = 1
  MaxFaults = 2
SPECIFICATION FairSpec
PROPERTIES EventsSpread
CHECK_DEADLOCK FALSE
