CONSTANTS
  a = a
  b = b
  c = c
  e1 = e1
  e2 = e2
  Nodes <- Three
  Exports <- Pair
  Home <- AtAB
  PageLimit = 3
  SelfSeen = TRUE
  Sizes <- Small
  MaxOther = 1
  MaxFaults = 1
  Reader = a
  MaxPlaces = 4
  Held = 2
  Limit = 1
  MaxPageErrors = 1
SPECIFICATION FairSpec
INVARIANTS ExportIsComplete PagesMissNothing
PROPERTIES ExportEnds
CHECK_DEADLOCK FALSE
