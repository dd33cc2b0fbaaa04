CONSTANTS
  a = a
  b = b
  c = c
  d = d
  u = u
  v = v
  Blank = Blank
  Nodes <- Three
  Ids <- Four
  Users <- Two
  Roles <- SomeRoles
  Families <- SomeFamilies
  MaxCalls = 2
  MaxFaults = 2
SPECIFICATION Spec
INVARIANTS TypeOK QuorumsIntersect VotersAreTheLastSet OneFailureIsTolerated
CHECK_DEADLOCK FALSE
