\* Two nodes whose clocks are a second apart, the life of an issue, an offboarding.
CONSTANTS
  i1 = i1
  i2 = i2
  dev = dev
  lead = lead
  Nobody = Nobody
  Nodes <- TwoNodes
  Issues <- TwoIssues
  Users <- Staff
  Leads <- TheLead
  Duty <- TheLead
  Offset <- SecondAhead
  Settings <- SecondSetBack
  Kinds <- UnevenOrArchiving
  Pasts <- FreshOrTasked
  Targets <- End
  MaxEvents = 3
  MaxPending = 1
  MaxOffboards = 1
  MaxStepped = 1
SPECIFICATION Spec
INVARIANTS BoardsConverge SignerOrderKept OffboardIsComplete
CHECK_DEADLOCK FALSE
