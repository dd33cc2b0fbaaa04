CONSTANTS
  i1 = i1
  i2 = i2
  dev = dev
  lead = lead
  Nobody = Nobody
  Nodes <- TwoNodes
  Issues <- OneIssue
  Users <- Staff
  Leads <- TheLead
  Duty <- TheLead
  Offset <- SecondAhead
  Settings <- SecondSetBack
  Kinds <- Creates
  Pasts <- Fresh
  Targets <- End
  MaxEvents = 2
  MaxPending = 1
  MaxOffboards = 1
  MaxStepped = 0
SPECIFICATION Spec
INVARIANTS OffboardClears
CHECK_DEADLOCK FALSE
