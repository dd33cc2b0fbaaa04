\* The server, or a command while the server does not run.
CONSTANTS
  n1 = n1
  n2 = n2
  t1 = t1
  t2 = t2
  Nodes <- TwoNodes
  Self = n1
  Tokens <- TwoTokens
  Ttl = 1
  MaxTime = 2
  MaxFaults = 2
  Exclusive = TRUE
SPECIFICATION Spec
INVARIANTS BarredStaysOut MembersAreKept InviteAdmitsOnce
CHECK_DEADLOCK FALSE
