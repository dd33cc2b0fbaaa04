CONSTANTS
  s1 = s1
  s2 = s2
  t1 = t1
  root = root
  guest = guest
  Slots <- TwoSlots
  Profiles <- SomeProfiles
  Keys <- SomeKeys
  Room = 1
  Retention = 1
  MaxTime = 2
  MaxRuns = 2
  MaxRestarts = 2
  Addresses <- TwoAddresses
  Callers <- UsersAndAddresses
  Tiers <- BothTiers
  Minute = 2
  Users <- TwoUsers
  Roles <- SomeRoles
  Static <- Both
  Issued <- OneToken
  Configs <- SomeConfigs
  Ttls = {1}
  StaticTtl = 1
SYMMETRY Alike
SPECIFICATION Spec
INVARIANTS AtMostTwiceTheLimit RevokedTokensAreOut IssuedTokensWork
PROPERTIES RunsAreApart
CHECK_DEADLOCK FALSE
