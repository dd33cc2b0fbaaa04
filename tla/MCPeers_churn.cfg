CONSTANTS
  a = a
  b = b
  nodeA = nodeA
  nodeB = nodeB
  Urls <- TwoUrls
  Static <- OneStatic
  NodeOf <- TwoNodes
  Lists <- BothListed
  Fickle <- Both
  DiscoveryTtl = 1
  MaxShift = 1
  MaxPass = 1
SPECIFICATION FairSpec
INVARIANTS RevokedPeersAreDropped
PROPERTIES DeadPeersAreForgotten PeersAreFound ReturnedPeersArePulled
