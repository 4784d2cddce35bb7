\* Three connections; with four descriptors they run out.
CONSTANTS
  c1 = c1
  c2 = c2
  c3 = c3
  u1 = u1
  u2 = u2
  u3 = u3
  NoConn = NoConn
  NoUri = NoUri
  Conns <- MCConns3
  Uris <- MCUris2
  Kind <- TextLarge
  MaxFd = 4
SPECIFICATION Spec
SYMMETRY Symmetry3
INVARIANTS
  ProxyInv
  FirstNeverBlocks
  OwnInTime
  DescriptorsAddUp
