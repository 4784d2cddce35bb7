\* No symmetry: it is not sound for liveness.
CONSTANTS
  c1 = c1
  c2 = c2
  c3 = c3
  u1 = u1
  u2 = u2
  u3 = u3
  NoConn = NoConn
  NoUri = NoUri
  Conns <- MCConns2
  Uris <- MCUris3
  Kind <- AllKinds
  MaxFd = 3
SPECIFICATION FairSpec
PROPERTIES
  LocksAreReleased
