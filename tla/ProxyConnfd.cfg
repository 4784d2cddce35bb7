\* Two connections.
CONSTANTS
  c1 = c1
  c2 = c2
  c3 = c3
  u1 = u1
  u2 = u2
  u3 = u3
  NoConn = NoConn
  NoUri = NoUri
  Conns <- MCConns2
  Uris <- MCUris1
  Kind <- OneText
  MaxFd = 4
SPECIFICATION Spec
SYMMETRY Symmetry2
INVARIANTS
  EachServed
