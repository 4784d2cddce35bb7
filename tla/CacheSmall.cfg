\* Every size, two spellings of one key; the cache holds four units.
CONSTANTS
  n1 = n1
  n2 = n2
  n3 = n3
  n4 = n4
  Nodes <- MCNodes
  NULL = NULL
  MaxObject = 4
  Keys <- MCKeys
  Folded <- MCFolded
  Data <- MCData
  Size <- MCSize
  MaxCache = 4
SPECIFICATION MSpec
SYMMETRY Symmetry
INVARIANTS
  CacheInv
  SizeIsRight
PROPERTY ImplementsFifo
