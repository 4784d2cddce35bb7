SPECIFICATION Spec
CONSTANTS
  Configs <- MCConfigs
  STAMPS = 64
  Addresses = {0, 1, 4, 8, 12, 18}
  MaxAccesses = 6
INVARIANTS LruInv KeepsMostRecent CountsAddUp
CHECK_DEADLOCK FALSE
