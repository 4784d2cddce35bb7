SPECIFICATION Spec
CONSTANTS
  Total = 8
  NL <- MCNL
  BufSize = 3
  Capacity = 4
  Sizes = {2, 3, 5}
INVARIANTS RioInv ShortOnlyAtEnd
PROPERTIES AllArrives
CHECK_DEADLOCK FALSE
