SPECIFICATION Spec
CONSTANTS
  Clients = {c1, c2}
  NoClient = NoClient
  Requests <- MCRequests
  Lines = 3
  Files <- MCFiles
  LogBuffered = TRUE
INVARIANTS TinyInv
PROPERTIES EachClosed
CHECK_DEADLOCK FALSE
