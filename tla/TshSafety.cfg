\* Three children for two slots, and ctrl-c.
CONSTANTS
  p1 = p1
  p2 = p2
  p3 = p3
  Pids <- MCPids3
  NoPid = NoPid
  Keys <- CtrlC
  MAXJOBS = 2
  JidBound = 2
SPECIFICATION Spec
SYMMETRY Symmetry
INVARIANTS
  AtMostOneFG
  FGIsWaitedFor
  NoStaleJob
  StopIsRecorded
  LookupFindsUsed
  IInv
PROPERTIES
  ForgetsOnlyReaped
