\* Two children for two slots, and ctrl-z.  No symmetry: it is not sound for liveness.
CONSTANTS
  p1 = p1
  p2 = p2
  p3 = p3
  Pids <- MCPids2
  NoPid = NoPid
  Keys <- CtrlZ
  MAXJOBS = 2
  JidBound = 2
SPECIFICATION FairSpec
INVARIANTS
  EveryChildHasSlot
  NoNullJob
PROPERTIES
  ImplementsJobControl
  ZombiesReaped
  FgReturns
