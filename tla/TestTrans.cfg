SPECIFICATION TSpec
CONSTANTS
  Configs = {}
  STAMPS = 1000000
  Shapes <- MCShapes
  Prologue <- MCPrologue
  Epilogue <- MCEpilogue
  ABase <- MCABase
  BBase <- MCBBase
INVARIANTS Transposes MissesInBudget VerdictsAgree
CHECK_DEADLOCK FALSE
