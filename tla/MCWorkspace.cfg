SPECIFICATION WorkspaceSpec
CONSTANTS
  v = v
  w = w
  x = x
  y = y
  z = z
  Names = {v, w}
  Contents = {x, y, z}
  Plans <- MCPlans
INVARIANTS
  WorkspaceTypeOK
  BashFollows
  RewindRestores
PROPERTY SessionWorkKept
SYMMETRY Symmetry
CHECK_DEADLOCK FALSE
