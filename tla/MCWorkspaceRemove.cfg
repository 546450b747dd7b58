SPECIFICATION WorkspaceSpec
CONSTANTS
  v = v
  w = w
  x = x
  y = y
  z = z
  Names = {v, w}
  Contents = {x, y, z}
  Plans <- MCPlans
INVARIANT RemovalChecked
SYMMETRY Symmetry
CHECK_DEADLOCK FALSE
