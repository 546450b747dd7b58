SPECIFICATION Spec
CONSTANTS
  Teams = {t1, t2}
  Names = {n1}
  MaxSpawns = 2
  InboxCap = 1
  LeadCap = 1
INVARIANTS
  TypeOK
  MatesFound
  DeletionsReach
PROPERTIES
  CancelledMatesEnd
CHECK_DEADLOCK FALSE
