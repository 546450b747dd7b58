SPECIFICATION Spec
CONSTANTS
  c1 = c1
  c2 = c2
  k1 = k1
  k2 = k2
  Chats = {c1, c2}
  Compacts = {k1, k2}
  Plans <- MCPlans
  Deltas = 1
  EventCap = 1
INVARIANTS
  TypeOK
  StoreSound
PROPERTIES
  RunsEnd
CHECK_DEADLOCK FALSE
