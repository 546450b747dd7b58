SPECIFICATION Spec
CONSTANTS
  Callers = {a, b}
  Files = {f}
  MaxRestarts = 1
  MaxCalls = 3
INVARIANTS
  TypeOK
  ProcessSound
  OpenedInOrder
PROPERTIES
  CallsReturn
CHECK_DEADLOCK FALSE
