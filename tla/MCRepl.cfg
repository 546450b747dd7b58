SPECIFICATION ReplSpec
CONSTANTS
  Sessions = {s1, s2}
  Models = {m1, m2}
  MaxPrompts = 2
  MaxBuilds = 3
  MaxTurns = 2
SYMMETRY Alike
INVARIANTS
  ReplTypeOK
  HistoryOfSession
  HistoryRecoverable
CHECK_DEADLOCK FALSE
