SPECIFICATION Spec
CONSTANTS
  Tools = {"Bash", "Read"}
  Safe = {"Read"}
  Inputs = {"rm", "ls", "broken"}
  Malformed = {"broken"}
  Hooks <- MCHooks
  Settings <- MCSettings
  MaxCalls = 2
  MaxTurns = 2
  MaxPrompts = 2
INVARIANTS TypeOK OnceHooks GateHolds
