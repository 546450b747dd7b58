SPECIFICATION Spec
CONSTANTS
  c1 = c1
  c2 = c2
  Clients <- MCWriters
  Viewers <- MCNobody
  PromptCap = 1
  SendCap = 1
  MaxPrompts = 2
  MaxAsks = 1
  MayClose = TRUE
INVARIANTS
  TypeOK
  SharedOnce
  InterruptsAim
PROPERTIES
  ImplementsPromptServer
  PromptsServed
