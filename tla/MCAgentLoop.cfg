SPECIFICATION Spec
CONSTANTS
  Tools <- MCTools
  Safe <- MCSafe
  ReadOnly <- MCReadOnly
  NeedsApproval <- MCNeedsApproval
  Reminding <- MCReminding
  Configs <- MCConfigs
  MaxCalls = 2
  MaxMail = 1
INVARIANTS
  TypeOK
  RequestAnswered
  StoreFaithful
  CallsHonoured
  RequestsLegal
PROPERTIES
  PlanModeHolds
  RunEnds
