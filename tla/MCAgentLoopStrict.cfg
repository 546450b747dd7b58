SPECIFICATION Spec
CONSTANTS
  Tools <- MCTools
  Safe <- MCSafe
  ReadOnly <- MCReadOnly
  NeedsApproval <- MCNeedsApproval
  Reminding <- MCReminding
  Configs <- MCStrict
  MaxCalls = 2
  MaxMail = 1
INVARIANT DeniedMeansNotRun
