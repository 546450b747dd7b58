SPECIFICATION Spec
CONSTANTS
  Tasks <- MCTasks
  Stubborn <- MCStubborn
  Callers = {c1}
  NotifyCap = 1
  MaxOutput = 1
INVARIANTS
  TypeOK
  StatusFaithful
PROPERTIES
  StatusSettles
  CallersAnswered
  CancelledTasksEnd
