SPECIFICATION FreshFairSpec
CONSTANTS
  NumTasks = 3
  MaxLag = 1
  MaxFaults = 2
  Transients = {}
  Action <- MCOffBootOn
INVARIANT
  FailureHasCause
  SentOnce
  PowerAsAsked
  FreshInv
  PowerInv
PROPERTY
  KeepsPromise
  JobVerdictFinal
  ActionsWaitForPower
  JobSucceeds
