SPECIFICATION Spec
CONSTANTS
  NumTasks = 2
  MaxLag = 2
  MaxFaults = 1
  Transients = {}
  Action <- MCOffOn
INVARIANT
  TypeOK
  OneAtATime
  CompletedMeansAccepted
  OneVerdict
  IndInv
PROPERTY
  ActionsInOrder
