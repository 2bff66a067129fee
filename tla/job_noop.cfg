SPECIFICATION Spec
CONSTANTS
  NumTasks = 2
  MaxLag = 2
  MaxFaults = 0
  Transients = {}
  Action <- MCOffOn
PROPERTY
  JobVerdictFinal
