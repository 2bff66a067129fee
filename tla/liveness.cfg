SPECIFICATION FairSpec
CONSTANTS
  NumTasks = 2
  MaxLag = 1
  MaxFaults = 1
  Transients = {}
  Action <- MCOffOn
PROPERTY
  JobEnds
