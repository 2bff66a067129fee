SPECIFICATION FreshSpec
CONSTANTS
  NumTasks = 2
  MaxLag = 1
  MaxFaults = 1
  Transients = {}
  Action <- MCOffOn
INVARIANT
  OneOff
