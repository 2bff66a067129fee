SPECIFICATION FreshSpec
CONSTANTS
  NumTasks = 2
  MaxLag = 1
  MaxFaults = 0
  Transients = {"PoweringOn", "PoweringOff"}
  Action <- MCOffOn
INVARIANT
  PowerAsAsked
