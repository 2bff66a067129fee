SPECIFICATION LifeFairSpec
CONSTANTS
  NumTasks = 2
  MaxUid = 2
  MaxHasty = 1
  MaxLag = 1
INVARIANT
  LifeTypeOK
  PatienceSuffices
  NeverOutOfRange
  
  
PROPERTY
  LeavesNothing
CHECK_DEADLOCK FALSE
