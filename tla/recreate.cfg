SPECIFICATION LifeSpec
CONSTANTS
  NumTasks = 1
  MaxUid = 2
  MaxHasty = 2
  MaxLag = 1
INVARIANT
  CompletedRanItsOwn
CHECK_DEADLOCK FALSE
