SPECIFICATION TwoFairSpec
CONSTANTS
  ANumTasks = 2
  BNumTasks = 1
  MaxLag = 1
  Transients = {}
  AAction <- MCAOnBoot
  BAction <- MCBOff
INVARIANT
  LastWord
  TwoInv
PROPERTY
  SomebodyCompletes
  BothKeepPromise
