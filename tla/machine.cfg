SPECIFICATION MachineFairSpec
CONSTANTS
  ErrorTexts = {"timeout"}
  MaxLag = 2
  MaxFaults = 2
  MaxEchoes = 5
  Transients = {"PoweringOn", "PoweringOff"}
INVARIANT
  MachineTypeOK
  SettledReport
  ReportInv
  
  
PROPERTY
  StatusConverges
  LossIsReported
