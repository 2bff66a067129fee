SPECIFICATION ConnSpec
CONSTANTS
  s1 = s1
  s2 = s2
  SecretNames = {s1, s2}
  AuthName = s1
  Algorithms = {"sha256", "sha512"}
  References <- MCLists
  AmtPorts <- MCPorts
  MaxUint32 = 99999
  MaxGiven = 1
  NumValues = 2
INVARIANT
  EverySecretCounts
  
  
  
  
