SPECIFICATION FairSpec
CONSTANTS
  Capacity = 1
  InputLen = 2
  MaxScript = 3
  MaxFaults = 1
  Scripts <- MCScripts
INVARIANTS
  OkIsWhole
  SigpipeContained
PROPERTY CommunicateReturns
