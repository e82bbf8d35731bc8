SPECIFICATION FairSpec
CONSTANTS
  root = root
  other = other
  w1 = w1
  Procs = {root, other}
  Root = root
  Waits = {w1}
  Bounded = {w1}
  MaxFaults = 1
INVARIANTS
  NoLostWakeUp
  OneReader
  KillsOnlyWhenMeant
  LeftBehindIsReported
PROPERTIES
  DrainedIsTrue
  LeafCallsEnd
CHECK_DEADLOCK FALSE
