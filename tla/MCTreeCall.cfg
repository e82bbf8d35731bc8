SPECIFICATION Spec
CONSTANTS
  root = root
  m1 = m1
  m2 = m2
  Root = root
  Members = {m1, m2}
  Nobody = none
  Stranger = other
  Hosts <- NewAndOld
  MaxCalls = 1
INVARIANTS
  StrangersSpared
  OkMeansDown
  TermOnce
  HoldPinsNumber
