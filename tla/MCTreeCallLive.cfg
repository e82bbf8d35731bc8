SPECIFICATION FairSpec
CONSTANTS
  root = root
  m1 = m1
  m2 = m2
  Root = root
  Members = {m1}
  Nobody = none
  Stranger = other
  Hosts <- SomeRefuse
  MaxCalls = 1
PROPERTIES
  CallReturns
