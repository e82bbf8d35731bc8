SPECIFICATION Spec
CONSTANTS
  root = root
  m1 = m1
  m2 = m2
  Root = root
  Members = {m1, m2}
  Nobody = none
  Stranger = other
  Hosts <- AllRefuse
  MaxCalls = 1
INVARIANT
  OkIsProof
