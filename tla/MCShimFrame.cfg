SPECIFICATION Spec
CONSTANTS
  Payload = {0, 1, 5, 122, 255}
  MaxWire = 6
INVARIANTS
  OutcomeIsTheFrame
