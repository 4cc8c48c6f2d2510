CONSTANTS
  c1 = c1
  c2 = c2
  c3 = c3
  Callers = {c1, c2, c3}
  MaxRequests = 2
  KeyWindow = 3
  Delay = 1
  KeyHorizon = 9
SPECIFICATION KeySpec
SYMMETRY MCSymmetry
INVARIANTS
  KeyTypeOK
  RateBounded
PROPERTY RefusalEnds
CHECK_DEADLOCK FALSE
