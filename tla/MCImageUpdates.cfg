CONSTANTS
  k1 = k1
  k2 = k2
  r1 = r1
  r2 = r2
  Checks = {k1, k2}
  Requests = {r1, r2}
  TTL = 3
  Slack = 1
  MaxPushes = 2
SPECIFICATION Spec
SYMMETRY MCSymmetry
INVARIANTS
  ClearedForGood
PROPERTY AnswerFresh
