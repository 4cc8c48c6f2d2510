CONSTANTS
  k1 = k1
  k2 = k2
  k3 = k3
  c1 = c1
  c2 = c2
  Keys = {k1, k2, k3}
  Clients = {c1, c2}
  Limit = 3
  Window = 2
  Lockout = 2
  MaxEntries = 2
  Horizon = 7
SPECIFICATION Spec
SYMMETRY MCSymmetry
INVARIANTS
  UnlockedHasAttempts
  AttemptsBounded
PROPERTIES
  LockHolds
  LockEarned
  UncountedOnlyWhenFull
