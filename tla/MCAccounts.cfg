CONSTANTS
  e1 = e1
  e2 = e2
  e3 = e3
  s1 = s1
  s2 = s2
  k1 = k1
  k2 = k2
  Emails = {e1, e2, e3}
  AdminEmail = e1
  Subjects = {s1, s2}
  Callbacks = {k1, k2}
  MaxUsers = 3
SPECIFICATION Spec
SYMMETRY MCSymmetry
INVARIANTS
  SignInIsLinked
  OneAdmin
