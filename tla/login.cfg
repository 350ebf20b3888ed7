SPECIFICATION LoginSpec
CONSTANTS
  b1 = b1  b2 = b2  t1 = t1  t2 = t2  t3 = t3
  User = {u1, u2}
  NoUser = NoUser
  Browser = {b1, b2}
  Tab = {t1, t2, t3}
  In <- MCIn
  Mismatch = FALSE
  MaxFlows = 2
  MaxSessions = 1
  MaxKeys = 2
  MaxChanges = 1
SYMMETRY MCSymmetry
INVARIANTS LoginTypeOK SessionIsOwn RotationSurvived
PROPERTIES SessionsEndForAReason
CHECK_DEADLOCK FALSE
