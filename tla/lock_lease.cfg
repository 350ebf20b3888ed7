SPECIFICATION Spec
CONSTANTS
  Process = {i1, i2, i3}
  NoOwner = NoOwner
  TTL = 4
  MaxSkew = 1
  MaxTime = 5
SYMMETRY MCSymmetry
INVARIANTS LockTypeOK LiveOwns
PROPERTIES ImplementsLease
CHECK_DEADLOCK FALSE
