SPECIFICATION IdentitySpec
CONSTANTS
  User = {u1}
  NoUser = NoUser
  Thread = {t1, t2}
  Window = 2
  Grace = 3
  MaxLatency = 1
  MayFail = TRUE
  MaxChanges = 2
SYMMETRY MCSymmetry
INVARIANTS IdentityTypeOK AdmittedWasMember GrantWasHeld RefusedForAReason
CHECK_DEADLOCK FALSE
