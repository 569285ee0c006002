CONSTANTS
  Accounts <- OneAdmin
  TokenIds = {t1, t2}
  Calls = {c1, c2}
  Tick = 2
  AccessLife = 1
  RefreshLife = 2
  MaxTime = 3
  Failures = TRUE
  None = None
SPECIFICATION Spec
CHECK_DEADLOCK FALSE
SYMMETRY TokenSymmetry
INVARIANT TypeOK
INVARIANT SuccessorRetiresParent
INVARIANT LogoutEndsSignIn
INVARIANT LogoutOutlastsPresented
