CONSTANTS
  Accounts <- SameId
  TokenIds = {t1, t2}
  Calls = {c1}
  Tick = 1
  AccessLife = 1
  RefreshLife = 1
  MaxTime = 1
  Failures = FALSE
  None = None
SPECIFICATION Spec
CHECK_DEADLOCK FALSE
PROPERTY LogoutOnlyOwnTokens
