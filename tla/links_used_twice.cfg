CONSTANTS
  AdminIds = {}
  UserIds = {u1}
  RequestIds = {}
  Names = {n1}
  Emails = {e1}
  Calls = {}
  Ops = {}
  MaxPasswords = 2
  FailAt = {}
  None = None
  Keep = Keep
  TokenIds = {t1}
  LinkCalls = {k1, k2}
  LinkFailAt = {}
SPECIFICATION Spec
SYMMETRY TokenSymmetry
CHECK_DEADLOCK FALSE
INVARIANT TokenSetsOnePassword
