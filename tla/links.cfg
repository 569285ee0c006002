CONSTANTS
  AdminIds = {}
  UserIds = {u1}
  RequestIds = {}
  Names = {n1}
  Emails = {e1, e2}
  Calls = {}
  Ops = {"removeUser", "updateUser"}
  MaxPasswords = 2
  FailAt = {}
  None = None
  Keep = Keep
  TokenIds = {t1, t2}
  LinkCalls = {k1, k2}
  LinkFailAt = {"delete", "mail", "find", "write"}
SPECIFICATION Spec
CHECK_DEADLOCK FALSE
INVARIANT TypeOK
INVARIANT UsedHasSetPassword
INVARIANT OneTokenPerAddress
PROPERTY LinkLostOnlyUnsent
PROPERTY UsedTokenIsSpent
