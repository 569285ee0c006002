CONSTANTS
  AdminIds = {a1}
  UserIds = {u1, u2}
  RequestIds = {}
  Names = {n1}
  Emails = {e1, e2}
  Calls = {c1, c2}
  Ops = {"createUser", "updateUser", "removeUser", "createAdmin", "removeAdmin", "updateMyProfile", "resetPassword", "forgotPassword", "changeMyPassword"}
  MaxPasswords = 2
  FailAt = {"check", "insert", "write", "mail"}
  None = None
  Keep = Keep
SPECIFICATION AccountSpec
SYMMETRY UserSymmetry
INVARIANT AccountTypeOK
INVARIANT CreatorsLive
INVARIANT EmailsUnique
PROPERTY PasswordLostOnlyUnmailed
CHECK_DEADLOCK FALSE
