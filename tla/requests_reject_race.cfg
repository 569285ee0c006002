CONSTANTS
  AdminIds = {a1}
  UserIds = {u1}
  RequestIds = {r1}
  Names = {n1, n2}
  Emails = {e1}
  Calls = {c1, c2}
  Ops = {"createRequest", "approveRequest", "rejectRequest"}
  MaxPasswords = 0
  FailAt = {}
  None = None
  Keep = Keep
SPECIFICATION Spec
INVARIANT RejectKeepsProfile
CHECK_DEADLOCK FALSE
