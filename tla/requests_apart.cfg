CONSTANTS
  AdminIds = {a1}
  UserIds = {u1}
  RequestIds = {r1, r2}
  Names = {n1, n2}
  Emails = {e1}
  Calls = {c1, c2}
  Ops = {"createRequest", "approveRequest", "rejectRequest", "generatePassword", "updateUser", "updateMyProfile", "removeUser", "removeAdmin"}
  MaxPasswords = 1
  FailAt = {"insert", "write"}
  None = None
  Keep = Keep
SPECIFICATION Spec
CONSTRAINT DecisionsApart
SYMMETRY CallSymmetry
PROPERTY FollowsPipeline
PROPERTY ChangeUndoneOnlyByStaleEdit
CHECK_DEADLOCK FALSE
