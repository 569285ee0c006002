CONSTANTS
  AdminIds = {a1, a2}
  UserIds = {u1}
  RequestIds = {r1}
  Names = {n1, n2}
  Emails = {e1}
  Calls = {c1, c2}
  Ops = {"createRequest", "approveRequest", "rejectRequest", "generatePassword", "removeAdmin", "removeUser", "forgotPassword", "updateUser"}
  MaxPasswords = 2
  FailAt = {"insert", "write"}
  None = None
  Keep = Keep
SPECIFICATION Spec
INVARIANT TypeOK
INVARIANT RequestGoesToCreator
INVARIANT DecisionByCreator
INVARIANT ApprovedWasApplied
INVARIANT GeneratedPasswordReachable
PROPERTY AppliedGetsDecided
CHECK_DEADLOCK FALSE
