CONSTANTS
  u1 = u1
  d1 = d1
  d2 = d2
  a = a
  Admins = {u2}
  Users = {u1}
  Departments = {d1, d2}
  TaskIds = {t1}
  SubTaskIds = {s1}
  Texts = {a}
  Statuses <- SomeStatuses
  MemberRows <- SomeMemberRows
  Patches <- SomePatches
  Calls = {c1, c2}
  Keep = Keep
  None = None
SPECIFICATION Spec
SYMMETRY CallSymmetry
CHECK_DEADLOCK FALSE
INVARIANT NothingDangles
INVARIANT ListingsAgree
PROPERTY EditsKeepTheRest
PROPERTY CreatorDelegatesAndValidates
