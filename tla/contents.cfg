CONSTANTS
  a1 = a1
  a2 = a2
  p1 = p1
  p2 = p2
  Admins = {a1, a2}
  Projects = {p1, p2}
  CreatedBy <- SomeCreatedBy
  Rights <- SomeRights
  OrderIds = {o1, o2}
  FieldIds = {f1}
  Keys = {k1, k2}
  Calls = {c1, c2}
  FailAt = {"store", "insert", "unstore", "delete"}
  None = None
SPECIFICATION Spec
SYMMETRY ContentsSymmetry
CHECK_DEADLOCK FALSE
INVARIANT NothingDangles
INVARIANT ListedFilesExist
INVARIANT DeletionsLeaveNoFile
INVARIANT LinksStayInProject
