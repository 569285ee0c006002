CONSTANTS
  ProjectIds = {p1, p2}
  DepartmentIds = {d1, d2}
  DepartmentRoleIds = {r1}
  ProjectRoleIds = {q1}
  PermissionIds = {i1, i2}
  UserIds = {u1}
  Resources = {x1}
  Flags = {f1}
  Calls = {c1, c2}
  Ops = {"remove", "members", "setUserRole", "setPermission", "setDepartmentPermission", "policies", "assignUserToDepartment", "setUserDepartmentRole"}
  None = None
SPECIFICATION Spec
CHECK_DEADLOCK FALSE
SYMMETRY IdSymmetry
INVARIANT TypeOK
INVARIANT ChildrenHaveParents
INVARIANT MemberDepartmentInProject
INVARIANT DepartmentRoleInDepartment
INVARIANT OnePermissionPerKey
