----------------------- MODULE ProjectStructureProofs -----------------------
(***************************************************************************)
(* Proofs about ProjectStructure: members stay inside their project and    *)
(* their department, and nothing refers to a deleted row, for any number   *)
(* of projects, departments, roles, users and calls in flight.  The last   *)
(* section is about permission keys: two rows with one key are the work of *)
(* two searches that crossed.                                              *)
(***************************************************************************)
EXTENDS ProjectStructure, TLAPS

(* What a handler relies on between its read and its write: the rows it     *)
(* read are where it found them, or gone.                                   *)
CallOK(c) ==
  LET call == calls[c]  d == call.department  r == call.departmentRole IN
  /\ call.op \in {"assignUserToDepartment", "setUserDepartmentRole"} =>
       /\ call.project \in ProjectIds /\ call.user \in UserIds /\ d \in DepartmentIds
       /\ departments[d].state # "unborn"
       /\ LiveDepartment(d) => departments[d].project = call.project
  /\ call.op = "assignUserToDepartment" => r = None
  /\ call.op = "setUserDepartmentRole" =>
       /\ r \in DepartmentRoleIds /\ departmentRoles[r].state # "unborn"
       /\ LiveDepartmentRole(r) => departmentRoles[r].department = d
  /\ call.op = "setPermission" =>
       /\ call.permission.role \in ProjectRoleIds /\ call.permission.department = None
       /\ call.permission.state = "live"

(* The inductive invariant.  ChildrenHaveParents is part of it because a    *)
(* deletion cascades along live rows only.                                  *)
Inv ==
  /\ TablesOK
  /\ ChildrenHaveParents
  /\ MemberDepartmentInProject
  /\ DepartmentRoleInDepartment
  /\ \A c \in Calls : CallOK(c)

LEMMA NoneIsNoId ==
  /\ None \notin ProjectIds /\ None \notin DepartmentIds /\ None \notin DepartmentRoleIds
  /\ None \notin ProjectRoleIds /\ None \notin PermissionIds /\ None \notin UserIds
  /\ None \notin Resources /\ None \notin Flags
<1>. QED BY NoneAssumption

LEMMA ConstantRows ==
  /\ NoMember \in MemberRow /\ NoPermission \in PermissionRow /\ Idle \in Call
  /\ Idle.op = "none" /\ ~NoMember.present /\ NoMember.role = None
  /\ NoMember.department = None /\ NoMember.departmentRole = None
<1>1. NoPermission \in PermissionRow
  BY DEF NoPermission, PermissionRow, RowStates
<1>2. Idle \in Call
  BY <1>1 DEF Idle, Call
<1>. QED BY <1>1, <1>2 DEF NoMember, MemberRow, Idle

LEMMA InitInv == Init => Inv
<1> SUFFICES ASSUME Init PROVE Inv
  OBVIOUS
<1>1. TablesOK
  BY ConstantRows DEF Init, TablesOK, RowStates, DepartmentRow, DepartmentRoleRow, ProjectRoleRow
<1>2. \A p \in ProjectIds, u \in UserIds : members[p][u] = NoMember
  BY DEF Init
<1>3. /\ \A d \in DepartmentIds : ~LiveDepartment(d)
      /\ \A r \in DepartmentRoleIds : ~LiveDepartmentRole(r)
      /\ \A q \in ProjectRoleIds : ~LiveProjectRole(q)
      /\ \A i \in PermissionIds : ~LivePermission(i)
  BY DEF Init, LiveDepartment, LiveDepartmentRole, LiveProjectRole, LivePermission, NoPermission
<1>4. ChildrenHaveParents
  BY <1>2, <1>3, ConstantRows DEF Init, ChildrenHaveParents, IsMember
<1>5. MemberDepartmentInProject /\ DepartmentRoleInDepartment
  BY <1>2, ConstantRows DEF MemberDepartmentInProject, DepartmentRoleInDepartment
<1>6. \A c \in Calls : CallOK(c)
  BY ConstantRows DEF Init, CallOK
<1>. QED BY <1>1, <1>4, <1>5, <1>6 DEF Inv

-----------------------------------------------------------------------------
(* A call in flight survives any change of the tables after which the       *)
(* departments and department roles it read are the same or gone.           *)
LEMMA CallsSurvive ==
  ASSUME Inv, UNCHANGED calls,
         \A d \in DepartmentIds : \/ departments'[d] = departments[d]
                                     \/ departments'[d].state = "gone"
                                     \/ departments[d].state = "unborn",
         \A r \in DepartmentRoleIds : \/ departmentRoles'[r] = departmentRoles[r]
                                         \/ departmentRoles'[r].state = "gone"
                                         \/ departmentRoles[r].state = "unborn",
         \A d \in DepartmentIds : departments[d].state # "unborn" => departments'[d].state # "unborn",
         \A r \in DepartmentRoleIds : departmentRoles[r].state # "unborn" => departmentRoles'[r].state # "unborn"
  PROVE  \A c \in Calls : CallOK(c)'
<1> SUFFICES ASSUME NEW c \in Calls PROVE CallOK(c)'
  OBVIOUS
<1>1. CallOK(c)
  BY DEF Inv
<1>. QED BY <1>1 DEF CallOK, LiveDepartment, LiveDepartmentRole

-----------------------------------------------------------------------------
(* Deletions *)
LEMMA DeleteSafe ==
  ASSUME Inv, NEW P, NEW D, NEW R, NEW Q, NEW U, Delete(P, D, R, Q, U)
  PROVE  Inv'
<1> DEFINE D2 == D \cup {d \in DepartmentIds : LiveDepartment(d) /\ departments[d].project \in P}
           R2 == R \cup {r \in DepartmentRoleIds : LiveDepartmentRole(r) /\ departmentRoles[r].department \in D2}
           Q2 == Q \cup {q \in ProjectRoleIds : LiveProjectRole(q) /\ projectRoles[q].project \in P}
<1>1. /\ \A p \in ProjectIds : projects'[p] = IF p \in P THEN "gone" ELSE projects[p]
      /\ \A u \in UserIds : users'[u] = IF u \in U THEN "gone" ELSE users[u]
      /\ \A d \in DepartmentIds : departments'[d] =
           IF d \in D2 THEN [state |-> "gone", project |-> None] ELSE departments[d]
      /\ \A r \in DepartmentRoleIds : departmentRoles'[r] =
           IF r \in R2 THEN [state |-> "gone", department |-> None] ELSE departmentRoles[r]
      /\ \A q \in ProjectRoleIds : projectRoles'[q] =
           IF q \in Q2 THEN [state |-> "gone", project |-> None] ELSE projectRoles[q]
  BY DEF Delete
<1>2. \A i \in PermissionIds : permissions'[i] =
        IF LivePermission(i) /\ (permissions[i].role \in Q2 \/ permissions[i].department \in D2)
        THEN [NoPermission EXCEPT !.state = "gone"] ELSE permissions[i]
  BY DEF Delete
<1>3. \A r \in DepartmentRoleIds, x \in Resources : policies'[r][x] = IF r \in R2 THEN None ELSE policies[r][x]
  BY DEF Delete
<1>4. \A p \in ProjectIds, u \in UserIds : members'[p][u] =
        IF p \in P \/ u \in U THEN NoMember
        ELSE [present |-> members[p][u].present,
              role |-> SetNull(members[p][u].role, Q2),
              department |-> SetNull(members[p][u].department, D2),
              departmentRole |-> SetNull(members[p][u].departmentRole, R2)]
  BY DEF Delete
<1>4a. \A p \in ProjectIds, u \in UserIds : p \notin P /\ u \notin U =>
         /\ members'[p][u].present = members[p][u].present
         /\ members'[p][u].role = SetNull(members[p][u].role, Q2)
         /\ members'[p][u].department = SetNull(members[p][u].department, D2)
         /\ members'[p][u].departmentRole = SetNull(members[p][u].departmentRole, R2)
  <2> SUFFICES ASSUME NEW p \in ProjectIds, NEW u \in UserIds, p \notin P, u \notin U
               PROVE  /\ members'[p][u].present = members[p][u].present
                      /\ members'[p][u].role = SetNull(members[p][u].role, Q2)
                      /\ members'[p][u].department = SetNull(members[p][u].department, D2)
                      /\ members'[p][u].departmentRole = SetNull(members[p][u].departmentRole, R2)
    OBVIOUS
  <2>1. members'[p][u] = [present |-> members[p][u].present,
              role |-> SetNull(members[p][u].role, Q2),
              department |-> SetNull(members[p][u].department, D2),
              departmentRole |-> SetNull(members[p][u].departmentRole, R2)]
    BY <1>4
  <2> DEFINE role == SetNull(members[p][u].role, Q2)
             department == SetNull(members[p][u].department, D2)
             departmentRole == SetNull(members[p][u].departmentRole, R2)
             present == members[p][u].present
  <2>2. members'[p][u] = [present |-> present, role |-> role, department |-> department,
                          departmentRole |-> departmentRole]
    BY <2>1
  <2> HIDE DEF role, department, departmentRole, present
  <2>3. /\ members'[p][u].present = present /\ members'[p][u].role = role
        /\ members'[p][u].department = department /\ members'[p][u].departmentRole = departmentRole
    BY <2>2
  <2>. QED BY <2>3 DEF role, department, departmentRole, present
<1>5. /\ UNCHANGED calls
      /\ DOMAIN projects' = ProjectIds
  BY DEF Delete
<1> HIDE DEF D2, R2, Q2
<1>6. [NoPermission EXCEPT !.state = "gone"] \in PermissionRow /\ [NoPermission EXCEPT !.state = "gone"].state = "gone"
  BY ConstantRows DEF PermissionRow, RowStates, NoPermission
<1>7. TablesOK'
  <2>t. TablesOK
    BY DEF Inv
  <2>1. projects' \in [ProjectIds -> RowStates] /\ users' \in [UserIds -> RowStates]
    BY <1>1, <2>t DEF TablesOK, Delete, RowStates
  <2>2. departments' \in [DepartmentIds -> DepartmentRow]
    <3>1. \A d \in DepartmentIds : departments'[d] \in DepartmentRow
      BY <1>1, <2>t DEF TablesOK, DepartmentRow, RowStates
    <3>. QED BY <3>1 DEF Delete
  <2>3. departmentRoles' \in [DepartmentRoleIds -> DepartmentRoleRow]
    <3>1. \A r \in DepartmentRoleIds : departmentRoles'[r] \in DepartmentRoleRow
      BY <1>1, <2>t DEF TablesOK, DepartmentRoleRow, RowStates
    <3>. QED BY <3>1 DEF Delete
  <2>4. projectRoles' \in [ProjectRoleIds -> ProjectRoleRow]
    <3>1. \A q \in ProjectRoleIds : projectRoles'[q] \in ProjectRoleRow
      BY <1>1, <2>t DEF TablesOK, ProjectRoleRow, RowStates
    <3>. QED BY <3>1 DEF Delete
  <2>5. permissions' \in [PermissionIds -> PermissionRow]
    <3>1. \A i \in PermissionIds : permissions'[i] \in PermissionRow
      BY <1>2, <1>6, <2>t DEF TablesOK
    <3>. QED BY <3>1 DEF Delete
  <2>6. policies' \in [DepartmentRoleIds -> [Resources -> Flags \cup {None}]]
    <3>1. \A r \in DepartmentRoleIds, x \in Resources : policies'[r][x] \in Flags \cup {None}
      BY <1>3, <2>t DEF TablesOK
    <3>. QED BY <3>1 DEF Delete
  <2>7. members' \in [ProjectIds -> [UserIds -> MemberRow]]
    <3>1. \A p \in ProjectIds, u \in UserIds : members[p][u] \in MemberRow
      BY <2>t DEF TablesOK
    <3>2. \A p \in ProjectIds, u \in UserIds : members'[p][u] \in MemberRow
      <4> SUFFICES ASSUME NEW p \in ProjectIds, NEW u \in UserIds PROVE members'[p][u] \in MemberRow
        OBVIOUS
      <4> DEFINE m == members[p][u]
      <4>1. m \in MemberRow
        BY <3>1
      <4>2. /\ SetNull(m.role, Q2) \in ProjectRoleIds \cup {None}
            /\ SetNull(m.department, D2) \in DepartmentIds \cup {None}
            /\ SetNull(m.departmentRole, R2) \in DepartmentRoleIds \cup {None}
            /\ m.present \in BOOLEAN
        BY <4>1 DEF SetNull, MemberRow
      <4>3. members'[p][u] = NoMember \/ members'[p][u] =
              [present |-> m.present, role |-> SetNull(m.role, Q2),
               department |-> SetNull(m.department, D2), departmentRole |-> SetNull(m.departmentRole, R2)]
        BY <1>4
      <4> HIDE DEF m
      <4>. QED BY <4>2, <4>3, ConstantRows DEF MemberRow
    <3>. QED BY <3>2 DEF Delete
  <2>. QED BY <1>5, <2>t, <2>1, <2>2, <2>3, <2>4, <2>5, <2>6, <2>7 DEF TablesOK
<1>8. /\ \A d \in DepartmentIds : departments'[d] = departments[d] \/ departments'[d].state = "gone"
      /\ \A r \in DepartmentRoleIds : departmentRoles'[r] = departmentRoles[r] \/ departmentRoles'[r].state = "gone"
  BY <1>1
<1>9. (\A p \in ProjectIds : LiveProject(p)' <=> LiveProject(p) /\ p \notin P)
      /\ (\A u \in UserIds : LiveUser(u)' <=> LiveUser(u) /\ u \notin U)
      /\ (\A d \in DepartmentIds : LiveDepartment(d)' <=> LiveDepartment(d) /\ d \notin D2)
      /\ (\A r \in DepartmentRoleIds : LiveDepartmentRole(r)' <=> LiveDepartmentRole(r) /\ r \notin R2)
      /\ (\A q \in ProjectRoleIds : LiveProjectRole(q)' <=> LiveProjectRole(q) /\ q \notin Q2)
  BY <1>1 DEF LiveProject, LiveUser, LiveDepartment, LiveDepartmentRole, LiveProjectRole
<1>10. /\ \A d \in DepartmentIds : LiveDepartment(d) /\ departments[d].project \in P => d \in D2
       /\ \A r \in DepartmentRoleIds : LiveDepartmentRole(r) /\ departmentRoles[r].department \in D2 => r \in R2
       /\ \A q \in ProjectRoleIds : LiveProjectRole(q) /\ projectRoles[q].project \in P => q \in Q2
  BY DEF D2, R2, Q2
<1>11. ChildrenHaveParents'
  <2>c. ChildrenHaveParents
    BY DEF Inv
  <2> USE <2>c DEF ChildrenHaveParents
  <2>1. \A d \in DepartmentIds : LiveDepartment(d)' => LiveProject(departments[d].project)' /\ departments'[d] = departments[d]
    BY <1>1, <1>9, <1>10 DEF LiveProject
  <2>2. \A r \in DepartmentRoleIds : LiveDepartmentRole(r)' =>
          LiveDepartment(departmentRoles[r].department)' /\ departmentRoles'[r] = departmentRoles[r]
    BY <1>1, <1>9, <1>10 DEF LiveDepartment
  <2>3. \A q \in ProjectRoleIds : LiveProjectRole(q)' => LiveProject(projectRoles[q].project)' /\ projectRoles'[q] = projectRoles[q]
    BY <1>1, <1>9, <1>10 DEF LiveProject
  <2>4. \A i \in PermissionIds : LivePermission(i)' =>
          /\ LivePermission(i) /\ permissions'[i] = permissions[i]
          /\ permissions[i].role \notin Q2 /\ permissions[i].department \notin D2
    BY <1>2, <1>6 DEF LivePermission
  <2>5. \A i \in PermissionIds : LivePermission(i)' =>
          /\ LiveProjectRole(permissions[i].role)'
          /\ permissions'[i].department # None => LiveDepartment(permissions[i].department)'
    <3> SUFFICES ASSUME NEW i \in PermissionIds, LivePermission(i)'
                 PROVE  /\ LiveProjectRole(permissions[i].role)'
                        /\ permissions'[i].department # None => LiveDepartment(permissions[i].department)'
      OBVIOUS
    <3> DEFINE q == permissions[i].role  d == permissions[i].department
    <3>1. permissions'[i] = permissions[i] /\ q \notin Q2 /\ d \notin D2
      BY <2>4
    <3>2. LiveProjectRole(q) /\ (d # None => LiveDepartment(d))
      BY <2>4
    <3>3. q \in ProjectRoleIds /\ (d # None => d \in DepartmentIds)
      BY <3>2 DEF LiveProjectRole, LiveDepartment
    <3>4. projectRoles'[q].state = "live" /\ (d # None => departments'[d].state = "live")
      BY <3>1, <3>2, <3>3, <1>9 DEF LiveProjectRole, LiveDepartment
    <3>. QED BY <3>1, <3>3, <3>4 DEF LiveProjectRole, LiveDepartment
  <2>6. \A r \in DepartmentRoleIds, x \in Resources : policies'[r][x] # None => LiveDepartmentRole(r)'
    BY <1>3, <1>9
  <2>7. \A p \in ProjectIds, u \in UserIds : IsMember(p, u)' =>
          /\ p \notin P /\ u \notin U /\ IsMember(p, u)
          /\ members'[p][u].role = SetNull(members[p][u].role, Q2)
    <3> SUFFICES ASSUME NEW p \in ProjectIds, NEW u \in UserIds, IsMember(p, u)'
                 PROVE  /\ p \notin P /\ u \notin U /\ IsMember(p, u)
                        /\ members'[p][u].role = SetNull(members[p][u].role, Q2)
      OBVIOUS
    <3>1. members'[p][u] # NoMember
      BY ConstantRows DEF IsMember
    <3>2. p \notin P /\ u \notin U
      BY <3>1, <1>4
    <3>3. members'[p][u].present = members[p][u].present /\ members'[p][u].role = SetNull(members[p][u].role, Q2)
      BY <3>2, <1>4a
    <3>. QED BY <3>2, <3>3 DEF IsMember
  <2>8. \A p \in ProjectIds, u \in UserIds : IsMember(p, u)' =>
          /\ LiveProject(p)' /\ LiveUser(u)'
          /\ members'[p][u].role # None => LiveProjectRole(members[p][u].role)'
    <3> SUFFICES ASSUME NEW p \in ProjectIds, NEW u \in UserIds, IsMember(p, u)'
                 PROVE  /\ LiveProject(p)' /\ LiveUser(u)'
                        /\ members'[p][u].role # None => LiveProjectRole(members[p][u].role)'
      OBVIOUS
    <3> DEFINE q == members[p][u].role
    <3>1. p \notin P /\ u \notin U /\ IsMember(p, u) /\ members'[p][u].role = SetNull(q, Q2)
      BY <2>7
    <3>2. LiveProject(p) /\ LiveUser(u) /\ (q # None => LiveProjectRole(q))
      BY <3>1
    <3>3. LiveProject(p)' /\ LiveUser(u)'
      BY <3>1, <3>2, <1>9
    <3>4. members'[p][u].role # None => q # None /\ q \notin Q2 /\ members'[p][u].role = q
      BY <3>1 DEF SetNull
    <3>5. members'[p][u].role # None => q \in ProjectRoleIds /\ projectRoles'[q].state = "live"
      BY <3>2, <3>4, <1>9 DEF LiveProjectRole
    <3>. QED BY <3>3, <3>4, <3>5 DEF LiveProjectRole
  <2>. QED BY <2>1, <2>2, <2>3, <2>5, <2>6, <2>8
<1>12. MemberDepartmentInProject' /\ DepartmentRoleInDepartment'
  <2> SUFFICES ASSUME NEW p \in ProjectIds, NEW u \in UserIds
               PROVE  /\ members'[p][u].department # None =>
                           /\ IsMember(p, u)' /\ LiveDepartment(members[p][u].department)'
                           /\ departments'[members'[p][u].department].project = p
                      /\ members'[p][u].departmentRole # None =>
                           /\ LiveDepartmentRole(members[p][u].departmentRole)'
                           /\ departmentRoles'[members'[p][u].departmentRole].department = members'[p][u].department
    BY DEF MemberDepartmentInProject, DepartmentRoleInDepartment
  <2> DEFINE m == members[p][u]  n == members'[p][u]
  <2>1. CASE p \in P \/ u \in U
    BY <2>1, <1>4, ConstantRows
  <2>2. CASE p \notin P /\ u \notin U
    <3>1. /\ n.present = m.present /\ n.department = SetNull(m.department, D2)
          /\ n.departmentRole = SetNull(m.departmentRole, R2)
      BY <2>2, <1>4a
    <3>2. /\ m.department # None => m.present /\ LiveDepartment(m.department) /\ departments[m.department].project = p
          /\ m.departmentRole # None => /\ LiveDepartmentRole(m.departmentRole)
                                        /\ departmentRoles[m.departmentRole].department = m.department
      BY DEF Inv, MemberDepartmentInProject, DepartmentRoleInDepartment, IsMember
    <3>3. n.department # None => /\ n.present /\ n.department = m.department /\ m.department \in DepartmentIds
                                 /\ LiveDepartment(m.department)' /\ departments'[m.department].project = p
      BY <3>1, <3>2, <1>1, <1>9 DEF SetNull, LiveDepartment
    <3>4. n.departmentRole # None =>
             /\ n.departmentRole = m.departmentRole /\ m.departmentRole \in DepartmentRoleIds
             /\ m.departmentRole \notin R2 /\ LiveDepartmentRole(m.departmentRole)
             /\ departmentRoles[m.departmentRole].department = m.department
      BY <3>1, <3>2 DEF SetNull, LiveDepartmentRole
    <3>5. n.departmentRole # None => m.department \notin D2
      BY <3>4, <1>10
    <3>6. n.departmentRole # None => /\ LiveDepartmentRole(m.departmentRole)'
                                     /\ departmentRoles'[m.departmentRole].department = n.department
      BY <3>1, <3>4, <3>5, <1>1, <1>9 DEF SetNull
    <3>. QED BY <3>3, <3>4, <3>6 DEF IsMember
  <2>. QED BY <2>1, <2>2
<1>. QED BY <1>5, <1>7, <1>8, <1>11, <1>12, CallsSurvive DEF Inv

LEMMA RemoveSafe == ASSUME Inv, Remove PROVE Inv'
<1>. QED BY DeleteSafe DEF Remove, RemoveProject, RemoveUser, RemoveDepartment, RemoveDepartmentRole, RemoveRole

-----------------------------------------------------------------------------
(* Creations: what was live stays as it was, and a new row has a parent. *)
LEMMA CreateSafe ==
  ASSUME Inv, Create
  PROVE  Inv'
<1>t. TablesOK
  BY DEF Inv
<1>1. /\ UNCHANGED <<users, members, permissions, policies, calls>>
      /\ projects' \in [ProjectIds -> RowStates] /\ departments' \in [DepartmentIds -> DepartmentRow]
      /\ departmentRoles' \in [DepartmentRoleIds -> DepartmentRoleRow]
      /\ projectRoles' \in [ProjectRoleIds -> ProjectRoleRow]
  <2>1. CASE \E p \in ProjectIds : CreateProject(p)
    BY <2>1, <1>t DEF TablesOK, CreateProject, RowStates
  <2>2. CASE \E d \in DepartmentIds, p \in ProjectIds : CreateDepartment(d, p)
    BY <2>2, <1>t DEF TablesOK, CreateDepartment, RowStates, DepartmentRow
  <2>3. CASE \E r \in DepartmentRoleIds, d \in DepartmentIds : CreateDepartmentRole(r, d)
    BY <2>3, <1>t DEF TablesOK, CreateDepartmentRole, RowStates, DepartmentRoleRow
  <2>4. CASE \E q \in ProjectRoleIds, p \in ProjectIds : CreateRole(q, p)
    BY <2>4, <1>t DEF TablesOK, CreateRole, RowStates, ProjectRoleRow
  <2>. QED BY <2>1, <2>2, <2>3, <2>4 DEF Create
<1>2. /\ \A p \in ProjectIds : LiveProject(p) => LiveProject(p)'
      /\ \A d \in DepartmentIds : departments[d].state # "unborn" => departments'[d] = departments[d]
      /\ \A r \in DepartmentRoleIds : departmentRoles[r].state # "unborn" => departmentRoles'[r] = departmentRoles[r]
      /\ \A q \in ProjectRoleIds : projectRoles[q].state # "unborn" => projectRoles'[q] = projectRoles[q]
  BY <1>t DEF TablesOK, Create, CreateProject, CreateDepartment, CreateDepartmentRole, CreateRole, LiveProject
<1>3. /\ \A d \in DepartmentIds : LiveDepartment(d)' /\ ~LiveDepartment(d) =>
             departments'[d].project \in ProjectIds /\ projects'[departments'[d].project] = "live"
      /\ \A r \in DepartmentRoleIds : LiveDepartmentRole(r)' /\ ~LiveDepartmentRole(r) =>
             LiveDepartment(departmentRoles'[r].department)
      /\ \A q \in ProjectRoleIds : LiveProjectRole(q)' /\ ~LiveProjectRole(q) =>
             projectRoles'[q].project \in ProjectIds /\ projects'[projectRoles'[q].project] = "live"
  <2>1. CASE \E p \in ProjectIds : CreateProject(p)
    BY <2>1 DEF CreateProject, LiveDepartment, LiveDepartmentRole, LiveProjectRole
  <2>2. CASE \E d \in DepartmentIds, p \in ProjectIds : CreateDepartment(d, p)
    BY <2>2, <1>t DEF TablesOK, CreateDepartment, LiveProject, LiveDepartment, LiveDepartmentRole, LiveProjectRole
  <2>3. CASE \E r \in DepartmentRoleIds, d \in DepartmentIds : CreateDepartmentRole(r, d)
    BY <2>3, <1>t DEF TablesOK, CreateDepartmentRole, LiveDepartment, LiveDepartmentRole, LiveProjectRole
  <2>4. CASE \E q \in ProjectRoleIds, p \in ProjectIds : CreateRole(q, p)
    BY <2>4, <1>t DEF TablesOK, CreateRole, LiveProject, LiveDepartment, LiveDepartmentRole, LiveProjectRole
  <2>. QED BY <2>1, <2>2, <2>3, <2>4 DEF Create
<1>4. TablesOK'
  BY <1>t, <1>1 DEF TablesOK
<1>5. /\ \A d : LiveDepartment(d) => LiveDepartment(d)' /\ departments'[d] = departments[d]
      /\ \A r : LiveDepartmentRole(r) => LiveDepartmentRole(r)' /\ departmentRoles'[r] = departmentRoles[r]
      /\ \A q : LiveProjectRole(q) => LiveProjectRole(q)' /\ projectRoles'[q] = projectRoles[q]
      /\ \A p : LiveProject(p) => LiveProject(p)'
      /\ \A u : LiveUser(u) => LiveUser(u)'
  BY <1>1, <1>2 DEF LiveProject, LiveUser, LiveDepartment, LiveDepartmentRole, LiveProjectRole
<1>6. ChildrenHaveParents'
  <2>c. ChildrenHaveParents
    BY DEF Inv
  <2>1. \A d \in DepartmentIds : LiveDepartment(d)' =>
          departments'[d].project \in ProjectIds /\ projects'[departments'[d].project] = "live"
    BY <2>c, <1>3, <1>5 DEF ChildrenHaveParents, LiveProject
  <2>2. \A r \in DepartmentRoleIds : LiveDepartmentRole(r)' =>
          departmentRoles'[r].department \in DepartmentIds
          /\ departments'[departmentRoles'[r].department].state = "live"
    BY <2>c, <1>3, <1>5 DEF ChildrenHaveParents, LiveDepartment
  <2>3. \A q \in ProjectRoleIds : LiveProjectRole(q)' =>
          projectRoles'[q].project \in ProjectIds /\ projects'[projectRoles'[q].project] = "live"
    BY <2>c, <1>3, <1>5 DEF ChildrenHaveParents, LiveProject
  <2>4. \A i \in PermissionIds : LivePermission(i) =>
          /\ LiveProjectRole(permissions[i].role)'
          /\ permissions[i].department # None => LiveDepartment(permissions[i].department)'
    BY <2>c, <1>1, <1>5 DEF ChildrenHaveParents
  <2>5. \A r \in DepartmentRoleIds, x \in Resources : policies[r][x] # None => LiveDepartmentRole(r)'
    BY <2>c, <1>5 DEF ChildrenHaveParents
  <2>6. \A p \in ProjectIds, u \in UserIds : IsMember(p, u) =>
          /\ LiveProject(p)' /\ LiveUser(u)'
          /\ members[p][u].role # None => LiveProjectRole(members[p][u].role)'
    BY <2>c, <1>1, <1>5 DEF ChildrenHaveParents
  <2>. QED BY <1>1, <2>1, <2>2, <2>3, <2>4, <2>5, <2>6
        DEF ChildrenHaveParents, LiveProject, LiveDepartment, LivePermission, LiveProjectRole, IsMember
<1>7. MemberDepartmentInProject' /\ DepartmentRoleInDepartment'
  <2> SUFFICES ASSUME NEW p \in ProjectIds, NEW u \in UserIds
               PROVE  /\ members[p][u].department # None =>
                           /\ IsMember(p, u) /\ LiveDepartment(members[p][u].department)'
                           /\ departments'[members[p][u].department].project = p
                      /\ members[p][u].departmentRole # None =>
                           /\ LiveDepartmentRole(members[p][u].departmentRole)'
                           /\ departmentRoles'[members[p][u].departmentRole].department = members[p][u].department
    BY <1>1 DEF MemberDepartmentInProject, DepartmentRoleInDepartment, IsMember
  <2>. QED BY <1>1, <1>5 DEF Inv, MemberDepartmentInProject, DepartmentRoleInDepartment
<1>8. \A c \in Calls : CallOK(c)'
  BY <1>1, <1>2, CallsSurvive
<1>. QED BY <1>4, <1>6, <1>7, <1>8 DEF Inv

-----------------------------------------------------------------------------
(* Members *)

(* A step that changes only calls, and leaves them well formed. *)
LEMMA TablesSame ==
  ASSUME Inv, UNCHANGED Tables, calls' \in [Calls -> Call], \A c \in Calls : CallOK(c)'
  PROVE  Inv'
<1>1. TablesOK'
  BY DEF Inv, TablesOK, Tables
<1>2. ChildrenHaveParents'
  BY DEF Inv, Tables, ChildrenHaveParents, LiveProject, LiveUser, LiveDepartment, LiveDepartmentRole,
         LiveProjectRole, LivePermission, IsMember
<1>3. MemberDepartmentInProject' /\ DepartmentRoleInDepartment'
  BY DEF Inv, Tables, MemberDepartmentInProject, DepartmentRoleInDepartment, LiveDepartment,
         LiveDepartmentRole, IsMember
<1>. QED BY <1>1, <1>2, <1>3 DEF Inv

(* A handler that ends leaves the others as they are. *)
LEMMA ReturnKeepsCalls ==
  ASSUME Inv, NEW c \in Calls, Return(c), UNCHANGED <<departments, departmentRoles>>
  PROVE  calls' \in [Calls -> Call] /\ \A e \in Calls : CallOK(e)'
<1>1. calls \in [Calls -> Call] /\ \A e \in Calls : CallOK(e)
  BY DEF Inv, TablesOK
<1>2. calls' \in [Calls -> Call] /\ \A e \in Calls : calls'[e] = IF e = c THEN Idle ELSE calls[e]
  BY <1>1, ConstantRows DEF Return
<1>3. ASSUME NEW e \in Calls PROVE CallOK(e)'
  <2>1. CASE e = c
    BY <2>1, <1>2, ConstantRows DEF CallOK
  <2>2. CASE e # c
    BY <2>2, <1>1, <1>2 DEF CallOK, LiveDepartment, LiveDepartmentRole
  <2>. QED BY <2>1, <2>2
<1>. QED BY <1>2, <1>3

LEMMA SameCalls ==
  ASSUME Inv, UNCHANGED <<calls, departments, departmentRoles>>
  PROVE  calls' \in [Calls -> Call] /\ \A e \in Calls : CallOK(e)'
<1>1. calls \in [Calls -> Call] /\ \A e \in Calls : CallOK(e)
  BY DEF Inv, TablesOK
<1>. QED BY <1>1 DEF CallOK, LiveDepartment, LiveDepartmentRole

(* A member's row may be replaced by one whose references are in order. *)
LEMMA MemberSafe ==
  ASSUME Inv, NEW p \in ProjectIds, NEW u \in UserIds, NEW row \in MemberRow,
         SetMember(p, u, row), calls' \in [Calls -> Call], \A c \in Calls : CallOK(c)',
         row.present => LiveProject(p) /\ LiveUser(u),
         row.role # None => LiveProjectRole(row.role),
         row.department # None => /\ row.present /\ LiveDepartment(row.department)
                                  /\ departments[row.department].project = p,
         row.departmentRole # None => /\ LiveDepartmentRole(row.departmentRole)
                                      /\ departmentRoles[row.departmentRole].department = row.department
  PROVE  Inv'
<1>1. /\ UNCHANGED <<users, projects, departments, departmentRoles, projectRoles, permissions, policies>>
      /\ members' \in [ProjectIds -> [UserIds -> MemberRow]]
      /\ \A o \in ProjectIds, v \in UserIds :
           members'[o][v] = IF o = p /\ v = u THEN row ELSE members[o][v]
  BY DEF SetMember, Inv, TablesOK
<1>2. TablesOK'
  BY <1>1 DEF Inv, TablesOK
<1>3. /\ \A o : LiveProject(o)' = LiveProject(o)
      /\ \A v : LiveUser(v)' = LiveUser(v)
      /\ \A d : LiveDepartment(d)' = LiveDepartment(d)
      /\ \A r : LiveDepartmentRole(r)' = LiveDepartmentRole(r)
      /\ \A q : LiveProjectRole(q)' = LiveProjectRole(q)
      /\ \A i : LivePermission(i)' = LivePermission(i)
  BY <1>1 DEF LiveProject, LiveUser, LiveDepartment, LiveDepartmentRole, LiveProjectRole, LivePermission
<1>4. ChildrenHaveParents'
  <2>c. ChildrenHaveParents
    BY DEF Inv
  <2>1. \A o \in ProjectIds, v \in UserIds : members'[o][v].present =>
          /\ LiveProject(o) /\ LiveUser(v)
          /\ members'[o][v].role # None => LiveProjectRole(members'[o][v].role)
    BY <2>c, <1>1 DEF ChildrenHaveParents, IsMember
  <2>2. \A q : q # None /\ LiveProjectRole(q) => q \in ProjectRoleIds /\ projectRoles'[q].state = "live"
    BY <1>1 DEF LiveProjectRole
  <2>. QED BY <2>c, <2>1, <2>2, <1>1, <1>3 DEF ChildrenHaveParents, IsMember, LiveProjectRole, LiveProject,
                LiveDepartment
<1>5. MemberDepartmentInProject' /\ DepartmentRoleInDepartment'
  <2>m. MemberDepartmentInProject /\ DepartmentRoleInDepartment
    BY DEF Inv
  <2>1. \A o \in ProjectIds, v \in UserIds :
          /\ members'[o][v].department # None =>
               /\ members'[o][v].present /\ LiveDepartment(members'[o][v].department)
               /\ departments[members'[o][v].department].project = o
          /\ members'[o][v].departmentRole # None =>
               /\ LiveDepartmentRole(members'[o][v].departmentRole)
               /\ departmentRoles[members'[o][v].departmentRole].department = members'[o][v].department
    BY <2>m, <1>1 DEF MemberDepartmentInProject, DepartmentRoleInDepartment, IsMember
  <2>. QED BY <2>1, <1>1 DEF MemberDepartmentInProject, DepartmentRoleInDepartment, IsMember,
                LiveDepartment, LiveDepartmentRole
<1>. QED BY <1>2, <1>4, <1>5 DEF Inv

LEMMA ManageMemberSafe == ASSUME Inv, ManageMember PROVE Inv'
<1> PICK p \in ProjectIds, u \in UserIds :
      \/ AssignUser(p, u)
      \/ UnassignUser(p, u)
      \/ \E q \in ProjectRoleIds : SetUserRole(p, u, q)
      \/ UnsetUserRole(p, u)
      \/ RemoveUserFromDepartment(p, u)
      \/ UnsetUserDepartmentRole(p, u)
  BY DEF ManageMember
<1> DEFINE m == members[p][u]
<1>1. m \in MemberRow
  BY DEF Inv, TablesOK
<1>2. /\ m.present => LiveProject(p) /\ LiveUser(u) /\ (m.role # None => LiveProjectRole(m.role))
      /\ m.department # None => /\ m.present /\ LiveDepartment(m.department)
                                /\ departments[m.department].project = p
      /\ m.departmentRole # None => /\ LiveDepartmentRole(m.departmentRole)
                                    /\ departmentRoles[m.departmentRole].department = m.department
  BY DEF Inv, ChildrenHaveParents, MemberDepartmentInProject, DepartmentRoleInDepartment, IsMember
<1>3. CASE AssignUser(p, u)
  <2> DEFINE row == [NoMember EXCEPT !.present = TRUE]
  <2>1. /\ row \in MemberRow /\ row.role = None /\ row.department = None /\ row.departmentRole = None
    BY DEF NoMember, MemberRow
  <2>2. SetMember(p, u, row) /\ LiveProject(p) /\ LiveUser(u) /\ UNCHANGED <<calls, departments, departmentRoles>>
    BY <1>3 DEF AssignUser, SetMember
  <2> HIDE DEF row
  <2>. QED BY <2>1, <2>2, SameCalls, MemberSafe
<1>4. CASE UnassignUser(p, u)
  <2>1. SetMember(p, u, NoMember) /\ UNCHANGED <<calls, departments, departmentRoles>>
    BY <1>4 DEF UnassignUser, SetMember
  <2>. QED BY <2>1, ConstantRows, SameCalls, MemberSafe
<1>5. ASSUME NEW q \in ProjectRoleIds \cup {None}, q # None => LiveProjectRole(q), IsMember(p, u),
             SetMember(p, u, [m EXCEPT !.role = q]), UNCHANGED calls
      PROVE  Inv'
  <2> DEFINE row == [m EXCEPT !.role = q]
  <2>1. /\ row \in MemberRow /\ row.role = q /\ row.present = m.present
        /\ row.department = m.department /\ row.departmentRole = m.departmentRole
    BY <1>1 DEF MemberRow
  <2>2. UNCHANGED <<calls, departments, departmentRoles>> /\ SetMember(p, u, row)
    BY <1>5 DEF SetMember
  <2> HIDE DEF row
  <2>. QED BY <1>2, <1>5, <2>1, <2>2, SameCalls, MemberSafe
<1>6. CASE \E q \in ProjectRoleIds : SetUserRole(p, u, q)
  BY <1>5, <1>6 DEF SetUserRole
<1>7. CASE UnsetUserRole(p, u)
  BY <1>5, <1>7 DEF UnsetUserRole
<1>8. CASE RemoveUserFromDepartment(p, u)
  <2> DEFINE row == [m EXCEPT !.department = None, !.departmentRole = None]
  <2>1. /\ row \in MemberRow /\ row.role = m.role /\ row.present = m.present
        /\ row.department = None /\ row.departmentRole = None
    BY <1>1 DEF MemberRow
  <2>2. SetMember(p, u, row) /\ m.present /\ UNCHANGED <<calls, departments, departmentRoles>>
    BY <1>8 DEF RemoveUserFromDepartment, SetMember, IsMember
  <2> HIDE DEF row
  <2>. QED BY <1>2, <2>1, <2>2, SameCalls, MemberSafe
<1>9. CASE UnsetUserDepartmentRole(p, u)
  <2> DEFINE row == [m EXCEPT !.departmentRole = None]
  <2>1. /\ row \in MemberRow /\ row.role = m.role /\ row.present = m.present
        /\ row.department = m.department /\ row.departmentRole = None
    BY <1>1 DEF MemberRow
  <2>2. SetMember(p, u, row) /\ m.present /\ UNCHANGED <<calls, departments, departmentRoles>>
    BY <1>9 DEF UnsetUserDepartmentRole, SetMember, IsMember
  <2> HIDE DEF row
  <2>. QED BY <1>2, <2>1, <2>2, SameCalls, MemberSafe
<1>. QED BY <1>3, <1>4, <1>6, <1>7, <1>8, <1>9

-----------------------------------------------------------------------------
(* Handlers that read and then write *)

(* A handler that begins with what CallOK asks for. *)
LEMMA BeginSafe ==
  ASSUME Inv, NEW c \in Calls, NEW call \in Call, NEW keys, Begin(c, call, keys), (calls'[c] = call) => CallOK(c)'
  PROVE  Inv'
<1>1. UNCHANGED Tables /\ calls' \in [Calls -> Call] /\ \A e \in Calls : calls'[e] = IF e = c THEN call ELSE calls[e]
  BY DEF Begin, Inv, TablesOK
<1>2. ASSUME NEW e \in Calls PROVE CallOK(e)'
  <2>1. CASE e = c
    BY <2>1, <1>1
  <2>2. CASE e # c
    <3>1. CallOK(e) /\ calls'[e] = calls[e]
      BY <2>2, <1>1 DEF Inv
    <3>. QED BY <3>1, <1>1 DEF CallOK, Tables, LiveDepartment, LiveDepartmentRole
  <2>. QED BY <2>1, <2>2
<1>. QED BY <1>1, <1>2, TablesSame

LEMMA AssignUserToDepartmentSafe ==
  ASSUME Inv, NEW c \in Calls, NEW p \in ProjectIds, NEW u \in UserIds, NEW d \in DepartmentIds,
         AssignUserToDepartment(c, p, u, d)
  PROVE  Inv'
<1> DEFINE call == [Idle EXCEPT !.op = "assignUserToDepartment", !.project = p, !.user = u, !.department = d]
<1>1. /\ call \in Call /\ call.op = "assignUserToDepartment" /\ call.project = p /\ call.user = u
      /\ call.department = d /\ call.departmentRole = None
  BY ConstantRows DEF Idle, Call
<1>2. LiveDepartment(d) /\ departments[d].project = p /\ Begin(c, call, {}) /\ UNCHANGED departments
  BY DEF AssignUserToDepartment, Begin, Tables
<1> HIDE DEF call
<1>3. calls'[c] = call => CallOK(c)'
  BY <1>1, <1>2 DEF CallOK, LiveDepartment
<1>. QED BY <1>1, <1>2, <1>3, BeginSafe

LEMMA SetUserDepartmentRoleSafe ==
  ASSUME Inv, NEW c \in Calls, NEW p \in ProjectIds, NEW u \in UserIds, NEW r \in DepartmentRoleIds,
         SetUserDepartmentRole(c, p, u, r)
  PROVE  Inv'
<1> DEFINE d == departmentRoles[r].department
           call == [Idle EXCEPT !.op = "setUserDepartmentRole", !.project = p, !.user = u,
                      !.department = d, !.departmentRole = r]
<1>1. LiveDepartmentRole(r) /\ departments[d].project = p /\ Begin(c, call, {})
      /\ UNCHANGED <<departments, departmentRoles>>
  BY DEF SetUserDepartmentRole, Begin, Tables
<1>2. LiveDepartment(d) /\ d \in DepartmentIds
  BY <1>1 DEF Inv, ChildrenHaveParents, LiveDepartment
<1>3. /\ call \in Call /\ call.op = "setUserDepartmentRole" /\ call.project = p /\ call.user = u
      /\ call.department = d /\ call.departmentRole = r
  BY <1>2, ConstantRows DEF Idle, Call
<1> HIDE DEF call
<1>4. calls'[c] = call => CallOK(c)'
  BY <1>1, <1>2, <1>3 DEF CallOK, LiveDepartment, LiveDepartmentRole
<1>. QED BY <1>1, <1>3, <1>4, BeginSafe

LEMMA SetPermissionSafe ==
  ASSUME Inv, NEW c \in Calls, NEW q \in ProjectRoleIds, NEW x \in Resources, NEW f \in Flags,
         SetPermission(c, q, x, f)
  PROVE  Inv'
<1> DEFINE row == [state |-> "live", role |-> q, department |-> None, resource |-> x, flags |-> f]
           call(i) == [Idle EXCEPT !.op = "setPermission", !.permission = row, !.existing = i]
<1>1. PICK i \in PermissionIds \cup {None} : \E keys : Begin(c, call(i), keys)
  BY DEF SetPermission
<1>2. row \in PermissionRow /\ row.role = q /\ row.department = None /\ row.state = "live"
  BY DEF PermissionRow, RowStates
<1> HIDE DEF row
<1>3. call(i) \in Call /\ call(i).op = "setPermission" /\ call(i).permission = row
  BY <1>2, ConstantRows DEF Idle, Call
<1> HIDE DEF call
<1>4. calls'[c] = call(i) => CallOK(c)'
  BY <1>2, <1>3 DEF CallOK
<1>. QED BY <1>1, <1>3, <1>4, BeginSafe

(* The write of assignUserToDepartment and setUserDepartmentRole: what the  *)
(* call read is still so if the rows it names still exist.                  *)
LEMMA PlaceMemberSafe ==
  ASSUME Inv, NEW c \in Calls, PlaceMember(c)
  PROVE  Inv'
<1> DEFINE call == calls[c]  m == members[call.project][call.user]
<1>1. call \in Call /\ CallOK(c) /\ Return(c) /\ call.op \in {"assignUserToDepartment", "setUserDepartmentRole"}
  BY DEF PlaceMember, Inv, TablesOK
<1>2. UNCHANGED <<departments, departmentRoles>>
  BY DEF PlaceMember, SetMember, Tables
<1>3. calls' \in [Calls -> Call] /\ \A e \in Calls : CallOK(e)'
  BY <1>1, <1>2, ReturnKeepsCalls
<1>4. CASE ~PlacementExists(call)
  BY <1>3, <1>4, TablesSame DEF PlaceMember
<1>5. CASE PlacementExists(call)
  <2> DEFINE row == [m EXCEPT !.department = call.department, !.departmentRole = call.departmentRole]
  <2>1. call.project \in ProjectIds /\ call.user \in UserIds /\ call.department \in DepartmentIds
        /\ call.departmentRole \in DepartmentRoleIds \cup {None}
    BY <1>1 DEF CallOK, Call
  <2>2. m \in MemberRow
    BY <2>1 DEF Inv, TablesOK
  <2>3. /\ row \in MemberRow /\ row.present = m.present /\ row.role = m.role
        /\ row.department = call.department /\ row.departmentRole = call.departmentRole
    BY <2>1, <2>2 DEF MemberRow
  <2>4. /\ m.present /\ LiveDepartment(call.department) /\ departments[call.department].project = call.project
        /\ call.departmentRole # None => /\ LiveDepartmentRole(call.departmentRole)
                                         /\ departmentRoles[call.departmentRole].department = call.department
    BY <1>1, <1>5 DEF CallOK, PlacementExists, IsMember
  <2>5. LiveProject(call.project) /\ LiveUser(call.user) /\ (m.role # None => LiveProjectRole(m.role))
    BY <2>1, <2>4 DEF Inv, ChildrenHaveParents, IsMember
  <2>6. SetMember(call.project, call.user, row)
    BY <1>5 DEF PlaceMember
  <2> HIDE DEF row
  <2>. QED BY <1>3, <2>1, <2>3, <2>4, <2>5, <2>6, MemberSafe
<1>. QED BY <1>4, <1>5

-----------------------------------------------------------------------------
(* Permissions and policies *)

(* Storing a row whose role and department exist, or a deleted one. *)
LEMMA StorePermissionSafe ==
  ASSUME Inv, NEW i \in PermissionIds, NEW row \in PermissionRow, StorePermission(i, row),
         calls' \in [Calls -> Call], \A c \in Calls : CallOK(c)',
         row.state = "live" => /\ LiveProjectRole(row.role)
                               /\ row.department # None => LiveDepartment(row.department)
  PROVE  Inv'
<1>1. /\ UNCHANGED <<users, projects, departments, departmentRoles, projectRoles, members, policies>>
      /\ permissions' \in [PermissionIds -> PermissionRow]
      /\ \A j \in PermissionIds : permissions'[j] = IF j = i THEN row ELSE permissions[j]
  BY DEF StorePermission, Inv, TablesOK
<1>2. TablesOK'
  BY <1>1 DEF Inv, TablesOK
<1>3. ChildrenHaveParents'
  <2>c. ChildrenHaveParents
    BY DEF Inv
  <2>1. \A j \in PermissionIds : permissions'[j].state = "live" =>
          /\ LiveProjectRole(permissions'[j].role)
          /\ permissions'[j].department # None => LiveDepartment(permissions'[j].department)
    BY <2>c, <1>1 DEF ChildrenHaveParents, LivePermission
  <2>2. \A j \in PermissionIds : LivePermission(j)' =>
          /\ projectRoles'[permissions'[j].role].state = "live" /\ permissions'[j].role \in ProjectRoleIds
          /\ permissions'[j].department # None =>
               /\ permissions'[j].department \in DepartmentIds
               /\ departments'[permissions'[j].department].state = "live"
    BY <2>1, <1>1 DEF LivePermission, LiveProjectRole, LiveDepartment
  <2>. QED BY <2>c, <2>2, <1>1 DEF ChildrenHaveParents, LiveProject, LiveUser, LiveDepartment,
                LiveDepartmentRole, LiveProjectRole, LivePermission, IsMember
<1>4. MemberDepartmentInProject' /\ DepartmentRoleInDepartment'
  BY <1>1 DEF Inv, MemberDepartmentInProject, DepartmentRoleInDepartment, LiveDepartment,
              LiveDepartmentRole, IsMember
<1>. QED BY <1>2, <1>3, <1>4 DEF Inv

LEMMA SetPermissionWriteSafe ==
  ASSUME Inv, NEW c \in Calls, SetPermissionWrite(c)
  PROVE  Inv'
<1> DEFINE call == calls[c]
<1>1. call \in Call /\ CallOK(c) /\ Return(c) /\ call.op = "setPermission"
  BY DEF SetPermissionWrite, Inv, TablesOK
<1>2. UNCHANGED <<departments, departmentRoles>>
  BY DEF SetPermissionWrite, StorePermission, Tables
<1>3. calls' \in [Calls -> Call] /\ \A e \in Calls : CallOK(e)'
  BY <1>1, <1>2, ReturnKeepsCalls
<1>4. call.permission \in PermissionRow /\ call.permission.department = None /\ call.existing \in PermissionIds \cup {None}
  BY <1>1 DEF CallOK, Call
<1>5. CASE /\ call.existing # None /\ LivePermission(call.existing)
           /\ StorePermission(call.existing, [permissions[call.existing] EXCEPT !.flags = call.permission.flags])
  <2> DEFINE old == permissions[call.existing]
             row == [old EXCEPT !.flags = call.permission.flags]
  <2>1. call.existing \in PermissionIds /\ old \in PermissionRow
    BY <1>4, <1>5 DEF LivePermission, Inv, TablesOK
  <2>2. row \in PermissionRow /\ row.role = old.role /\ row.department = old.department
    BY <1>4, <2>1 DEF PermissionRow
  <2>3. LiveProjectRole(old.role) /\ (old.department # None => LiveDepartment(old.department))
    BY <1>5, <2>1 DEF Inv, ChildrenHaveParents
  <2>4. StorePermission(call.existing, row)
    BY <1>5
  <2> HIDE DEF row
  <2>. QED BY <1>3, <2>1, <2>2, <2>3, <2>4, StorePermissionSafe
<1>6. ASSUME LiveProjectRole(call.permission.role), NEW i \in PermissionIds, StorePermission(i, call.permission)
      PROVE  Inv'
  BY <1>3, <1>4, <1>6, StorePermissionSafe
<1>7. CASE UNCHANGED Tables
  BY <1>3, <1>7, TablesSame
<1>. QED BY <1>5, <1>6, <1>7 DEF SetPermissionWrite

LEMMA ManagePermissionsSafe == ASSUME Inv, ManagePermissions PROVE Inv'
<1>1. ASSUME NEW q \in ProjectRoleIds, NEW d \in DepartmentIds, NEW x \in Resources, NEW f \in Flags,
             SetDepartmentPermission(q, d, x, f)
      PROVE  Inv'
  <2> DEFINE row == [state |-> "live", role |-> q, department |-> d, resource |-> x, flags |-> f]
  <2>1. row \in PermissionRow /\ row.role = q /\ row.department = d
    BY DEF PermissionRow, RowStates
  <2>2. LiveProjectRole(q) /\ LiveDepartment(d)
    BY <1>1 DEF SetDepartmentPermission
  <2>3. PICK i \in PermissionIds : StorePermission(i, row)
    BY <1>1 DEF SetDepartmentPermission
  <2>4. UNCHANGED <<calls, departments, departmentRoles>>
    BY <1>1 DEF SetDepartmentPermission, StorePermission
  <2> HIDE DEF row
  <2>. QED BY <2>1, <2>2, <2>3, <2>4, SameCalls, StorePermissionSafe
<1>2. ASSUME NEW i \in PermissionIds, RemovePermission(i) PROVE Inv'
  <2> DEFINE row == [NoPermission EXCEPT !.state = "gone"]
  <2>1. row \in PermissionRow /\ row.state = "gone"
    BY ConstantRows DEF NoPermission, PermissionRow, RowStates
  <2>2. StorePermission(i, row) /\ UNCHANGED <<calls, departments, departmentRoles>>
    BY <1>2 DEF RemovePermission, StorePermission
  <2> HIDE DEF row
  <2>. QED BY <2>1, <2>2, SameCalls, StorePermissionSafe
<1>3. ASSUME NEW r \in DepartmentRoleIds, NEW x \in Resources, NEW f \in Flags \cup {None},
             SetDepartmentRolePolicy(r, x, f)
      PROVE  Inv'
  <2>1. /\ UNCHANGED <<users, projects, departments, departmentRoles, projectRoles, members, permissions, calls>>
        /\ policies' \in [DepartmentRoleIds -> [Resources -> Flags \cup {None}]] /\ LiveDepartmentRole(r)
        /\ \A s \in DepartmentRoleIds, y \in Resources :
             policies'[s][y] # None => policies[s][y] # None \/ s = r
    BY <1>3 DEF SetDepartmentRolePolicy, Inv, TablesOK
  <2>2. TablesOK'
    BY <2>1 DEF Inv, TablesOK
  <2>3. ChildrenHaveParents'
    BY <2>1 DEF Inv, ChildrenHaveParents, LiveProject, LiveUser, LiveDepartment, LiveDepartmentRole,
                LiveProjectRole, LivePermission, IsMember
  <2>4. MemberDepartmentInProject' /\ DepartmentRoleInDepartment'
    BY <2>1 DEF Inv, MemberDepartmentInProject, DepartmentRoleInDepartment, LiveDepartment,
                LiveDepartmentRole, IsMember
  <2>5. \A c \in Calls : CallOK(c)'
    BY <2>1, SameCalls
  <2>. QED BY <2>2, <2>3, <2>4, <2>5 DEF Inv
<1>. QED BY <1>1, <1>2, <1>3 DEF ManagePermissions

-----------------------------------------------------------------------------
(* Every step keeps the invariant. *)
LEMMA NextSafe == Inv /\ [Next]_vars => Inv'
<1> SUFFICES ASSUME Inv, [Next]_vars PROVE Inv'
  OBVIOUS
<1>1. CASE UNCHANGED vars
  BY <1>1, SameCalls, TablesSame DEF vars, Tables
<1>2. ASSUME NEW c \in Calls, Handle(c) PROVE Inv'
  <2>1. CASE Fail(c)
    <3>1. UNCHANGED Tables /\ Return(c) /\ UNCHANGED <<departments, departmentRoles>>
      BY <2>1 DEF Fail, Tables
    <3>. QED BY <3>1, ReturnKeepsCalls, TablesSame
  <2>. QED BY <1>2, <2>1, AssignUserToDepartmentSafe, SetUserDepartmentRoleSafe, SetPermissionSafe,
              PlaceMemberSafe, SetPermissionWriteSafe DEF Handle
<1>. QED BY <1>1, <1>2, RemoveSafe, CreateSafe, ManageMemberSafe, ManagePermissionsSafe DEF Next

LEMMA InvHolds == Spec => []Inv
<1>. QED BY InitInv, NextSafe, PTL DEF Spec

(* The crossings are recorded by SetPermission alone, all others keep them. *)
LEMMA CrossedSteps ==
  ASSUME [Next]_vars
  PROVE  \/ UNCHANGED crossed
         \/ \E q \in ProjectRoleIds, x \in Resources : crossed' = crossed \cup CrossedOn(q, x)
<1>1. CASE Remove \/ Create \/ ManageMember \/ ManagePermissions \/ UNCHANGED vars
  BY <1>1 DEF Remove, RemoveProject, RemoveUser, RemoveDepartment, RemoveDepartmentRole, RemoveRole, Delete,
         Create, CreateProject, CreateDepartment, CreateDepartmentRole, CreateRole,
         ManageMember, AssignUser, UnassignUser, SetUserRole, UnsetUserRole, RemoveUserFromDepartment,
         UnsetUserDepartmentRole, ManagePermissions, SetDepartmentPermission, RemovePermission,
         SetDepartmentRolePolicy, vars
<1>2. ASSUME NEW c \in Calls, Handle(c)
      PROVE  \/ UNCHANGED crossed
             \/ \E q \in ProjectRoleIds, x \in Resources : crossed' = crossed \cup CrossedOn(q, x)
  BY <1>2 DEF Handle, AssignUserToDepartment, SetUserDepartmentRole, SetPermission, PlaceMember,
         SetPermissionWrite, Fail, Begin, Return
<1>. QED BY <1>1, <1>2 DEF Next

(* The tables and the handlers in flight keep their types. *)
THEOREM TypeCorrect == Spec => []TypeOK
<1> DEFINE CrossedOK == crossed \subseteq ProjectRoleIds \X Resources
<1>1. Init => CrossedOK
  BY DEF Init
<1>2. CrossedOK /\ [Next]_vars => CrossedOK'
  BY CrossedSteps DEF CrossedOn
<1>3. Inv /\ CrossedOK => TypeOK
  BY DEF Inv, TypeOK
<1>. QED BY <1>1, <1>2, <1>3, InvHolds, PTL DEF Spec

(* Every row refers to rows that exist: the onDelete actions of            *)
(* schema.prisma and the checks of the handlers leave nothing dangling.    *)
THEOREM NothingDangles == Spec => []ChildrenHaveParents
<1>1. Inv => ChildrenHaveParents
  BY DEF Inv
<1>. QED BY <1>1, InvHolds, PTL

(* A member's department belongs to the project, although                  *)
(* assignUserToDepartment and setUserDepartmentRole check it an await      *)
(* before they write it.                                                   *)
THEOREM MembersStayInTheirProject == Spec => []MemberDepartmentInProject
<1>1. Inv => MemberDepartmentInProject
  BY DEF Inv
<1>. QED BY <1>1, InvHolds, PTL

(* A member's department role belongs to the member's department, for any  *)
(* interleaving of placements, moves and deletions.                        *)
THEOREM RolesFollowDepartments == Spec => []DepartmentRoleInDepartment
<1>1. Inv => DepartmentRoleInDepartment
  BY DEF Inv
<1>. QED BY <1>1, InvHolds, PTL

-----------------------------------------------------------------------------
(* Permissions.  The unique index of schema.prisma:271 guards the keys with *)
(* a department; a project-wide key is guarded only by the search that      *)
(* setPermission makes before it creates a row.                             *)
Key(row) == <<row.role, row.department, row.resource>>

CrossedFor(row) == <<row.role, row.resource>> \in crossed

Waiting(c) == calls[c].op = "setPermission" /\ calls[c].existing = None

(* A row with the key of a call that is about to create one came after the  *)
(* call had searched, from another call that had searched too.              *)
SearchOK(c) ==
  Waiting(c) =>
    \A i \in PermissionIds :
      LivePermission(i) /\ Key(permissions[i]) = Key(calls[c].permission) => CrossedFor(permissions[i])

(* Of two calls about to create the same key, the later one has seen the    *)
(* earlier one.                                                             *)
CrossingsSeen ==
  \A c, e \in Calls :
    Waiting(c) /\ Waiting(e) /\ Key(calls[c].permission) = Key(calls[e].permission)
      => c = e \/ CrossedFor(calls[c].permission)

KeyInv ==
  /\ OnePermissionPerKey
  /\ \A c \in Calls : SearchOK(c)
  /\ CrossingsSeen

(* What a step can do to the permissions. *)
PermissionsKept ==
  \A i \in PermissionIds : LivePermission(i)' => LivePermission(i) /\ Key(permissions[i])' = Key(permissions[i])

Stored(i, row) ==
  permissions'[i] = row /\ \A j \in PermissionIds \ {i} : permissions'[j] = permissions[j]

(* One of a department is stored where its key is found, or as a new key.   *)
DepartmentRowStored ==
  \E i \in PermissionIds, row \in PermissionRow :
    /\ Stored(i, row) /\ row.department \in DepartmentIds
    /\ \A j \in PermissionIds : LivePermission(j) /\ Key(permissions[j]) = Key(row) =>
         LivePermission(i) /\ Key(permissions[i]) = Key(row)

RowCreated(c) ==
  /\ Waiting(c)
  /\ \E i \in PermissionIds : Stored(i, calls[c].permission)
  /\ calls'[c] = Idle

(* What a step can do to a call: a call that is about to create a row was   *)
(* so before, or has just found none and seen who else has.                 *)
JustSearched(c) ==
  /\ \A i \in PermissionIds : LivePermission(i)' => Key(permissions'[i]) # Key(calls'[c].permission)
  /\ \A e \in Calls \ {c} :
       /\ calls'[e] = calls[e]
       /\ Waiting(e) /\ Key(calls[e].permission) = Key(calls'[c].permission)
            => CrossedFor(calls[c].permission)'

Searched == \A c \in Calls : calls'[c] = calls[c] \/ ~Waiting(c)' \/ JustSearched(c)

LEMMA PermissionSteps ==
  ASSUME Inv, [Next]_vars
  PROVE  /\ PermissionsKept \/ DepartmentRowStored \/ \E c \in Calls : RowCreated(c)
         /\ Searched
<1> DEFINE Result == /\ PermissionsKept \/ DepartmentRowStored \/ \E c \in Calls : RowCreated(c)
                     /\ Searched
<1>1. calls \in [Calls -> Call] /\ permissions \in [PermissionIds -> PermissionRow]
  BY DEF Inv, TablesOK
<1>2. UNCHANGED permissions => PermissionsKept
  BY DEF PermissionsKept, LivePermission
<1>3. UNCHANGED calls => Searched
  BY DEF Searched
<1>4. ASSUME NEW c \in Calls, Return(c) PROVE calls'[c] = Idle /\ Searched
  <2>1. calls'[c] = Idle /\ \A e \in Calls \ {c} : calls'[e] = calls[e]
    BY <1>1, <1>4 DEF Return
  <2>. QED BY <2>1, ConstantRows DEF Searched, Waiting
<1>5. CASE Remove \/ Create \/ ManageMember \/ UNCHANGED vars
  <2>1. ASSUME NEW P, NEW D, NEW R, NEW Q, NEW U, Delete(P, D, R, Q, U)
        PROVE  Result
    <3>1. \A i \in PermissionIds : permissions'[i] \in {permissions[i], [NoPermission EXCEPT !.state = "gone"]}
      BY <2>1 DEF Delete
    <3>2. [NoPermission EXCEPT !.state = "gone"].state # "live"
      BY DEF NoPermission
    <3>3. PermissionsKept
      BY <3>1, <3>2 DEF PermissionsKept, LivePermission
    <3>. QED BY <1>3, <2>1, <3>3 DEF Delete
  <2>2. CASE Remove
    BY <2>1, <2>2 DEF Remove, RemoveProject, RemoveUser, RemoveDepartment, RemoveDepartmentRole, RemoveRole
  <2>3. CASE Create \/ UNCHANGED vars
    BY <1>2, <1>3, <2>3 DEF Create, CreateProject, CreateDepartment, CreateDepartmentRole, CreateRole, vars
  <2>4. CASE ManageMember
    BY <1>2, <1>3, <2>4 DEF ManageMember, AssignUser, UnassignUser, SetUserRole, UnsetUserRole,
                           RemoveUserFromDepartment, UnsetUserDepartmentRole, SetMember
  <2>. QED BY <1>5, <2>2, <2>3, <2>4
<1>6. CASE ManagePermissions
  <2>1. ASSUME NEW q \in ProjectRoleIds, NEW d \in DepartmentIds, NEW x \in Resources, NEW f \in Flags,
               SetDepartmentPermission(q, d, x, f)
        PROVE  Result
    <3> DEFINE row == [state |-> "live", role |-> q, department |-> d, resource |-> x, flags |-> f]
    <3>1. row \in PermissionRow /\ row.department = d /\ row.role = q /\ row.resource = x
      BY DEF PermissionRow, RowStates
    <3>2. PICK i \in PermissionIds :
             /\ \/ Matches(permissions[i], q, d, x)
                \/ \A j \in PermissionIds : ~Matches(permissions[j], q, d, x)
             /\ StorePermission(i, row)
      BY <2>1 DEF SetDepartmentPermission
    <3>3. \A j \in PermissionIds : Matches(permissions[j], q, d, x) <=> LivePermission(j) /\ Key(permissions[j]) = Key(row)
      BY <3>1 DEF Matches, LivePermission, Key
    <3> HIDE DEF row
    <3>4. Stored(i, row) /\ UNCHANGED calls
      BY <1>1, <2>1, <3>2 DEF Stored, StorePermission, SetDepartmentPermission
    <3>. QED BY <1>3, <3>1, <3>2, <3>3, <3>4 DEF DepartmentRowStored
  <2>2. ASSUME NEW i \in PermissionIds, RemovePermission(i) PROVE Result
    <3>1. PermissionsKept
      BY <1>1, <2>2 DEF RemovePermission, StorePermission, PermissionsKept, LivePermission, NoPermission
    <3>. QED BY <1>3, <2>2, <3>1 DEF RemovePermission
  <2>3. ASSUME NEW r \in DepartmentRoleIds, NEW x \in Resources, NEW f \in Flags \cup {None},
               SetDepartmentRolePolicy(r, x, f)
        PROVE  Result
    BY <1>2, <1>3, <2>3 DEF SetDepartmentRolePolicy
  <2>. QED BY <1>6, <2>1, <2>2, <2>3 DEF ManagePermissions
<1>7. ASSUME NEW c \in Calls, Handle(c) PROVE Result
  <2>1. ASSUME NEW call, NEW keys, Begin(c, call, keys)
        PROVE  /\ UNCHANGED permissions /\ calls'[c] = call /\ keys \subseteq crossed'
               /\ \A e \in Calls \ {c} : calls'[e] = calls[e]
               /\ ~Waiting(c)' \/ JustSearched(c) => Result
    <3>1. /\ UNCHANGED permissions /\ calls'[c] = call /\ keys \subseteq crossed'
          /\ \A e \in Calls \ {c} : calls'[e] = calls[e]
      BY <1>1, <2>1 DEF Begin, Tables
    <3>. QED BY <1>2, <3>1 DEF Searched
  <2>2. CASE \E p \in ProjectIds, u \in UserIds :
               \/ \E d \in DepartmentIds : AssignUserToDepartment(c, p, u, d)
               \/ \E r \in DepartmentRoleIds : SetUserDepartmentRole(c, p, u, r)
    <3>1. ASSUME NEW call, Begin(c, call, {}), call.op # "setPermission" PROVE Result
      BY <2>1, <3>1 DEF Waiting
    <3>2. ASSUME NEW p, NEW u, NEW d, AssignUserToDepartment(c, p, u, d) PROVE Result
      BY <3>1, <3>2 DEF AssignUserToDepartment, Idle
    <3>3. ASSUME NEW p, NEW u, NEW r, SetUserDepartmentRole(c, p, u, r) PROVE Result
      BY <3>1, <3>3 DEF SetUserDepartmentRole, Idle
    <3>. QED BY <2>2, <3>2, <3>3
  <2>3. ASSUME NEW q \in ProjectRoleIds, NEW x \in Resources, NEW f \in Flags, SetPermission(c, q, x, f)
        PROVE  Result
    <3> DEFINE row == [state |-> "live", role |-> q, department |-> None, resource |-> x, flags |-> f]
               found == {i \in PermissionIds : Matches(permissions[i], q, None, x)}
               call(i) == [Idle EXCEPT !.op = "setPermission", !.permission = row, !.existing = i]
    <3>1. \/ found = {} /\ Begin(c, call(None), CrossedOn(q, x))
          \/ \E i \in found : Begin(c, call(i), {})
      BY <2>3 DEF SetPermission
    <3>2. /\ row.role = q /\ row.resource = x
          /\ \A i \in PermissionIds \cup {None} : call(i).permission = row /\ call(i).existing = i
      BY DEF Idle
    <3>3. \A j \in PermissionIds : Matches(permissions[j], q, None, x) <=> LivePermission(j) /\ Key(permissions[j]) = Key(row)
      BY DEF Matches, LivePermission, Key
    <3>4. ASSUME NEW i \in found, Begin(c, call(i), {}) PROVE Result
      <4>1. i \in PermissionIds /\ i # None
        BY NoneIsNoId
      <4> HIDE DEF row, found, call
      <4>. QED BY <2>1, <3>2, <3>4, <4>1 DEF Waiting
    <3>5. CASE found = {} /\ Begin(c, call(None), CrossedOn(q, x))
      <4>1. \A j \in PermissionIds : LivePermission(j) => Key(permissions[j]) # Key(row)
        BY <3>3, <3>5
      <4> HIDE DEF row, found, call
      <4>2. /\ UNCHANGED permissions /\ calls'[c].permission = row /\ CrossedOn(q, x) \subseteq crossed'
            /\ \A e \in Calls \ {c} : calls'[e] = calls[e]
        BY <2>1, <3>2, <3>5
      <4>3. ASSUME NEW e \in Calls, Waiting(e), Key(calls[e].permission) = Key(row) PROVE CrossedFor(row)'
        <5>1. Creating(e, q, x)
          BY <3>2, <4>3 DEF Waiting, Creating, Key
        <5>2. CrossedOn(q, x) = {<<q, x>>}
          BY <5>1 DEF CrossedOn
        <5>. QED BY <3>2, <4>2, <5>2 DEF CrossedFor
      <4>4. JustSearched(c)
        BY <4>1, <4>2, <4>3 DEF JustSearched, LivePermission, Key, CrossedFor
      <4>. QED BY <2>1, <3>5, <4>4
    <3>. QED BY <3>1, <3>4, <3>5
  <2>4. CASE PlaceMember(c)
    <3>1. UNCHANGED permissions
      BY <2>4 DEF PlaceMember, SetMember, Tables
    <3>. QED BY <1>2, <1>4, <2>4, <3>1 DEF PlaceMember
  <2>5. CASE SetPermissionWrite(c)
    <3> DEFINE call == calls[c]
    <3>1. call.op = "setPermission" /\ calls'[c] = Idle /\ Searched
      BY <1>4, <2>5 DEF SetPermissionWrite
    <3>2. CASE /\ call.existing # None /\ LivePermission(call.existing)
               /\ StorePermission(call.existing, [permissions[call.existing] EXCEPT !.flags = call.permission.flags])
      <4>1. call.existing \in PermissionIds
        BY <3>2 DEF LivePermission
      <4>2. PermissionsKept
        <5>1. \A j \in PermissionIds : /\ permissions'[j].state = permissions[j].state
                                       /\ permissions'[j].role = permissions[j].role
                                       /\ permissions'[j].department = permissions[j].department
                                       /\ permissions'[j].resource = permissions[j].resource
          BY <1>1, <3>2, <4>1 DEF StorePermission, PermissionRow
        <5>. QED BY <5>1 DEF PermissionsKept, LivePermission, Key
      <4>. QED BY <3>1, <4>2
    <3>3. ASSUME call.existing = None, NEW i \in PermissionIds, StorePermission(i, call.permission)
          PROVE  Result
      <4>1. Stored(i, call.permission)
        BY <1>1, <3>3 DEF Stored, StorePermission
      <4>2. RowCreated(c)
        BY <3>1, <3>3, <4>1 DEF RowCreated, Waiting
      <4>. QED BY <3>1, <4>2
    <3>4. CASE UNCHANGED Tables
      BY <1>2, <3>1, <3>4 DEF Tables
    <3>. QED BY <2>5, <3>2, <3>3, <3>4 DEF SetPermissionWrite
  <2>6. CASE Fail(c)
    BY <1>2, <1>4, <2>6 DEF Fail, Tables
  <2>. QED BY <1>7, <2>2, <2>3, <2>4, <2>5, <2>6 DEF Handle
<1>. QED BY <1>5, <1>6, <1>7 DEF Next

LEMMA CrossedGrows == ASSUME [Next]_vars PROVE crossed \subseteq crossed'
<1>. QED BY CrossedSteps

(* A row of a department never duplicates a key, because the upsert finds   *)
(* the row that has it; a row a call creates has the key of another only if *)
(* the call's search was crossed.                                           *)
LEMMA KeysStayApart ==
  ASSUME Inv, KeyInv, [Next]_vars
  PROVE  OnePermissionPerKey'
<1> SUFFICES ASSUME NEW i \in PermissionIds, NEW j \in PermissionIds, LivePermission(i)', LivePermission(j)',
                    Key(permissions'[i]) = Key(permissions'[j]), i # j
             PROVE  permissions'[i].department = None /\ CrossedFor(permissions[i])'
  BY DEF OnePermissionPerKey, Key, CrossedFor
<1>1. ASSUME NEW k \in PermissionIds, NEW l \in PermissionIds, k # l, LivePermission(k), LivePermission(l),
             Key(permissions[k]) = Key(permissions[l])
      PROVE  permissions[k].department = None /\ CrossedFor(permissions[k])
  BY <1>1 DEF KeyInv, OnePermissionPerKey, Key, CrossedFor
<1>2. CASE PermissionsKept
  <2>1. /\ LivePermission(i) /\ LivePermission(j) /\ Key(permissions[i]) = Key(permissions[j])
        /\ Key(permissions[i]) = Key(permissions'[i])
    BY <1>2 DEF PermissionsKept
  <2>2. permissions[i].department = None /\ CrossedFor(permissions[i])
    BY <1>1, <2>1
  <2>. QED BY <2>1, <2>2, CrossedGrows DEF Key, CrossedFor
<1>3. ASSUME NEW k \in PermissionIds, NEW row, Stored(k, row),
             \A l \in PermissionIds \ {k} :
               LivePermission(l) /\ Key(permissions[l]) = Key(row)
                 => permissions[l].department = None /\ CrossedFor(permissions[l])
      PROVE  permissions'[i].department = None /\ CrossedFor(permissions[i])'
  <2>1. permissions'[k] = row
        /\ \A l \in PermissionIds \ {k} : permissions'[l] = permissions[l] /\ (LivePermission(l)' => LivePermission(l))
    BY <1>3 DEF Stored, LivePermission
  <2>2. CASE i # k /\ j # k
    BY <1>1, <2>1, <2>2, CrossedGrows DEF CrossedFor
  <2>3. PICK l \in {i, j} : i = k \/ j = k => l # k
    OBVIOUS
  <2>4. CASE i = k \/ j = k
    <3>1. /\ LivePermission(l) /\ Key(permissions[l]) = Key(row)
          /\ permissions'[l] = permissions[l] /\ Key(permissions'[i]) = Key(permissions[l])
      BY <2>1, <2>3, <2>4
    <3>2. permissions[l].department = None /\ CrossedFor(permissions[l])
      BY <1>3, <2>3, <2>4, <3>1
    <3>. QED BY <3>1, <3>2, CrossedGrows DEF Key, CrossedFor
  <2>. QED BY <2>2, <2>4
<1>4. CASE DepartmentRowStored
  <2>1. PICK k \in PermissionIds, row \in PermissionRow :
          /\ Stored(k, row) /\ row.department \in DepartmentIds
          /\ \A l \in PermissionIds : LivePermission(l) /\ Key(permissions[l]) = Key(row) =>
               LivePermission(k) /\ Key(permissions[k]) = Key(row)
    BY <1>4 DEF DepartmentRowStored
  <2>2. \A l \in PermissionIds \ {k} : LivePermission(l) /\ Key(permissions[l]) = Key(row)
          => permissions[l].department = None /\ CrossedFor(permissions[l])
    BY <1>1, <2>1
  <2>. QED BY <1>3, <2>1, <2>2
<1>5. ASSUME NEW c \in Calls, RowCreated(c)
      PROVE  permissions'[i].department = None /\ CrossedFor(permissions[i])'
  <2>1. PICK k \in PermissionIds : Stored(k, calls[c].permission)
    BY <1>5 DEF RowCreated
  <2>2. calls[c].permission.department = None
    BY <1>5 DEF RowCreated, Waiting, Inv, CallOK
  <2>3. \A l \in PermissionIds \ {k} : LivePermission(l) /\ Key(permissions[l]) = Key(calls[c].permission)
          => permissions[l].department = None /\ CrossedFor(permissions[l])
    BY <1>5, <2>2 DEF KeyInv, SearchOK, RowCreated, Key
  <2>. QED BY <1>3, <2>1, <2>3
<1>. QED BY <1>2, <1>4, <1>5, PermissionSteps

(* A call's search stays good until its write, unless a call it crossed     *)
(* creates a row for the same key.                                          *)
LEMMA SearchesStayGood ==
  ASSUME Inv, KeyInv, [Next]_vars
  PROVE  \A c \in Calls : SearchOK(c)'
<1> SUFFICES ASSUME NEW c \in Calls, calls'[c] = calls[c], Waiting(c), Waiting(c)', NEW i \in PermissionIds,
                    LivePermission(i)', Key(permissions'[i]) = Key(calls[c].permission)
             PROVE  CrossedFor(permissions[i])'
  BY PermissionSteps DEF SearchOK, Searched, JustSearched, Waiting
<1>1. ASSUME LivePermission(i), Key(permissions[i]) = Key(permissions'[i]) PROVE CrossedFor(permissions[i])'
  BY <1>1, CrossedGrows DEF KeyInv, SearchOK, CrossedFor, Key
<1>2. calls[c].permission.department = None
  BY DEF Waiting, Inv, CallOK
<1>3. CASE PermissionsKept
  BY <1>1, <1>3 DEF PermissionsKept
<1>4. ASSUME NEW k \in PermissionIds, NEW row, Stored(k, row), i # k PROVE CrossedFor(permissions[i])'
  BY <1>1, <1>4 DEF Stored, LivePermission
<1>5. CASE DepartmentRowStored
  <2>1. PICK k \in PermissionIds, row \in PermissionRow : Stored(k, row) /\ row.department \in DepartmentIds
    BY <1>5 DEF DepartmentRowStored
  <2>2. Key(row) # Key(calls[c].permission)
    BY <1>2, <2>1, NoneIsNoId DEF Key
  <2>. QED BY <1>4, <2>1, <2>2 DEF Stored
<1>6. ASSUME NEW e \in Calls, RowCreated(e) PROVE CrossedFor(permissions[i])'
  <2>1. PICK k \in PermissionIds : Stored(k, calls[e].permission)
    BY <1>6 DEF RowCreated
  <2>2. e # c
    BY <1>6, ConstantRows DEF RowCreated, Waiting
  <2>3. CASE i = k
    <3>1. Key(permissions'[i]) = Key(calls[e].permission)
      BY <2>1, <2>3 DEF Stored
    <3>2. CrossedFor(calls[e].permission)
      BY <1>6, <2>2, <3>1 DEF KeyInv, CrossingsSeen, RowCreated
    <3>. QED BY <2>1, <2>3, <3>2, CrossedGrows DEF Stored, CrossedFor
  <2>. QED BY <1>4, <2>1, <2>3
<1>. QED BY <1>3, <1>5, <1>6, PermissionSteps

LEMMA CrossingsAreSeen ==
  ASSUME Inv, KeyInv, [Next]_vars
  PROVE  CrossingsSeen'
<1> SUFFICES ASSUME NEW c \in Calls, NEW e \in Calls, c # e, Waiting(c)', Waiting(e)',
                    Key(calls'[c].permission) = Key(calls'[e].permission)
             PROVE  CrossedFor(calls[c].permission)'
  BY DEF CrossingsSeen
<1>1. CASE calls'[c] = calls[c] /\ calls'[e] = calls[e]
  <2>1. Waiting(c) /\ Waiting(e)
    BY <1>1 DEF Waiting
  <2>2. CrossedFor(calls[c].permission)
    BY <1>1, <2>1 DEF KeyInv, CrossingsSeen
  <2>. QED BY <1>1, <2>2, CrossedGrows DEF CrossedFor
<1>2. ASSUME NEW k \in {c, e}, NEW l \in {c, e}, k # l, JustSearched(k) PROVE CrossedFor(calls[c].permission)'
  <2>1. calls'[l] = calls[l] /\ Key(calls'[k].permission) = Key(calls[l].permission)
    BY <1>2 DEF JustSearched
  <2>2. Waiting(l)
    BY <1>2, <2>1 DEF Waiting
  <2>3. CrossedFor(calls[k].permission)'
    BY <1>2, <2>1, <2>2 DEF JustSearched
  <2>. QED BY <2>3 DEF CrossedFor, Key
<1>3. /\ calls'[c] = calls[c] \/ JustSearched(c)
      /\ calls'[e] = calls[e] \/ JustSearched(e)
  BY PermissionSteps DEF Searched
<1>. QED BY <1>1, <1>2, <1>3

(* Whatever overlaps, is removed or fails: two permissions with one key are *)
(* project-wide, and two calls searched for the key before either created.  *)
THEOREM KeysDoubleOnlyByCrossing == Spec => []OnePermissionPerKey
<1>1. Init => KeyInv
  <2> SUFFICES ASSUME Init PROVE KeyInv
    OBVIOUS
  <2>1. \A i \in PermissionIds : ~LivePermission(i)
    BY DEF Init, LivePermission, NoPermission
  <2>2. \A c \in Calls : ~Waiting(c)
    BY ConstantRows DEF Init, Waiting
  <2>. QED BY <2>1, <2>2 DEF KeyInv, OnePermissionPerKey, SearchOK, CrossingsSeen
<1>2. Inv /\ KeyInv /\ [Next]_vars => KeyInv'
  BY KeysStayApart, SearchesStayGood, CrossingsAreSeen DEF KeyInv
<1>3. KeyInv => OnePermissionPerKey
  BY DEF KeyInv
<1>. QED BY <1>1, <1>2, <1>3, InvHolds, PTL DEF Spec

(* A role never has two permissions for one resource of one department:     *)
(* there the unique index decides, and crossings do no harm.                *)
OnePermissionPerDepartment ==
  \A i, j \in PermissionIds :
    LivePermission(i) /\ LivePermission(j) /\ permissions[i].department \in DepartmentIds
    /\ Key(permissions[i]) = Key(permissions[j]) => i = j

THEOREM DepartmentPermissionsUnique == Spec => []OnePermissionPerDepartment
<1>1. OnePermissionPerKey => OnePermissionPerDepartment
  BY NoneIsNoId DEF OnePermissionPerKey, OnePermissionPerDepartment, Key
<1>. QED BY <1>1, KeysDoubleOnlyByCrossing, PTL
=============================================================================
