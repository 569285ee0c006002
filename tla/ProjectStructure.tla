-------------------------- MODULE ProjectStructure --------------------------
(***************************************************************************)
(* Projects and what is built inside them: departments with their roles    *)
(* and role policies, project roles with their permissions, and members    *)
(* that point to all of these.  The tables are those of schema.prisma with *)
(* their foreign keys and referential actions; the actions are the         *)
(* handlers of ProjectService that write them.                             *)
(*                                                                         *)
(* A handler whose reads decide only which error is answered is one        *)
(* action.  Those that write something they have read are split at the     *)
(* await in between.  Names are left out: renaming changes nothing else.   *)
(***************************************************************************)
EXTENDS Integers, FiniteSets

CONSTANTS
  ProjectIds, DepartmentIds, DepartmentRoleIds, ProjectRoleIds, PermissionIds, UserIds,
  Resources,   \* the allowed policy resources
  Flags,       \* combinations of canView, canCreate, canEdit, canDelete
  Calls,       \* handlers that may be in flight at once
  Ops,         \* the operations clients issue in this instance
  None         \* null

ASSUME NoneAssumption ==
  None \notin ProjectIds \cup DepartmentIds \cup DepartmentRoleIds \cup ProjectRoleIds
              \cup PermissionIds \cup UserIds \cup Resources \cup Flags

VARIABLES
  users, projects,   \* which ids have been issued and still exist
  departments,       \* of a project
  departmentRoles,   \* of a department
  projectRoles,      \* of a project
  members,           \* ProjectUser: of a project and a user
  permissions,       \* of a project role, for one department or project-wide
  policies,          \* DepartmentRolePolicy: flags of a department role on a resource
  calls,             \* the handlers in flight
  crossed            \* history: the keys two setPermission calls were both about
                     \* to create a project-wide row for

vars == <<users, projects, departments, departmentRoles, projectRoles, members,
          permissions, policies, calls, crossed>>

-----------------------------------------------------------------------------
(* Tables.  Autoincrement ids are never reused. *)
RowStates == {"unborn", "live", "gone"}

DepartmentRow     == [state: RowStates, project: ProjectIds \cup {None}]
DepartmentRoleRow == [state: RowStates, department: DepartmentIds \cup {None}]
ProjectRoleRow    == [state: RowStates, project: ProjectIds \cup {None}]
PermissionRow     == [state: RowStates, role: ProjectRoleIds \cup {None},
                      department: DepartmentIds \cup {None},
                      resource: Resources \cup {None}, flags: Flags \cup {None}]
MemberRow         == [present: BOOLEAN, role: ProjectRoleIds \cup {None},
                      department: DepartmentIds \cup {None},
                      departmentRole: DepartmentRoleIds \cup {None}]

Call == [op: {"none", "assignUserToDepartment", "setUserDepartmentRole", "setPermission"},
         project: ProjectIds \cup {None}, user: UserIds \cup {None},
         department: DepartmentIds \cup {None},
         departmentRole: DepartmentRoleIds \cup {None},
         permission: PermissionRow, existing: PermissionIds \cup {None}]

NoMember == [present |-> FALSE, role |-> None, department |-> None, departmentRole |-> None]
NoPermission == [state |-> "unborn", role |-> None, department |-> None,
                 resource |-> None, flags |-> None]
Idle == [op |-> "none", project |-> None, user |-> None, department |-> None,
         departmentRole |-> None, permission |-> NoPermission, existing |-> None]

LiveProject(p) == p \in ProjectIds /\ projects[p] = "live"
LiveUser(u) == u \in UserIds /\ users[u] = "live"
LiveDepartment(d) == d \in DepartmentIds /\ departments[d].state = "live"
LiveDepartmentRole(r) == r \in DepartmentRoleIds /\ departmentRoles[r].state = "live"
LiveProjectRole(q) == q \in ProjectRoleIds /\ projectRoles[q].state = "live"
LivePermission(i) == i \in PermissionIds /\ permissions[i].state = "live"
IsMember(p, u) == members[p][u].present

-----------------------------------------------------------------------------
(* Deleting projects P, departments D, department roles R, project roles Q  *)
(* and users U, with the onDelete of every reference to them: Cascade for   *)
(* what is inside a project, a department or a role, SetNull for the        *)
(* references a member holds.                                               *)

(* Mutant: the references have no onDelete. *)
NoAction(ref, S) == ref

SetNull(ref, S) == IF ref \in S THEN None ELSE ref

Delete(P, D, R, Q, U) ==
  LET D2 == D \cup {d \in DepartmentIds : LiveDepartment(d) /\ departments[d].project \in P}
      R2 == R \cup {r \in DepartmentRoleIds : LiveDepartmentRole(r) /\ departmentRoles[r].department \in D2}
      Q2 == Q \cup {q \in ProjectRoleIds : LiveProjectRole(q) /\ projectRoles[q].project \in P}
  IN
  /\ projects' = [p \in ProjectIds |-> IF p \in P THEN "gone" ELSE projects[p]]
  /\ users' = [u \in UserIds |-> IF u \in U THEN "gone" ELSE users[u]]
  /\ departments' = [d \in DepartmentIds |->
       IF d \in D2 THEN [state |-> "gone", project |-> None] ELSE departments[d]]
  /\ departmentRoles' = [r \in DepartmentRoleIds |->
       IF r \in R2 THEN [state |-> "gone", department |-> None] ELSE departmentRoles[r]]
  /\ projectRoles' = [q \in ProjectRoleIds |->
       IF q \in Q2 THEN [state |-> "gone", project |-> None] ELSE projectRoles[q]]
  /\ permissions' = [i \in PermissionIds |->
       IF LivePermission(i) /\ (permissions[i].role \in Q2 \/ permissions[i].department \in D2)
       THEN [NoPermission EXCEPT !.state = "gone"] ELSE permissions[i]]
  /\ policies' = [r \in DepartmentRoleIds |-> [x \in Resources |->
       IF r \in R2 THEN None ELSE policies[r][x]]]
  /\ members' = [p \in ProjectIds |-> [u \in UserIds |->
       IF p \in P \/ u \in U THEN NoMember
       ELSE [present |-> members[p][u].present,
             role |-> SetNull(members[p][u].role, Q2),
             department |-> SetNull(members[p][u].department, D2),
             departmentRole |-> SetNull(members[p][u].departmentRole, R2)]]]
  /\ UNCHANGED <<calls, crossed>>

(* AdminService.remove reaches projects too, through Project.createdBy. *)
RemoveProject(p) == "remove" \in Ops /\ LiveProject(p) /\ Delete({p}, {}, {}, {}, {})
RemoveUser(u) == "remove" \in Ops /\ LiveUser(u) /\ Delete({}, {}, {}, {}, {u})
RemoveDepartment(d) == "remove" \in Ops /\ LiveDepartment(d) /\ Delete({}, {d}, {}, {}, {})
RemoveDepartmentRole(r) == "remove" \in Ops /\ LiveDepartmentRole(r) /\ Delete({}, {}, {r}, {}, {})
RemoveRole(q) == "remove" \in Ops /\ LiveProjectRole(q) /\ Delete({}, {}, {}, {q}, {})

-----------------------------------------------------------------------------
(* Creation: the parent row must exist (findOne, and the foreign key). *)

CreateProject(p) ==
  /\ projects[p] = "unborn"
  /\ projects' = [projects EXCEPT ![p] = "live"]
  /\ UNCHANGED <<users, departments, departmentRoles, projectRoles, members, permissions,
                 policies, calls, crossed>>

CreateDepartment(d, p) ==
  /\ departments[d].state = "unborn" /\ LiveProject(p)
  /\ departments' = [departments EXCEPT ![d] = [state |-> "live", project |-> p]]
  /\ UNCHANGED <<users, projects, departmentRoles, projectRoles, members, permissions,
                 policies, calls, crossed>>

CreateDepartmentRole(r, d) ==
  /\ departmentRoles[r].state = "unborn" /\ LiveDepartment(d)
  /\ departmentRoles' = [departmentRoles EXCEPT ![r] = [state |-> "live", department |-> d]]
  /\ UNCHANGED <<users, projects, departments, projectRoles, members, permissions,
                 policies, calls, crossed>>

CreateRole(q, p) ==
  /\ projectRoles[q].state = "unborn" /\ LiveProject(p)
  /\ projectRoles' = [projectRoles EXCEPT ![q] = [state |-> "live", project |-> p]]
  /\ UNCHANGED <<users, projects, departments, departmentRoles, members, permissions,
                 policies, calls, crossed>>

-----------------------------------------------------------------------------
(* Members *)

SetMember(p, u, row) ==
  /\ members' = [members EXCEPT ![p][u] = row]
  /\ UNCHANGED <<users, projects, departments, departmentRoles, projectRoles, permissions, policies>>

AssignUser(p, u) ==
  /\ "members" \in Ops
  /\ LiveProject(p) /\ LiveUser(u) /\ ~IsMember(p, u)
  /\ SetMember(p, u, [NoMember EXCEPT !.present = TRUE]) /\ UNCHANGED <<calls, crossed>>

UnassignUser(p, u) ==
  /\ "members" \in Ops
  /\ IsMember(p, u)
  /\ SetMember(p, u, NoMember) /\ UNCHANGED <<calls, crossed>>

(* setUserRole (and changeUserRole) give the role id to the database as it  *)
(* comes: only the foreign key looks at it.                                 *)
SetUserRole(p, u, q) ==
  /\ "setUserRole" \in Ops
  /\ IsMember(p, u) /\ LiveProjectRole(q)
  /\ SetMember(p, u, [members[p][u] EXCEPT !.role = q]) /\ UNCHANGED <<calls, crossed>>

UnsetUserRole(p, u) ==
  /\ "setUserRole" \in Ops
  /\ IsMember(p, u)
  /\ SetMember(p, u, [members[p][u] EXCEPT !.role = None]) /\ UNCHANGED <<calls, crossed>>

RemoveUserFromDepartment(p, u) ==
  /\ "members" \in Ops
  /\ IsMember(p, u)
  /\ SetMember(p, u, [members[p][u] EXCEPT !.department = None, !.departmentRole = None])
  /\ UNCHANGED <<calls, crossed>>

UnsetUserDepartmentRole(p, u) ==
  /\ "members" \in Ops
  /\ IsMember(p, u)
  /\ SetMember(p, u, [members[p][u] EXCEPT !.departmentRole = None]) /\ UNCHANGED <<calls, crossed>>

-----------------------------------------------------------------------------
(* Handlers that read and then write *)

Tables == <<users, projects, departments, departmentRoles, projectRoles, members,
            permissions, policies>>

Begin(c, call, keys) ==
  /\ calls[c] = Idle
  /\ call.op \in Ops
  /\ calls' = [calls EXCEPT ![c] = call]
  /\ crossed' = crossed \cup keys
  /\ UNCHANGED Tables

Return(c) == calls' = [calls EXCEPT ![c] = Idle] /\ UNCHANGED crossed

(* Mutant: any department is accepted. *)
AssignUserToAnyDepartment(c, p, u, d) ==
  /\ LiveDepartment(d)
  /\ Begin(c, [Idle EXCEPT !.op = "assignUserToDepartment", !.project = p, !.user = u,
                 !.department = d], {})

(* assignUserToDepartment: the department must be one of the project's. *)
AssignUserToDepartment(c, p, u, d) ==
  /\ LiveDepartment(d) /\ departments[d].project = p
  /\ Begin(c, [Idle EXCEPT !.op = "assignUserToDepartment", !.project = p, !.user = u,
                 !.department = d], {})

(* setUserDepartmentRole: the department is the one the role was read with. *)
SetUserDepartmentRole(c, p, u, r) ==
  /\ IsMember(p, u)
  /\ LiveDepartmentRole(r) /\ departments[departmentRoles[r].department].project = p
  /\ Begin(c, [Idle EXCEPT !.op = "setUserDepartmentRole", !.project = p, !.user = u,
                 !.department = departmentRoles[r].department, !.departmentRole = r], {})

(* The one prisma.projectUser.update both end with.  It fails if the        *)
(* membership, the department or the role is gone by then.                  *)
PlacementExists(call) ==
  /\ IsMember(call.project, call.user)
  /\ LiveDepartment(call.department)
  /\ call.departmentRole = None \/ LiveDepartmentRole(call.departmentRole)

(* Mutant: the ids are written to each other's column. *)
PlaceMemberSwapped(c) ==
  LET call == calls[c] IN
  /\ call.op \in {"assignUserToDepartment", "setUserDepartmentRole"}
  /\ IF PlacementExists(call)
     THEN SetMember(call.project, call.user,
            [members[call.project][call.user] EXCEPT !.department = call.departmentRole,
                                                     !.departmentRole = call.department])
     ELSE UNCHANGED Tables
  /\ Return(c)

(* Mutant: moving to a department leaves the old department role. *)
PlaceMemberKeepingRole(c) ==
  LET call == calls[c]  old == members[call.project][call.user] IN
  /\ call.op \in {"assignUserToDepartment", "setUserDepartmentRole"}
  /\ IF PlacementExists(call)
     THEN SetMember(call.project, call.user,
            [old EXCEPT !.department = call.department,
                        !.departmentRole = IF call.departmentRole = None THEN old.departmentRole
                                                                         ELSE call.departmentRole])
     ELSE UNCHANGED Tables
  /\ Return(c)

PlaceMember(c) ==
  LET call == calls[c] IN
  /\ call.op \in {"assignUserToDepartment", "setUserDepartmentRole"}
  /\ IF PlacementExists(call)
     THEN SetMember(call.project, call.user,
            [members[call.project][call.user] EXCEPT !.department = call.department,
                                                     !.departmentRole = call.departmentRole])
     ELSE UNCHANGED Tables
  /\ Return(c)

(* setPermission.  For one department it is an upsert on the unique key;    *)
(* project-wide (departmentId null, which the unique index does not cover)  *)
(* it looks for a row first and then updates it, or creates one.            *)
Matches(row, q, d, x) ==
  row.state = "live" /\ row.role = q /\ row.department = d /\ row.resource = x

Creating(c, q, x) ==
  LET call == calls[c] IN
  call.op = "setPermission" /\ call.existing = None
  /\ call.permission.role = q /\ call.permission.resource = x

(* The key, if another call has searched for it too and is yet to create it. *)
CrossedOn(q, x) == IF \E c \in Calls : Creating(c, q, x) THEN {<<q, x>>} ELSE {}

(* Mutant: a null departmentId is left to the unique index. *)
SetPermissionUnsearched(c, q, x, f) ==
  Begin(c, [Idle EXCEPT !.op = "setPermission",
              !.permission = [state |-> "live", role |-> q, department |-> None,
                              resource |-> x, flags |-> f]], CrossedOn(q, x))

SetPermission(c, q, x, f) ==
  LET found == {i \in PermissionIds : Matches(permissions[i], q, None, x)}
      row == [state |-> "live", role |-> q, department |-> None, resource |-> x, flags |-> f]
      call(i) == [Idle EXCEPT !.op = "setPermission", !.permission = row, !.existing = i]
  IN IF found = {}
     THEN Begin(c, call(None), CrossedOn(q, x))
     ELSE \E i \in found : Begin(c, call(i), {})

StorePermission(i, row) ==
  /\ permissions' = [permissions EXCEPT ![i] = row]
  /\ UNCHANGED <<users, projects, departments, departmentRoles, projectRoles, members, policies>>

SetPermissionWrite(c) ==
  LET call == calls[c] IN
  /\ call.op = "setPermission"
  /\ \/ /\ call.existing # None /\ LivePermission(call.existing)
        /\ StorePermission(call.existing, [permissions[call.existing] EXCEPT !.flags = call.permission.flags])
     \/ /\ call.existing = None /\ LiveProjectRole(call.permission.role)
        /\ \E i \in PermissionIds : permissions[i].state = "unborn" /\ StorePermission(i, call.permission)
     \/ /\ IF call.existing = None THEN ~LiveProjectRole(call.permission.role)
                                   ELSE ~LivePermission(call.existing)
        /\ UNCHANGED Tables
  /\ Return(c)

SetDepartmentPermission(q, d, x, f) ==
  LET row == [state |-> "live", role |-> q, department |-> d, resource |-> x, flags |-> f] IN
  /\ "setDepartmentPermission" \in Ops
  /\ LiveProjectRole(q) /\ LiveDepartment(d)
  /\ \E i \in PermissionIds :
       /\ \/ Matches(permissions[i], q, d, x)
          \/ permissions[i].state = "unborn" /\ \A j \in PermissionIds : ~Matches(permissions[j], q, d, x)
       /\ StorePermission(i, row)
  /\ UNCHANGED <<calls, crossed>>

RemovePermission(i) ==
  /\ "setPermission" \in Ops
  /\ LivePermission(i)
  /\ StorePermission(i, [NoPermission EXCEPT !.state = "gone"])
  /\ UNCHANGED <<calls, crossed>>

(* setDepartmentRolePolicy is an upsert; f = None stands for                *)
(* removeDepartmentRolePolicy.                                              *)
SetDepartmentRolePolicy(r, x, f) ==
  /\ "policies" \in Ops
  /\ LiveDepartmentRole(r)
  /\ policies' = [policies EXCEPT ![r][x] = f]
  /\ UNCHANGED <<users, projects, departments, departmentRoles, projectRoles, members,
                 permissions, calls, crossed>>

(* An await rejects, or the process stops, between the read and the write.  *)
Fail(c) == calls[c] # Idle /\ Return(c) /\ UNCHANGED Tables

-----------------------------------------------------------------------------
Remove ==
  \/ \E p \in ProjectIds : RemoveProject(p)
  \/ \E u \in UserIds : RemoveUser(u)
  \/ \E d \in DepartmentIds : RemoveDepartment(d)
  \/ \E r \in DepartmentRoleIds : RemoveDepartmentRole(r)
  \/ \E q \in ProjectRoleIds : RemoveRole(q)

Create ==
  \/ \E p \in ProjectIds : CreateProject(p)
  \/ \E d \in DepartmentIds, p \in ProjectIds : CreateDepartment(d, p)
  \/ \E r \in DepartmentRoleIds, d \in DepartmentIds : CreateDepartmentRole(r, d)
  \/ \E q \in ProjectRoleIds, p \in ProjectIds : CreateRole(q, p)

ManageMember ==
  \E p \in ProjectIds, u \in UserIds :
    \/ AssignUser(p, u)
    \/ UnassignUser(p, u)
    \/ \E q \in ProjectRoleIds : SetUserRole(p, u, q)
    \/ UnsetUserRole(p, u)
    \/ RemoveUserFromDepartment(p, u)
    \/ UnsetUserDepartmentRole(p, u)

ManagePermissions ==
  \/ \E q \in ProjectRoleIds, d \in DepartmentIds, x \in Resources, f \in Flags :
       SetDepartmentPermission(q, d, x, f)
  \/ \E i \in PermissionIds : RemovePermission(i)
  \/ \E r \in DepartmentRoleIds, x \in Resources, f \in Flags \cup {None} :
       SetDepartmentRolePolicy(r, x, f)

Handle(c) ==
  \/ \E p \in ProjectIds, u \in UserIds :
       \/ \E d \in DepartmentIds : AssignUserToDepartment(c, p, u, d)
       \/ \E r \in DepartmentRoleIds : SetUserDepartmentRole(c, p, u, r)
  \/ \E q \in ProjectRoleIds, x \in Resources, f \in Flags : SetPermission(c, q, x, f)
  \/ PlaceMember(c)
  \/ SetPermissionWrite(c)
  \/ Fail(c)

Next == Remove \/ Create \/ ManageMember \/ ManagePermissions \/ \E c \in Calls : Handle(c)

Init ==
  /\ users = [u \in UserIds |-> "live"]
  /\ projects = [p \in ProjectIds |-> "unborn"]
  /\ departments = [d \in DepartmentIds |-> [state |-> "unborn", project |-> None]]
  /\ departmentRoles = [r \in DepartmentRoleIds |-> [state |-> "unborn", department |-> None]]
  /\ projectRoles = [q \in ProjectRoleIds |-> [state |-> "unborn", project |-> None]]
  /\ members = [p \in ProjectIds |-> [u \in UserIds |-> NoMember]]
  /\ permissions = [i \in PermissionIds |-> NoPermission]
  /\ policies = [r \in DepartmentRoleIds |-> [x \in Resources |-> None]]
  /\ calls = [c \in Calls |-> Idle]
  /\ crossed = {}

Spec == Init /\ [][Next]_vars

-----------------------------------------------------------------------------
(* Properties *)

TablesOK ==
  /\ users \in [UserIds -> RowStates] /\ projects \in [ProjectIds -> RowStates]
  /\ departments \in [DepartmentIds -> DepartmentRow]
  /\ departmentRoles \in [DepartmentRoleIds -> DepartmentRoleRow]
  /\ projectRoles \in [ProjectRoleIds -> ProjectRoleRow]
  /\ members \in [ProjectIds -> [UserIds -> MemberRow]]
  /\ permissions \in [PermissionIds -> PermissionRow]
  /\ policies \in [DepartmentRoleIds -> [Resources -> Flags \cup {None}]]
  /\ calls \in [Calls -> Call]

(* Type invariant. *)
TypeOK == TablesOK /\ crossed \subseteq ProjectRoleIds \X Resources

(* A member's department is a department of that project: the check of      *)
(* assignUserToDepartment and setUserDepartmentRole still holds at their    *)
(* write, whatever was deleted in between.                                  *)
MemberDepartmentInProject ==
  \A p \in ProjectIds, u \in UserIds :
    LET d == members[p][u].department IN
    d # None => IsMember(p, u) /\ LiveDepartment(d) /\ departments[d].project = p

(* A member's department role is a role of the department the member is in: *)
(* no order of placements, moves and deletions leaves a role of another     *)
(* department behind, whose policies getAccessMapForProjectUser would use.  *)
DepartmentRoleInDepartment ==
  \A p \in ProjectIds, u \in UserIds :
    LET r == members[p][u].departmentRole IN
    r # None => /\ LiveDepartmentRole(r)
                /\ departmentRoles[r].department = members[p][u].department

(* Nothing refers to what is gone: every child row has its parent, and      *)
(* policies are those of existing roles.                                    *)
ChildrenHaveParents ==
  /\ \A d \in DepartmentIds : LiveDepartment(d) => LiveProject(departments[d].project)
  /\ \A r \in DepartmentRoleIds : LiveDepartmentRole(r) => LiveDepartment(departmentRoles[r].department)
  /\ \A q \in ProjectRoleIds : LiveProjectRole(q) => LiveProject(projectRoles[q].project)
  /\ \A i \in PermissionIds : LivePermission(i) =>
       /\ LiveProjectRole(permissions[i].role)
       /\ permissions[i].department # None => LiveDepartment(permissions[i].department)
  /\ \A r \in DepartmentRoleIds, x \in Resources : policies[r][x] # None => LiveDepartmentRole(r)
  /\ \A p \in ProjectIds, u \in UserIds : IsMember(p, u) =>
       /\ LiveProject(p) /\ LiveUser(u)
       /\ members[p][u].role # None => LiveProjectRole(members[p][u].role)

(* schema.prisma:271, @@unique([projectRoleId, departmentId, resource]):    *)
(* a role has one permission for a resource and a department, or            *)
(* project-wide.  The index lets null departments be equal, and a search of *)
(* setPermission makes up for it: two project-wide rows for one resource    *)
(* come only of two calls that both searched before either created, never   *)
(* of calls in turn, whatever is removed or fails in between.               *)
OnePermissionPerKey ==
  \A i, j \in PermissionIds :
    (/\ LivePermission(i) /\ LivePermission(j)
     /\ permissions[i].role = permissions[j].role
     /\ permissions[i].department = permissions[j].department
     /\ permissions[i].resource = permissions[j].resource)
      => \/ i = j
         \/ permissions[i].department = None
            /\ <<permissions[i].role, permissions[i].resource>> \in crossed
=============================================================================
