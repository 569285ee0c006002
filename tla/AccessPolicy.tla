---------------------------- MODULE AccessPolicy ----------------------------
(***************************************************************************)
(* What a member may do in a project.  Two pieces of code answer this from *)
(* the same tables: ProjectService.getAccessMapForProjectUser, which       *)
(* filters what a query returns, and ProjectPermissionGuard, which lets a  *)
(* call through.  Both are pure; the state is what they read: one member,  *)
(* the permissions of the member's project role and the policies of the    *)
(* member's department role.                                               *)
(*                                                                         *)
(* Resource names are compared trimmed and in upper case; an admin may     *)
(* also name a resource by one of its aliases.  A findMany without orderBy *)
(* returns its rows in any order, so "the first row" is a choice.          *)
(***************************************************************************)
EXTENDS Naturals, FiniteSets

CONSTANTS
  Names,          \* what an admin or a task may call a resource
  Canonical,      \* the resource each name stands for: the aliases table
  Resources,      \* allowedPolicyResources
  DefaultView,    \* those a member without any policy may view
  Fields,         \* FIELD and PROJECT_FIELD, which the guard shows by default too
  ProjectField,   \* PROJECT_FIELD, the one its decorators name
  Task,           \* TASK, what a task without a resource of its own needs
  TaskResources,  \* the hardcoded task resources
  ViewOnly,       \* those of them that only say who may view
  Scoped,         \* TASK and SUBTASK, which the guard scopes by department
  FlagSets,       \* the flags an admin may pick, as sets of actions
  Departments,
  MaxRows,        \* bound: permissions and policies together
  None

Actions == {"canView", "canCreate", "canEdit", "canDelete"}

VARIABLES
  member,       \* the ProjectUser row: does it have the role, a department, a department role
  permissions,  \* the Permission rows of the project role
  policies      \* the DepartmentRolePolicy rows of the department role

vars == <<member, permissions, policies>>

Permission == [department: Departments \cup {None}, resource: Resources, flags: SUBSET Actions]
Policy == [resource: Resources, flags: SUBSET Actions]

ASSUME ResourceAssumption ==
  /\ DefaultView \cup Fields \cup TaskResources \cup {Task} \subseteq Resources
  /\ ProjectField \in Fields
  /\ (DefaultView \cup TaskResources) \cap Fields = {} /\ DefaultView \cap TaskResources = {}
  /\ ViewOnly \subseteq TaskResources
  /\ FlagSets \subseteq SUBSET Actions
  /\ Resources \subseteq Names
  /\ Canonical \in [Names -> Names]
  /\ \A x \in Resources : Canonical[x] = x
  /\ None \notin Departments \cup Permission

-----------------------------------------------------------------------------
(* Administration *)

(* Mutant: the flags are stored as they were ticked. *)
FlagsAsTicked(x, f) == f

(* buildPolicyFlags: any right on a hardcoded task includes viewing it.     *)
PolicyFlags(x, f) ==
  CASE x \in ViewOnly                              -> f \cap {"canView"}
    [] x \in TaskResources \ ViewOnly /\ f # {}    -> f \cup {"canView"}
    [] OTHER                                       -> f

(* Mutant: the name is stored as it came. *)
NameAsGiven(n) == n

NormalizePolicyResource(n) == Canonical[n]

RoomForRow == Cardinality(permissions') + Cardinality(policies') <= MaxRows

(* A name that stands for no resource is refused.  A project-wide row is    *)
(* looked for an await before it is updated or created, so beside one that  *)
(* another call has created meanwhile a second one is created (when, is in  *)
(* ProjectStructure).  Rows that say the same count as one.                 *)
SetPermission(d, n, f) ==
  LET x == NormalizePolicyResource(n)
      row == [department |-> d, resource |-> x, flags |-> PolicyFlags(x, f)]
      found == {r \in permissions : r.department = d /\ r.resource = x}
  IN
  /\ Canonical[n] \in Resources
  /\ \/ \E r \in found : permissions' = (permissions \ {r}) \cup {row}
     \/ /\ found = {} \/ d = None
        /\ permissions' = permissions \cup {row}
  /\ UNCHANGED <<member, policies>>
  /\ RoomForRow

RemovePermission(r) == /\ permissions' = permissions \ {r}
                       /\ UNCHANGED <<member, policies>>

SetDepartmentRolePolicy(n, f) ==
  LET x == NormalizePolicyResource(n) IN
  /\ Canonical[n] \in Resources
  /\ policies' = {r \in policies : r.resource # x} \cup {[resource |-> x, flags |-> PolicyFlags(x, f)]}
  /\ UNCHANGED <<member, permissions>>
  /\ RoomForRow

RemoveDepartmentRolePolicy(r) == /\ policies' = policies \ {r}
                                 /\ UNCHANGED <<member, permissions>>

(* The assignments of ProjectStructure: a department role comes with its    *)
(* department.                                                              *)
SetMember(m) == /\ m.departmentRole => m.department # None
                /\ member' = m
                /\ UNCHANGED <<permissions, policies>>

-----------------------------------------------------------------------------
(* getAccessMapForProjectUser *)

(* The rows the queries return: project-wide or of the member's department. *)
RolePermissions == {r \in permissions : member.role /\ r.department \in {None, member.department}}
PermissionsOn(x) == {r \in RolePermissions : r.resource = x}

RolePolicies == {r \in policies : member.departmentRole}
PoliciesOn(x) == {r \in RolePolicies : r.resource = x}

FlagsOf(rows) == UNION {r.flags : r \in rows}

(* Mutant: permissions are merged into what the policies say. *)
AccessMergingAll(x, first) == FlagsOf(PoliciesOn(x)) \cup FlagsOf(PermissionsOn(x))

(* The entry of x in the access map; `first` is the permission met first.   *)
(* A resource without an entry counts as one without rights.                *)
Access(x, first) ==
  LET fallback == PoliciesOn(x) = {} /\ first # None
      unconfigured == RolePolicies = {} /\ RolePermissions = {}
  IN CASE PoliciesOn(x) # {}                   -> FlagsOf(PoliciesOn(x))
       [] fallback /\ RolePolicies # {}        -> first.flags
       [] fallback /\ RolePolicies = {}        -> FlagsOf(PermissionsOn(x))
       [] unconfigured /\ x \in DefaultView    -> {"canView"}
       [] OTHER                                -> {}

FirstOf(rows) == IF rows = {} THEN {None} ELSE rows

(* canAccess(accessMap, x, a), for some order of the rows. *)
MayAccess(x, a) == \E first \in FirstOf(PermissionsOn(x)) : a \in Access(x, first)

(* Mutant: only rows and the defaults make entries. *)
MappedByRow(x) ==
  \/ PoliciesOn(x) # {} \/ PermissionsOn(x) # {}
  \/ RolePolicies = {} /\ RolePermissions = {} /\ x \in DefaultView

(* Whether the map has an entry at all: every hardcoded task resource has   *)
(* one, without rights if no row gives it any.                              *)
Mapped(x) ==
  \/ PoliciesOn(x) # {} \/ PermissionsOn(x) # {}
  \/ RolePolicies = {} /\ RolePermissions = {} /\ x \in DefaultView
  \/ x \in TaskResources

(* canPerformTaskResourceAction: a task may name a resource, as it likes;   *)
(* a name the map does not know, an alias too, is decided by TASK.          *)
MayPerform(n, a) == MayAccess(IF Mapped(n) THEN n ELSE Task, a)

(* applyViewerPolicyOnProject: whether a project shows its fields. *)
FieldsVisible ==
  (\E x \in Fields : Mapped(x)) => \E x \in Fields : MayAccess(x, "canView")

-----------------------------------------------------------------------------
(* ProjectPermissionGuard.canActivate for a member: it reads the policy and *)
(* the role's permissions on x, of every department.                        *)

InScope(x, permission) ==
  x \in Scoped /\ permission # None /\ permission.department # None
    => permission.department = member.department

(* Mutant: the guard has the defaults of the access map. *)
GuardDefaultOfMap(x, a) == a = "canView" /\ x \in DefaultView

GuardDefault(x, a) == a = "canView" /\ x \in DefaultView \cup Fields

(* Mutant: the flags of the permission come before the policy's. *)
GuardPermissionFirst(x, a, permission) ==
  IF permission = None /\ PoliciesOn(x) = {}
  THEN GuardDefault(x, a)
  ELSE /\ InScope(x, permission)
       /\ a \in IF permission # None THEN permission.flags ELSE FlagsOf(PoliciesOn(x))

GuardWith(x, a, permission) ==
  IF permission = None /\ PoliciesOn(x) = {}
  THEN GuardDefault(x, a)
  ELSE /\ InScope(x, permission)
       /\ a \in IF PoliciesOn(x) # {} THEN FlagsOf(PoliciesOn(x)) ELSE permission.flags

GuardAllows(x, a) ==
  \E permission \in FirstOf({r \in permissions : member.role /\ r.resource = x}) :
    GuardWith(x, a, permission)

-----------------------------------------------------------------------------
Member == [role: BOOLEAN, department: Departments \cup {None}, departmentRole: BOOLEAN]

Next ==
  \/ \E d \in Departments \cup {None}, n \in Names, f \in FlagSets : SetPermission(d, n, f)
  \/ \E r \in permissions : RemovePermission(r)
  \/ \E n \in Names, f \in FlagSets : SetDepartmentRolePolicy(n, f)
  \/ \E r \in policies : RemoveDepartmentRolePolicy(r)
  \/ \E m \in Member : SetMember(m)

Init == /\ member = [role |-> FALSE, department |-> None, departmentRole |-> FALSE]
        /\ permissions = {}
        /\ policies = {}

Spec == Init /\ [][Next]_vars

-----------------------------------------------------------------------------
(* Properties *)

(* Type invariant. *)
TypeOK ==
  /\ member \in Member
  /\ permissions \subseteq Permission
  /\ policies \subseteq Policy

(* project.service.ts:469, "Department-role policy is authoritative for     *)
(* resources it defines": no permission of the project role, in whatever    *)
(* order the rows come, adds to it or takes from it.                        *)
PolicyIsAuthoritative ==
  \A r \in RolePolicies, a \in Actions : MayAccess(r.resource, a) <=> a \in r.flags

(* The guard and the access map are separate code for one question.  They   *)
(* agree on every resource that a policy or a single, project-wide          *)
(* permission decides, and for a member about whom nothing is configured.   *)
Decided(x) == PoliciesOn(x) # {} \/ PermissionsOn(x) # {}
Unconfigured == RolePolicies = {} /\ RolePermissions = {}

SingleProjectWide(x) ==
  \A r, s \in permissions : r.resource = x /\ s.resource = x => r = s /\ r.department = None

GuardAgreesWithMap ==
  \A x \in Resources, a \in Actions :
    (/\ SingleProjectWide(x)
     /\ Decided(x) \/ (Unconfigured /\ x \notin Fields))
      => (GuardAllows(x, a) <=> MayAccess(x, a))

(* A view-only resource never gives more than viewing, and a right on a     *)
(* task resource never comes without viewing it, whatever rows combine.     *)
TaskRightsIncludeViewing ==
  \A x \in TaskResources, a \in Actions :
    MayAccess(x, a) => MayAccess(x, "canView") /\ (x \in ViewOnly => a = "canView")

(* A right that an admin gives under any name of a resource is a right on   *)
(* that resource, unless a policy of the department role overrules it: no   *)
(* row lies where the map does not look.  Where only the first of several   *)
(* rows counts, it is a right in some order of them.                        *)
GrantsTakeEffect ==
  \A r \in RolePermissions \cup RolePolicies :
    LET x == Canonical[r.resource] IN
    r \in RolePolicies \/ PoliciesOn(x) = {} => \A a \in r.flags : MayAccess(x, a)

(* A right on a task with a hardcoded resource comes from a row about that  *)
(* resource: neither the defaults nor rights on TASK, which decide for      *)
(* names the map does not know, reach it.                                   *)
HardcodedTasksNeedRows ==
  \A x \in TaskResources, a \in Actions :
    MayPerform(x, a) => \E r \in RolePermissions \cup RolePolicies : r.resource = x /\ a \in r.flags

(* Whether a member sees the fields of a project is decided twice: by the   *)
(* guard before projectFields, by the filter within project.  They agree    *)
(* unless a row is about FIELD, which the guard never asks for, or the      *)
(* permission on PROJECT_FIELD is for one department, or there are two.     *)
FieldsAgree ==
  (/\ \A x \in Fields \ {ProjectField} : ~Mapped(x)
   /\ SingleProjectWide(ProjectField))
    => (GuardAllows(ProjectField, "canView") <=> FieldsVisible)
=============================================================================
