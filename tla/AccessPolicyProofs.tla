-------------------------- MODULE AccessPolicyProofs --------------------------
(***************************************************************************)
(* Proofs about AccessPolicy: what the two access decisions answer, for    *)
(* any set of resources, departments and flags, after any history of       *)
(* administration.                                                         *)
(***************************************************************************)
EXTENDS AccessPolicy, TLAPS

(* One policy per resource, as the upsert keeps it. *)
OnePolicyPerResource == \A r, s \in policies : r.resource = s.resource => r = s

(* What buildPolicyFlags makes of the flags on a task resource. *)
TaskFlags(x, f) ==
  /\ x \in TaskResources /\ f # {} => "canView" \in f
  /\ x \in ViewOnly => f \subseteq {"canView"}

(* The inductive invariant. *)
Inv ==
  /\ TypeOK
  /\ OnePolicyPerResource
  /\ \A r \in permissions \cup policies : TaskFlags(r.resource, r.flags)

(* buildPolicyFlags yields flags, in the form a task resource needs. *)
LEMMA PolicyFlagsForm ==
  ASSUME NEW x \in Resources, NEW f \in FlagSets
  PROVE  PolicyFlags(x, f) \in SUBSET Actions /\ TaskFlags(x, PolicyFlags(x, f))
<1>1. f \subseteq Actions /\ "canView" \in Actions /\ ViewOnly \subseteq TaskResources
  BY ResourceAssumption DEF Actions
<1>2. CASE x \in ViewOnly
  <2>1. PolicyFlags(x, f) = f \cap {"canView"}
    BY <1>2 DEF PolicyFlags
  <2>. QED BY <1>1, <2>1 DEF TaskFlags
<1>3. CASE x \notin ViewOnly /\ x \in TaskResources /\ f # {}
  <2>1. PolicyFlags(x, f) = f \cup {"canView"}
    BY <1>3 DEF PolicyFlags
  <2>. QED BY <1>1, <1>3, <2>1 DEF TaskFlags
<1>4. CASE x \notin ViewOnly /\ ~(x \in TaskResources /\ f # {})
  <2>1. PolicyFlags(x, f) = f
    BY <1>4 DEF PolicyFlags
  <2>. QED BY <1>1, <1>4, <2>1 DEF TaskFlags
<1>. QED BY <1>2, <1>3, <1>4

LEMMA InitInv == Init => Inv
BY DEF Init, Inv, TypeOK, Member, OnePolicyPerResource

LEMMA NextInv == Inv /\ [Next]_vars => Inv'
<1> SUFFICES ASSUME Inv, [Next]_vars PROVE Inv'
  OBVIOUS
<1>1. CASE UNCHANGED vars
  BY <1>1 DEF vars, Inv, TypeOK, OnePolicyPerResource
<1>2. ASSUME NEW d \in Departments \cup {None}, NEW n \in Names, NEW f \in FlagSets,
             SetPermission(d, n, f)
      PROVE  Inv'
  <2> DEFINE x == NormalizePolicyResource(n)
  <2> DEFINE row == [department |-> d, resource |-> x, flags |-> PolicyFlags(x, f)]
  <2>0. x \in Resources
    BY <1>2 DEF SetPermission, NormalizePolicyResource
  <2>2. /\ UNCHANGED <<member, policies>>
        /\ permissions' \subseteq permissions \cup {row}
    BY <1>2 DEF SetPermission
  <2> HIDE DEF x
  <2>1. /\ row \in Permission /\ row.department = d /\ row.resource = x /\ TaskFlags(x, row.flags)
    BY <2>0, PolicyFlagsForm DEF Permission
  <2> HIDE DEF row
  <2>. QED BY <2>1, <2>2 DEF Inv, TypeOK, OnePolicyPerResource
<1>3. ASSUME NEW n \in Names, NEW f \in FlagSets, SetDepartmentRolePolicy(n, f)
      PROVE  Inv'
  <2> DEFINE x == NormalizePolicyResource(n)
  <2> DEFINE row == [resource |-> x, flags |-> PolicyFlags(x, f)]
  <2>0. x \in Resources
    BY <1>3 DEF SetDepartmentRolePolicy, NormalizePolicyResource
  <2>2. /\ UNCHANGED <<member, permissions>>
        /\ policies' = {r \in policies : r.resource # x} \cup {row}
    BY <1>3 DEF SetDepartmentRolePolicy
  <2> HIDE DEF x
  <2>1. row \in Policy /\ row.resource = x /\ TaskFlags(x, row.flags)
    BY <2>0, PolicyFlagsForm DEF Policy
  <2> HIDE DEF row
  <2>. QED BY <2>1, <2>2 DEF Inv, TypeOK, OnePolicyPerResource
<1>4. ASSUME NEW r \in permissions, RemovePermission(r) PROVE Inv'
  BY <1>4 DEF RemovePermission, Inv, TypeOK, OnePolicyPerResource
<1>5. ASSUME NEW r \in policies, RemoveDepartmentRolePolicy(r) PROVE Inv'
  BY <1>5 DEF RemoveDepartmentRolePolicy, Inv, TypeOK, OnePolicyPerResource
<1>6. ASSUME NEW m \in Member, SetMember(m) PROVE Inv'
  BY <1>6 DEF SetMember, Inv, TypeOK, OnePolicyPerResource
<1>. QED BY <1>1, <1>2, <1>3, <1>4, <1>5, <1>6 DEF Next

LEMMA InvHolds == Spec => []Inv
<1>. QED BY InitInv, NextInv, PTL DEF Spec

-----------------------------------------------------------------------------
(* Some order of the rows always exists. *)
LEMMA FirstOfNonempty == ASSUME NEW rows PROVE FirstOf(rows) # {}
BY DEF FirstOf

LEMMA InvAuthoritative == Inv => PolicyIsAuthoritative
<1> SUFFICES ASSUME Inv, NEW r \in RolePolicies, NEW a \in Actions
             PROVE  MayAccess(r.resource, a) <=> a \in r.flags
  BY DEF PolicyIsAuthoritative
<1>1. PoliciesOn(r.resource) = {r}
  BY DEF Inv, OnePolicyPerResource, PoliciesOn, RolePolicies
<1>2. FlagsOf({r}) = r.flags
  BY DEF FlagsOf
<1>3. \A first : Access(r.resource, first) = r.flags
  BY <1>1, <1>2 DEF Access
<1>. QED BY <1>3, FirstOfNonempty DEF MayAccess

(* Flags gathered from rows on a task resource have the form too. *)
LEMMA FlagsOfForm ==
  ASSUME Inv, NEW x \in Resources,
         NEW rows \in SUBSET (permissions \cup policies), \A r \in rows : r.resource = x
  PROVE  TaskFlags(x, FlagsOf(rows))
<1>1. \A r \in rows : TaskFlags(x, r.flags)
  BY DEF Inv
<1>. QED BY <1>1 DEF TaskFlags, FlagsOf

LEMMA InvTaskRights == Inv => TaskRightsIncludeViewing
<1> SUFFICES ASSUME Inv, NEW x \in TaskResources, NEW a \in Actions, MayAccess(x, a)
             PROVE  MayAccess(x, "canView") /\ (x \in ViewOnly => a = "canView")
  BY DEF TaskRightsIncludeViewing
<1>1. PICK first \in FirstOf(PermissionsOn(x)) : a \in Access(x, first)
  BY DEF MayAccess
<1>2. x \in Resources
  BY ResourceAssumption
<1>3. /\ TaskFlags(x, FlagsOf(PoliciesOn(x))) /\ TaskFlags(x, FlagsOf(PermissionsOn(x)))
  <2>1. /\ PoliciesOn(x) \in SUBSET (permissions \cup policies) /\ \A r \in PoliciesOn(x) : r.resource = x
        /\ PermissionsOn(x) \in SUBSET (permissions \cup policies) /\ \A r \in PermissionsOn(x) : r.resource = x
    BY DEF PoliciesOn, RolePolicies, PermissionsOn, RolePermissions
  <2>. QED BY <1>2, <2>1, FlagsOfForm
<1>4. first # None => TaskFlags(x, first.flags)
  BY <1>1 DEF FirstOf, PermissionsOn, RolePermissions, Inv
<1>5. TaskFlags(x, Access(x, first))
  <2>1. TaskFlags(x, {}) /\ TaskFlags(x, {"canView"})
    BY DEF TaskFlags
  <2>. QED BY <1>3, <1>4, <2>1 DEF Access
<1>6. "canView" \in Access(x, first) /\ (x \in ViewOnly => a = "canView")
  BY <1>1, <1>5 DEF TaskFlags
<1>. QED BY <1>1, <1>6 DEF MayAccess

(* The guard and the access map agree where a policy or project-wide        *)
(* permissions decide, and where nothing is configured.                     *)
LEMMA InvGuardAgrees == Inv => GuardAgreesWithMap
<1> SUFFICES ASSUME Inv, NEW x \in Resources, NEW a \in Actions,
                    SingleProjectWide(x),
                    Decided(x) \/ (Unconfigured /\ x \notin Fields)
             PROVE  GuardAllows(x, a) <=> MayAccess(x, a)
  BY DEF GuardAgreesWithMap
<1> DEFINE rows == {r \in permissions : member.role /\ r.resource = x}
<1>1. PermissionsOn(x) = rows
  BY DEF PermissionsOn, RolePermissions, SingleProjectWide
<1>2. \A r, s \in rows : r = s
  BY DEF SingleProjectWide
<1>3. \A r \in rows : r # None => InScope(x, r)
  BY DEF InScope, SingleProjectWide
<1>4. InScope(x, None)
  BY DEF InScope
<1>5. \A first \in FirstOf(rows) : GuardWith(x, a, first) <=> a \in Access(x, first)
  <2> SUFFICES ASSUME NEW first \in FirstOf(rows) PROVE GuardWith(x, a, first) <=> a \in Access(x, first)
    OBVIOUS
  <2>1. CASE PoliciesOn(x) # {}
    <3>1. InScope(x, first)
      BY <1>3, <1>4 DEF FirstOf
    <3>2. Access(x, first) = FlagsOf(PoliciesOn(x))
      BY <2>1 DEF Access, PoliciesOn
    <3>. QED BY <2>1, <3>1, <3>2 DEF GuardWith
  <2>2. CASE PoliciesOn(x) = {} /\ rows # {}
    <3>1. rows = {first} /\ first \in permissions
      BY <1>2, <2>2 DEF FirstOf
    <3>2. first # None /\ RolePermissions # {}
      BY <1>1, <2>2, <3>1, ResourceAssumption DEF Inv, TypeOK, PermissionsOn
    <3>3. FlagsOf(rows) = first.flags
      BY <3>1 DEF FlagsOf
    <3>4. Access(x, first) = first.flags
      BY <1>1, <2>2, <3>2, <3>3 DEF Access
    <3>. QED BY <1>3, <2>2, <3>1, <3>2, <3>4 DEF GuardWith
  <2>3. CASE PoliciesOn(x) = {} /\ rows = {}
    <3>1. first = None /\ Unconfigured /\ x \notin Fields
      BY <1>1, <2>3 DEF FirstOf, Decided
    <3>2. Access(x, first) = IF x \in DefaultView THEN {"canView"} ELSE {}
      BY <2>3, <3>1 DEF Access, Unconfigured
    <3>. QED BY <2>3, <3>1, <3>2 DEF GuardWith, GuardDefault
  <2>. QED BY <2>1, <2>2, <2>3
<1>. QED BY <1>1, <1>5 DEF GuardAllows, MayAccess

(* Stored resources are their own canonical names, and a row on the         *)
(* resource asked for may be the first one met.                             *)
LEMMA InvGrants == Inv => GrantsTakeEffect
<1> SUFFICES ASSUME Inv, NEW r \in RolePermissions \cup RolePolicies, NEW a \in r.flags,
                    r \in RolePolicies \/ PoliciesOn(Canonical[r.resource]) = {}
             PROVE  MayAccess(Canonical[r.resource], a)
  BY DEF GrantsTakeEffect
<1> DEFINE x == r.resource
<1>1. r \in permissions \cup policies /\ Canonical[x] = x
  BY ResourceAssumption DEF RolePermissions, RolePolicies, Inv, TypeOK, Permission, Policy
<1>2. CASE r \in RolePolicies
  <2>1. a \in Actions
    BY <1>2 DEF RolePolicies, Inv, TypeOK, Policy
  <2>. QED BY <1>1, <1>2, <2>1, InvAuthoritative DEF PolicyIsAuthoritative
<1>3. CASE r \in RolePermissions /\ PoliciesOn(x) = {}
  <2>1. r \in PermissionsOn(x) /\ r # None /\ r \in FirstOf(PermissionsOn(x))
    BY <1>3, ResourceAssumption DEF PermissionsOn, RolePermissions, FirstOf, Inv, TypeOK
  <2>2. a \in FlagsOf(PermissionsOn(x))
    BY <2>1 DEF FlagsOf
  <2>3. a \in Access(x, r)
    BY <1>3, <2>1, <2>2 DEF Access
  <2>. QED BY <1>1, <2>1, <2>3 DEF MayAccess
<1>. QED BY <1>1, <1>2, <1>3

(* A hardcoded task resource has an entry of its own, and without a row it  *)
(* has no rights.                                                           *)
LEMMA HardcodedNeedsRows == HardcodedTasksNeedRows
<1> SUFFICES ASSUME NEW x \in TaskResources, NEW a \in Actions, MayPerform(x, a)
             PROVE  \E r \in RolePermissions \cup RolePolicies : r.resource = x /\ a \in r.flags
  BY DEF HardcodedTasksNeedRows
<1>1. MayAccess(x, a)
  BY DEF MayPerform, Mapped
<1>2. PICK first \in FirstOf(PermissionsOn(x)) : a \in Access(x, first)
  BY <1>1 DEF MayAccess
<1>3. /\ a \in FlagsOf(PoliciesOn(x)) => \E r \in PoliciesOn(x) : a \in r.flags
      /\ a \in FlagsOf(PermissionsOn(x)) => \E r \in PermissionsOn(x) : a \in r.flags
  BY DEF FlagsOf
<1>4. first # None => first \in PermissionsOn(x)
  BY <1>2 DEF FirstOf
<1>5. \E r \in PoliciesOn(x) \cup PermissionsOn(x) : a \in r.flags
  <2>1. CASE PoliciesOn(x) # {}
    <3>1. Access(x, first) = FlagsOf(PoliciesOn(x))
      BY <2>1 DEF Access, PoliciesOn
    <3>. QED BY <1>2, <1>3, <3>1
  <2>2. CASE PoliciesOn(x) = {} /\ first # None /\ RolePolicies # {}
    BY <1>2, <1>4, <2>2 DEF Access
  <2>3. CASE PoliciesOn(x) = {} /\ first # None /\ RolePolicies = {}
    <3>1. Access(x, first) = FlagsOf(PermissionsOn(x))
      BY <2>3, ResourceAssumption DEF Access, PoliciesOn
    <3>. QED BY <1>2, <1>3, <3>1
  <2>4. CASE PoliciesOn(x) = {} /\ first = None
    <3>1. a \in {} \/ x \in DefaultView
      BY <1>2, <2>4 DEF Access
    <3>. QED BY <3>1, ResourceAssumption
  <2>. QED BY <2>1, <2>2, <2>3, <2>4
<1>. QED BY <1>5 DEF PoliciesOn, PermissionsOn

(* Guard and filter decide alike whether fields are shown. *)
LEMMA InvFieldsAgree == Inv => FieldsAgree
<1> SUFFICES ASSUME Inv,
                    \A x \in Fields \ {ProjectField} : ~Mapped(x),
                    SingleProjectWide(ProjectField)
             PROVE  GuardAllows(ProjectField, "canView") <=> FieldsVisible
  BY DEF FieldsAgree
<1> DEFINE rows == {r \in permissions : member.role /\ r.resource = ProjectField}
<1>0. ProjectField \in Fields /\ ProjectField \in Resources /\ "canView" \in Actions
  BY ResourceAssumption DEF Actions
<1>1. PermissionsOn(ProjectField) = rows
  BY DEF PermissionsOn, RolePermissions, SingleProjectWide
<1>2. CASE Decided(ProjectField)
  <2>1. Mapped(ProjectField)
    BY <1>2 DEF Decided, Mapped
  <2>2. GuardAllows(ProjectField, "canView") <=> MayAccess(ProjectField, "canView")
    BY <1>0, <1>2, InvGuardAgrees DEF GuardAgreesWithMap
  <2>3. \A x \in Fields : MayAccess(x, "canView") => x = ProjectField
    <3> SUFFICES ASSUME NEW x \in Fields, x # ProjectField, MayAccess(x, "canView") PROVE FALSE
      OBVIOUS
    <3>1. ~Mapped(x)
      OBVIOUS
    <3>2. PoliciesOn(x) = {} /\ PermissionsOn(x) = {} /\ x \notin DefaultView
      BY <3>1, ResourceAssumption DEF Mapped
    <3>3. \A first \in FirstOf(PermissionsOn(x)) : Access(x, first) = {}
      BY <3>2 DEF FirstOf, Access
    <3>. QED BY <3>3 DEF MayAccess
  <2>. QED BY <1>0, <2>1, <2>2, <2>3 DEF FieldsVisible
<1>3. CASE ~Decided(ProjectField)
  <2>1. PoliciesOn(ProjectField) = {} /\ rows = {}
    BY <1>1, <1>3 DEF Decided
  <2>2. FirstOf(rows) = {None}
    BY <2>1 DEF FirstOf
  <2>3. GuardWith(ProjectField, "canView", None)
    BY <1>0, <2>1 DEF GuardWith, GuardDefault
  <2>4. GuardAllows(ProjectField, "canView")
    BY <2>2, <2>3 DEF GuardAllows
  <2>5. ~Mapped(ProjectField)
    BY <1>0, <1>1, <2>1, ResourceAssumption DEF Mapped
  <2>. QED BY <2>4, <2>5 DEF FieldsVisible
<1>. QED BY <1>2, <1>3

-----------------------------------------------------------------------------
(* The member, the permissions and the policies keep their types. *)
THEOREM TypeCorrect == Spec => []TypeOK
<1>1. Inv => TypeOK
  BY DEF Inv
<1>. QED BY <1>1, InvHolds, PTL

(* A department role's policy on a resource is the whole answer for it,    *)
(* whatever permissions the project role has.                              *)
THEOREM PoliciesDecide == Spec => []PolicyIsAuthoritative
<1>. QED BY InvAuthoritative, InvHolds, PTL

(* No combination of rows gives a right on a task resource without the     *)
(* right to view it, or more than viewing on a view-only one.              *)
THEOREM TaskRightsAreVisible == Spec => []TaskRightsIncludeViewing
<1>. QED BY InvTaskRights, InvHolds, PTL

(* ProjectPermissionGuard and getAccessMapForProjectUser give one answer.  *)
THEOREM GuardAndMapAgree == Spec => []GuardAgreesWithMap
<1>. QED BY InvGuardAgrees, InvHolds, PTL

(* However an admin spells a resource, what is granted is a right on it.   *)
THEOREM GrantsAreRights == Spec => []GrantsTakeEffect
<1>. QED BY InvGrants, InvHolds, PTL

(* No default and no right on TASK opens a hardcoded task resource.        *)
THEOREM HardcodedTasksAreClosed == Spec => []HardcodedTasksNeedRows
<1>. QED BY HardcodedNeedsRows, PTL

(* projectFields and project show a member the same: all fields, or none.  *)
THEOREM FieldDecisionsAgree == Spec => []FieldsAgree
<1>. QED BY InvFieldsAgree, InvHolds, PTL
=============================================================================
