-------------------------- MODULE ProjectContents --------------------------
(***************************************************************************)
(* Work orders and dynamic fields.  A work order is a row in the database  *)
(* and a file in the bucket: two stores written one after the other, with  *)
(* nothing that undoes the first when the second fails.  A call to the     *)
(* bucket that reports an error may have taken effect.                     *)
(*                                                                         *)
(* Rows go with their project, and with the admin that created the project *)
(* or uploaded the file; files stay until someone deletes them.            *)
(***************************************************************************)
CONSTANTS
  Admins, Projects,
  CreatedBy,     \* the admin that created each project
  Rights,        \* what the access policy gives the one member, per project
  OrderIds, FieldIds,
  Keys,          \* file keys: uuids, drawn once
  Calls,         \* work-order handlers that may be in flight at once
  FailAt,        \* the steps before which one of them may be cut short
  None

Steps == {"store", "insert", "unstore", "delete", "find", "answer"}

ASSUME ContentsAssumption ==
  /\ None \notin Admins \cup Projects \cup OrderIds \cup FieldIds \cup Keys
  /\ CreatedBy \in [Projects -> Admins]
  /\ Rights \in [Projects -> SUBSET {"canView", "canEdit", "canDelete"}]
  /\ FailAt \subseteq Steps

VARIABLES
  admins, projects,  \* those that exist
  orders,            \* the WorkOrderPdf table
  bucket,            \* what the storage holds under each key
  fields, values,    \* the ProjectField and ProjectFieldValue tables, by field
  calls,             \* work-order handlers in flight
  orphaned,          \* history: keys whose row a cascade or a failure took away
  broken             \* history: orders whose deletion failed on the way

tables == <<admins, projects, orders, fields, values>>
vars == <<tables, bucket, calls, orphaned, broken>>

-----------------------------------------------------------------------------
RowStates == {"unborn", "live", "gone"}

OrderRow == [state: RowStates, project: Projects \cup {None}, key: Keys \cup {None},
             uploader: Admins \cup {None}]
NoOrder == [state |-> "unborn", project |-> None, key |-> None, uploader |-> None]

FieldRow == [state: RowStates, project: Projects \cup {None}]
NoField == [state |-> "unborn", project |-> None]

Call == [at: Steps \cup {"idle"}, project: Projects \cup {None}, admin: Admins \cup {None},
         order: OrderIds \cup {None}, key: Keys \cup {None}]
Idle == [at |-> "idle", project |-> None, admin |-> None, order |-> None, key |-> None]

LiveOrder(o) == orders[o].state = "live"
LiveField(f) == fields[f].state = "live"
Named(k) == \E o \in OrderIds : LiveOrder(o) /\ orders[o].key = k

GoOn(c, step) == calls' = [calls EXCEPT ![c].at = step]
Return(c) == calls' = [calls EXCEPT ![c] = Idle]
Begin(c, call) == calls[c] = Idle /\ calls' = [calls EXCEPT ![c] = call]

-----------------------------------------------------------------------------
(* uploadWorkOrder, for admins: find the project, store the file, insert    *)
(* the row.                                                                 *)

UploadWorkOrder(c, a, p) ==
  /\ a \in admins /\ p \in projects
  /\ Begin(c, [Idle EXCEPT !.at = "store", !.admin = a, !.project = p])
  /\ UNCHANGED <<tables, bucket, orphaned, broken>>

(* Mutant: the key is made of the file's name. *)
StoreFileByName(c, k) ==
  /\ calls[c].at = "store"
  /\ bucket' = [bucket EXCEPT ![k] = "stored"]
  /\ calls' = [calls EXCEPT ![c].at = "insert", ![c].key = k]
  /\ UNCHANGED <<tables, orphaned, broken>>

StoreFile(c, k) ==
  /\ calls[c].at = "store" /\ bucket[k] = "unused"
  /\ bucket' = [bucket EXCEPT ![k] = "stored"]
  /\ calls' = [calls EXCEPT ![c].at = "insert", ![c].key = k]
  /\ UNCHANGED <<tables, orphaned, broken>>

StoreFileFails(c, k) ==
  /\ calls[c].at = "store" /\ "store" \in FailAt /\ bucket[k] = "unused"
  /\ bucket' = [bucket EXCEPT ![k] = "stored"]
  /\ orphaned' = orphaned \cup {k}
  /\ Return(c)
  /\ UNCHANGED <<tables, broken>>

(* Mutant: no foreign keys. *)
Unreferenced(call) == TRUE

NewOrder(call) ==
  [state |-> "live", project |-> call.project, key |-> call.key, uploader |-> call.admin]

ReferencesExist(call) == call.project \in projects /\ call.admin \in admins

InsertOrder(c, o) ==
  /\ calls[c].at = "insert" /\ orders[o].state = "unborn"
  /\ IF ReferencesExist(calls[c])
     THEN orders' = [orders EXCEPT ![o] = NewOrder(calls[c])] /\ UNCHANGED orphaned
     ELSE orphaned' = orphaned \cup {calls[c].key} /\ UNCHANGED orders
  /\ Return(c)
  /\ UNCHANGED <<admins, projects, fields, values, bucket, broken>>

-----------------------------------------------------------------------------
(* deleteWorkOrder, for admins and for members with the right to: read the  *)
(* row, delete the file, delete the row.                                    *)

DeleteWorkOrder(c, o) ==
  /\ LiveOrder(o)
  /\ admins # {} \/ "canDelete" \in Rights[orders[o].project]
  /\ Begin(c, [Idle EXCEPT !.at = "unstore", !.order = o, !.key = orders[o].key])
  /\ UNCHANGED <<tables, bucket, orphaned, broken>>

(* Mutant: an error of the bucket is not an error of the call. *)
DeleteFileAtBest(c) ==
  /\ calls[c].at = "unstore"
  /\ bucket' \in {bucket, [bucket EXCEPT ![calls[c].key] = "deleted"]}
  /\ GoOn(c, "delete")
  /\ UNCHANGED <<tables, orphaned, broken>>

DeleteFile(c) ==
  /\ calls[c].at = "unstore"
  /\ bucket' = [bucket EXCEPT ![calls[c].key] = "deleted"]
  /\ GoOn(c, "delete")
  /\ UNCHANGED <<tables, orphaned, broken>>

DeleteFileFails(c) ==
  /\ calls[c].at = "unstore" /\ "unstore" \in FailAt
  /\ bucket' = [bucket EXCEPT ![calls[c].key] = "deleted"]
  /\ broken' = broken \cup {calls[c].order}
  /\ Return(c)
  /\ UNCHANGED <<tables, orphaned>>

DeleteRow(c) ==
  /\ calls[c].at = "delete"
  /\ orders' = [orders EXCEPT ![calls[c].order].state = "gone"]
  /\ Return(c)
  /\ UNCHANGED <<admins, projects, fields, values, bucket, orphaned, broken>>

-----------------------------------------------------------------------------
(* The view link: assertCanViewWorkOrder asks for the named project, then   *)
(* getWorkOrderViewUrl looks the order up in that project.                  *)

ViewWorkOrder(c, p, o) ==
  /\ admins # {} \/ (p \in projects /\ "canView" \in Rights[p])
  /\ Begin(c, [Idle EXCEPT !.at = "find", !.project = p, !.order = o])
  /\ UNCHANGED <<tables, bucket, orphaned, broken>>

(* Mutant: the order is looked up by its id alone. *)
FoundAnywhere(c) == LiveOrder(calls[c].order)

Found(c) == LiveOrder(calls[c].order) /\ orders[calls[c].order].project = calls[c].project

FindWorkOrder(c) ==
  /\ calls[c].at = "find"
  /\ IF Found(c)
     THEN calls' = [calls EXCEPT ![c].at = "answer", ![c].key = orders[calls[c].order].key]
     ELSE Return(c)
  /\ UNCHANGED <<tables, bucket, orphaned, broken>>

AnswerLink(c) == /\ calls[c].at = "answer"
                 /\ Return(c)
                 /\ UNCHANGED <<tables, bucket, orphaned, broken>>

(* An error of the database or a crash ends the call before its step. *)
Fail(c) ==
  /\ calls[c].at \in FailAt
  /\ orphaned' = IF calls[c].at = "insert" THEN orphaned \cup {calls[c].key} ELSE orphaned
  /\ broken' = IF calls[c].at = "delete" THEN broken \cup {calls[c].order} ELSE broken
  /\ Return(c)
  /\ UNCHANGED <<tables, bucket>>

-----------------------------------------------------------------------------
(* Dynamic fields.  setFieldValue is an upsert by field; a new value row    *)
(* keeps the project the caller named, which the guard checked.             *)

CreateField(p, f) ==
  /\ admins # {} /\ p \in projects /\ fields[f].state = "unborn"
  /\ fields' = [fields EXCEPT ![f] = [state |-> "live", project |-> p]]
  /\ UNCHANGED <<admins, projects, orders, values, bucket, calls, orphaned, broken>>

DeleteFields(F) ==
  /\ fields' = [f \in FieldIds |-> IF f \in F THEN [fields[f] EXCEPT !.state = "gone"] ELSE fields[f]]
  /\ values' = [f \in FieldIds |->
       IF f \in F \/ values[f] \notin projects' THEN None ELSE values[f]]

DeleteField(f) ==
  /\ admins # {} /\ LiveField(f)
  /\ UNCHANGED <<admins, projects, orders, bucket, calls, orphaned, broken>>
  /\ DeleteFields({f})

SetFieldValue(p, f) ==
  /\ admins # {} \/ "canEdit" \in Rights[p]
  /\ LiveField(f) /\ p \in projects
  /\ values' = [values EXCEPT ![f] = IF @ = None THEN p ELSE @]
  /\ UNCHANGED <<admins, projects, orders, fields, bucket, calls, orphaned, broken>>

-----------------------------------------------------------------------------
(* Removals, with the rows that go along. *)

Cascade(lostProjects, lostAdmins) ==
  LET lost == {o \in OrderIds : /\ LiveOrder(o)
                                /\ orders[o].project \in lostProjects \/ orders[o].uploader \in lostAdmins}
  IN /\ projects' = projects \ lostProjects
     /\ admins' = admins \ lostAdmins
     /\ orders' = [o \in OrderIds |-> IF o \in lost THEN [orders[o] EXCEPT !.state = "gone"] ELSE orders[o]]
     /\ orphaned' = orphaned \cup {orders[o].key : o \in lost}
     /\ DeleteFields({f \in FieldIds : LiveField(f) /\ fields[f].project \in lostProjects})
     /\ UNCHANGED <<bucket, calls, broken>>

RemoveProject(p) == admins # {} /\ p \in projects /\ Cascade({p}, {})

RemoveAdmin(a) == a \in admins /\ Cascade({p \in projects : CreatedBy[p] = a}, {a})

-----------------------------------------------------------------------------
CallNext(c) ==
  \/ \E a \in Admins, p \in Projects : UploadWorkOrder(c, a, p)
  \/ \E k \in Keys : StoreFile(c, k) \/ StoreFileFails(c, k)
  \/ \E o \in OrderIds : InsertOrder(c, o) \/ DeleteWorkOrder(c, o)
  \/ DeleteFile(c)
  \/ DeleteFileFails(c)
  \/ DeleteRow(c)
  \/ \E p \in Projects, o \in OrderIds : ViewWorkOrder(c, p, o)
  \/ FindWorkOrder(c)
  \/ AnswerLink(c)
  \/ Fail(c)

Next ==
  \/ \E c \in Calls : CallNext(c)
  \/ \E p \in Projects, f \in FieldIds : CreateField(p, f) \/ SetFieldValue(p, f)
  \/ \E f \in FieldIds : DeleteField(f)
  \/ \E p \in Projects : RemoveProject(p)
  \/ \E a \in Admins : RemoveAdmin(a)

Init ==
  /\ admins = Admins /\ projects = Projects
  /\ orders = [o \in OrderIds |-> NoOrder]
  /\ bucket = [k \in Keys |-> "unused"]
  /\ fields = [f \in FieldIds |-> NoField] /\ values = [f \in FieldIds |-> None]
  /\ calls = [c \in Calls |-> Idle]
  /\ orphaned = {} /\ broken = {}

Spec == Init /\ [][Next]_vars

-----------------------------------------------------------------------------
(* Properties *)

(* Type invariant. *)
TypeOK ==
  /\ admins \subseteq Admins /\ projects \subseteq Projects
  /\ orders \in [OrderIds -> OrderRow]
  /\ bucket \in [Keys -> {"unused", "stored", "deleted"}]
  /\ fields \in [FieldIds -> FieldRow] /\ values \in [FieldIds -> Projects \cup {None}]
  /\ calls \in [Calls -> Call]
  /\ orphaned \subseteq Keys /\ broken \subseteq OrderIds

(* What is removed takes along every row that points to it, also a row      *)
(* whose insert was under way.                                              *)
NothingDangles ==
  /\ \A o \in OrderIds : LiveOrder(o) => orders[o].project \in projects /\ orders[o].uploader \in admins
  /\ \A f \in FieldIds : LiveField(f) => fields[f].project \in projects
  /\ \A f \in FieldIds : values[f] # None => LiveField(f) /\ values[f] \in projects

(* A listed work order has its file, unless its own deletion is at work or  *)
(* has failed: no deletion, however late or repeated, takes the file of     *)
(* another order, and no upload lists a file it has not stored.             *)
BeingDeleted(o) == \E c \in Calls : calls[c].at = "delete" /\ calls[c].order = o

ListedFilesExist ==
  \A o \in OrderIds : LiveOrder(o) =>
    bucket[orders[o].key] = "stored" \/ BeingDeleted(o) \/ o \in broken

(* A file that no row lists is the rest of a failed upload or of a cascade: *)
(* deleteWorkOrder itself, failing anywhere, never loses track of a file.   *)
DeletionsLeaveNoFile ==
  \A k \in Keys : bucket[k] = "stored" =>
    Named(k) \/ k \in orphaned \/ \E c \in Calls : calls[c].at = "insert" /\ calls[c].key = k

(* The check asks for the project in the request, the lookup for the order: *)
(* a link always belongs to the project that was checked.                   *)
LinksStayInProject ==
  \A c \in Calls : calls[c].at = "answer" =>
    \E o \in OrderIds : orders[o].key = calls[c].key /\ orders[o].project = calls[c].project
=============================================================================
