------------------------------- MODULE Tasks -------------------------------
(***************************************************************************)
(* The tasks of one project, their subtasks, and who may touch them.  A    *)
(* task remembers the number of the account that created it; admins and    *)
(* users are numbered separately, so a number alone does not say which.    *)
(*                                                                         *)
(* The task handlers of ProjectService read the row, ask for the caller's  *)
(* rights and then write, with an await after each; the subtask handlers   *)
(* do the last of these, behind ProjectPermissionGuard.  Membership and    *)
(* rights change meanwhile: AccessPolicy computes the rights, here they    *)
(* are the answer a call gets.                                             *)
(***************************************************************************)
CONSTANTS
  Admins, Users,       \* the numbers of the accounts of either table
  Departments,
  TaskIds, SubTaskIds,
  Texts,               \* titles and descriptions
  Statuses,
  MemberRows,          \* the memberships met in this instance, None for none
  Patches,             \* the inputs clients send in this instance
  Calls,               \* handlers that may be in flight at once
  Keep, None           \* undefined and null

Actions == {"canView", "canCreate", "canEdit", "canDelete"}
Done == "done"

VARIABLES
  project,      \* the project exists
  users,        \* the users that exist
  departments,  \* the departments that exist
  members,      \* the ProjectUser rows
  tasks, subtasks, calls

vars == <<project, users, departments, members, tasks, subtasks, calls>>

-----------------------------------------------------------------------------
(* Tables. *)
RowStates == {"unborn", "live", "gone"}

Rights == [task: SUBSET Actions, subtask: SUBSET Actions]
NoRights == [task |-> {}, subtask |-> {}]
MemberRow == [present: BOOLEAN, department: Departments \cup {None}, rights: Rights]
TaskRow == [state: RowStates, creator: Admins \cup Users \cup {None},
            department: Departments \cup {None}, assignee: Users \cup {None},
            text: Texts \cup {None}, status: Statuses \cup {None}]
SubTaskRow == [state: RowStates, task: TaskIds \cup {None}, assignee: Users \cup {None}]

NoMember == [present |-> FALSE, department |-> None, rights |-> NoRights]
NoTask == [state |-> "unborn", creator |-> None, department |-> None, assignee |-> None,
           text |-> None, status |-> None]
NoSubTask == [state |-> "unborn", task |-> None, assignee |-> None]
Gone(row, noRow) == IF row.state = "live" THEN [noRow EXCEPT !.state = "gone"] ELSE row

LiveTask(t) == tasks[t].state = "live"
LiveSubTask(s) == subtasks[s].state = "live"

(* The account in the caller's token, and the columns the caller gives.     *)
Viewer == [role: {"admin"}, id: Admins] \cup [role: {"user"}, id: Users]
Patch == [department: Departments \cup {None, Keep}, text: Texts \cup {Keep},
          status: Statuses \cup {Keep}, assignee: Users \cup {None, Keep}]
ASSUME TasksAssumption ==
  /\ None \notin Users \cup Departments \cup TaskIds \cup SubTaskIds
  /\ Keep \notin Users \cup Departments \cup {None} \cup Texts \cup Statuses
  /\ "pending" \in Statuses
  /\ MemberRows \subseteq MemberRow
  /\ Patches \subseteq Patch

NoPatch == [department |-> Keep, text |-> Keep, status |-> Keep, assignee |-> Keep]

Ops == {"createTask", "updateTask", "removeTask", "createSubTask", "updateSubTask", "removeSubTask"}
NoViewer == [role |-> "none", id |-> None]
Call == [op: Ops \cup {"none"}, at: {"idle", "check", "write"}, viewer: Viewer \cup {NoViewer},
         task: TaskIds \cup {None}, subtask: SubTaskIds \cup {None}, data: Patch,
         assignee: Users \cup {None}]
Idle == [op |-> "none", at |-> "idle", viewer |-> NoViewer, task |-> None, subtask |-> None,
         data |-> NoPatch, assignee |-> None]

Return(c) == calls' = [calls EXCEPT ![c] = Idle]
At(c, op, step) == calls[c].op = op /\ calls[c].at = step

ByAdmin(v) == v.role = "admin"

(* The token of a removed user is accepted while it lasts, but finds no     *)
(* membership: such a call is refused without effect and left out.          *)
KnownViewer(v) == ByAdmin(v) \/ v.id \in users
Given(x, stored) == IF x = Keep THEN stored ELSE x

-----------------------------------------------------------------------------
(* Starting a call.  createTask and the subtask handlers read nothing of a  *)
(* task that they use later; the others keep the assignee they have read.   *)

Begin(c, v, call) ==
  /\ calls[c] = Idle
  /\ KnownViewer(v)
  /\ calls' = [calls EXCEPT ![c] = [call EXCEPT !.viewer = v,
                 !.at = IF ByAdmin(v) THEN "write" ELSE "check"]]
  /\ UNCHANGED <<project, users, departments, members, tasks, subtasks>>

CreateTask(c, v, data) ==
  /\ data.text # Keep /\ data.status = Keep
  /\ data.department # None /\ data.assignee # None
  /\ Begin(c, v, [Idle EXCEPT !.op = "createTask", !.data = data])

UpdateTask(c, v, t, data) ==
  /\ LiveTask(t) /\ data.department = Keep
  /\ Begin(c, v, [Idle EXCEPT !.op = "updateTask", !.task = t, !.data = data,
                              !.assignee = tasks[t].assignee])

RemoveTask(c, v, t) ==
  /\ LiveTask(t)
  /\ Begin(c, v, [Idle EXCEPT !.op = "removeTask", !.task = t])

CreateSubTask(c, v, t, assignee) ==
  /\ ByAdmin(v) \/ LiveTask(t)
  /\ Begin(c, v, [Idle EXCEPT !.op = "createSubTask", !.task = t, !.data.assignee = assignee])

UpdateSubTask(c, v, s, assignee) ==
  /\ ByAdmin(v) \/ LiveSubTask(s)
  /\ Begin(c, v, [Idle EXCEPT !.op = "updateSubTask", !.subtask = s, !.data.assignee = assignee])

RemoveSubTask(c, v, s) ==
  /\ ByAdmin(v) \/ LiveSubTask(s)
  /\ Begin(c, v, [Idle EXCEPT !.op = "removeSubTask", !.subtask = s])

-----------------------------------------------------------------------------
(* The check: a member of the project with the right the call needs.        *)

(* Mutant: whoever works on the task may also delegate and validate it. *)
WorkerMayUpdate(u, call) ==
  "canEdit" \in members[u].rights.task \/ call.assignee = u

(* Only the creator delegates or validates; the assigned worker needs no    *)
(* right to edit for a change that leaves the definition alone.             *)
MayUpdate(u, call) ==
  LET data == call.data
      isCreator == tasks[call.task].creator = u
      worksOnIt == call.assignee = u /\ data.text = Keep /\ data.assignee = Keep
  IN /\ data.assignee # Keep => isCreator
     /\ data.status = Done => isCreator
     /\ "canEdit" \in members[u].rights.task \/ worksOnIt

MayProceed(u, call) ==
  /\ members[u].present
  /\ CASE call.op = "createTask"    -> "canCreate" \in members[u].rights.task
       [] call.op = "updateTask"    -> MayUpdate(u, call)
       [] call.op = "removeTask"    -> "canDelete" \in members[u].rights.task
       [] call.op = "createSubTask" -> "canCreate" \in members[u].rights.subtask
       [] call.op = "updateSubTask" -> "canEdit" \in members[u].rights.subtask
       [] call.op = "removeSubTask" -> "canDelete" \in members[u].rights.subtask

(* A member's new task falls to the member and the member's department.     *)
Defaults(call) ==
  IF call.op # "createTask" THEN call.data
  ELSE [call.data EXCEPT !.department = Given(@, members[call.viewer.id].department),
                         !.assignee = Given(@, call.viewer.id)]

Check(c) ==
  /\ calls[c].at = "check"
  /\ IF MayProceed(calls[c].viewer.id, calls[c])
     THEN calls' = [calls EXCEPT ![c].at = "write", ![c].data = Defaults(calls[c])]
     ELSE Return(c)
  /\ UNCHANGED <<project, users, departments, members, tasks, subtasks>>

-----------------------------------------------------------------------------
(* The writes.  A foreign key that names a missing row fails the insert or  *)
(* update, a missing row fails the update or delete.                        *)

(* Mutant: an absent column is reset. *)
ReplacedTask(row, data) ==
  [row EXCEPT !.text = Given(data.text, @), !.status = Given(data.status, "pending"),
              !.assignee = Given(data.assignee, @)]

References(department, assignee) ==
  /\ department \in departments \cup {None}
  /\ assignee \in users \cup {None}

NewTask(call) ==
  [state |-> "live", creator |-> call.viewer.id, department |-> Given(call.data.department, None),
   assignee |-> Given(call.data.assignee, None), text |-> call.data.text, status |-> "pending"]

InsertTask(c, t) ==
  /\ At(c, "createTask", "write") /\ tasks[t].state = "unborn"
  /\ LET row == NewTask(calls[c]) IN
       IF project /\ References(row.department, row.assignee)
       THEN tasks' = [tasks EXCEPT ![t] = row]
       ELSE UNCHANGED tasks
  /\ Return(c)
  /\ UNCHANGED <<project, users, departments, members, subtasks>>

PatchedTask(row, data) ==
  [row EXCEPT !.text = Given(data.text, @), !.status = Given(data.status, @),
              !.assignee = Given(data.assignee, @)]

WriteTask(c) ==
  /\ At(c, "updateTask", "write")
  /\ LET t == calls[c].task
         data == calls[c].data
     IN IF LiveTask(t) /\ (data.assignee # Keep => References(None, data.assignee))
        THEN tasks' = [tasks EXCEPT ![t] = PatchedTask(@, data)]
        ELSE UNCHANGED tasks
  /\ Return(c)
  /\ UNCHANGED <<project, users, departments, members, subtasks>>

(* Deleting tasks deletes their subtasks with them. *)
DeleteTasks(T) ==
  /\ tasks' = [t \in TaskIds |-> IF t \in T THEN Gone(tasks[t], NoTask) ELSE tasks[t]]
  /\ subtasks' = [s \in SubTaskIds |->
       IF subtasks[s].task \in T THEN Gone(subtasks[s], NoSubTask) ELSE subtasks[s]]

DeleteTask(c) ==
  /\ At(c, "removeTask", "write")
  /\ DeleteTasks({calls[c].task})
  /\ Return(c)
  /\ UNCHANGED <<project, users, departments, members>>

InsertSubTask(c, s) ==
  /\ At(c, "createSubTask", "write") /\ subtasks[s].state = "unborn"
  /\ LET assignee == Given(calls[c].data.assignee, None) IN
       IF LiveTask(calls[c].task) /\ References(None, assignee)
       THEN subtasks' = [subtasks EXCEPT ![s] =
              [state |-> "live", task |-> calls[c].task, assignee |-> assignee]]
       ELSE UNCHANGED subtasks
  /\ Return(c)
  /\ UNCHANGED <<project, users, departments, members, tasks>>

WriteSubTask(c) ==
  /\ At(c, "updateSubTask", "write")
  /\ LET s == calls[c].subtask
         assignee == calls[c].data.assignee
     IN IF LiveSubTask(s) /\ (assignee # Keep => References(None, assignee))
        THEN subtasks' = [subtasks EXCEPT ![s].assignee = Given(assignee, @)]
        ELSE UNCHANGED subtasks
  /\ Return(c)
  /\ UNCHANGED <<project, users, departments, members, tasks>>

DeleteSubTask(c) ==
  /\ At(c, "removeSubTask", "write")
  /\ subtasks' = [subtasks EXCEPT ![calls[c].subtask] = Gone(@, NoSubTask)]
  /\ Return(c)
  /\ UNCHANGED <<project, users, departments, members, tasks>>

-----------------------------------------------------------------------------
(* What happens to the rows meanwhile, by the handlers of ProjectStructure  *)
(* and UserService and the referential actions of the schema.               *)

SetMember(u, row) ==
  /\ project /\ u \in users /\ row.department \in departments \cup {None}
  /\ members' = [members EXCEPT ![u] = row]
  /\ UNCHANGED <<project, users, departments, tasks, subtasks, calls>>

(* Mutant: deleting a user leaves the user's subtasks as they are. *)
UnassignTasksOnly(u) ==
  /\ tasks' = [t \in TaskIds |->
       IF tasks[t].assignee = u THEN [tasks[t] EXCEPT !.assignee = None] ELSE tasks[t]]
  /\ UNCHANGED subtasks

Unassign(u) ==
  /\ tasks' = [t \in TaskIds |->
       IF tasks[t].assignee = u THEN [tasks[t] EXCEPT !.assignee = None] ELSE tasks[t]]
  /\ subtasks' = [s \in SubTaskIds |->
       IF subtasks[s].assignee = u THEN [subtasks[s] EXCEPT !.assignee = None] ELSE subtasks[s]]

RemoveUser(u) ==
  /\ u \in users
  /\ users' = users \ {u}
  /\ members' = [members EXCEPT ![u] = NoMember]
  /\ Unassign(u)
  /\ UNCHANGED <<project, departments, calls>>

RemoveDepartment(d) ==
  /\ d \in departments
  /\ departments' = departments \ {d}
  /\ members' = [u \in Users |->
       IF members[u].department = d THEN [members[u] EXCEPT !.department = None] ELSE members[u]]
  /\ tasks' = [t \in TaskIds |->
       IF tasks[t].department = d THEN [tasks[t] EXCEPT !.department = None] ELSE tasks[t]]
  /\ UNCHANGED <<project, users, subtasks, calls>>

RemoveProject ==
  /\ project
  /\ project' = FALSE
  /\ departments' = {}
  /\ members' = [u \in Users |-> NoMember]
  /\ DeleteTasks(TaskIds)
  /\ UNCHANGED <<users, calls>>

-----------------------------------------------------------------------------
CallNext(c) ==
  \/ \E v \in Viewer, data \in Patches : CreateTask(c, v, data)
  \/ \E v \in Viewer, t \in TaskIds, data \in Patches : UpdateTask(c, v, t, data)
  \/ \E v \in Viewer, t \in TaskIds : RemoveTask(c, v, t)
  \/ \E v \in Viewer, t \in TaskIds, u \in Users \cup {Keep} : CreateSubTask(c, v, t, u)
  \/ \E v \in Viewer, s \in SubTaskIds, u \in Users \cup {None, Keep} : UpdateSubTask(c, v, s, u)
  \/ \E v \in Viewer, s \in SubTaskIds : RemoveSubTask(c, v, s)
  \/ Check(c)
  \/ \E t \in TaskIds : InsertTask(c, t)
  \/ WriteTask(c)
  \/ DeleteTask(c)
  \/ \E s \in SubTaskIds : InsertSubTask(c, s)
  \/ WriteSubTask(c)
  \/ DeleteSubTask(c)

Next ==
  \/ \E c \in Calls : CallNext(c)
  \/ \E u \in Users, row \in MemberRows : SetMember(u, row)
  \/ \E u \in Users : RemoveUser(u)
  \/ \E d \in Departments : RemoveDepartment(d)
  \/ RemoveProject

Init ==
  /\ project = TRUE /\ users = Users /\ departments = Departments
  /\ members = [u \in Users |-> NoMember]
  /\ tasks = [t \in TaskIds |-> NoTask]
  /\ subtasks = [s \in SubTaskIds |-> NoSubTask]
  /\ calls = [c \in Calls |-> Idle]

Spec == Init /\ [][Next]_vars

-----------------------------------------------------------------------------
(* Two listings of the project's tasks.                                     *)

MayView(u) == members[u].present /\ "canView" \in members[u].rights.task
InProject == {t \in TaskIds : LiveTask(t)}

(* Mutant: the assignment does not count once a department is set. *)
GetTasksOfDepartment(u, d) ==
  LET own == members[u].department
      asked == IF d = None THEN own ELSE d
  IN {t \in InProject : MayView(u) /\ (asked = None \/ tasks[t].department \in {asked, None})}

(* getTasks of a member, of one department or (None) of all. *)
GetTasks(u, d) ==
  LET own == members[u].department
      inScope(t) == own = None \/ tasks[t].department \in {own, None} \/ tasks[t].assignee = u
  IN {t \in InProject :
        /\ MayView(u)
        /\ IF d = None THEN inScope(t)
                       ELSE tasks[t].department = d /\ own \in {d, None}}

(* The tasks of the project that applyViewerPolicyOnProject leaves in. *)
TasksOfProject(u) ==
  {t \in InProject :
     /\ MayView(u)
     /\ tasks[t].department \in {None, members[u].department} \/ tasks[t].assignee = u}

-----------------------------------------------------------------------------
(* Properties *)

(* Type invariant. *)
TypeOK ==
  /\ project \in BOOLEAN /\ users \subseteq Users /\ departments \subseteq Departments
  /\ members \in [Users -> MemberRow]
  /\ tasks \in [TaskIds -> TaskRow]
  /\ subtasks \in [SubTaskIds -> SubTaskRow]
  /\ calls \in [Calls -> Call]

(* Whatever is removed while a handler waits between its reads and its      *)
(* write, what a task or subtask points to exists.                          *)
NothingDangles ==
  /\ \A t \in InProject :
       /\ project
       /\ tasks[t].department \in departments \cup {None}
       /\ tasks[t].assignee \in users \cup {None}
  /\ \A s \in SubTaskIds : LiveSubTask(s) =>
       /\ subtasks[s].task \in InProject
       /\ subtasks[s].assignee \in users \cup {None}

(* Overlapping edits never undo each other: a column of a task that stays   *)
(* changes only to what a call in flight was given for it, or to null with  *)
(* the row it named.                                                        *)
Writing(t) == {c \in Calls : /\ At(c, "updateTask", "write") /\ calls[c].task = t
                             /\ calls'[c] = Idle}

ChangesAsGiven(t, column) ==
  \/ tasks'[t][column] = tasks[t][column]
  \/ column # "creator" /\ \E c \in Writing(t) : tasks'[t][column] = calls[c].data[column]
  \/ column = "department" /\ tasks[t].department \notin departments' /\ tasks'[t].department = None
  \/ column = "assignee" /\ tasks[t].assignee \notin users' /\ tasks'[t].assignee = None

EditsKeepTheRest ==
  [][\A t \in TaskIds, column \in {"creator", "department", "assignee", "text", "status"} :
       LiveTask(t) /\ LiveTask(t)' => ChangesAsGiven(t, column)]_vars

(* project.service.ts:1319 and 1323, "Only the task creator can delegate    *)
(* this task", "Only the task creator can validate task completion": among  *)
(* the users, whatever has changed since the call was checked.  The creator *)
(* is a number, so a user with the number of the admin that created the     *)
(* task counts as its creator.                                              *)
ByCreator(t) == \E c \in Writing(t) : ByAdmin(calls[c].viewer) \/ calls[c].viewer.id = tasks[t].creator

CreatorDelegatesAndValidates ==
  [][\A t \in TaskIds : LiveTask(t) /\ LiveTask(t)' =>
       /\ tasks'[t].assignee \notin {tasks[t].assignee, None} => ByCreator(t)
       /\ tasks'[t].status = Done /\ tasks[t].status # Done => ByCreator(t)]_vars

(* The two listings, each with its own idea of what is in a viewer's scope, *)
(* show a member who has a department the same tasks; and asking for one    *)
(* department narrows the list and never reveals a task.                    *)
ListingsAgree ==
  /\ \A u \in Users : members[u].department # None => GetTasks(u, None) = TasksOfProject(u)
  /\ \A u \in Users, d \in Departments : GetTasks(u, d) \subseteq GetTasks(u, None)
=============================================================================
