---------------------------- MODULE TasksProofs ----------------------------
(***************************************************************************)
(* Proofs about Tasks, for any accounts, departments and inputs and any    *)
(* number of calls in flight: nothing dangles, edits do not undo each      *)
(* other, only the creator delegates and validates, and the two listings   *)
(* agree.                                                                  *)
(***************************************************************************)
EXTENDS Tasks, TLAPS

(* What a call in flight has been given, by its operation. *)
CallOK(call) ==
  /\ call.at = "check" => call.viewer \in [role: {"user"}, id: Users]
  /\ call.at = "write" => call.viewer \in Viewer
  /\ call.op = "createTask" => call.data.text \in Texts
  /\ call.op \in {"updateTask", "removeTask", "createSubTask"} => call.task \in TaskIds
  /\ call.op \in {"updateSubTask", "removeSubTask"} => call.subtask \in SubTaskIds

CallsOK == \A c \in Calls : CallOK(calls[c])

(* What a passed check has established, as long as the task is there. *)
Entitled(call) ==
  call.data.assignee # Keep \/ call.data.status = Done
    => call.viewer.id = tasks[call.task].creator

UpdateOK(call) ==
  call.op = "updateTask" =>
    /\ tasks[call.task].state # "unborn"
    /\ call.at = "write" /\ ~ByAdmin(call.viewer) /\ LiveTask(call.task) => Entitled(call)

UpdatesOK == \A c \in Calls : UpdateOK(calls[c])

-----------------------------------------------------------------------------
LEMMA InitOK == Init => TypeOK /\ CallsOK /\ UpdatesOK /\ NothingDangles
<1> SUFFICES ASSUME Init PROVE TypeOK /\ CallsOK /\ UpdatesOK /\ NothingDangles
  OBVIOUS
<1>1. NoMember \in MemberRow /\ NoTask \in TaskRow /\ NoSubTask \in SubTaskRow /\ Idle \in Call
  BY DEF NoMember, MemberRow, NoRights, Rights, NoTask, TaskRow, NoSubTask, SubTaskRow, Idle, Call,
         NoPatch, Patch, NoViewer, RowStates, Actions
<1>2. TypeOK
  BY <1>1 DEF Init, TypeOK
<1>3. CallsOK /\ UpdatesOK
  BY DEF Init, CallsOK, CallOK, UpdatesOK, UpdateOK, Idle
<1>4. NothingDangles
  BY DEF Init, NothingDangles, InProject, LiveTask, LiveSubTask, NoTask, NoSubTask
<1>. QED BY <1>2, <1>3, <1>4

(* Rows that are deleted keep their type. *)
LEMMA GoneRows ==
  /\ \A row \in TaskRow : Gone(row, NoTask) \in TaskRow
  /\ \A row \in SubTaskRow : Gone(row, NoSubTask) \in SubTaskRow
BY DEF Gone, NoTask, NoSubTask, TaskRow, SubTaskRow, RowStates

LEMMA DeleteTasksType ==
  ASSUME TypeOK, NEW T \in SUBSET TaskIds, DeleteTasks(T)
  PROVE  tasks' \in [TaskIds -> TaskRow] /\ subtasks' \in [SubTaskIds -> SubTaskRow]
BY GoneRows DEF DeleteTasks, TypeOK

(* A call begins with what its operation needs. *)
LEMMA BeginType ==
  ASSUME TypeOK, CallsOK, NEW c \in Calls, NEW v \in Viewer, NEW call \in Call,
         call.op = "createTask" => call.data.text \in Texts,
         call.op \in {"updateTask", "removeTask", "createSubTask"} => call.task \in TaskIds,
         call.op \in {"updateSubTask", "removeSubTask"} => call.subtask \in SubTaskIds,
         Begin(c, v, call)
  PROVE  TypeOK' /\ CallsOK'
<1> DEFINE step == IF ByAdmin(v) THEN "write" ELSE "check"
<1> DEFINE begun == [call EXCEPT !.viewer = v, !.at = step]
<1>1. calls' = [calls EXCEPT ![c] = begun]
  BY DEF Begin
<1>2. begun \in Call
  BY DEF Call
<1>3. ~ByAdmin(v) => v \in [role: {"user"}, id: Users]
  BY DEF ByAdmin, Viewer
<1>4. /\ begun.op = call.op /\ begun.task = call.task /\ begun.subtask = call.subtask
      /\ begun.data = call.data /\ begun.viewer = v /\ begun.at = step
  BY DEF Call
<1>5. CallOK(begun)
  BY <1>3, <1>4 DEF CallOK
<1> HIDE DEF begun
<1>. QED BY <1>1, <1>2, <1>5 DEF Begin, TypeOK, CallsOK

LEMMA ReturnType ==
  ASSUME TypeOK, CallsOK, NEW c \in Calls, Return(c)
  PROVE  calls' \in [Calls -> Call] /\ CallsOK'
<1>1. Idle \in Call /\ CallOK(Idle)
  BY DEF Idle, Call, NoPatch, Patch, NoViewer, CallOK
<1>. QED BY <1>1 DEF Return, TypeOK, CallsOK

-----------------------------------------------------------------------------
(* Given what is stored, a patched or new row is a row. *)
LEMMA PatchedType ==
  ASSUME NEW row \in TaskRow, NEW data \in Patch
  PROVE  PatchedTask(row, data) \in TaskRow
<1> DEFINE text == Given(data.text, row.text)
<1> DEFINE status == Given(data.status, row.status)
<1> DEFINE assignee == Given(data.assignee, row.assignee)
<1>1. text \in Texts \cup {None} /\ status \in Statuses \cup {None} /\ assignee \in Users \cup {None}
  BY DEF Given, TaskRow, Patch
<1>2. PatchedTask(row, data) = [row EXCEPT !.text = text, !.status = status, !.assignee = assignee]
  BY DEF PatchedTask, TaskRow
<1> HIDE DEF text, status, assignee
<1>3. [row EXCEPT !.text = text, !.status = status, !.assignee = assignee] \in TaskRow
  BY <1>1 DEF TaskRow
<1>. QED BY <1>2, <1>3

LEMMA NewTaskType ==
  ASSUME NEW call \in Call, CallOK(call), call.op = "createTask", call.at = "write"
  PROVE  NewTask(call) \in TaskRow
<1>1. call.viewer.id \in Admins \cup Users
  BY DEF CallOK, Viewer
<1>2. call.data.text \in Texts /\ "pending" \in Statuses
  BY TasksAssumption DEF CallOK
<1>3. Given(call.data.department, None) \in Departments \cup {None}
      /\ Given(call.data.assignee, None) \in Users \cup {None}
  BY DEF Given, Call, Patch
<1>. QED BY <1>1, <1>2, <1>3 DEF NewTask, TaskRow, RowStates

LEMMA CheckType ==
  ASSUME TypeOK, CallsOK, NEW c \in Calls, Check(c)
  PROVE  TypeOK' /\ CallsOK'
<1> DEFINE call == calls[c]
<1>1. call \in Call /\ CallOK(call) /\ call.at = "check"
  BY DEF TypeOK, CallsOK, Check
<1>2. call.viewer \in [role: {"user"}, id: Users] /\ call.viewer \in Viewer
  BY <1>1 DEF CallOK, Viewer
<1>3. members[call.viewer.id].department \in Departments \cup {None} /\ call.viewer.id \in Users
  BY <1>2 DEF TypeOK, MemberRow
<1>4. Defaults(call) \in Patch /\ Defaults(call).text = call.data.text
  BY <1>1, <1>3 DEF Defaults, Given, Call, Patch
<1>5. CASE Return(c)
  BY <1>5, ReturnType DEF Check, TypeOK
<1>6. CASE calls' = [calls EXCEPT ![c].at = "write", ![c].data = Defaults(call)]
  <2> DEFINE new == [call EXCEPT !.at = "write", !.data = Defaults(call)]
  <2>1. calls' = [calls EXCEPT ![c] = new]
    BY <1>6 DEF TypeOK
  <2>2. new \in Call
    BY <1>1, <1>4 DEF Call
  <2>3. CallOK(new)
    <3>1. /\ new.op = call.op /\ new.task = call.task /\ new.subtask = call.subtask
          /\ new.viewer = call.viewer /\ new.at = "write" /\ new.data.text = call.data.text
      BY <1>1, <1>4 DEF Call
    <3> HIDE DEF new
    <3>. QED BY <1>1, <1>2, <3>1 DEF CallOK
  <2> HIDE DEF new
  <2>. QED BY <2>1, <2>2, <2>3 DEF Check, TypeOK, CallsOK
<1>. QED BY <1>5, <1>6 DEF Check

LEMMA TypeStep == TypeOK /\ CallsOK /\ [Next]_vars => TypeOK' /\ CallsOK'
<1> SUFFICES ASSUME TypeOK, CallsOK, [Next]_vars PROVE TypeOK' /\ CallsOK'
  OBVIOUS
<1> USE DEF RowStates
<1>0. Idle \in Call /\ NoPatch \in Patch
  BY DEF Idle, Call, NoPatch, Patch, NoViewer
<1>1. CASE UNCHANGED vars
  BY <1>1 DEF vars, TypeOK, CallsOK
<1>2. ASSUME NEW c \in Calls, NEW v \in Viewer, NEW data \in Patches, CreateTask(c, v, data)
      PROVE  TypeOK' /\ CallsOK'
  <2> DEFINE call == [Idle EXCEPT !.op = "createTask", !.data = data]
  <2>1. data \in Patch /\ data.text \in Texts
    BY <1>2, TasksAssumption DEF CreateTask, Patch
  <2>2. call \in Call /\ call.op = "createTask" /\ call.data.text \in Texts
    BY <1>0, <2>1 DEF Idle, Call, Ops
  <2>3. Begin(c, v, call)
    BY <1>2 DEF CreateTask
  <2> HIDE DEF call
  <2>. QED BY <2>2, <2>3, BeginType
<1>3. ASSUME NEW c \in Calls, NEW v \in Viewer, NEW t \in TaskIds, NEW data \in Patches,
             UpdateTask(c, v, t, data)
      PROVE  TypeOK' /\ CallsOK'
  <2> DEFINE call == [Idle EXCEPT !.op = "updateTask", !.task = t, !.data = data,
                                  !.assignee = tasks[t].assignee]
  <2>1. data \in Patch /\ tasks[t].assignee \in Users \cup {None}
    BY TasksAssumption DEF TypeOK, TaskRow
  <2>2. call \in Call /\ call.op = "updateTask" /\ call.task \in TaskIds
    BY <1>0, <2>1 DEF Idle, Call, Ops
  <2>3. Begin(c, v, call)
    BY <1>3 DEF UpdateTask
  <2> HIDE DEF call
  <2>. QED BY <2>2, <2>3, BeginType
<1>4. ASSUME NEW c \in Calls, NEW v \in Viewer, NEW t \in TaskIds, RemoveTask(c, v, t)
      PROVE  TypeOK' /\ CallsOK'
  <2> DEFINE call == [Idle EXCEPT !.op = "removeTask", !.task = t]
  <2>1. call \in Call /\ call.op = "removeTask" /\ call.task \in TaskIds
    BY <1>0 DEF Idle, Call, Ops
  <2>2. Begin(c, v, call)
    BY <1>4 DEF RemoveTask
  <2> HIDE DEF call
  <2>. QED BY <2>1, <2>2, BeginType
<1>5. ASSUME NEW c \in Calls, NEW v \in Viewer, NEW t \in TaskIds, NEW u \in Users \cup {Keep},
             CreateSubTask(c, v, t, u)
      PROVE  TypeOK' /\ CallsOK'
  <2> DEFINE call == [Idle EXCEPT !.op = "createSubTask", !.task = t, !.data.assignee = u]
  <2>1. call \in Call /\ call.op = "createSubTask" /\ call.task \in TaskIds
    <3>1. [NoPatch EXCEPT !.assignee = u] \in Patch
      BY DEF Patch, NoPatch
    <3>2. call = [Idle EXCEPT !.op = "createSubTask", !.task = t,
                              !.data = [NoPatch EXCEPT !.assignee = u]]
      BY DEF Idle
    <3>. QED BY <1>0, <3>1, <3>2 DEF Idle, Call, Ops
  <2>2. Begin(c, v, call)
    BY <1>5 DEF CreateSubTask
  <2> HIDE DEF call
  <2>. QED BY <2>1, <2>2, BeginType
<1>6. ASSUME NEW c \in Calls, NEW v \in Viewer, NEW s \in SubTaskIds, NEW u \in Users \cup {None, Keep},
             UpdateSubTask(c, v, s, u)
      PROVE  TypeOK' /\ CallsOK'
  <2> DEFINE call == [Idle EXCEPT !.op = "updateSubTask", !.subtask = s, !.data.assignee = u]
  <2>1. call \in Call /\ call.op = "updateSubTask" /\ call.subtask \in SubTaskIds
    <3>1. [NoPatch EXCEPT !.assignee = u] \in Patch
      BY DEF Patch, NoPatch
    <3>2. call = [Idle EXCEPT !.op = "updateSubTask", !.subtask = s,
                              !.data = [NoPatch EXCEPT !.assignee = u]]
      BY DEF Idle
    <3>. QED BY <1>0, <3>1, <3>2 DEF Idle, Call, Ops
  <2>2. Begin(c, v, call)
    BY <1>6 DEF UpdateSubTask
  <2> HIDE DEF call
  <2>. QED BY <2>1, <2>2, BeginType
<1>7. ASSUME NEW c \in Calls, NEW v \in Viewer, NEW s \in SubTaskIds, RemoveSubTask(c, v, s)
      PROVE  TypeOK' /\ CallsOK'
  <2> DEFINE call == [Idle EXCEPT !.op = "removeSubTask", !.subtask = s]
  <2>1. call \in Call /\ call.op = "removeSubTask" /\ call.subtask \in SubTaskIds
    BY <1>0 DEF Idle, Call, Ops
  <2>2. Begin(c, v, call)
    BY <1>7 DEF RemoveSubTask
  <2> HIDE DEF call
  <2>. QED BY <2>1, <2>2, BeginType
<1>8. ASSUME NEW c \in Calls, Check(c) PROVE TypeOK' /\ CallsOK'
  BY <1>8, CheckType
<1>9. ASSUME NEW c \in Calls, NEW t \in TaskIds, InsertTask(c, t) PROVE TypeOK' /\ CallsOK'
  <2>1. NewTask(calls[c]) \in TaskRow
    BY <1>9, NewTaskType DEF InsertTask, At, TypeOK, CallsOK
  <2>2. tasks' \in [TaskIds -> TaskRow]
    BY <1>9, <2>1 DEF InsertTask, TypeOK
  <2>. QED BY <1>9, <2>2, ReturnType DEF InsertTask, TypeOK
<1>10. ASSUME NEW c \in Calls, WriteTask(c) PROVE TypeOK' /\ CallsOK'
  <2>1. calls[c].task \in TaskIds /\ calls[c].data \in Patch
    BY <1>10 DEF WriteTask, At, TypeOK, CallsOK, CallOK, Call
  <2>2. PatchedTask(tasks[calls[c].task], calls[c].data) \in TaskRow
    BY <2>1, PatchedType DEF TypeOK
  <2>3. tasks' \in [TaskIds -> TaskRow]
    BY <1>10, <2>1, <2>2 DEF WriteTask, TypeOK
  <2>. QED BY <1>10, <2>3, ReturnType DEF WriteTask, TypeOK
<1>11. ASSUME NEW c \in Calls, DeleteTask(c) PROVE TypeOK' /\ CallsOK'
  <2>1. {calls[c].task} \in SUBSET TaskIds
    BY <1>11 DEF DeleteTask, At, CallsOK, CallOK
  <2>. QED BY <1>11, <2>1, DeleteTasksType, ReturnType DEF DeleteTask, TypeOK
<1>12. ASSUME NEW c \in Calls, NEW s \in SubTaskIds, InsertSubTask(c, s) PROVE TypeOK' /\ CallsOK'
  <2>1. calls[c].task \in TaskIds /\ Given(calls[c].data.assignee, None) \in Users \cup {None}
    BY <1>12 DEF InsertSubTask, At, TypeOK, CallsOK, CallOK, Call, Patch, Given
  <2>2. subtasks' \in [SubTaskIds -> SubTaskRow]
    BY <1>12, <2>1 DEF InsertSubTask, TypeOK, SubTaskRow
  <2>. QED BY <1>12, <2>2, ReturnType DEF InsertSubTask, TypeOK
<1>13. ASSUME NEW c \in Calls, WriteSubTask(c) PROVE TypeOK' /\ CallsOK'
  <2>1. calls[c].subtask \in SubTaskIds /\ calls[c].data.assignee \in Users \cup {None, Keep}
    BY <1>13 DEF WriteSubTask, At, TypeOK, CallsOK, CallOK, Call, Patch
  <2>2. subtasks' \in [SubTaskIds -> SubTaskRow]
    BY <1>13, <2>1 DEF WriteSubTask, TypeOK, SubTaskRow, Given
  <2>. QED BY <1>13, <2>2, ReturnType DEF WriteSubTask, TypeOK
<1>14. ASSUME NEW c \in Calls, DeleteSubTask(c) PROVE TypeOK' /\ CallsOK'
  <2>1. subtasks' \in [SubTaskIds -> SubTaskRow]
    BY <1>14, GoneRows DEF DeleteSubTask, TypeOK
  <2>. QED BY <1>14, <2>1, ReturnType DEF DeleteSubTask, TypeOK
<1>15. ASSUME NEW u \in Users, NEW row \in MemberRows, SetMember(u, row) PROVE TypeOK' /\ CallsOK'
  <2>1. row \in MemberRow
    BY TasksAssumption
  <2>. QED BY <1>15, <2>1 DEF SetMember, TypeOK, CallsOK
<1>16. ASSUME NEW u \in Users, RemoveUser(u) PROVE TypeOK' /\ CallsOK'
  <2>1. NoMember \in MemberRow
    BY DEF NoMember, MemberRow, NoRights, Rights
  <2>2. tasks' \in [TaskIds -> TaskRow] /\ subtasks' \in [SubTaskIds -> SubTaskRow]
    <3>1. /\ \A row \in TaskRow : [row EXCEPT !.assignee = None] \in TaskRow
          /\ \A row \in SubTaskRow : [row EXCEPT !.assignee = None] \in SubTaskRow
      BY DEF TaskRow, SubTaskRow
    <3>. QED BY <1>16, <3>1 DEF RemoveUser, Unassign, TypeOK
  <2>. QED BY <1>16, <2>1, <2>2 DEF RemoveUser, TypeOK, CallsOK
<1>17. ASSUME NEW d \in Departments, RemoveDepartment(d) PROVE TypeOK' /\ CallsOK'
  <2>1. tasks' \in [TaskIds -> TaskRow]
    <3>1. \A row \in TaskRow : [row EXCEPT !.department = None] \in TaskRow
      BY DEF TaskRow
    <3>. QED BY <1>17, <3>1 DEF RemoveDepartment, TypeOK
  <2>2. members' \in [Users -> MemberRow]
    <3>1. \A row \in MemberRow : [row EXCEPT !.department = None] \in MemberRow
      BY DEF MemberRow
    <3>. QED BY <1>17, <3>1 DEF RemoveDepartment, TypeOK
  <2>. QED BY <1>17, <2>1, <2>2 DEF RemoveDepartment, TypeOK, CallsOK
<1>18. ASSUME RemoveProject PROVE TypeOK' /\ CallsOK'
  <2>1. NoMember \in MemberRow
    BY DEF NoMember, MemberRow, NoRights, Rights
  <2>. QED BY <1>18, <2>1, DeleteTasksType DEF RemoveProject, TypeOK, CallsOK
<1>. QED BY <1>1, <1>2, <1>3, <1>4, <1>5, <1>6, <1>7, <1>8, <1>9, <1>10, <1>11, <1>12, <1>13,
            <1>14, <1>15, <1>16, <1>17, <1>18 DEF Next, CallNext

(* Type correctness: the tables and the calls in flight keep their types,  *)
(* and a call keeps what its operation needs.                              *)
THEOREM TypeCorrect == Spec => []TypeOK
<1>. QED BY InitOK, TypeStep, PTL DEF Spec

-----------------------------------------------------------------------------
(* What a step does to a task that exists before and after it: nothing, an *)
(* update as the call was given, or nulling a reference to a removed row.  *)
NullsDepartment(t) ==
  /\ tasks[t].department \notin departments'
  /\ tasks'[t] = [tasks[t] EXCEPT !.department = None]

NullsAssignee(t) ==
  /\ tasks[t].assignee \notin users'
  /\ tasks'[t] = [tasks[t] EXCEPT !.assignee = None]

LEMMA LiveTaskStep ==
  ASSUME TypeOK, CallsOK, [Next]_vars, NEW t \in TaskIds, LiveTask(t), LiveTask(t)'
  PROVE  \/ tasks'[t] = tasks[t]
         \/ \E c \in Writing(t) : tasks'[t] = PatchedTask(tasks[t], calls[c].data)
         \/ NullsDepartment(t)
         \/ NullsAssignee(t)
<1> USE DEF LiveTask
<1>1. CASE UNCHANGED vars
  BY <1>1 DEF vars
<1>2. ASSUME NEW c \in Calls, CallNext(c), UNCHANGED tasks PROVE tasks'[t] = tasks[t]
  BY <1>2
<1>3. ASSUME NEW c \in Calls, NEW n \in TaskIds, InsertTask(c, n) PROVE tasks'[t] = tasks[t]
  BY <1>3 DEF InsertTask, TypeOK
<1>4. ASSUME NEW c \in Calls, WriteTask(c)
      PROVE  \/ tasks'[t] = tasks[t]
             \/ \E w \in Writing(t) : tasks'[t] = PatchedTask(tasks[t], calls[w].data)
  <2>1. CASE calls[c].task # t
    BY <1>4, <2>1 DEF WriteTask, TypeOK
  <2>2. CASE calls[c].task = t
    <3>1. c \in Writing(t)
      BY <1>4, <2>2 DEF WriteTask, Writing, Return, TypeOK
    <3>2. tasks'[t] = tasks[t] \/ tasks'[t] = PatchedTask(tasks[t], calls[c].data)
      BY <1>4, <2>2 DEF WriteTask, TypeOK
    <3>. QED BY <3>1, <3>2
  <2>. QED BY <2>1, <2>2
<1>5. ASSUME NEW T, DeleteTasks(T) PROVE tasks'[t] = tasks[t]
  BY <1>5 DEF DeleteTasks, Gone, NoTask
<1>6. ASSUME NEW u \in Users, RemoveUser(u) PROVE tasks'[t] = tasks[t] \/ NullsAssignee(t)
  BY <1>6 DEF RemoveUser, Unassign, NullsAssignee
<1>7. ASSUME NEW d \in Departments, RemoveDepartment(d) PROVE tasks'[t] = tasks[t] \/ NullsDepartment(t)
  BY <1>7 DEF RemoveDepartment, NullsDepartment
<1>8. ASSUME NEW c \in Calls, CallNext(c)
      PROVE  \/ UNCHANGED tasks
             \/ \E n \in TaskIds : InsertTask(c, n)
             \/ WriteTask(c)
             \/ DeleteTasks({calls[c].task})
  BY <1>8 DEF CallNext, CreateTask, UpdateTask, RemoveTask, CreateSubTask, UpdateSubTask,
              RemoveSubTask, Begin, Check, DeleteTask, InsertSubTask, WriteSubTask, DeleteSubTask
<1>. QED BY <1>1, <1>2, <1>3, <1>4, <1>5, <1>6, <1>7, <1>8 DEF Next, SetMember, RemoveProject

(* A task that was ever created is never created again. *)
LEMMA BornTaskStep ==
  ASSUME TypeOK, CallsOK, [Next]_vars, NEW t \in TaskIds, tasks[t].state # "unborn"
  PROVE  tasks'[t].state # "unborn" /\ (LiveTask(t)' => LiveTask(t))
<1> USE DEF LiveTask
<1>1. CASE UNCHANGED vars
  BY <1>1 DEF vars
<1>2. ASSUME NEW c \in Calls, NEW n \in TaskIds, InsertTask(c, n) PROVE tasks'[t] = tasks[t]
  BY <1>2 DEF InsertTask, TypeOK
<1>3. ASSUME NEW c \in Calls, WriteTask(c) PROVE tasks'[t].state = tasks[t].state
  <2>1. PatchedTask(tasks[t], calls[c].data).state = tasks[t].state
    BY DEF PatchedTask, TypeOK, TaskRow
  <2>. QED BY <1>3, <2>1 DEF WriteTask, TypeOK
<1>4. ASSUME NEW T, DeleteTasks(T)
      PROVE  tasks'[t].state # "unborn" /\ (tasks'[t].state = "live" => tasks[t].state = "live")
  BY <1>4 DEF DeleteTasks, Gone, NoTask
<1>5. ASSUME NEW u \in Users, RemoveUser(u) PROVE tasks'[t].state = tasks[t].state
  BY <1>5 DEF RemoveUser, Unassign, TypeOK, TaskRow
<1>6. ASSUME NEW d \in Departments, RemoveDepartment(d) PROVE tasks'[t].state = tasks[t].state
  BY <1>6 DEF RemoveDepartment, TypeOK, TaskRow
<1>7. ASSUME NEW c \in Calls, CallNext(c)
      PROVE  \/ UNCHANGED tasks
             \/ \E n \in TaskIds : InsertTask(c, n)
             \/ WriteTask(c)
             \/ DeleteTasks({calls[c].task})
  BY <1>7 DEF CallNext, CreateTask, UpdateTask, RemoveTask, CreateSubTask, UpdateSubTask,
              RemoveSubTask, Begin, Check, DeleteTask, InsertSubTask, WriteSubTask, DeleteSubTask
<1>8. ASSUME NEW c \in Calls, CallNext(c)
      PROVE  tasks'[t].state # "unborn" /\ (tasks'[t].state = "live" => tasks[t].state = "live")
  BY <1>2, <1>3, <1>4, <1>7, <1>8
<1>9. ASSUME NEW u \in Users, NEW row \in MemberRows, SetMember(u, row)
      PROVE  tasks'[t].state = tasks[t].state
  BY <1>9 DEF SetMember
<1>10. ASSUME RemoveProject
       PROVE  tasks'[t].state # "unborn" /\ (tasks'[t].state = "live" => tasks[t].state = "live")
  BY <1>4, <1>10 DEF RemoveProject
<1>. QED BY <1>1, <1>5, <1>6, <1>8, <1>9, <1>10 DEF Next

(* Overlapping edits never undo each other, however many are in flight.    *)
LEMMA EditStep ==
  ASSUME TypeOK, CallsOK, [Next]_vars, NEW t \in TaskIds, LiveTask(t), LiveTask(t)',
         NEW column \in {"creator", "department", "assignee", "text", "status"}
  PROVE  ChangesAsGiven(t, column)
<1>1. tasks[t] \in TaskRow
  BY DEF TypeOK
<1>2. CASE tasks'[t] = tasks[t]
  BY <1>2 DEF ChangesAsGiven
<1>3. ASSUME NEW c \in Writing(t), tasks'[t] = PatchedTask(tasks[t], calls[c].data)
      PROVE  ChangesAsGiven(t, column)
  <2> DEFINE row == tasks[t]
  <2> DEFINE data == calls[c].data
  <2> DEFINE new == PatchedTask(row, data)
  <2>1. new.creator = row.creator /\ new.department = row.department
    BY <1>1 DEF PatchedTask, TaskRow
  <2>2. new.text \in {row.text, data.text}
    BY <1>1 DEF PatchedTask, Given, TaskRow
  <2>3. new.status \in {row.status, data.status}
    BY <1>1 DEF PatchedTask, Given, TaskRow
  <2>4. new.assignee \in {row.assignee, data.assignee}
    BY <1>1 DEF PatchedTask, Given, TaskRow
  <2> HIDE DEF new
  <2>. QED BY <1>3, <2>1, <2>2, <2>3, <2>4 DEF ChangesAsGiven, new
<1>4. CASE NullsDepartment(t)
  BY <1>1, <1>4 DEF NullsDepartment, ChangesAsGiven, TaskRow
<1>5. CASE NullsAssignee(t)
  BY <1>1, <1>5 DEF NullsAssignee, ChangesAsGiven, TaskRow
<1>. QED BY <1>2, <1>3, <1>4, <1>5, LiveTaskStep

(* A column of a task that stays changes only to what a call was given, or *)
(* to null with the row it named.                                          *)
THEOREM EditsDoNotUndo == Spec => EditsKeepTheRest
<1>1. TypeOK /\ CallsOK /\ [Next]_vars
      => [\A t \in TaskIds, column \in {"creator", "department", "assignee", "text", "status"} :
            LiveTask(t) /\ LiveTask(t)' => ChangesAsGiven(t, column)]_vars
  BY EditStep
<1>. QED BY <1>1, InitOK, TypeStep, PTL DEF Spec, EditsKeepTheRest

-----------------------------------------------------------------------------
(* An update in flight keeps what its check has established: the creator   *)
(* of a task never changes, and the call keeps its inputs until it ends.   *)
LEMMA OtherCallStep ==
  ASSUME TypeOK, CallsOK, UpdatesOK, [Next]_vars, NEW c \in Calls, calls'[c] = calls[c]
  PROVE  UpdateOK(calls[c])'
<1> DEFINE call == calls[c]
<1>1. UpdateOK(call)
  BY DEF UpdatesOK
<1> SUFFICES ASSUME call.op = "updateTask"
             PROVE  /\ tasks'[call.task].state # "unborn"
                    /\ call.at = "write" /\ ~ByAdmin(call.viewer) /\ LiveTask(call.task)'
                         => (call.data.assignee # Keep \/ call.data.status = Done
                               => call.viewer.id = tasks'[call.task].creator)
  BY DEF UpdateOK, Entitled, LiveTask
<1>2. call.task \in TaskIds
  BY DEF CallsOK, CallOK
<1>3. tasks[call.task].state # "unborn"
  BY <1>1 DEF UpdateOK
<1>4. tasks'[call.task].state # "unborn" /\ (LiveTask(call.task)' => LiveTask(call.task))
  BY <1>2, <1>3, BornTaskStep DEF LiveTask
<1>5. LiveTask(call.task)' => tasks'[call.task].creator = tasks[call.task].creator
  <2> SUFFICES ASSUME LiveTask(call.task)'
               PROVE  tasks'[call.task].creator = tasks[call.task].creator
    OBVIOUS
  <2>1. ChangesAsGiven(call.task, "creator")
    BY <1>2, <1>4, EditStep
  <2>. QED BY <2>1 DEF ChangesAsGiven
<1>. QED BY <1>1, <1>4, <1>5 DEF UpdateOK, Entitled

(* The calls that start as anything but an update. *)
OtherBegins(c, v) ==
  \/ \E data \in Patches : CreateTask(c, v, data)
  \/ \E t \in TaskIds : RemoveTask(c, v, t)
  \/ \E t \in TaskIds, u \in Users \cup {Keep} : CreateSubTask(c, v, t, u)
  \/ \E s \in SubTaskIds, u \in Users \cup {None, Keep} : UpdateSubTask(c, v, s, u)
  \/ \E s \in SubTaskIds : RemoveSubTask(c, v, s)

LEMMA OtherBeginsType ==
  ASSUME NEW c \in Calls, NEW v \in Viewer, OtherBegins(c, v)
  PROVE  \E call \in Call : call.op # "updateTask" /\ Begin(c, v, call)
<1>0. Idle \in Call /\ Idle.data = NoPatch /\ NoPatch \in Patch
  BY DEF Idle, Call, NoPatch, Patch, NoViewer
<1>1. ASSUME NEW data \in Patches, CreateTask(c, v, data)
      PROVE  \E call \in Call : call.op # "updateTask" /\ Begin(c, v, call)
  <2> DEFINE call == [Idle EXCEPT !.op = "createTask", !.data = data]
  <2>1. call \in Call /\ call.op = "createTask"
    BY <1>0, TasksAssumption DEF Idle, Call, Ops
  <2>2. Begin(c, v, call)
    BY <1>1 DEF CreateTask
  <2> HIDE DEF call
  <2>. QED BY <2>1, <2>2
<1>2. ASSUME NEW t \in TaskIds, RemoveTask(c, v, t)
      PROVE  \E call \in Call : call.op # "updateTask" /\ Begin(c, v, call)
  <2> DEFINE call == [Idle EXCEPT !.op = "removeTask", !.task = t]
  <2>1. call \in Call /\ call.op = "removeTask"
    BY <1>0 DEF Idle, Call, Ops
  <2>2. Begin(c, v, call)
    BY <1>2 DEF RemoveTask
  <2> HIDE DEF call
  <2>. QED BY <2>1, <2>2
<1>3. \A u \in Users \cup {None, Keep} : [NoPatch EXCEPT !.assignee = u] \in Patch
  BY DEF Patch, NoPatch
<1>4. ASSUME NEW t \in TaskIds, NEW u \in Users \cup {Keep}, CreateSubTask(c, v, t, u)
      PROVE  \E call \in Call : call.op # "updateTask" /\ Begin(c, v, call)
  <2> DEFINE call == [Idle EXCEPT !.op = "createSubTask", !.task = t, !.data.assignee = u]
  <2>1. call = [Idle EXCEPT !.op = "createSubTask", !.task = t,
                            !.data = [NoPatch EXCEPT !.assignee = u]]
    BY DEF Idle
  <2>2. call \in Call /\ call.op = "createSubTask"
    BY <1>0, <1>3, <2>1 DEF Idle, Call, Ops
  <2>3. Begin(c, v, call)
    BY <1>4 DEF CreateSubTask
  <2> HIDE DEF call
  <2>. QED BY <2>2, <2>3
<1>5. ASSUME NEW s \in SubTaskIds, NEW u \in Users \cup {None, Keep}, UpdateSubTask(c, v, s, u)
      PROVE  \E call \in Call : call.op # "updateTask" /\ Begin(c, v, call)
  <2> DEFINE call == [Idle EXCEPT !.op = "updateSubTask", !.subtask = s, !.data.assignee = u]
  <2>1. call = [Idle EXCEPT !.op = "updateSubTask", !.subtask = s,
                            !.data = [NoPatch EXCEPT !.assignee = u]]
    BY DEF Idle
  <2>2. call \in Call /\ call.op = "updateSubTask"
    BY <1>0, <1>3, <2>1 DEF Idle, Call, Ops
  <2>3. Begin(c, v, call)
    BY <1>5 DEF UpdateSubTask
  <2> HIDE DEF call
  <2>. QED BY <2>2, <2>3
<1>6. ASSUME NEW s \in SubTaskIds, RemoveSubTask(c, v, s)
      PROVE  \E call \in Call : call.op # "updateTask" /\ Begin(c, v, call)
  <2> DEFINE call == [Idle EXCEPT !.op = "removeSubTask", !.subtask = s]
  <2>1. call \in Call /\ call.op = "removeSubTask"
    BY <1>0 DEF Idle, Call, Ops
  <2>2. Begin(c, v, call)
    BY <1>6 DEF RemoveSubTask
  <2> HIDE DEF call
  <2>. QED BY <2>1, <2>2
<1>. QED BY <1>1, <1>2, <1>4, <1>5, <1>6 DEF OtherBegins

LEMMA UpdatesStep ==
  ASSUME TypeOK, CallsOK, UpdatesOK, [Next]_vars
  PROVE  UpdatesOK'
<1> SUFFICES ASSUME NEW c \in Calls, calls'[c] # calls[c]
             PROVE  UpdateOK(calls[c])'
  BY OtherCallStep DEF UpdatesOK
<1>1. ASSUME calls'[c].op # "updateTask" PROVE UpdateOK(calls[c])'
  BY <1>1 DEF UpdateOK
<1>2. ASSUME NEW d \in Calls, Return(d) PROVE calls'[c] = calls[c] \/ calls'[c].op # "updateTask"
  BY <1>2 DEF Return, Idle, TypeOK
<1>3. ASSUME NEW d \in Calls, NEW v \in Viewer, NEW t \in TaskIds, NEW data \in Patches,
             UpdateTask(d, v, t, data), d = c
      PROVE  UpdateOK(calls[c])'
  <2> DEFINE call == [Idle EXCEPT !.op = "updateTask", !.task = t, !.data = data,
                                  !.assignee = tasks[t].assignee]
  <2> DEFINE step == IF ByAdmin(v) THEN "write" ELSE "check"
  <2>1. calls'[c] = [call EXCEPT !.viewer = v, !.at = step]
    BY <1>3 DEF UpdateTask, Begin, TypeOK
  <2>2. calls'[c].task = t /\ calls'[c].viewer = v /\ calls'[c].at = step
    BY <2>1 DEF Idle
  <2>3. tasks'[t].state = "live"
    BY <1>3 DEF UpdateTask, Begin, LiveTask
  <2>4. calls'[c].at = "write" => ByAdmin(calls'[c].viewer)
    BY <2>2
  <2>. QED BY <2>2, <2>3, <2>4 DEF UpdateOK, ByAdmin
<1>4. ASSUME NEW d \in Calls, NEW v \in Viewer, NEW call \in Call, call.op # "updateTask",
             Begin(d, v, call)
      PROVE  calls'[c] = calls[c] \/ calls'[c].op # "updateTask"
  <2> DEFINE step == IF ByAdmin(v) THEN "write" ELSE "check"
  <2>1. [call EXCEPT !.viewer = v, !.at = step].op = call.op
    BY DEF Call
  <2> HIDE DEF step
  <2>2. calls' = [calls EXCEPT ![d] = [call EXCEPT !.viewer = v, !.at = step]]
    BY <1>4 DEF Begin, step
  <2>. QED BY <1>4, <2>1, <2>2 DEF TypeOK
<1>5. ASSUME Check(c) PROVE UpdateOK(calls[c])'
  <2>1. CASE Return(c)
    BY <2>1, <1>2, <1>1
  <2>2. CASE MayProceed(calls[c].viewer.id, calls[c])
             /\ calls' = [calls EXCEPT ![c].at = "write", ![c].data = Defaults(calls[c])]
    <3> DEFINE call == calls[c]
    <3> SUFFICES ASSUME calls'[c].op = "updateTask" PROVE UpdateOK(calls[c])'
      BY <1>1
    <3>1. call \in Call
      BY DEF TypeOK
    <3>2. calls'[c] = [call EXCEPT !.at = "write", !.data = Defaults(call)]
      BY <2>2 DEF TypeOK
    <3>3. call.op = "updateTask" /\ calls'[c].task = call.task /\ calls'[c].viewer = call.viewer
      BY <3>1, <3>2 DEF Call
    <3>4. calls'[c].data = call.data
      BY <3>1, <3>2, <3>3 DEF Call, Defaults
    <3>5. MayUpdate(call.viewer.id, call)
      BY <2>2, <3>3 DEF MayProceed
    <3>6. tasks[call.task].state # "unborn" /\ tasks' = tasks
      BY <1>5, <3>3 DEF UpdatesOK, UpdateOK, Check
    <3>7. Entitled(call)
      BY <3>5 DEF MayUpdate, Entitled
    <3>. QED BY <3>3, <3>4, <3>6, <3>7 DEF UpdateOK, Entitled
  <2>. QED BY <1>5, <2>1, <2>2 DEF Check
<1>6. ASSUME NEW d \in Calls, Check(d) PROVE UpdateOK(calls[c])'
  <2>1. CASE d = c
    BY <1>5, <1>6, <2>1
  <2>2. CASE d # c
    BY <1>6, <2>2 DEF Check, Return, TypeOK
  <2>. QED BY <2>1, <2>2
<1>7. ASSUME NEW d \in Calls, NEW v \in Viewer, NEW t \in TaskIds, NEW data \in Patches,
             UpdateTask(d, v, t, data)
      PROVE  UpdateOK(calls[c])'
  <2>1. CASE d = c
    BY <1>3, <1>7, <2>1
  <2>2. CASE d # c
    BY <1>7, <2>2 DEF UpdateTask, Begin, TypeOK
  <2>. QED BY <2>1, <2>2
<1>8. ASSUME NEW d \in Calls, NEW v \in Viewer, OtherBegins(d, v)
      PROVE  calls'[c].op # "updateTask"
  <2>1. PICK call \in Call : call.op # "updateTask" /\ Begin(d, v, call)
    BY <1>8, OtherBeginsType
  <2>. QED BY <1>4, <2>1
<1>9. ASSUME NEW d \in Calls, CallNext(d)
      PROVE  \/ \E v \in Viewer, t \in TaskIds, data \in Patches : UpdateTask(d, v, t, data)
             \/ \E v \in Viewer : OtherBegins(d, v)
             \/ Check(d)
             \/ Return(d)
  BY <1>9 DEF CallNext, OtherBegins, InsertTask, WriteTask, DeleteTask, InsertSubTask, WriteSubTask,
              DeleteSubTask
<1>10. ASSUME NEW d \in Calls, CallNext(d) PROVE UpdateOK(calls[c])'
  BY <1>1, <1>2, <1>6, <1>7, <1>8, <1>9, <1>10
<1>11. UNCHANGED calls \/ \E d \in Calls : CallNext(d)
  BY DEF Next, vars, SetMember, RemoveUser, RemoveDepartment, RemoveProject
<1>. QED BY <1>10, <1>11

(* Among the users, only the creator of a task gives it an assignee or     *)
(* makes it done.                                                          *)
LEMMA ByCreatorStep ==
  ASSUME TypeOK, CallsOK, UpdatesOK, [Next]_vars, NEW t \in TaskIds, LiveTask(t), LiveTask(t)'
  PROVE  /\ tasks'[t].assignee \notin {tasks[t].assignee, None} => ByCreator(t)
         /\ tasks'[t].status = Done /\ tasks[t].status # Done => ByCreator(t)
<1>1. tasks[t] \in TaskRow
  BY DEF TypeOK
<1>2. CASE tasks'[t] = tasks[t]
  BY <1>2
<1>3. CASE NullsDepartment(t)
  BY <1>1, <1>3 DEF NullsDepartment, TaskRow
<1>4. CASE NullsAssignee(t)
  BY <1>1, <1>4 DEF NullsAssignee, TaskRow
<1>5. ASSUME NEW c \in Writing(t), tasks'[t] = PatchedTask(tasks[t], calls[c].data)
      PROVE  /\ tasks'[t].assignee # tasks[t].assignee => ByCreator(t)
             /\ tasks'[t].status = Done /\ tasks[t].status # Done => ByCreator(t)
  <2> DEFINE data == calls[c].data
  <2>1. c \in Calls /\ calls[c].op = "updateTask" /\ calls[c].at = "write" /\ calls[c].task = t
    BY DEF Writing, At
  <2>2. data.assignee # Keep \/ data.status = Done => ByCreator(t)
    BY <2>1 DEF UpdatesOK, UpdateOK, Entitled, ByCreator
  <2>3. /\ tasks'[t].assignee = Given(data.assignee, tasks[t].assignee)
        /\ tasks'[t].status = Given(data.status, tasks[t].status)
    BY <1>1, <1>5 DEF PatchedTask, TaskRow
  <2>. QED BY <2>2, <2>3 DEF Given
<1>. QED BY <1>2, <1>3, <1>4, <1>5, LiveTaskStep

THEOREM OnlyTheCreatorDelegates == Spec => CreatorDelegatesAndValidates
<1>1. TypeOK /\ CallsOK /\ UpdatesOK /\ [Next]_vars
      => [\A t \in TaskIds : LiveTask(t) /\ LiveTask(t)' =>
            /\ tasks'[t].assignee \notin {tasks[t].assignee, None} => ByCreator(t)
            /\ tasks'[t].status = Done /\ tasks[t].status # Done => ByCreator(t)]_vars
  BY ByCreatorStep
<1>. QED BY <1>1, InitOK, TypeStep, UpdatesStep, PTL DEF Spec, CreatorDelegatesAndValidates

-----------------------------------------------------------------------------
(* Nothing dangles: a write names only rows that exist, and whatever       *)
(* removes a row nulls or deletes what names it.                           *)
TaskPoints(t) ==
  LiveTask(t) =>
    /\ project
    /\ tasks[t].department \in departments \cup {None}
    /\ tasks[t].assignee \in users \cup {None}

SubTaskPoints(s) ==
  LiveSubTask(s) =>
    /\ subtasks[s].task \in TaskIds /\ LiveTask(subtasks[s].task)
    /\ subtasks[s].assignee \in users \cup {None}

LEMMA Points ==
  NothingDangles <=> (\A t \in TaskIds : TaskPoints(t)) /\ (\A s \in SubTaskIds : SubTaskPoints(s))
BY DEF NothingDangles, TaskPoints, SubTaskPoints, InProject

LEMMA PointsPrime ==
  NothingDangles' <=> (\A t \in TaskIds : TaskPoints(t)') /\ (\A s \in SubTaskIds : SubTaskPoints(s)')
BY DEF NothingDangles, TaskPoints, SubTaskPoints, InProject, LiveTask, LiveSubTask

LEMMA SameTables ==
  ASSUME NothingDangles, UNCHANGED <<project, users, departments, tasks, subtasks>>
  PROVE  NothingDangles'
BY DEF NothingDangles, InProject, LiveTask, LiveSubTask

LEMMA WriteTaskDangles ==
  ASSUME TypeOK, CallsOK, NothingDangles, NEW c \in Calls, WriteTask(c)
  PROVE  NothingDangles'
<1> USE DEF LiveTask, LiveSubTask
<1> DEFINE data == calls[c].data
<1>1. CASE UNCHANGED tasks
  BY <1>1, SameTables DEF WriteTask
<1>2. CASE /\ data.assignee # Keep => References(None, data.assignee)
           /\ tasks' = [tasks EXCEPT ![calls[c].task] = PatchedTask(@, data)]
  <2> DEFINE n == calls[c].task
  <2>1. n \in TaskIds
    BY DEF WriteTask, At, CallsOK, CallOK
  <2>2. tasks[n] \in TaskRow
    BY <2>1 DEF TypeOK
  <2>3. /\ tasks'[n].state = tasks[n].state /\ tasks'[n].department = tasks[n].department
        /\ tasks'[n].assignee = Given(data.assignee, tasks[n].assignee)
    <3>1. tasks'[n] = PatchedTask(tasks[n], data)
      BY <1>2, <2>1 DEF TypeOK
    <3>. QED BY <2>2, <3>1 DEF PatchedTask, TaskRow
  <2>4. \A t \in TaskIds : t # n => tasks'[t] = tasks[t]
    BY <1>2 DEF TypeOK
  <2>5. UNCHANGED <<project, users, departments, subtasks>>
    BY DEF WriteTask
  <2>6. \A t \in TaskIds : tasks'[t].state = tasks[t].state
    BY <2>3, <2>4
  <2>7. ASSUME NEW t \in TaskIds PROVE TaskPoints(t)'
    <3>1. CASE t # n
      BY <2>4, <2>5, <3>1, Points DEF TaskPoints
    <3>2. CASE t = n
      BY <1>2, <2>3, <2>5, <3>2, Points DEF TaskPoints, Given, References
    <3>. QED BY <3>1, <3>2
  <2>8. ASSUME NEW s \in SubTaskIds PROVE SubTaskPoints(s)'
    BY <2>5, <2>6, Points DEF SubTaskPoints
  <2>. QED BY <2>7, <2>8, PointsPrime
<1>. QED BY <1>1, <1>2 DEF WriteTask

LEMMA DeleteTasksDangles ==
  ASSUME NothingDangles, NEW T, DeleteTasks(T),
         UNCHANGED <<users, departments, project>> \/ (T = TaskIds /\ UNCHANGED users)
  PROVE  NothingDangles'
<1> USE DEF LiveTask, LiveSubTask
<1>1. \A t \in TaskIds : LiveTask(t)' => t \notin T /\ tasks'[t] = tasks[t]
  BY DEF DeleteTasks, Gone, NoTask
<1>2. \A s \in SubTaskIds : LiveSubTask(s)' => subtasks[s].task \notin T /\ subtasks'[s] = subtasks[s]
  BY DEF DeleteTasks, Gone, NoSubTask
<1>3. \A t \in TaskIds : t \notin T => tasks'[t] = tasks[t]
  BY DEF DeleteTasks
<1>4. ASSUME NEW t \in TaskIds PROVE TaskPoints(t)'
  BY <1>1, Points DEF TaskPoints
<1>5. ASSUME NEW s \in SubTaskIds PROVE SubTaskPoints(s)'
  BY <1>2, <1>3, Points DEF SubTaskPoints
<1>. QED BY <1>4, <1>5, PointsPrime

LEMMA DanglesStep ==
  ASSUME TypeOK, CallsOK, NothingDangles, [Next]_vars
  PROVE  NothingDangles'
<1> USE DEF LiveTask, LiveSubTask
<1>1. CASE UNCHANGED <<project, users, departments, tasks, subtasks>>
  BY <1>1, SameTables
<1>2. ASSUME NEW c \in Calls, NEW n \in TaskIds, InsertTask(c, n) PROVE NothingDangles'
  <2>1. CASE UNCHANGED tasks
    BY <1>2, <2>1, SameTables DEF InsertTask
  <2> DEFINE row == NewTask(calls[c])
  <2>2. CASE project /\ References(row.department, row.assignee) /\ tasks' = [tasks EXCEPT ![n] = row]
    <3>1. tasks[n].state = "unborn" /\ UNCHANGED <<project, users, departments, subtasks>>
      BY <1>2 DEF InsertTask
    <3>2. tasks'[n] = row /\ \A t \in TaskIds : t # n => tasks'[t] = tasks[t]
      BY <2>2 DEF TypeOK
    <3> HIDE DEF row
    <3>3. ASSUME NEW t \in TaskIds PROVE TaskPoints(t)'
      BY <2>2, <3>1, <3>2, Points DEF TaskPoints, References
    <3>4. ASSUME NEW s \in SubTaskIds PROVE SubTaskPoints(s)'
      BY <3>1, <3>2, Points DEF SubTaskPoints
    <3>. QED BY <3>3, <3>4, PointsPrime
  <2>. QED BY <1>2, <2>1, <2>2 DEF InsertTask
<1>3. ASSUME NEW c \in Calls, WriteTask(c) PROVE NothingDangles'
  BY <1>3, WriteTaskDangles
<1>4. ASSUME NEW c \in Calls, DeleteTask(c) PROVE NothingDangles'
  BY <1>4, DeleteTasksDangles DEF DeleteTask
<1>5. ASSUME NEW c \in Calls, NEW n \in SubTaskIds, InsertSubTask(c, n) PROVE NothingDangles'
  <2>1. CASE UNCHANGED subtasks
    BY <1>5, <2>1, SameTables DEF InsertSubTask
  <2> DEFINE assignee == Given(calls[c].data.assignee, None)
  <2>2. CASE /\ LiveTask(calls[c].task) /\ References(None, assignee)
             /\ subtasks' = [subtasks EXCEPT ![n] =
                  [state |-> "live", task |-> calls[c].task, assignee |-> assignee]]
    <3>1. calls[c].task \in TaskIds /\ UNCHANGED <<project, users, departments, tasks>>
      BY <1>5 DEF InsertSubTask, At, CallsOK, CallOK
    <3>2. \A s \in SubTaskIds : s # n => subtasks'[s] = subtasks[s]
      BY <2>2 DEF TypeOK
    <3>3. subtasks'[n].task = calls[c].task /\ subtasks'[n].assignee = assignee
      BY <2>2 DEF TypeOK
    <3> HIDE DEF assignee
    <3>4. ASSUME NEW t \in TaskIds PROVE TaskPoints(t)'
      BY <3>1, Points DEF TaskPoints
    <3>5. ASSUME NEW s \in SubTaskIds PROVE SubTaskPoints(s)'
      BY <2>2, <3>1, <3>2, <3>3, Points DEF SubTaskPoints, References
    <3>. QED BY <3>4, <3>5, PointsPrime
  <2>. QED BY <1>5, <2>1, <2>2 DEF InsertSubTask
<1>6. ASSUME NEW c \in Calls, WriteSubTask(c) PROVE NothingDangles'
  <2>1. CASE UNCHANGED subtasks
    BY <1>6, <2>1, SameTables DEF WriteSubTask
  <2> DEFINE assignee == calls[c].data.assignee
  <2> DEFINE n == calls[c].subtask
  <2>2. CASE /\ assignee # Keep => References(None, assignee)
             /\ subtasks' = [subtasks EXCEPT ![n].assignee = Given(assignee, @)]
    <3>1. n \in SubTaskIds /\ UNCHANGED <<project, users, departments, tasks>>
      BY <1>6 DEF WriteSubTask, At, CallsOK, CallOK
    <3>2. \A s \in SubTaskIds : s # n => subtasks'[s] = subtasks[s]
      BY <2>2 DEF TypeOK
    <3>3. /\ subtasks'[n].state = subtasks[n].state /\ subtasks'[n].task = subtasks[n].task
          /\ subtasks'[n].assignee = Given(assignee, subtasks[n].assignee)
      BY <2>2, <3>1 DEF TypeOK, SubTaskRow
    <3>4. ASSUME NEW t \in TaskIds PROVE TaskPoints(t)'
      BY <3>1, Points DEF TaskPoints
    <3>5. ASSUME NEW s \in SubTaskIds PROVE SubTaskPoints(s)'
      BY <2>2, <3>1, <3>2, <3>3, Points DEF SubTaskPoints, References, Given
    <3>. QED BY <3>4, <3>5, PointsPrime
  <2>. QED BY <1>6, <2>1, <2>2 DEF WriteSubTask
<1>7. ASSUME NEW c \in Calls, DeleteSubTask(c) PROVE NothingDangles'
  <2>1. UNCHANGED <<project, users, departments, tasks>>
    BY <1>7 DEF DeleteSubTask
  <2>2. \A s \in SubTaskIds : LiveSubTask(s)' => subtasks'[s] = subtasks[s]
    BY <1>7 DEF DeleteSubTask, Gone, NoSubTask, TypeOK
  <2>3. ASSUME NEW t \in TaskIds PROVE TaskPoints(t)'
    BY <2>1, Points DEF TaskPoints
  <2>4. ASSUME NEW s \in SubTaskIds PROVE SubTaskPoints(s)'
    BY <2>1, <2>2, Points DEF SubTaskPoints
  <2>. QED BY <2>3, <2>4, PointsPrime
<1>8. ASSUME NEW u \in Users, RemoveUser(u) PROVE NothingDangles'
  <2>1. users' = users \ {u} /\ UNCHANGED <<project, departments>>
    BY <1>8 DEF RemoveUser
  <2>2. \A t \in TaskIds : /\ tasks'[t].state = tasks[t].state
                           /\ tasks'[t].department = tasks[t].department
                           /\ tasks'[t].assignee = IF tasks[t].assignee = u THEN None ELSE tasks[t].assignee
    BY <1>8 DEF RemoveUser, Unassign, TypeOK, TaskRow
  <2>3. \A s \in SubTaskIds : /\ subtasks'[s].state = subtasks[s].state
                              /\ subtasks'[s].task = subtasks[s].task
                              /\ subtasks'[s].assignee =
                                   IF subtasks[s].assignee = u THEN None ELSE subtasks[s].assignee
    BY <1>8 DEF RemoveUser, Unassign, TypeOK, SubTaskRow
  <2>4. ASSUME NEW t \in TaskIds PROVE TaskPoints(t)'
    BY <2>1, <2>2, Points DEF TaskPoints
  <2>5. ASSUME NEW s \in SubTaskIds PROVE SubTaskPoints(s)'
    BY <2>1, <2>2, <2>3, Points DEF SubTaskPoints
  <2>. QED BY <2>4, <2>5, PointsPrime
<1>9. ASSUME NEW d \in Departments, RemoveDepartment(d) PROVE NothingDangles'
  <2>1. departments' = departments \ {d} /\ UNCHANGED <<project, users, subtasks>>
    BY <1>9 DEF RemoveDepartment
  <2>2. \A t \in TaskIds : /\ tasks'[t].state = tasks[t].state
                           /\ tasks'[t].assignee = tasks[t].assignee
                           /\ tasks'[t].department =
                                IF tasks[t].department = d THEN None ELSE tasks[t].department
    BY <1>9 DEF RemoveDepartment, TypeOK, TaskRow
  <2>3. ASSUME NEW t \in TaskIds PROVE TaskPoints(t)'
    BY <2>1, <2>2, Points DEF TaskPoints
  <2>4. ASSUME NEW s \in SubTaskIds PROVE SubTaskPoints(s)'
    BY <2>1, <2>2, Points DEF SubTaskPoints
  <2>. QED BY <2>3, <2>4, PointsPrime
<1>10. ASSUME RemoveProject PROVE NothingDangles'
  BY <1>10, DeleteTasksDangles DEF RemoveProject
<1>11. ASSUME NEW c \in Calls, CallNext(c)
       PROVE  \/ UNCHANGED <<project, users, departments, tasks, subtasks>>
              \/ \E t \in TaskIds : InsertTask(c, t)
              \/ WriteTask(c) \/ DeleteTask(c)
              \/ \E s \in SubTaskIds : InsertSubTask(c, s)
              \/ WriteSubTask(c) \/ DeleteSubTask(c)
  BY <1>11 DEF CallNext, CreateTask, UpdateTask, RemoveTask, CreateSubTask, UpdateSubTask,
               RemoveSubTask, Begin, Check
<1>12. ASSUME NEW c \in Calls, CallNext(c) PROVE NothingDangles'
  BY <1>1, <1>2, <1>3, <1>4, <1>5, <1>6, <1>7, <1>11, <1>12
<1>13. ASSUME NEW u \in Users, NEW row \in MemberRows, SetMember(u, row) PROVE NothingDangles'
  BY <1>1, <1>13 DEF SetMember
<1>. QED BY <1>1, <1>8, <1>9, <1>10, <1>12, <1>13 DEF Next, vars

(* What a task or subtask points to exists, whatever is removed meanwhile. *)
THEOREM TasksPointSomewhere == Spec => []NothingDangles
<1>. QED BY InitOK, TypeStep, DanglesStep, PTL DEF Spec

-----------------------------------------------------------------------------
(* The listings depend on the tables alone, whatever led to them.          *)

(* The two listings show a member who has a department the same tasks.     *)
THEOREM ListingsOfAMember == Spec => []ListingsAgree
<1>1. \A u \in Users : members[u].department # None => GetTasks(u, None) = TasksOfProject(u)
  BY DEF GetTasks, TasksOfProject
<1>2. \A u \in Users, d \in Departments : GetTasks(u, d) \subseteq GetTasks(u, None)
  BY TasksAssumption DEF GetTasks
<1>3. ListingsAgree
  BY <1>1, <1>2 DEF ListingsAgree
<1>. QED BY <1>3, PTL DEF Spec
=============================================================================
