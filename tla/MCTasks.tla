------------------------------ MODULE MCTasks ------------------------------
(* A small instance of Tasks for TLC. *)
EXTENDS Tasks, TLC

CONSTANTS u1, d1, d2, a

(* One who works on what is delegated and one who plans; their rights on    *)
(* subtasks are the other way round.                                        *)
Worker == [task |-> {"canView"}, subtask |-> Actions]
Editor == [task |-> Actions, subtask |-> {"canView"}]
SomeMemberRows ==
  {NoMember,
   [present |-> TRUE, department |-> None, rights |-> Editor],
   [present |-> TRUE, department |-> d1, rights |-> Editor],
   [present |-> TRUE, department |-> d1, rights |-> Worker]}

(* A new task without and with its department, and edits of one column each.*)
SomePatches ==
  {[NoPatch EXCEPT !.text = a],
   [NoPatch EXCEPT !.text = a, !.department = d2],
   [NoPatch EXCEPT !.status = Done],
   [NoPatch EXCEPT !.assignee = u1]}

SomeStatuses == {"pending", Done}
CallSymmetry == Permutations(Calls)
=============================================================================
