------------------------- MODULE MCProjectStructure -------------------------
(* Small instances of ProjectStructure for TLC. *)
EXTENDS ProjectStructure, TLC

(* No id of a table differs from another. *)
IdSymmetry == Permutations(ProjectIds) \cup Permutations(DepartmentIds)
                \cup Permutations(DepartmentRoleIds) \cup Permutations(ProjectRoleIds)
                \cup Permutations(PermissionIds) \cup Permutations(Calls)
=============================================================================
