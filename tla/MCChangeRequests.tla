-------------------------- MODULE MCChangeRequests --------------------------
(* Small instances of ChangeRequests for TLC. *)
EXTENDS ChangeRequests, TLC

CallSymmetry == Permutations(Calls)
=============================================================================
