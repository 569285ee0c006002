----------------------------- MODULE MCSessions -----------------------------
(* Small instances of Sessions for TLC. *)
EXTENDS Sessions, TLC

(* The admin and the user table number their rows independently. *)
Admin1 == [type |-> "admin", id |-> 1]
User1  == [type |-> "user", id |-> 1]
OneAdmin == {Admin1}
SameId == {Admin1, User1}

TokenSymmetry == Permutations(TokenIds) \cup Permutations(Calls)
=============================================================================
