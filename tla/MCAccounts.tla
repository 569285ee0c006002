----------------------------- MODULE MCAccounts -----------------------------
(* Small instances of Accounts for TLC; the cfg files give the constants.   *)
EXTENDS Accounts, TLC

(* Calls and user ids are interchangeable in Accounts. *)
UserSymmetry == Permutations(Calls) \cup Permutations(UserIds)
=============================================================================
