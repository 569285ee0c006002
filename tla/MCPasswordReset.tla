--------------------------- MODULE MCPasswordReset ---------------------------
(* Small instances of PasswordReset for TLC. *)
EXTENDS PasswordReset, TLC

(* No token, link call or user differs from another. *)
TokenSymmetry == Permutations(TokenIds) \cup Permutations(LinkCalls) \cup Permutations(UserIds)
=============================================================================
