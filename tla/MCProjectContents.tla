------------------------- MODULE MCProjectContents -------------------------
(* A small instance of ProjectContents for TLC. *)
EXTENDS ProjectContents, TLC

CONSTANTS a1, a2, p1, p2

SomeCreatedBy == (p1 :> a1) @@ (p2 :> a2)
SomeRights == (p1 :> {"canView", "canDelete"}) @@ (p2 :> {"canEdit"})

(* No order, key or call differs from another. *)
ContentsSymmetry == Permutations(OrderIds) \cup Permutations(Keys) \cup Permutations(Calls)
=============================================================================
