--------------------------- MODULE MCAccessPolicy ---------------------------
(* A small instance of AccessPolicy for TLC. *)
EXTENDS AccessPolicy

CONSTANTS FOLDER_EDIT, EDIT_FOLDERS, UNKNOWN

SomeNames == Resources \cup {EDIT_FOLDERS, UNKNOWN}
SomeCanonical == [n \in SomeNames |-> IF n = EDIT_FOLDERS THEN FOLDER_EDIT ELSE n]

View == {"canView"}
Edit == {"canEdit"}
SomeFlags == {{}, View, Edit}
=============================================================================
