--------------------------- MODULE ReviewPipeline ---------------------------
(***************************************************************************)
(* What README.md:613-615 promises of a change request: it is pending      *)
(* until its admin decides, approving it puts its change into effect in    *)
(* one transaction, rejecting it leaves the profile alone, and a decision  *)
(* is final.                                                               *)
(***************************************************************************)
CONSTANT RequestIds

VARIABLES
  status,    \* of each request
  effective  \* the requests whose change is in effect

Init == /\ status = [r \in RequestIds |-> "none"]
        /\ effective = {}

Submit(r) == /\ status[r] = "none"
             /\ status' = [status EXCEPT ![r] = "pending"]
             /\ UNCHANGED effective

Approve(r) == /\ status[r] = "pending"
              /\ status' = [status EXCEPT ![r] = "approved"]
              /\ effective' = effective \cup {r}

Reject(r) == /\ status[r] = "pending"
             /\ status' = [status EXCEPT ![r] = "rejected"]
             /\ UNCHANGED effective

(* Requests go with the user they are from or the admin they are for. *)
Withdraw(R) == /\ \A r \in R : status[r] \notin {"none", "withdrawn"}
               /\ status' = [r \in RequestIds |-> IF r \in R THEN "withdrawn" ELSE status[r]]
               /\ effective' = effective \ R

Next == \/ \E r \in RequestIds : Submit(r) \/ Approve(r) \/ Reject(r)
        \/ \E R \in SUBSET RequestIds : Withdraw(R)

Spec == Init /\ [][Next]_<<status, effective>>
=============================================================================
