--------------------------- MODULE ChangeRequests ---------------------------
(***************************************************************************)
(* The change-request pipeline: RequestService over the tables and the     *)
(* handlers of Accounts, whose every step may interleave with its own.     *)
(*                                                                         *)
(* A decision reads the request, checks it, and then awaits up to two      *)
(* independent writes: the user row, then the request's status.            *)
(***************************************************************************)
EXTENDS Accounts

VARIABLES
  requests,  \* the UserRequest table
  applied    \* history: stored requests whose change was written to their user

vars == <<accountVars, requests, applied>>

-----------------------------------------------------------------------------
(* `change` is requestType and requestedValue as approveRequest combines    *)
(* them into its updateData; a password request changes no field itself.    *)
(* "name" stands for firstName and lastName.                                *)

RequestRow == [state: RowStates, user: UserIds \cup {None}, admin: AdminIds \cup {None},
               change: Patch, status: {"pending", "approved", "rejected"}]

NoRequest == [state |-> "unborn", user |-> None, admin |-> None,
              change |-> NoPatch, status |-> "pending"]

LiveRequest(r) == r \in RequestIds /\ requests[r].state = "live"

PasswordRequest(r) == requests[r].change = NoPatch

(* A client may leave requestedValue out: it is then stored as null.        *)
RequestedChanges ==
       {[NoPatch EXCEPT !.name = v] : v \in Names \cup {None}}
  \cup {[NoPatch EXCEPT !.email = v] : v \in Emails \cup {None}}
  \cup {NoPatch}

DecisionOps == {"approveRequest", "rejectRequest", "generatePassword"}

Deciding(c) == calls[c].op \in DecisionOps

-----------------------------------------------------------------------------
(* createRequest: read the user, check, insert.  A password change must     *)
(* prove the current password, a password_reset need not; both are stored   *)
(* and decided alike, so together they ask for nothing.                     *)

CreateRequest(c, r, u, change) ==
  /\ requests[r].state = "unborn" /\ \A d \in Calls : calls[d].req # r
  /\ LiveUser(u)
  /\ users[u].createdBy # None
  /\ Begin(c, [Idle EXCEPT !.op = "createRequest", !.at = "insert", !.req = r, !.user = u,
                 !.admin = users[u].createdBy, !.patch = change])
  /\ UNCHANGED <<admins, users, issued, told, requests, applied>>

(* Mutant: UserRequest without its foreign keys. *)
RequestRefsUnchecked(u, a) == TRUE

(* The foreign keys of UserRequest refuse a row whose user or admin is gone. *)
RequestRefsExist(u, a) == LiveUser(u) /\ LiveAdmin(a)

CreateRequestInsert(c) ==
  LET call == calls[c] IN
  /\ At(c, "createRequest", "insert")
  /\ IF RequestRefsExist(call.user, call.admin)
     THEN requests' = [requests EXCEPT ![call.req] =
            [state |-> "live", user |-> call.user, admin |-> call.admin,
             change |-> call.patch, status |-> "pending"]]
     ELSE UNCHANGED requests
  /\ GoTo(c, "idle")
  /\ UNCHANGED <<admins, users, issued, told, applied>>

-----------------------------------------------------------------------------
(* The three decisions: each finds the request, compares its admin with the *)
(* caller, and refuses one that is no longer pending.                       *)

(* Mutants: the caller is not compared with the request's admin; the status  *)
(* is not looked at.                                                        *)
AnyoneMayDecide(r, a) == LiveRequest(r) /\ requests[r].status = "pending" /\ KnownAdmin(a)
MayDecideAgain(r, a) == LiveRequest(r) /\ requests[r].admin = a

MayDecide(r, a) ==
  /\ LiveRequest(r)
  /\ requests[r].admin = a
  /\ requests[r].status = "pending"

BeginDecision(c, r, a, op, step, patch) ==
  /\ MayDecide(r, a)
  /\ Begin(c, [Idle EXCEPT !.op = op, !.at = step, !.req = r, !.admin = a,
                 !.user = requests[r].user, !.patch = patch])
  /\ UNCHANGED <<admins, users, requests, applied>>

(* Mutant: the decision saves the whole profile read with the request, with *)
(* the change laid over it.                                                 *)
ApproveRequestWhole(c, r, a) ==
  LET u == requests[r].user  new == requests[r].change IN
  /\ ~PasswordRequest(r)
  /\ BeginDecision(c, r, a, "approveRequest", "write",
                   [name |-> Supplied(users[u].name, new.name),
                    email |-> Supplied(users[u].email, new.email), password |-> Keep])
  /\ UNCHANGED <<issued, told>>

ApproveRequest(c, r, a) ==
  /\ ~PasswordRequest(r)
  /\ BeginDecision(c, r, a, "approveRequest", "write", requests[r].change)
  /\ UNCHANGED <<issued, told>>

RejectRequest(c, r, a) ==
  /\ BeginDecision(c, r, a, "rejectRequest", "mark", NoPatch)
  /\ UNCHANGED <<issued, told>>

GeneratePassword(c, r, a) ==
  /\ PasswordRequest(r)
  /\ BeginDecision(c, r, a, "generatePassword", "write",
                   [NoPatch EXCEPT !.password = NewPassword])
  /\ Issue /\ UNCHANGED told

(* Mutants: a failed user update is swallowed; the handler ends after it.   *)
ApplyDecisionSwallowing(c) ==
  LET call == calls[c] IN
  /\ At(c, "approveRequest", "write") \/ At(c, "generatePassword", "write")
  /\ UpdateRow(call.user, call.patch)
     \/ (~UpdateSucceeds(call.user, call.patch) /\ UNCHANGED users)
  /\ GoTo(c, "mark")
  /\ applied' = IF UpdateSucceeds(call.user, call.patch) /\ LiveRequest(call.req)
                THEN applied \cup {call.req} ELSE applied
  /\ UNCHANGED <<admins, issued, told, requests>>

ApplyDecisionOnly(c) ==
  /\ At(c, "approveRequest", "write") \/ At(c, "generatePassword", "write")
  /\ UserUpdate(c, calls[c].patch, "idle")
  /\ applied' = IF UpdateSucceeds(calls[c].user, calls[c].patch) /\ LiveRequest(calls[c].req)
                THEN applied \cup {calls[c].req} ELSE applied
  /\ UNCHANGED <<admins, issued, told, requests>>

(* approveRequest and generatePassword write the user first. *)
ApplyDecision(c) ==
  /\ At(c, "approveRequest", "write") \/ At(c, "generatePassword", "write")
  /\ UserUpdate(c, calls[c].patch, "mark")
  /\ applied' = IF UpdateSucceeds(calls[c].user, calls[c].patch) /\ LiveRequest(calls[c].req)
                THEN applied \cup {calls[c].req} ELSE applied
  /\ UNCHANGED <<admins, issued, told, requests>>

(* Mutant: the operation's name is stored as the status. *)
VerdictAsOp(op) == op

Verdict(op) == IF op = "rejectRequest" THEN "rejected" ELSE "approved"

(* Mutant: the plain text is not returned. *)
MarkDecidedSilently(c) ==
  LET call == calls[c] IN
  /\ Deciding(c) /\ call.at = "mark"
  /\ IF LiveRequest(call.req)
     THEN requests' = [requests EXCEPT ![call.req].status = Verdict(call.op)]
     ELSE UNCHANGED requests
  /\ GoTo(c, "idle")
  /\ UNCHANGED <<admins, users, issued, told, applied>>

(* Then prisma.userRequest.update, by id alone; generatePassword answers    *)
(* with the plain text.  A request deleted meanwhile fails the call.        *)
MarkDecided(c) ==
  LET call == calls[c] IN
  /\ Deciding(c) /\ call.at = "mark"
  /\ IF LiveRequest(call.req)
     THEN /\ requests' = [requests EXCEPT ![call.req].status = Verdict(call.op)]
          /\ told' = IF call.op = "generatePassword"
                     THEN told \cup {call.patch.password} ELSE told
     ELSE UNCHANGED <<requests, told>>
  /\ GoTo(c, "idle")
  /\ UNCHANGED <<admins, users, issued, applied>>

-----------------------------------------------------------------------------
(* A step of Accounts, with UserRequest's onDelete: Cascade on both sides.  *)
Orphaned(row) ==
  \/ row.user \in UserIds /\ users'[row.user].state = "gone"
  \/ row.admin \in AdminIds /\ admins'[row.admin] = "gone"

AccountStep ==
  /\ AccountNext
  /\ requests' = [r \in RequestIds |->
       IF LiveRequest(r) /\ Orphaned(requests[r])
       THEN [NoRequest EXCEPT !.state = "gone"] ELSE requests[r]]
  /\ applied' = {r \in applied : requests'[r].state # "gone"}

RequestStart(c) ==
  \/ \E r \in RequestIds, u \in UserIds, change \in RequestedChanges :
       CreateRequest(c, r, u, change)
  \/ \E r \in RequestIds, a \in AdminIds :
       ApproveRequest(c, r, a) \/ RejectRequest(c, r, a) \/ GeneratePassword(c, r, a)

RequestResume(c) == CreateRequestInsert(c) \/ ApplyDecision(c) \/ MarkDecided(c)

Next == AccountStep \/ \E c \in Calls : RequestStart(c) \/ RequestResume(c)

Init == /\ AccountInit
        /\ requests = [r \in RequestIds |-> NoRequest]
        /\ applied = {}

(* Whichever of the two services a call belongs to, it is resumed. *)
Resume(c) == (AccountResume(c) /\ AccountStep) \/ RequestResume(c)

Spec == Init /\ [][Next]_vars /\ \A c \in Calls : WF_vars(Resume(c))

-----------------------------------------------------------------------------
(* The pipeline the documentation describes.  A decision takes effect with  *)
(* its first write, so between an approval's two writes the request counts  *)
(* as approved already.                                                     *)
BeingApproved(r) ==
  \E c \in Calls : /\ calls[c].op \in {"approveRequest", "generatePassword"}
                   /\ calls[c].at = "mark" /\ calls[c].req = r

PipelineStatus(r) ==
  CASE requests[r].state = "unborn" -> "none"
    [] requests[r].state = "gone"   -> "withdrawn"
    [] OTHER -> IF BeingApproved(r) THEN "approved" ELSE requests[r].status

Pipeline == INSTANCE ReviewPipeline WITH
              status <- [r \in RequestIds |-> PipelineStatus(r)],
              effective <- applied

-----------------------------------------------------------------------------
(* Properties *)

(* Type invariant. *)
TypeOK ==
  /\ AccountTypeOK
  /\ requests \in [RequestIds -> RequestRow]
  /\ applied \subseteq RequestIds

(* A stored request is addressed to the admin its user belongs to: however  *)
(* createRequest overlaps the removal of the admin or of the user, no       *)
(* request is left that nobody, or somebody else's admin, may decide.       *)
RequestGoesToCreator ==
  \A r \in RequestIds :
    LiveRequest(r) => /\ LiveUser(requests[r].user)
                      /\ LiveAdmin(requests[r].admin)
                      /\ requests[r].admin = users[requests[r].user].createdBy

(* "You can only approve requests from your users": a decision in flight,   *)
(* after the awaits that separate its check from its writes, is still one   *)
(* by the creator of the user it is about, as long as the request exists.   *)
DecisionByCreator ==
  \A c \in Calls :
    (Deciding(c) /\ LiveRequest(calls[c].req)) =>
      /\ calls[c].user = requests[calls[c].req].user
      /\ calls[c].admin = users[calls[c].user].createdBy

(* An approved request is one whose change (or generated password) has      *)
(* reached the user row: the status never runs ahead of the data.           *)
ApprovedWasApplied ==
  \A r \in RequestIds : LiveRequest(r) /\ requests[r].status = "approved" => r \in applied

(* PasswordReachable with the pipeline: a generated password is known to    *)
(* the admin or about to be answered, unless the admin was removed.         *)
GeneratedPasswordReachable ==
  \A u \in UserIds :
    LiveUser(u) /\ users[u].createdBy # None => KnownOrDue(u, {"mail", "mark"})

(* A change that reached the user is not left pending: the decision that    *)
(* applied it, or another, settles the request, or the request is deleted.  *)
AppliedGetsDecided ==
  \A r \in RequestIds :
    (r \in applied /\ requests[r].status = "pending")
      ~> (~LiveRequest(r) \/ requests[r].status # "pending")

(* No request has two decisions in flight. *)
DecisionsApart ==
  \A c, d \in Calls : Deciding(c) /\ Deciding(d) /\ calls[c].req = calls[d].req => c = d

(* As long as decisions on one request are apart and none is cut short      *)
(* between its writes, they behave as the documented pipeline (atomic,      *)
(* final, a rejection without effect), whatever overlaps them: other        *)
(* decisions, edits of the profile, removals of the user or the admin.      *)
FollowsPipeline == Pipeline!Spec

(* README.md:615, "Reject ──> Keeps user profile unmodified".               *)
RejectKeepsProfile ==
  \A r \in RequestIds : LiveRequest(r) /\ requests[r].status = "rejected" => r \notin applied

(* The profile of r's user holds what r asked for field f. *)
Shows(r, f) == requests[r].change[f] = users[requests[r].user][f]

(* Somebody gives field f of u a value of its own: an admin's update, the   *)
(* user's edit, or a decision on a request about f.                         *)
GivenAnew(u, f) ==
  \/ \E p \in UpdateInputs : p[f] # Keep /\ UpdateUser(u, p)
  \/ \E c \in Calls :
       calls[c].user = u /\ calls[c].patch[f] # Keep /\ UpdateMyProfileWrite(c)
  \/ \E c \in Calls :
       /\ calls[c].user = u /\ ApplyDecision(c)
       /\ LiveRequest(calls[c].req) => requests[calls[c].req].change[f] # Keep

(* An edit by u writes back a field f that has changed since it read it.    *)
StaleEdit(u, f) ==
  \E c \in Calls : calls[c].user = u /\ calls[c].seen[f] # users[u][f] /\ UpdateMyProfileWrite(c)

(* README.md:614, "updates user profile".  A change in effect goes out of   *)
(* effect by two kinds of step only, whatever decisions, resets and edits   *)
(* overlap: one that is about the same field, or the write of an            *)
(* updateMyProfile that read the field before the change.                   *)
ChangeUndoneOnlyByStaleEdit ==
  [][\A r \in applied, f \in {"name", "email"} :
       Shows(r, f) /\ LiveRequest(r)' /\ ~Shows(r, f)' =>
         GivenAnew(requests[r].user, f) \/ StaleEdit(requests[r].user, f)]_vars
=============================================================================
