------------------------------ MODULE Accounts ------------------------------
(***************************************************************************)
(* The admin and user tables and the handlers that write them:             *)
(* AdminService, UserService, AuthService.signup and the public            *)
(* RequestService.forgotPassword.                                          *)
(*                                                                         *)
(* A handler is an asynchronous function whose awaits are database, hash   *)
(* and mail calls.  Each database call is atomic and nothing else is: the  *)
(* code opens no transaction.  A call in flight is a record of what the    *)
(* handler has read so far and of the step it will take next; handlers     *)
(* interleave at every step.  A handler whose earlier reads decide only    *)
(* which error is answered is a single action, taken at its write.         *)
(***************************************************************************)
EXTENDS Integers, FiniteSets

CONSTANTS
  AdminIds,      \* ids the admin table can hand out
  UserIds,       \* ids the user table can hand out
  RequestIds,    \* ids the request table can hand out (ChangeRequests)
  Names,         \* values of firstName and lastName
  Emails,
  Calls,         \* handler instances: how many calls may be in flight
  Ops,           \* the operations clients issue in this instance
  MaxPasswords,  \* bound on the passwords ever chosen or generated
  FailAt,        \* the steps before which a call may be cut short (error, crash)
  None,          \* null
  Keep           \* a field left out of an update

ASSUME SentinelAssumption ==
  /\ None \notin Names \cup Emails \cup AdminIds \cup UserIds \cup RequestIds
  /\ Keep \notin Names \cup Emails \cup {None} \cup Nat

(* What a handler awaits next. *)
Steps == {"check", "insert", "write", "mail", "mark"}

ASSUME BoundAssumption == MaxPasswords \in Nat /\ FailAt \subseteq Steps

VARIABLES
  admins,   \* the admin table: which ids have been issued and still exist
  users,    \* the user table
  calls,    \* the handlers in flight
  issued,   \* number of passwords chosen or generated so far
  told      \* history: passwords that somebody knows in plain text

accountVars == <<admins, users, calls, issued, told>>

-----------------------------------------------------------------------------
(* Types *)

RowStates == {"unborn", "live", "gone"}   \* autoincrement ids are never reused

UserRow == [state: RowStates, name: Names \cup {None}, email: Emails \cup {None},
            password: Nat, createdBy: AdminIds \cup {None}]

NoRow == [state |-> "unborn", name |-> None, email |-> None, password |-> 0, createdBy |-> None]

ProfileOf(row) == [name |-> row.name, email |-> row.email]

(* The `data` of prisma.user.update. *)
Patch == [name: Names \cup {Keep, None}, email: Emails \cup {Keep, None},
          password: Nat \cup {Keep}]

Call == [op: Ops \cup {"none"},
         at: Steps \cup {"idle"},
         user: UserIds \cup {None}, admin: AdminIds \cup {None},
         req: RequestIds \cup {None}, patch: Patch,
         seen: [name: Names \cup {None, Keep}, email: Emails \cup {None, Keep}]]

NoPatch == [name |-> Keep, email |-> Keep, password |-> Keep]
NothingSeen == [name |-> Keep, email |-> Keep]

Idle == [op |-> "none", at |-> "idle", user |-> None, admin |-> None,
         req |-> None, patch |-> NoPatch, seen |-> NothingSeen]

-----------------------------------------------------------------------------
(* The tables *)

LiveAdmin(a) == a \in AdminIds /\ admins[a] = "live"
LiveUser(u) == u \in UserIds /\ users[u].state = "live"

(* A JWT outlives the account it was issued to, so any id that ever existed *)
(* may be behind a guarded endpoint.                                        *)
KnownAdmin(a) == admins[a] # "unborn"
KnownUser(u) == users[u].state # "unborn"

(* Mutant: the email is looked up before a write and nothing else. *)
EmailUnindexed(u, e) == TRUE

(* The unique index on User.email. *)
EmailFree(u, e) == \A v \in UserIds \ {u} : LiveUser(v) => users[v].email # e

(* Mutant: a field left out is written as it came. *)
SuppliedRaw(old, new) == new

Supplied(old, new) == IF new = Keep THEN old ELSE new

Patched(row, p) == [row EXCEPT !.name = Supplied(@, p.name),
                               !.email = Supplied(@, p.email),
                               !.password = Supplied(@, p.password)]

-----------------------------------------------------------------------------
(* Calls in flight *)

GoTo(c, next) ==
  calls' = [calls EXCEPT ![c] = IF next = "idle" THEN Idle ELSE [@ EXCEPT !.at = next]]

Begin(c, fields) == /\ calls[c].at = "idle"
                    /\ fields.op \in Ops
                    /\ calls' = [calls EXCEPT ![c] = fields]

At(c, op, step) == calls[c].op = op /\ calls[c].at = step

(* The number of the next password; the client that chose it knows it. *)
NewPassword == issued + 1
Issue == issued < MaxPasswords /\ issued' = issued + 1
Choose == Issue /\ told' = told \cup {NewPassword}

(* prisma.user.update with data p: fails on a missing row, on a taken email *)
(* and on a null for a required column.                                     *)
UpdateSucceeds(u, p) == /\ LiveUser(u)
                        /\ p.name # None /\ p.email # None
                        /\ p.email # Keep => EmailFree(u, p.email)

UpdateRow(u, p) ==
  /\ UpdateSucceeds(u, p)
  /\ users' = [users EXCEPT ![u] = Patched(@, p)]

(* The same call awaited by handler c, which then goes on to `next`. *)
UserUpdate(c, p, next) ==
  LET u == calls[c].user IN
  \/ UpdateRow(u, p) /\ GoTo(c, next)
  \/ ~UpdateSucceeds(u, p) /\ GoTo(c, "idle") /\ UNCHANGED users

-----------------------------------------------------------------------------
(* AdminService and AuthService.signup *)

CreateAdmin(a) ==
  /\ "createAdmin" \in Ops
  /\ admins[a] = "unborn"
  /\ admins' = [admins EXCEPT ![a] = "live"]
  /\ UNCHANGED <<users, calls, issued, told>>

(* onDelete: SetNull on User.createdBy. *)
RemoveAdmin(a) ==
  /\ "removeAdmin" \in Ops
  /\ LiveAdmin(a)
  /\ admins' = [admins EXCEPT ![a] = "gone"]
  /\ users' = [u \in UserIds |->
                IF users[u].createdBy = a THEN [users[u] EXCEPT !.createdBy = None]
                                          ELSE users[u]]
  /\ UNCHANGED <<calls, issued, told>>

-----------------------------------------------------------------------------
(* UserService.create: look the email up, then insert. *)

CreateUser(c, u, a, n, e) ==
  /\ users[u].state = "unborn" /\ \A d \in Calls : calls[d].user # u
  /\ KnownAdmin(a)
  /\ \A v \in UserIds : LiveUser(v) => users[v].email # e
  /\ Begin(c, [Idle EXCEPT !.op = "createUser", !.at = "insert", !.user = u, !.admin = a,
                 !.patch = [name |-> n, email |-> e, password |-> NewPassword]])
  /\ Choose
  /\ UNCHANGED <<admins, users>>

(* Mutant: createdBy without its foreign key. *)
InsertUnchecked(u, a, e) == EmailFree(u, e)

InsertSucceeds(u, a, e) == EmailFree(u, e) /\ LiveAdmin(a)

CreateUserInsert(c) ==
  LET u == calls[c].user  a == calls[c].admin  p == calls[c].patch IN
  /\ At(c, "createUser", "insert")
  /\ IF InsertSucceeds(u, a, p.email)
     THEN users' = [users EXCEPT ![u] =
            [state |-> "live", name |-> p.name, email |-> p.email,
             password |-> p.password, createdBy |-> a]]
     ELSE UNCHANGED users
  /\ GoTo(c, "idle")
  /\ UNCHANGED <<admins, issued, told>>

(* UserService.update by any admin: the fields given, nothing else. *)
UpdateUser(u, p) ==
  /\ "updateUser" \in Ops
  /\ UpdateRow(u, p)
  /\ IF p.password = Keep THEN UNCHANGED <<issued, told>>
                          ELSE p.password = NewPassword /\ Choose
  /\ UNCHANGED <<admins, calls>>

RemoveUser(u) ==
  /\ "removeUser" \in Ops
  /\ LiveUser(u)
  /\ users' = [users EXCEPT ![u] = [NoRow EXCEPT !.state = "gone"]]
  /\ UNCHANGED <<admins, calls, issued, told>>

-----------------------------------------------------------------------------
(* UserService.resetPassword: read, check the creator, write, then mail.    *)
(* The admin who typed the password knows it.                               *)

ResetPassword(c, u, a) ==
  /\ LiveUser(u) /\ users[u].createdBy = a
  /\ Begin(c, [Idle EXCEPT !.op = "resetPassword", !.at = "write", !.user = u, !.admin = a,
                 !.patch.password = NewPassword, !.seen.email = users[u].email])
  /\ Choose
  /\ UNCHANGED <<admins, users>>

(* RequestService.forgotPassword: the account is looked up by its email and *)
(* its password replaced at once by a random one, which is then mailed.     *)
ForgotPassword(c, u) ==
  /\ LiveUser(u)
  /\ Begin(c, [Idle EXCEPT !.op = "forgotPassword", !.at = "write", !.user = u,
                 !.patch.password = NewPassword, !.seen.email = users[u].email])
  /\ Issue
  /\ UNCHANGED <<admins, users, told>>

(* Mutant: the random password is written and never mailed. *)
ResetPasswordUnmailed(c) ==
  /\ At(c, "resetPassword", "write") \/ At(c, "forgotPassword", "write")
  /\ UserUpdate(c, calls[c].patch, "idle")
  /\ UNCHANGED <<admins, issued, told>>

ResetPasswordWrite(c) ==
  /\ At(c, "resetPassword", "write") \/ At(c, "forgotPassword", "write")
  /\ UserUpdate(c, calls[c].patch, "mail")
  /\ UNCHANGED <<admins, issued, told>>

SendPasswordResetEmail(c) ==
  /\ calls[c].at = "mail"
  /\ told' = told \cup {calls[c].patch.password}
  /\ GoTo(c, "idle")
  /\ UNCHANGED <<admins, users, issued>>

-----------------------------------------------------------------------------
(* UserService.updateMyProfile: a field left out is written back as it was  *)
(* read; a new email is looked up first.                                    *)

UpdateMyProfile(c, u, n, e) ==
  /\ LiveUser(u)
  /\ Begin(c, [Idle EXCEPT !.op = "updateMyProfile", !.user = u,
                 !.at = IF e \in {Keep, users[u].email} THEN "write" ELSE "check",
                 !.patch = [name |-> n, email |-> e, password |-> Keep],
                 !.seen = ProfileOf(users[u])])
  /\ UNCHANGED <<admins, users, issued, told>>

UpdateMyProfileCheck(c) ==
  /\ At(c, "updateMyProfile", "check")
  /\ GoTo(c, IF \A v \in UserIds : LiveUser(v) => users[v].email # calls[c].patch.email
             THEN "write" ELSE "idle")
  /\ UNCHANGED <<admins, users, issued, told>>

WholeProfile(call) ==
  [name |-> Supplied(call.seen.name, call.patch.name),
   email |-> Supplied(call.seen.email, call.patch.email), password |-> Keep]

UpdateMyProfileWrite(c) ==
  /\ At(c, "updateMyProfile", "write")
  /\ UserUpdate(c, WholeProfile(calls[c]), "idle")
  /\ UNCHANGED <<admins, issued, told>>

(* UserService.changeMyPassword: compare with the row read, hash, write. *)
ChangeMyPassword(c, u) ==
  /\ LiveUser(u)
  /\ users[u].password \in told
  /\ Begin(c, [Idle EXCEPT !.op = "changeMyPassword", !.at = "write", !.user = u,
                 !.patch.password = NewPassword])
  /\ Choose
  /\ UNCHANGED <<admins, users>>

ChangeMyPasswordWrite(c) ==
  /\ At(c, "changeMyPassword", "write")
  /\ UserUpdate(c, calls[c].patch, "idle")
  /\ UNCHANGED <<admins, issued, told>>

(* An await rejects, the client's connection is cut, or the process stops:  *)
(* what the handler wrote stays written and nothing resumes it.             *)
Fail(c) ==
  /\ calls[c].at \in FailAt
  /\ GoTo(c, "idle")
  /\ UNCHANGED <<admins, users, issued, told>>

-----------------------------------------------------------------------------
UpdateInputs ==
  [name: Names \cup {Keep}, email: Emails \cup {Keep}, password: {NewPassword, Keep}]

AccountStart(c) ==
  \/ \E u \in UserIds, a \in AdminIds, n \in Names, e \in Emails : CreateUser(c, u, a, n, e)
  \/ \E u \in UserIds, a \in AdminIds : ResetPassword(c, u, a)
  \/ \E u \in UserIds : ForgotPassword(c, u)
  \/ \E u \in UserIds, n \in Names \cup {Keep}, e \in Emails \cup {Keep} :
       UpdateMyProfile(c, u, n, e)
  \/ \E u \in UserIds : ChangeMyPassword(c, u)

AccountResume(c) ==
  \/ CreateUserInsert(c)
  \/ ResetPasswordWrite(c)
  \/ SendPasswordResetEmail(c)
  \/ UpdateMyProfileCheck(c)
  \/ UpdateMyProfileWrite(c)
  \/ ChangeMyPasswordWrite(c)

AccountOneShot ==
  \/ \E a \in AdminIds : CreateAdmin(a) \/ RemoveAdmin(a)
  \/ \E u \in UserIds, p \in UpdateInputs : UpdateUser(u, p)
  \/ \E u \in UserIds : RemoveUser(u)

AccountNext ==
  \/ AccountOneShot
  \/ \E c \in Calls : AccountStart(c) \/ AccountResume(c) \/ Fail(c)

(* The tables at start-up: any accounts that respect the indexes. *)
SeedRow == {NoRow} \cup [state: {"live"}, name: Names, email: Emails,
                         password: {0}, createdBy: AdminIds \cup {None}]

(* Whatever the order of createUser and removeAdmin, a user's createdBy     *)
(* names an admin that exists, or nobody: the insert of a call that was     *)
(* made before the admin was removed fails.                                 *)
CreatorsLive ==
  \A u \in UserIds : LiveUser(u) => users[u].createdBy = None \/ LiveAdmin(users[u].createdBy)

(* Two calls that both found an email free never leave two users with it    *)
(* (UserService.create, update, updateMyProfile).                           *)
EmailsUnique ==
  \A u, v \in UserIds : LiveUser(u) /\ LiveUser(v) /\ u # v => users[u].email # users[v].email

AccountInit ==
  /\ admins \in [AdminIds -> {"unborn", "live"}]
  /\ users \in [UserIds -> SeedRow]
  /\ CreatorsLive /\ EmailsUnique
  /\ calls = [c \in Calls |-> Idle]
  /\ issued = 0
  /\ told = {0}

(* The event loop resumes every handler whose awaited call has settled.     *)
AccountSpec == /\ AccountInit /\ [][AccountNext]_accountVars
               /\ \A c \in Calls : WF_accountVars(AccountResume(c))

-----------------------------------------------------------------------------
(* Properties; CreatorsLive and EmailsUnique, which the tables satisfy at   *)
(* start-up too, are above.                                                 *)

(* Type invariant. *)
AccountTypeOK ==
  /\ admins \in [AdminIds -> RowStates]
  /\ users \in [UserIds -> UserRow]
  /\ calls \in [Calls -> Call]
  /\ issued \in Nat
  /\ told \subseteq Nat

(* The password stored for u is known in plain text to somebody, or a       *)
(* handler in flight has still to tell it at one of the steps S.            *)
KnownOrDue(u, S) ==
  \/ users[u].password \in told
  \/ \E c \in Calls : /\ calls[c].user = u /\ calls[c].at \in S
                       /\ calls[c].patch.password = users[u].password

CutShort(u, S) == \E c \in Calls : calls[c].user = u /\ calls[c].at \in S /\ Fail(c)

(* A password nobody knows locks its owner out, and forgotPassword stores   *)
(* one before it mails it.  Whatever overlaps and whatever fails, an        *)
(* account comes to that only when a call is cut short just before its      *)
(* mail: no other order of writes, mails, removals and failures does it.    *)
PasswordLostOnlyUnmailed ==
  [][\A u \in UserIds :
       (LiveUser(u) => KnownOrDue(u, {"mail"})) =>
         \/ LiveUser(u)' => KnownOrDue(u, {"mail"})'
         \/ CutShort(u, {"mail"})]_accountVars

(* As long as mails go out, every account has a password somebody knows or  *)
(* is about to be told.                                                     *)
PasswordReachable == \A u \in UserIds : LiveUser(u) => KnownOrDue(u, {"mail"})
=============================================================================
