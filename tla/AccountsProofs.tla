--------------------------- MODULE AccountsProofs ---------------------------
(***************************************************************************)
(* Proofs about Accounts, for any number of admins, users and calls in     *)
(* flight, with and without failures: the type invariant, the foreign key  *)
(* of User.createdBy, the unique email, and the only way to lose a         *)
(* password.                                                               *)
(***************************************************************************)
EXTENDS Accounts, TLAPS

(* What a call in flight carries, by the step it will take next. *)
CallOK(c) ==
  LET call == calls[c] IN
  /\ call.at = "idle" => call.op = "none"
  /\ call.at # "idle" => call.user \in UserIds
  /\ call.op \in {"resetPassword", "forgotPassword"} \/ call.at = "mail" => call.patch.password \in Nat
  /\ call.op = "createUser" =>
       /\ call.at = "insert" /\ call.user \in UserIds /\ call.admin \in AdminIds
       /\ call.patch.name \in Names /\ call.patch.email \in Emails /\ call.patch.password \in Nat
       /\ users[call.user].state = "unborn"

(* Two inserts in flight never carry the same new id. *)
IdsDistinct ==
  \A c, d \in Calls : c # d /\ calls[c].op = "createUser" /\ calls[d].op = "createUser"
                        => calls[c].user # calls[d].user

(* The inductive invariant. *)
AccountInv ==
  /\ AccountTypeOK
  /\ \A c \in Calls : CallOK(c)
  /\ IdsDistinct
  /\ CreatorsLive
  /\ EmailsUnique

-----------------------------------------------------------------------------
(* An idle call is a call, and so is one that moves on. *)
LEMMA IdleType == Idle \in Call /\ NoRow \in UserRow
BY SentinelAssumption DEF Idle, Call, Steps, NoPatch, NothingSeen, Patch, NoRow, UserRow, RowStates

LEMMA AccountInitInv == AccountInit => AccountInv
<1> SUFFICES ASSUME AccountInit PROVE AccountInv
  OBVIOUS
<1>1. AccountTypeOK
  <2>1. \A u \in UserIds : users[u] \in UserRow
    BY IdleType DEF AccountInit, SeedRow, UserRow, RowStates
  <2>2. admins \in [AdminIds -> RowStates] /\ calls \in [Calls -> Call]
    BY IdleType DEF AccountInit, RowStates
  <2>. QED BY <2>1, <2>2 DEF AccountInit, AccountTypeOK
<1>2. \A c \in Calls : calls[c] = Idle
  BY DEF AccountInit
<1>3. \A c \in Calls : CallOK(c)
  BY <1>2 DEF CallOK, Idle
<1>4. IdsDistinct
  BY <1>2 DEF IdsDistinct, Idle
<1>. QED BY <1>1, <1>3, <1>4 DEF AccountInit, AccountInv

-----------------------------------------------------------------------------
(* prisma.user.update keeps the user table well formed: the row keeps its   *)
(* state and its creator, and no other row has its email.                   *)
LEMMA UpdateRowSafe ==
  ASSUME AccountInv, NEW u \in UserIds, NEW p \in Patch, UpdateRow(u, p)
  PROVE  /\ users' \in [UserIds -> UserRow]
         /\ \A v \in UserIds : /\ users'[v].state = users[v].state
                               /\ users'[v].createdBy = users[v].createdBy
         /\ EmailsUnique'
<1>1. Patched(users[u], p) \in UserRow
  <2>1. users[u] \in UserRow
    BY DEF AccountInv, AccountTypeOK
  <2>. QED BY <2>1, SentinelAssumption
            DEF UpdateRow, UpdateSucceeds, Patched, Supplied, Patch, UserRow
<1>3. /\ users' \in [UserIds -> UserRow]
      /\ users' = [users EXCEPT ![u] = Patched(users[u], p)]
  BY <1>1 DEF UpdateRow, AccountInv, AccountTypeOK
<1>4. /\ Patched(users[u], p).state = users[u].state
      /\ Patched(users[u], p).createdBy = users[u].createdBy
      /\ Patched(users[u], p).email = Supplied(users[u].email, p.email)
  BY DEF Patched, AccountInv, AccountTypeOK, UserRow
<1>5. EmailsUnique'
  <2> SUFFICES ASSUME NEW v \in UserIds, NEW w \in UserIds, LiveUser(v)', LiveUser(w)', v # w
               PROVE  users'[v].email # users'[w].email
    BY DEF EmailsUnique
  <2>1. LiveUser(v) /\ LiveUser(w)
    BY <1>3, <1>4 DEF LiveUser, AccountInv, AccountTypeOK
  <2>2. users[v].email # users[w].email
    BY <2>1 DEF AccountInv, EmailsUnique
  <2>3. p.email # Keep => \A x \in UserIds \ {u} : LiveUser(x) => users[x].email # p.email
    BY DEF UpdateRow, UpdateSucceeds, EmailFree
  <2>4. \A x \in UserIds : users'[x].email =
             IF x = u THEN Supplied(users[u].email, p.email) ELSE users[x].email
    BY <1>3, <1>4 DEF AccountInv, AccountTypeOK
  <2>. QED BY <2>1, <2>2, <2>3, <2>4 DEF Supplied
<1>. QED BY <1>3, <1>4, <1>5 DEF AccountInv, AccountTypeOK

-----------------------------------------------------------------------------
(* The calls in flight.  A handler that moves on, or starts, leaves the     *)
(* others alone; with no id taken from under them, all stay well formed.    *)
LEMMA GoToSafe ==
  ASSUME AccountInv, NEW c \in Calls,
         NEW next \in {"idle", "check", "insert", "write", "mail", "mark"}, GoTo(c, next)
  PROVE  /\ calls' \in [Calls -> Call]
         /\ \A d \in Calls \ {c} : calls'[d] = calls[d]
         /\ next = "idle" => calls'[c] = Idle
         /\ next # "idle" => calls'[c] = [calls[c] EXCEPT !.at = next]
<1>1. calls \in [Calls -> Call]
  BY DEF AccountInv, AccountTypeOK
<1>2. [calls[c] EXCEPT !.at = next] \in Call
  BY <1>1 DEF Call, Steps
<1>. QED BY <1>1, <1>2, IdleType DEF GoTo

LEMMA CallsSafe ==
  ASSUME AccountInv, NEW c \in Calls,
         calls' \in [Calls -> Call],
         \A d \in Calls \ {c} : calls'[d] = calls[d],
         CallOK(c)',
         \A u \in UserIds : \/ users[u].state = "unborn" => users'[u].state = "unborn"
                            \/ calls[c].op = "createUser" /\ calls[c].user = u,
         calls'[c].op = "createUser" => \A d \in Calls : calls[d].user # calls'[c].user
  PROVE  (\A d \in Calls : CallOK(d)') /\ IdsDistinct'
<1>1. ASSUME NEW d \in Calls \ {c} PROVE CallOK(d)'
  <2>1. CallOK(d) /\ calls'[d] = calls[d]
    BY DEF AccountInv
  <2>2. calls[d].op = "createUser" =>
          /\ calls[d].user \in UserIds /\ users[calls[d].user].state = "unborn"
          /\ ~(calls[c].op = "createUser" /\ calls[c].user = calls[d].user)
    BY <2>1 DEF CallOK, AccountInv, IdsDistinct
  <2>. QED BY <2>1, <2>2 DEF CallOK
<1>2. IdsDistinct'
  BY DEF IdsDistinct, AccountInv
<1>. QED BY <1>1, <1>2

(* A call that starts an operation other than createUser. *)
LEMMA BeginSafe ==
  ASSUME AccountInv, NEW c \in Calls, NEW call \in Call, Begin(c, call),
         call.at # "idle", call.user \in UserIds, call.op # "createUser",
         call.op \in {"resetPassword", "forgotPassword"} \/ call.at = "mail" => call.patch.password \in Nat,
         UNCHANGED users
  PROVE  /\ calls' \in [Calls -> Call]
         /\ \A d \in Calls : CallOK(d)'
         /\ IdsDistinct'
<1>1. /\ calls' \in [Calls -> Call] /\ calls'[c] = call
      /\ \A d \in Calls \ {c} : calls'[d] = calls[d]
  BY DEF Begin, AccountInv, AccountTypeOK
<1>2. CallOK(c)'
  BY <1>1 DEF CallOK
<1>. QED BY <1>1, <1>2, CallsSafe

(* A call that returns, or goes on to another step of the same operation,   *)
(* with no row created.                                                     *)
LEMMA ResumeSafe ==
  ASSUME AccountInv, NEW c \in Calls,
         NEW next \in {"idle", "check", "insert", "write", "mail", "mark"}, GoTo(c, next),
         calls[c].at # "idle",
         calls[c].op # "createUser" \/ next = "idle",
         next = "mail" => calls[c].patch.password \in Nat,
         \A u \in UserIds : users'[u].state = users[u].state
  PROVE  /\ calls' \in [Calls -> Call]
         /\ \A d \in Calls : CallOK(d)'
         /\ IdsDistinct'
<1>1. /\ calls' \in [Calls -> Call]
      /\ \A d \in Calls \ {c} : calls'[d] = calls[d]
      /\ next = "idle" => calls'[c] = Idle
      /\ next # "idle" => calls'[c] = [calls[c] EXCEPT !.at = next]
  BY GoToSafe
<1>2. CallOK(c) /\ calls[c] \in Call
  BY DEF AccountInv, AccountTypeOK
<1>3. CallOK(c)' /\ calls'[c].op # "createUser"
  <2>1. CASE next = "idle"
    BY <1>1, <2>1 DEF CallOK, Idle
  <2>2. CASE next # "idle"
    <3>1. calls'[c].op = calls[c].op /\ calls'[c].at = next /\ calls'[c].user = calls[c].user
          /\ calls'[c].patch = calls[c].patch
      BY <1>1, <1>2, <2>2 DEF Call, Steps
    <3>. QED BY <1>2, <2>2, <3>1 DEF CallOK
  <2>. QED BY <2>1, <2>2
<1>. QED BY <1>1, <1>3, CallsSafe

(* A handler's prisma.user.update, whether it succeeds or throws. *)
LEMMA UserUpdateSafe ==
  ASSUME AccountInv, NEW c \in Calls, NEW p \in Patch, NEW next \in {"idle", "mail", "mark"},
         UserUpdate(c, p, next), calls[c].at # "idle", calls[c].op # "createUser",
         next = "mail" => calls[c].patch.password \in Nat,
         UNCHANGED admins
  PROVE  /\ users' \in [UserIds -> UserRow]
         /\ calls' \in [Calls -> Call]
         /\ \A v \in UserIds : /\ users'[v].state = users[v].state
                               /\ users'[v].createdBy = users[v].createdBy
         /\ (\A d \in Calls : CallOK(d)') /\ IdsDistinct' /\ CreatorsLive' /\ EmailsUnique'
<1>1. calls[c].user \in UserIds /\ calls[c].patch \in Patch
  BY DEF AccountInv, CallOK, AccountTypeOK, Call, Steps
<1>2. CASE UpdateRow(calls[c].user, p) /\ GoTo(c, next)
  <2>1. /\ users' \in [UserIds -> UserRow]
        /\ \A v \in UserIds : /\ users'[v].state = users[v].state
                              /\ users'[v].createdBy = users[v].createdBy
        /\ EmailsUnique'
    BY <1>1, <1>2, UpdateRowSafe
  <2>2. CreatorsLive'
    BY <2>1 DEF CreatorsLive, LiveUser, LiveAdmin, AccountInv
  <2>. QED BY <1>2, <2>1, <2>2, ResumeSafe
<1>3. CASE GoTo(c, "idle") /\ UNCHANGED users
  <2>1. CreatorsLive' /\ EmailsUnique'
    BY <1>3 DEF CreatorsLive, EmailsUnique, LiveUser, LiveAdmin, AccountInv
  <2>2. users' \in [UserIds -> UserRow]
    BY <1>3 DEF AccountInv, AccountTypeOK
  <2>. QED BY <1>3, <2>1, <2>2, ResumeSafe
<1>. QED BY <1>2, <1>3 DEF UserUpdate

-----------------------------------------------------------------------------
(* The counters of passwords keep their types. *)
LEMMA IssueType ==
  ASSUME AccountTypeOK, Issue
  PROVE  issued' \in Nat /\ NewPassword \in Nat /\ (told \cup {NewPassword}) \subseteq Nat
BY DEF AccountTypeOK, Issue, NewPassword

(* The handlers that read and then resume: none of them touches a table.    *)
LEMMA AccountStartSafe ==
  ASSUME AccountInv, NEW c \in Calls, AccountStart(c)
  PROVE  AccountInv'
<1>1. UNCHANGED <<admins, users>>
  BY DEF AccountStart, CreateUser, ResetPassword, ForgotPassword, UpdateMyProfile, ChangeMyPassword
<1>2. issued' \in Nat /\ told' \subseteq Nat
  <2>1. Choose \/ (Issue /\ UNCHANGED told) \/ UNCHANGED <<issued, told>>
    BY DEF AccountStart, CreateUser, ResetPassword, ForgotPassword, UpdateMyProfile, ChangeMyPassword
  <2>. QED BY <2>1, IssueType DEF Choose, AccountInv, AccountTypeOK
<1>3. calls' \in [Calls -> Call] /\ (\A d \in Calls : CallOK(d)') /\ IdsDistinct'
  <2>1. ASSUME NEW u \in UserIds, NEW a \in AdminIds, NEW n \in Names, NEW e \in Emails,
               CreateUser(c, u, a, n, e)
        PROVE  <1>3!:
    <3> DEFINE call == [Idle EXCEPT !.op = "createUser", !.at = "insert", !.user = u, !.admin = a,
                          !.patch = [name |-> n, email |-> e, password |-> NewPassword]]
    <3>1. NewPassword \in Nat
      BY <2>1, IssueType DEF CreateUser, Choose, AccountInv
    <3>2. /\ call.op = "createUser" /\ call.at = "insert" /\ call.user = u /\ call.admin = a
          /\ call.patch = [name |-> n, email |-> e, password |-> NewPassword]
      BY DEF Idle
    <3>3. Begin(c, call) /\ users[u].state = "unborn" /\ \A d \in Calls : calls[d].user # u
      BY <2>1 DEF CreateUser
    <3>4. call \in Call
      BY <3>1, <3>2, <3>3, IdleType DEF Begin, Call, Steps, Patch, Idle
    <3> HIDE DEF call
    <3>5. /\ calls' \in [Calls -> Call] /\ calls'[c] = call
          /\ \A d \in Calls \ {c} : calls'[d] = calls[d]
      BY <3>3, <3>4 DEF Begin, AccountInv, AccountTypeOK
    <3>6. CallOK(c)'
      BY <1>1, <3>1, <3>2, <3>3, <3>5 DEF CallOK
    <3>. QED BY <1>1, <3>2, <3>3, <3>5, <3>6, CallsSafe
  <2>2. ASSUME NEW u \in UserIds, NEW a \in AdminIds, ResetPassword(c, u, a)
        PROVE  <1>3!:
    <3> DEFINE call == [Idle EXCEPT !.op = "resetPassword", !.at = "write", !.user = u, !.admin = a,
                          !.patch.password = NewPassword, !.seen.email = users[u].email]
    <3>1. NewPassword \in Nat /\ users[u].email \in Emails \cup {None}
      BY <2>2, IssueType DEF ResetPassword, Choose, AccountInv, AccountTypeOK, UserRow
    <3>2. call.op = "resetPassword" /\ call.at = "write" /\ call.user = u /\ call.patch.password = NewPassword
      BY DEF Idle, NoPatch, NothingSeen
    <3>3. Begin(c, call)
      BY <2>2 DEF ResetPassword
    <3>4. call \in Call
      BY <3>1, <3>2, <3>3 DEF Begin, Call, Steps, Patch, Idle, NoPatch, NothingSeen
    <3> HIDE DEF call
    <3>. QED BY <1>1, <3>1, <3>2, <3>3, <3>4, BeginSafe
  <2>3. ASSUME NEW u \in UserIds, ForgotPassword(c, u)
        PROVE  <1>3!:
    <3> DEFINE call == [Idle EXCEPT !.op = "forgotPassword", !.at = "write", !.user = u,
                          !.patch.password = NewPassword, !.seen.email = users[u].email]
    <3>1. NewPassword \in Nat /\ users[u].email \in Emails \cup {None}
      BY <2>3, IssueType DEF ForgotPassword, AccountInv, AccountTypeOK, UserRow
    <3>2. call.op = "forgotPassword" /\ call.at = "write" /\ call.user = u /\ call.patch.password = NewPassword
      BY DEF Idle, NoPatch, NothingSeen
    <3>3. Begin(c, call)
      BY <2>3 DEF ForgotPassword
    <3>4. call \in Call
      BY <3>1, <3>2, <3>3 DEF Begin, Call, Steps, Patch, Idle, NoPatch, NothingSeen
    <3> HIDE DEF call
    <3>. QED BY <1>1, <3>1, <3>2, <3>3, <3>4, BeginSafe
  <2>4. ASSUME NEW u \in UserIds, NEW n \in Names \cup {Keep}, NEW e \in Emails \cup {Keep},
               UpdateMyProfile(c, u, n, e)
        PROVE  <1>3!:
    <3> DEFINE call == [Idle EXCEPT !.op = "updateMyProfile", !.user = u,
                          !.at = IF e \in {Keep, users[u].email} THEN "write" ELSE "check",
                          !.patch = [name |-> n, email |-> e, password |-> Keep],
                          !.seen = ProfileOf(users[u])]
    <3>1. ProfileOf(users[u]) \in [name: Names \cup {None}, email: Emails \cup {None}]
      BY DEF AccountInv, AccountTypeOK, UserRow, ProfileOf
    <3>2. call.op = "updateMyProfile" /\ call.at \in {"write", "check"} /\ call.user = u
      BY DEF Idle
    <3>3. Begin(c, call)
      BY <2>4 DEF UpdateMyProfile
    <3>4. call \in Call
      BY <3>1, <3>2, <3>3 DEF Begin, Call, Steps, Patch, Idle
    <3> HIDE DEF call
    <3>. QED BY <1>1, <3>2, <3>3, <3>4, BeginSafe
  <2>5. ASSUME NEW u \in UserIds, ChangeMyPassword(c, u)
        PROVE  <1>3!:
    <3> DEFINE call == [Idle EXCEPT !.op = "changeMyPassword", !.at = "write", !.user = u,
                          !.patch.password = NewPassword]
    <3>1. NewPassword \in Nat
      BY <2>5, IssueType DEF ChangeMyPassword, Choose, AccountInv
    <3>2. call.op = "changeMyPassword" /\ call.at = "write" /\ call.user = u
      BY DEF Idle
    <3>3. Begin(c, call)
      BY <2>5 DEF ChangeMyPassword
    <3>4. call \in Call
      BY <3>1, <3>2, <3>3 DEF Begin, Call, Steps, Patch, Idle, NoPatch, NothingSeen
    <3> HIDE DEF call
    <3>. QED BY <1>1, <3>2, <3>3, <3>4, BeginSafe
  <2>. QED BY <2>1, <2>2, <2>3, <2>4, <2>5 DEF AccountStart
<1>4. CreatorsLive' /\ EmailsUnique'
  BY <1>1 DEF CreatorsLive, EmailsUnique, LiveUser, LiveAdmin, AccountInv
<1>. QED BY <1>1, <1>2, <1>3, <1>4 DEF AccountInv, AccountTypeOK

-----------------------------------------------------------------------------
(* The insert: a fresh id, an email no other row has, a creator that exists *)
LEMMA CreateUserInsertSafe ==
  ASSUME AccountInv, NEW c \in Calls, CreateUserInsert(c)
  PROVE  AccountInv'
<1> DEFINE u == calls[c].user  a == calls[c].admin  p == calls[c].patch
           row == [state |-> "live", name |-> p.name, email |-> p.email,
                   password |-> p.password, createdBy |-> a]
<1>1. /\ u \in UserIds /\ a \in AdminIds /\ users[u].state = "unborn"
      /\ p.name \in Names /\ p.email \in Emails /\ p.password \in Nat
  BY DEF CreateUserInsert, At, AccountInv, CallOK
<1>2. row \in UserRow /\ row.state = "live" /\ row.email = p.email /\ row.createdBy = a
  BY <1>1 DEF UserRow, RowStates
<1>3. calls[c].op = "createUser" /\ calls[c].user = u /\ GoTo(c, "idle") /\ UNCHANGED <<admins, issued, told>>
  BY DEF CreateUserInsert, At
<1>4. InsertSucceeds(u, a, p.email) => users' = [users EXCEPT ![u] = row]
  BY DEF CreateUserInsert
<1>5. ~InsertSucceeds(u, a, p.email) => UNCHANGED users
  BY DEF CreateUserInsert
<1>6. users \in [UserIds -> UserRow]
  BY DEF AccountInv, AccountTypeOK
<1> HIDE DEF u, a, p, row
<1>7. users' \in [UserIds -> UserRow]
  BY <1>1, <1>2, <1>4, <1>5, <1>6
<1>8. \A v \in UserIds \ {u} : users'[v] = users[v]
  BY <1>4, <1>5, <1>6
<1>9. calls' \in [Calls -> Call] /\ (\A d \in Calls : CallOK(d)') /\ IdsDistinct'
  <2>1. calls' \in [Calls -> Call] /\ calls'[c] = Idle /\ \A d \in Calls \ {c} : calls'[d] = calls[d]
    BY <1>3, GoToSafe
  <2>2. CallOK(c)' /\ calls'[c].op # "createUser"
    BY <2>1 DEF CallOK, Idle
  <2>. QED BY <1>3, <1>8, <2>1, <2>2, CallsSafe
<1>10. CreatorsLive'
  BY <1>1, <1>2, <1>3, <1>4, <1>5, <1>6, <1>8
  DEF CreatorsLive, LiveUser, LiveAdmin, AccountInv, InsertSucceeds
<1>11. EmailsUnique'
  BY <1>1, <1>2, <1>4, <1>5, <1>6, <1>8 DEF EmailsUnique, LiveUser, AccountInv, InsertSucceeds, EmailFree
<1>. QED BY <1>3, <1>7, <1>9, <1>10, <1>11 DEF AccountInv, AccountTypeOK

(* The other steps of handlers in flight. *)
LEMMA AccountResumeSafe ==
  ASSUME AccountInv, NEW c \in Calls, AccountResume(c) \/ Fail(c)
  PROVE  AccountInv'
<1>1. calls[c] \in Call /\ CallOK(c) /\ calls[c].patch \in Patch
  BY DEF AccountInv, AccountTypeOK, Call, Steps
<1>2. CASE CreateUserInsert(c)
  BY <1>2, CreateUserInsertSafe
<1>3. CASE ResetPasswordWrite(c)
  <2>1. /\ UserUpdate(c, calls[c].patch, "mail") /\ UNCHANGED <<admins, issued, told>>
        /\ calls[c].at # "idle" /\ calls[c].op # "createUser" /\ calls[c].patch.password \in Nat
    BY <1>1, <1>3 DEF ResetPasswordWrite, At, CallOK
  <2>. QED BY <1>1, <2>1, UserUpdateSafe DEF AccountInv, AccountTypeOK
<1>4. CASE UpdateMyProfileWrite(c)
  <2>1. WholeProfile(calls[c]) \in Patch
    BY <1>1 DEF WholeProfile, Supplied, Call, Steps, Patch
  <2>2. /\ UserUpdate(c, WholeProfile(calls[c]), "idle") /\ UNCHANGED <<admins, issued, told>>
        /\ calls[c].at # "idle" /\ calls[c].op # "createUser"
    BY <1>4 DEF UpdateMyProfileWrite, At
  <2>. QED BY <2>1, <2>2, UserUpdateSafe DEF AccountInv, AccountTypeOK
<1>5. CASE ChangeMyPasswordWrite(c)
  <2>1. /\ UserUpdate(c, calls[c].patch, "idle") /\ UNCHANGED <<admins, issued, told>>
        /\ calls[c].at # "idle" /\ calls[c].op # "createUser"
    BY <1>5 DEF ChangeMyPasswordWrite, At
  <2>. QED BY <1>1, <2>1, UserUpdateSafe DEF AccountInv, AccountTypeOK
<1>6. ASSUME UNCHANGED <<admins, users, issued>>, told' \subseteq Nat,
             NEW next \in {"idle", "write"}, GoTo(c, next), calls[c].at # "idle",
             calls[c].op # "createUser" \/ next = "idle"
      PROVE  AccountInv'
  <2>1. calls' \in [Calls -> Call] /\ (\A d \in Calls : CallOK(d)') /\ IdsDistinct'
    BY <1>6, ResumeSafe
  <2>2. CreatorsLive' /\ EmailsUnique'
    BY <1>6 DEF CreatorsLive, EmailsUnique, LiveUser, LiveAdmin, AccountInv
  <2>. QED BY <1>6, <2>1, <2>2 DEF AccountInv, AccountTypeOK
<1>7. told \subseteq Nat
  BY DEF AccountInv, AccountTypeOK
<1>8. CASE SendPasswordResetEmail(c)
  <2>1. calls[c].patch.password \in Nat
    BY <1>1, <1>8 DEF SendPasswordResetEmail, CallOK
  <2>. QED BY <1>6, <1>7, <1>8, <2>1 DEF SendPasswordResetEmail
<1>9. CASE UpdateMyProfileCheck(c)
  BY <1>6, <1>7, <1>9 DEF UpdateMyProfileCheck, At
<1>10. CASE Fail(c)
  BY <1>6, <1>7, <1>10, BoundAssumption DEF Fail, Steps
<1>. QED BY <1>2, <1>3, <1>4, <1>5, <1>8, <1>9, <1>10 DEF AccountResume

-----------------------------------------------------------------------------
(* The handlers taken in one step. *)
LEMMA AccountOneShotSafe ==
  ASSUME AccountInv, AccountOneShot
  PROVE  AccountInv'
<1>1. /\ users \in [UserIds -> UserRow] /\ admins \in [AdminIds -> RowStates]
      /\ calls \in [Calls -> Call]
  BY DEF AccountInv, AccountTypeOK
<1>2. ASSUME UNCHANGED calls, \A u \in UserIds : users[u].state = "unborn" => users'[u].state = "unborn"
      PROVE  (\A d \in Calls : CallOK(d)') /\ IdsDistinct'
  BY <1>2 DEF CallOK, IdsDistinct, AccountInv
<1>3. ASSUME NEW a \in AdminIds, CreateAdmin(a)
      PROVE  AccountInv'
  <2>1. admins' \in [AdminIds -> RowStates] /\ \A b \in AdminIds : admins[b] = "live" => admins'[b] = "live"
    BY <1>1, <1>3 DEF CreateAdmin, RowStates
  <2>2. CreatorsLive' /\ EmailsUnique'
    BY <1>3, <2>1 DEF CreateAdmin, CreatorsLive, EmailsUnique, LiveUser, LiveAdmin, AccountInv
  <2>. QED BY <1>2, <1>3, <2>1, <2>2 DEF CreateAdmin, AccountInv, AccountTypeOK
<1>4. ASSUME NEW a \in AdminIds, RemoveAdmin(a)
      PROVE  AccountInv'
  <2>1. admins' \in [AdminIds -> RowStates] /\ \A b \in AdminIds \ {a} : admins'[b] = admins[b]
    BY <1>1, <1>4 DEF RemoveAdmin, RowStates
  <2>2. \A u \in UserIds : users'[u] = IF users[u].createdBy = a THEN [users[u] EXCEPT !.createdBy = None]
                                                              ELSE users[u]
    BY <1>4 DEF RemoveAdmin
  <2>3. \A u \in UserIds : /\ users'[u] \in UserRow
                           /\ users'[u].state = users[u].state /\ users'[u].email = users[u].email
                           /\ users'[u].createdBy = IF users[u].createdBy = a THEN None ELSE users[u].createdBy
    BY <1>1, <2>2 DEF UserRow
  <2>4. users' \in [UserIds -> UserRow]
    BY <1>4, <2>3 DEF RemoveAdmin
  <2>5. CreatorsLive' /\ EmailsUnique'
    BY <2>1, <2>3 DEF CreatorsLive, EmailsUnique, LiveUser, LiveAdmin, AccountInv
  <2>. QED BY <1>2, <1>4, <2>1, <2>3, <2>4, <2>5 DEF RemoveAdmin, AccountInv, AccountTypeOK
<1>5. ASSUME NEW u \in UserIds, NEW p \in UpdateInputs, UpdateUser(u, p)
      PROVE  AccountInv'
  <2>1. p \in Patch
    BY DEF UpdateInputs, Patch, NewPassword, AccountInv, AccountTypeOK
  <2>2. issued' \in Nat /\ told' \subseteq Nat /\ UNCHANGED <<admins, calls>> /\ UpdateRow(u, p)
    BY <1>5, IssueType DEF UpdateUser, Choose, AccountInv, AccountTypeOK
  <2>3. /\ users' \in [UserIds -> UserRow]
        /\ \A v \in UserIds : users'[v].state = users[v].state /\ users'[v].createdBy = users[v].createdBy
        /\ EmailsUnique'
    BY <2>1, <2>2, UpdateRowSafe
  <2>4. CreatorsLive'
    BY <2>2, <2>3 DEF CreatorsLive, LiveUser, LiveAdmin, AccountInv
  <2>. QED BY <1>2, <2>2, <2>3, <2>4 DEF AccountInv, AccountTypeOK
<1>6. ASSUME NEW u \in UserIds, RemoveUser(u)
      PROVE  AccountInv'
  <2> DEFINE row == [NoRow EXCEPT !.state = "gone"]
  <2>1. row \in UserRow /\ row.state = "gone"
    BY DEF NoRow, UserRow, RowStates
  <2>2. users' = [users EXCEPT ![u] = row] /\ users[u].state = "live"
    BY <1>6 DEF RemoveUser, LiveUser
  <2> HIDE DEF row
  <2>3. /\ users' \in [UserIds -> UserRow]
        /\ \A v \in UserIds : users'[v] = users[v] \/ (v = u /\ users'[v].state = "gone")
    BY <1>1, <1>6, <2>1, <2>2 DEF RemoveUser
  <2>4. CreatorsLive' /\ EmailsUnique'
    BY <1>6, <2>3 DEF RemoveUser, CreatorsLive, EmailsUnique, LiveUser, LiveAdmin, AccountInv
  <2>5. (\A d \in Calls : CallOK(d)') /\ IdsDistinct'
    BY <1>2, <1>6, <2>2, <2>3 DEF RemoveUser
  <2>. QED BY <1>6, <2>3, <2>4, <2>5 DEF RemoveUser, AccountInv, AccountTypeOK
<1>. QED BY <1>3, <1>4, <1>5, <1>6 DEF AccountOneShot

LEMMA AccountNextSafe ==
  ASSUME AccountInv, [AccountNext]_accountVars
  PROVE  AccountInv'
<1>1. CASE UNCHANGED accountVars
  BY <1>1 DEF accountVars, AccountInv, AccountTypeOK, CallOK, IdsDistinct, CreatorsLive,
              EmailsUnique, LiveUser, LiveAdmin
<1>. QED BY <1>1, AccountOneShotSafe, AccountStartSafe, AccountResumeSafe DEF AccountNext

-----------------------------------------------------------------------------
(* The account tables are well formed in every behaviour. *)
THEOREM AccountsTypeCorrect == AccountSpec => []AccountTypeOK
<1>1. AccountInv => AccountTypeOK
  BY DEF AccountInv
<1>. QED BY <1>1, AccountInitInv, AccountNextSafe, PTL DEF AccountSpec

(* UserService.create and AdminService.remove may overlap in any way: no    *)
(* user is left with a createdBy that names a missing admin.                *)
THEOREM CreatorsAlwaysLive == AccountSpec => []CreatorsLive
<1>1. AccountInv => CreatorsLive
  BY DEF AccountInv
<1>. QED BY <1>1, AccountInitInv, AccountNextSafe, PTL DEF AccountSpec

(* UserService.create, update and updateMyProfile look emails up before     *)
(* they write and may overlap in any way: an email stays with one user.     *)
THEOREM EmailsAlwaysUnique == AccountSpec => []EmailsUnique
<1>1. AccountInv => EmailsUnique
  BY DEF AccountInv
<1>. QED BY <1>1, AccountInitInv, AccountNextSafe, PTL DEF AccountSpec

-----------------------------------------------------------------------------
(* Passwords.  A handler that will store a password somebody chose carries  *)
(* one that is known already.                                               *)
PasswordsCarried ==
  \A c \in Calls : calls[c].op \in {"createUser", "changeMyPassword"}
                     => calls[c].patch.password \in told

LEMMA CarriedKept ==
  ASSUME PasswordsCarried, NEW c \in Calls, told \subseteq told',
         \A d \in Calls \ {c} : calls'[d] = calls[d],
         calls'[c].op \in {"createUser", "changeMyPassword"} => calls'[c].patch.password \in told'
  PROVE  PasswordsCarried'
BY DEF PasswordsCarried

LEMMA CarriedOnReturn ==
  ASSUME AccountInv, PasswordsCarried, NEW c \in Calls, told \subseteq told',
         NEW next \in {"idle", "check", "insert", "write", "mail", "mark"}, GoTo(c, next)
  PROVE  PasswordsCarried'
<1>1. /\ \A d \in Calls \ {c} : calls'[d] = calls[d]
      /\ calls'[c] = Idle \/ calls'[c] = [calls[c] EXCEPT !.at = next]
  BY GoToSafe
<1>2. calls[c] \in Call
  BY DEF AccountInv, AccountTypeOK
<1>3. CASE calls'[c] = Idle
  BY <1>1, <1>3, CarriedKept DEF Idle
<1>4. CASE calls'[c] = [calls[c] EXCEPT !.at = next]
  <2>1. calls'[c].op = calls[c].op /\ calls'[c].patch = calls[c].patch
    BY <1>2, <1>4 DEF Call, Steps
  <2>. QED BY <1>1, <2>1, CarriedKept DEF PasswordsCarried
<1>. QED BY <1>1, <1>3, <1>4

(* A row that keeps its password stays reachable when no call loses the     *)
(* word it has to pass on.                                                  *)
LEMMA KnownKept ==
  ASSUME NEW u \in UserIds, NEW S, KnownOrDue(u, S), told \subseteq told',
         users'[u].password = users[u].password,
         \A c \in Calls :
            calls[c].user = u /\ calls[c].at \in S /\ calls[c].patch.password = users[u].password =>
              calls'[c] = calls[c] \/ calls[c].patch.password \in told'
  PROVE  KnownOrDue(u, S)'
BY DEF KnownOrDue

(* The handlers that only read first. *)
LEMMA StartTells ==
  ASSUME AccountInv, NEW c \in Calls, AccountStart(c)
  PROVE  /\ UNCHANGED users /\ told \subseteq told' /\ calls[c].at = "idle"
         /\ \A d \in Calls \ {c} : calls'[d] = calls[d]
         /\ calls'[c].op \in {"createUser", "changeMyPassword"} => calls'[c].patch.password \in told'
<1> DEFINE Told == /\ calls[c].at = "idle"
                   /\ \A d \in Calls \ {c} : calls'[d] = calls[d]
                   /\ calls'[c].op \in {"createUser", "changeMyPassword"} =>
                        calls'[c].patch.password \in told'
<1>1. UNCHANGED users /\ told \subseteq told'
  BY DEF AccountStart, CreateUser, ResetPassword, ForgotPassword, UpdateMyProfile, ChangeMyPassword,
         Choose, Issue
<1>2. ASSUME NEW call, Begin(c, call),
             call.op \in {"createUser", "changeMyPassword"} => call.patch.password \in told'
      PROVE  Told
  BY <1>2 DEF Begin, AccountInv, AccountTypeOK
<1>3. \A u \in UserIds, a \in AdminIds, n \in Names, e \in Emails : CreateUser(c, u, a, n, e) => Told
  BY <1>2 DEF CreateUser, Choose, Idle
<1>4. \A u \in UserIds : (\E a \in AdminIds : ResetPassword(c, u, a)) \/ ForgotPassword(c, u) => Told
  BY <1>2 DEF ResetPassword, ForgotPassword, Idle
<1>5. \A u \in UserIds, n \in Names \cup {Keep}, e \in Emails \cup {Keep} : UpdateMyProfile(c, u, n, e) => Told
  BY <1>2 DEF UpdateMyProfile, Idle
<1>6. \A u \in UserIds : ChangeMyPassword(c, u) => Told
  BY <1>2 DEF ChangeMyPassword, Choose, Idle, NoPatch
<1>. QED BY <1>1, <1>3, <1>4, <1>5, <1>6 DEF AccountStart

(* The steps of Accounts lose nobody's password, those excepted that cut a  *)
(* call short before it passes the word on.  S may name the steps at which  *)
(* handlers of other services do that too.                                  *)
LEMMA StartKeepsKnown ==
  ASSUME AccountInv, PasswordsCarried, NEW c \in Calls, AccountStart(c)
  PROVE  /\ PasswordsCarried'
         /\ \A u \in UserIds, S \in SUBSET {"mail", "mark"} :
              (LiveUser(u) => KnownOrDue(u, S)) => (LiveUser(u)' => KnownOrDue(u, S)')
<1>1. PasswordsCarried'
  BY StartTells, CarriedKept
<1>2. ASSUME NEW u \in UserIds, NEW S \in SUBSET {"mail", "mark"}, LiveUser(u) => KnownOrDue(u, S), LiveUser(u)'
      PROVE  KnownOrDue(u, S)'
  <2>1. LiveUser(u) /\ users'[u].password = users[u].password
    BY <1>2, StartTells DEF LiveUser
  <2>2. calls[c].at \notin S
    BY StartTells
  <2>. QED BY <1>2, <2>1, <2>2, StartTells, KnownKept
<1>. QED BY <1>1, <1>2

LEMMA WriteKeepsKnown ==
  ASSUME AccountInv, NEW c \in Calls, NEW p \in Patch, NEW next \in {"idle", "mail", "mark"},
         UserUpdate(c, p, next), calls[c].user \in UserIds, calls[c].at \in {"check", "insert", "write"},
         told \subseteq told',
         NEW S \in SUBSET {"mail", "mark"},
         p.password = Keep \/ p.password \in told \/ (p = calls[c].patch /\ next \in S),
         NEW u \in UserIds, LiveUser(u) => KnownOrDue(u, S), LiveUser(u)'
  PROVE  KnownOrDue(u, S)'
<1>1. calls[c] \in Call /\ calls[c].at \notin S /\ users \in [UserIds -> UserRow]
  BY DEF AccountInv, AccountTypeOK
<1>2. \A d \in Calls \ {c} : calls'[d] = calls[d]
  BY GoToSafe DEF UserUpdate
<1>3. CASE UNCHANGED users
  <2>1. LiveUser(u) /\ users'[u].password = users[u].password
    BY <1>3 DEF LiveUser
  <2>. QED BY <1>1, <1>2, <2>1, KnownKept
<1>4. CASE UpdateRow(calls[c].user, p) /\ GoTo(c, next)
  <2>1. /\ users' = [users EXCEPT ![calls[c].user] = Patched(users[calls[c].user], p)]
        /\ LiveUser(calls[c].user)
    BY <1>4 DEF UpdateRow, UpdateSucceeds
  <2>2. /\ Patched(users[calls[c].user], p).password = Supplied(users[calls[c].user].password, p.password)
        /\ Patched(users[calls[c].user], p).state = users[calls[c].user].state
    BY <1>1 DEF Patched, UserRow
  <2>3. LiveUser(u)
    BY <1>1, <2>1, <2>2 DEF LiveUser
  <2>4. CASE u # calls[c].user \/ p.password = Keep
    <3>1. users'[u].password = users[u].password
      BY <1>1, <2>1, <2>2, <2>4 DEF Supplied
    <3>. QED BY <1>1, <1>2, <2>3, <3>1, KnownKept
  <2>5. CASE u = calls[c].user /\ p.password # Keep
    <3>1. users'[u].password = p.password
      BY <1>1, <2>1, <2>2, <2>5 DEF Supplied
    <3>2. CASE p.password \in told
      BY <3>1, <3>2 DEF KnownOrDue
    <3>3. CASE p = calls[c].patch /\ next \in S
      <4>1. calls'[c] = [calls[c] EXCEPT !.at = next]
        BY <1>4, <3>3, GoToSafe
      <4>2. calls'[c].at = next /\ calls'[c].user = u /\ calls'[c].patch = p
        BY <1>1, <2>5, <3>3, <4>1 DEF Call, Steps
      <4>. QED BY <3>1, <3>3, <4>2 DEF KnownOrDue
    <3>. QED BY <2>5, <3>2, <3>3
  <2>. QED BY <2>4, <2>5
<1>. QED BY <1>3, <1>4 DEF UserUpdate

LEMMA InsertKeepsKnown ==
  ASSUME AccountInv, PasswordsCarried, NEW c \in Calls, CreateUserInsert(c),
         NEW S \in SUBSET {"mail", "mark"},
         NEW u \in UserIds, LiveUser(u) => KnownOrDue(u, S), LiveUser(u)'
  PROVE  KnownOrDue(u, S)'
<1>1. /\ calls[c].op = "createUser" /\ calls[c].at = "insert" /\ GoTo(c, "idle") /\ UNCHANGED told
      /\ calls[c].user \in UserIds /\ users \in [UserIds -> UserRow]
  BY DEF CreateUserInsert, At, AccountInv, AccountTypeOK, CallOK
<1>2. calls[c].at \notin S /\ \A d \in Calls \ {c} : calls'[d] = calls[d]
  BY <1>1, GoToSafe
<1>3. CASE users'[u] = users[u]
  BY <1>1, <1>2, <1>3, KnownKept DEF LiveUser
<1>4. CASE users'[u] # users[u]
  <2>1. users'[u].password = calls[c].patch.password
    BY <1>1, <1>4 DEF CreateUserInsert
  <2>. QED BY <1>1, <2>1 DEF PasswordsCarried, KnownOrDue
<1>. QED BY <1>3, <1>4

LEMMA ResumeKeepsKnown ==
  ASSUME AccountInv, PasswordsCarried, NEW c \in Calls, AccountResume(c) \/ Fail(c)
  PROVE  /\ PasswordsCarried'
         /\ \A u \in UserIds, S \in SUBSET {"mail", "mark"} :
              "mail" \in S /\ (LiveUser(u) => KnownOrDue(u, S)) /\ ~CutShort(u, S)
                => (LiveUser(u)' => KnownOrDue(u, S)')
<1>1. calls[c] \in Call /\ calls[c].patch \in Patch /\ CallOK(c)
  BY DEF AccountInv, AccountTypeOK, Call, Steps
<1>2. PasswordsCarried'
  <2>1. told \subseteq told'
    BY DEF AccountResume, CreateUserInsert, ResetPasswordWrite, SendPasswordResetEmail,
           UpdateMyProfileCheck, UpdateMyProfileWrite, ChangeMyPasswordWrite, Fail
  <2>2. \E next \in {"idle", "write", "mail"} : GoTo(c, next)
    BY DEF AccountResume, CreateUserInsert, ResetPasswordWrite, SendPasswordResetEmail,
           UpdateMyProfileCheck, UpdateMyProfileWrite, ChangeMyPasswordWrite, Fail, UserUpdate
  <2>. QED BY <2>1, <2>2, CarriedOnReturn
<1>3. ASSUME NEW u \in UserIds, NEW S \in SUBSET {"mail", "mark"}, "mail" \in S,
             LiveUser(u) => KnownOrDue(u, S), ~CutShort(u, S), LiveUser(u)'
      PROVE  KnownOrDue(u, S)'
  <2>1. CASE CreateUserInsert(c)
    BY <1>3, <2>1, InsertKeepsKnown
  <2>2. CASE ResetPasswordWrite(c)
    <3>1. /\ UserUpdate(c, calls[c].patch, "mail") /\ calls[c].at = "write" /\ UNCHANGED told
          /\ calls[c].user \in UserIds
      BY <1>1, <2>2 DEF ResetPasswordWrite, At, CallOK
    <3>. QED BY <1>1, <1>3, <3>1, WriteKeepsKnown
  <2>3. CASE UpdateMyProfileWrite(c)
    <3>1. /\ UserUpdate(c, WholeProfile(calls[c]), "idle") /\ calls[c].at = "write" /\ UNCHANGED told
          /\ calls[c].user \in UserIds
      BY <1>1, <2>3 DEF UpdateMyProfileWrite, At, CallOK
    <3>2. WholeProfile(calls[c]) \in Patch /\ WholeProfile(calls[c]).password = Keep
      BY <1>1 DEF WholeProfile, Supplied, Call, Steps, Patch
    <3>. QED BY <1>3, <3>1, <3>2, WriteKeepsKnown
  <2>4. CASE ChangeMyPasswordWrite(c)
    <3>1. /\ UserUpdate(c, calls[c].patch, "idle") /\ calls[c].at = "write" /\ UNCHANGED told
          /\ calls[c].user \in UserIds /\ calls[c].patch.password \in told
      BY <1>1, <2>4 DEF ChangeMyPasswordWrite, At, CallOK, PasswordsCarried
    <3>. QED BY <1>1, <1>3, <3>1, WriteKeepsKnown
  <2>5. CASE SendPasswordResetEmail(c) \/ UpdateMyProfileCheck(c) \/ Fail(c)
    <3>1. UNCHANGED users /\ LiveUser(u)
      BY <1>3, <2>5 DEF SendPasswordResetEmail, UpdateMyProfileCheck, Fail, LiveUser
    <3>2. told \subseteq told' /\ \A d \in Calls \ {c} : calls'[d] = calls[d]
      BY <2>5, GoToSafe DEF SendPasswordResetEmail, UpdateMyProfileCheck, Fail
    <3>3. calls[c].user = u /\ calls[c].at \in S => calls[c].patch.password \in told'
      BY <1>3, <2>5 DEF SendPasswordResetEmail, UpdateMyProfileCheck, At, CutShort
    <3>. QED BY <1>3, <3>1, <3>2, <3>3, KnownKept
  <2>. QED BY <2>1, <2>2, <2>3, <2>4, <2>5 DEF AccountResume
<1>. QED BY <1>2, <1>3

LEMMA OneShotKeepsKnown ==
  ASSUME AccountInv, PasswordsCarried, AccountOneShot
  PROVE  /\ PasswordsCarried'
         /\ \A u \in UserIds, S \in SUBSET {"mail", "mark"} :
              (LiveUser(u) => KnownOrDue(u, S)) => (LiveUser(u)' => KnownOrDue(u, S)')
<1> DEFINE KeptOrTold(u) == \/ users'[u].password \in told'
                            \/ LiveUser(u) /\ users'[u].password = users[u].password
<1>1. UNCHANGED calls /\ told \subseteq told' /\ users \in [UserIds -> UserRow]
  BY DEF AccountOneShot, CreateAdmin, RemoveAdmin, UpdateUser, RemoveUser, Choose, AccountInv, AccountTypeOK
<1>2. PasswordsCarried'
  BY <1>1 DEF PasswordsCarried
<1>3. ASSUME NEW u \in UserIds, LiveUser(u)'
      PROVE  KeptOrTold(u)
  <2>1. ASSUME NEW a \in AdminIds, CreateAdmin(a) \/ RemoveAdmin(a) PROVE KeptOrTold(u)
    BY <1>1, <1>3, <2>1 DEF CreateAdmin, RemoveAdmin, LiveUser, UserRow
  <2>2. ASSUME NEW v \in UserIds, NEW p \in UpdateInputs, UpdateUser(v, p) PROVE KeptOrTold(u)
    <3>1. users' = [users EXCEPT ![v] = Patched(users[v], p)] /\ LiveUser(v)
      BY <2>2 DEF UpdateUser, UpdateRow, UpdateSucceeds
    <3>2. Patched(users[v], p).password = Supplied(users[v].password, p.password)
      BY <1>1 DEF Patched, UserRow
    <3>3. p.password = Keep \/ p.password \in told'
      BY <2>2 DEF UpdateUser, Choose
    <3>. QED BY <1>1, <1>3, <3>1, <3>2, <3>3 DEF Supplied, LiveUser
  <2>3. ASSUME NEW v \in UserIds, RemoveUser(v) PROVE KeptOrTold(u)
    BY <1>1, <1>3, <2>3 DEF RemoveUser, LiveUser, NoRow
  <2>. QED BY <1>3, <2>1, <2>2, <2>3 DEF AccountOneShot
<1>4. ASSUME NEW u \in UserIds, NEW S \in SUBSET {"mail", "mark"}, LiveUser(u) => KnownOrDue(u, S), LiveUser(u)'
      PROVE  KnownOrDue(u, S)'
  <2>1. CASE users'[u].password \in told'
    BY <2>1 DEF KnownOrDue
  <2>2. CASE LiveUser(u) /\ users'[u].password = users[u].password
    BY <1>1, <1>4, <2>2, KnownKept
  <2>. QED BY <1>3, <1>4, <2>1, <2>2
<1>. QED BY <1>2, <1>4

LEMMA NextKeepsKnown ==
  ASSUME AccountInv, PasswordsCarried, AccountNext
  PROVE  /\ PasswordsCarried'
         /\ \A u \in UserIds, S \in SUBSET {"mail", "mark"} :
              "mail" \in S /\ (LiveUser(u) => KnownOrDue(u, S)) /\ ~CutShort(u, S)
                => (LiveUser(u)' => KnownOrDue(u, S)')
BY OneShotKeepsKnown, StartKeepsKnown, ResumeKeepsKnown DEF AccountNext

(* What passwords rest on. *)
PasswordInv == AccountInv /\ PasswordsCarried

LEMMA PasswordInductive ==
  /\ AccountInit => PasswordInv /\ PasswordReachable
  /\ PasswordInv /\ [AccountNext]_accountVars => PasswordInv'
<1>1. ASSUME AccountInit PROVE PasswordInv /\ PasswordReachable
  <2>1. \A c \in Calls : calls[c] = Idle
    BY <1>1 DEF AccountInit
  <2>2. PasswordsCarried
    BY <2>1 DEF PasswordsCarried, Idle
  <2>3. \A u \in UserIds : users[u].password = 0
    BY <1>1 DEF AccountInit, SeedRow, NoRow
  <2>4. PasswordReachable
    BY <1>1, <2>3 DEF AccountInit, PasswordReachable, KnownOrDue
  <2>. QED BY <1>1, <2>2, <2>4, AccountInitInv DEF PasswordInv
<1>2. ASSUME PasswordInv, [AccountNext]_accountVars PROVE PasswordInv'
  <2>1. PasswordsCarried'
    <3>1. CASE UNCHANGED accountVars
      BY <1>2, <3>1 DEF accountVars, PasswordInv, PasswordsCarried
    <3>. QED BY <1>2, <3>1, NextKeepsKnown DEF PasswordInv
  <2>. QED BY <1>2, <2>1, AccountNextSafe DEF PasswordInv
<1>. QED BY <1>1, <1>2

(* forgotPassword and resetPassword replace a password before they mail it. *)
(* Whatever overlaps and fails, an account ends up with a password nobody   *)
(* knows only by a call cut short between the two.                          *)
THEOREM OnlyTheUnmailedIsLost == AccountSpec => PasswordLostOnlyUnmailed
<1> DEFINE Step == \A u \in UserIds :
                     (LiveUser(u) => KnownOrDue(u, {"mail"})) =>
                       \/ LiveUser(u)' => KnownOrDue(u, {"mail"})'
                       \/ CutShort(u, {"mail"})
<1>1. PasswordInv /\ [AccountNext]_accountVars => [Step]_accountVars
  BY NextKeepsKnown DEF PasswordInv
<1>. QED BY <1>1, PasswordInductive, PTL DEF AccountSpec, PasswordLostOnlyUnmailed

(* As long as mails go out, every account has a password that somebody      *)
(* knows or is about to be told, in whatever order resets, edits, removals  *)
(* and failures elsewhere come.                                             *)
THEOREM PasswordsStayReachable ==
  ASSUME "mail" \notin FailAt
  PROVE  AccountSpec => []PasswordReachable
<1>1. PasswordInv /\ PasswordReachable /\ [AccountNext]_accountVars => PasswordReachable'
  <2> SUFFICES ASSUME PasswordInv, PasswordReachable, [AccountNext]_accountVars,
                      NEW u \in UserIds, LiveUser(u)'
               PROVE  KnownOrDue(u, {"mail"})'
    BY DEF PasswordReachable
  <2>1. CASE UNCHANGED accountVars
    BY <2>1 DEF accountVars, PasswordReachable, LiveUser, KnownOrDue
  <2>2. CASE AccountNext
    BY <2>2, NextKeepsKnown DEF PasswordInv, PasswordReachable, CutShort, Fail
  <2>. QED BY <2>1, <2>2
<1>. QED BY <1>1, PasswordInductive, PTL DEF AccountSpec

=============================================================================
