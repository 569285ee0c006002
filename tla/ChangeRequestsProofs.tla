------------------------ MODULE ChangeRequestsProofs ------------------------
(***************************************************************************)
(* Proofs about ChangeRequests: the request table stays consistent with    *)
(* the accounts it refers to, and statuses with the data, for any number   *)
(* of accounts, requests and calls in flight, with and without failures.   *)
(* Three more sections say how far overlap may go before a promise breaks: *)
(* a generated password reaches somebody, a change in effect stays, and    *)
(* RequestService implements ReviewPipeline.                               *)
(***************************************************************************)
EXTENDS ChangeRequests, AccountsProofs

(* What a call about a request carries. *)
RequestCallOK(c) ==
  LET call == calls[c] IN
  /\ call.op = "createRequest" =>
       /\ call.at = "insert" /\ call.req \in RequestIds /\ requests[call.req].state = "unborn"
       /\ call.user \in UserIds /\ call.admin \in AdminIds /\ users[call.user].state # "unborn"
       /\ users[call.user].state = "live" /\ admins[call.admin] # "gone"
            => users[call.user].createdBy = call.admin
  /\ Deciding(c) =>
       /\ call.at \in {"write", "mark"}
       /\ call.req \in RequestIds /\ requests[call.req].state # "unborn"
       /\ call.op = "generatePassword" => call.patch.password \in Nat
       /\ LiveRequest(call.req) =>
            /\ call.user = requests[call.req].user
            /\ call.admin = requests[call.req].admin
            /\ call.op # "rejectRequest" /\ call.at = "mark" => call.req \in applied

(* Two inserts in flight never carry the same new id. *)
RequestIdsDistinct ==
  \A c, d \in Calls : c # d /\ calls[c].op = "createRequest" /\ calls[d].op = "createRequest"
                        => calls[c].req # calls[d].req

(* The inductive invariant. *)
Inv ==
  /\ AccountInv
  /\ requests \in [RequestIds -> RequestRow]
  /\ applied \subseteq RequestIds
  /\ \A c \in Calls : RequestCallOK(c)
  /\ RequestIdsDistinct
  /\ RequestGoesToCreator
  /\ ApprovedWasApplied

LEMMA InvImplies == Inv => TypeOK /\ RequestGoesToCreator /\ DecisionByCreator /\ ApprovedWasApplied
<1> SUFFICES ASSUME Inv PROVE TypeOK /\ DecisionByCreator
  BY DEF Inv
<1>1. TypeOK
  BY DEF Inv, AccountInv, TypeOK
<1>2. DecisionByCreator
  BY DEF Inv, DecisionByCreator, RequestCallOK, RequestGoesToCreator, LiveRequest
<1>. QED BY <1>1, <1>2

LEMMA InitInv == Init => Inv
<1> SUFFICES ASSUME Init PROVE Inv
  OBVIOUS
<1>1. AccountInv /\ \A c \in Calls : calls[c] = Idle
  BY AccountInitInv DEF Init, AccountInit
<1>2. NoRequest \in RequestRow /\ NoRequest.state = "unborn"
  BY DEF NoRequest, RequestRow, RowStates, NoPatch, Patch
<1>3. requests \in [RequestIds -> RequestRow] /\ \A r \in RequestIds : ~LiveRequest(r)
  BY <1>2 DEF Init, LiveRequest
<1>4. (\A c \in Calls : RequestCallOK(c)) /\ RequestIdsDistinct
  BY <1>1 DEF RequestCallOK, RequestIdsDistinct, Deciding, DecisionOps, Idle
<1>. QED BY <1>1, <1>3, <1>4 DEF Init, Inv, RequestGoesToCreator, ApprovedWasApplied

-----------------------------------------------------------------------------
(* What a step of Accounts can do to the rows and the calls requests rely   *)
(* on: a live row stays live or goes, a creator stays or goes, and calls of *)
(* RequestService are left alone or cut short.                              *)
RowsGoOnlyOnce ==
  /\ \A u \in UserIds :
       users[u].state = "live" =>
          \/ users'[u].state = "gone"
          \/ /\ users'[u].state = "live"
             /\ \/ users'[u].createdBy = users[u].createdBy
                \/ /\ users[u].createdBy \in AdminIds /\ admins'[users[u].createdBy] = "gone"
                   /\ users'[u].createdBy = None
  /\ \A a \in AdminIds : admins[a] = "live" => admins'[a] \in {"live", "gone"}
  /\ \A u \in UserIds : users[u].state = "gone" => users'[u].state = "gone"
  /\ \A a \in AdminIds : admins[a] = "gone" => admins'[a] = "gone"

RequestCallsKept ==
  \A c \in Calls : calls'[c].op \in DecisionOps \cup {"createRequest"} => calls'[c] = calls[c]

LEMMA RowsKeep ==
  ASSUME UNCHANGED admins,
         \A u \in UserIds : users[u].state # "unborn" =>
            users'[u].state = users[u].state /\ users'[u].createdBy = users[u].createdBy
  PROVE  RowsGoOnlyOnce
BY DEF RowsGoOnlyOnce

LEMMA CallKeeps ==
  ASSUME AccountInv, NEW c \in Calls, NEW next \in {"idle", "check", "insert", "write", "mail", "mark"},
         GoTo(c, next), next = "idle" \/ calls[c].op \notin DecisionOps \cup {"createRequest"}
  PROVE  RequestCallsKept
<1>1. calls[c] \in Call
  BY DEF AccountInv, AccountTypeOK
<1>2. /\ \A d \in Calls \ {c} : calls'[d] = calls[d]
      /\ next = "idle" => calls'[c] = Idle
      /\ next # "idle" => calls'[c] = [calls[c] EXCEPT !.at = next]
  BY GoToSafe
<1>3. calls'[c].op \notin DecisionOps \cup {"createRequest"}
  <2>1. CASE next = "idle"
    BY <1>2, <2>1 DEF Idle, DecisionOps
  <2>2. CASE next # "idle"
    <3>1. calls'[c].op = calls[c].op
      BY <1>1, <1>2, <2>2 DEF Call, Steps
    <3>. QED BY <2>2, <3>1
  <2>. QED BY <2>1, <2>2
<1>. QED BY <1>2, <1>3 DEF RequestCallsKept

LEMMA AccountEffect ==
  ASSUME AccountInv, AccountNext
  PROVE  RowsGoOnlyOnce /\ RequestCallsKept
<1>1. /\ users \in [UserIds -> UserRow] /\ admins \in [AdminIds -> RowStates] /\ calls \in [Calls -> Call]
  BY DEF AccountInv, AccountTypeOK
<1>3. ASSUME NEW c \in Calls, AccountStart(c)
      PROVE  RowsGoOnlyOnce /\ RequestCallsKept
  <2>1. UNCHANGED <<admins, users>>
    BY <1>3 DEF AccountStart, CreateUser, ResetPassword, ForgotPassword, UpdateMyProfile, ChangeMyPassword
  <2>2. ASSUME NEW call, Begin(c, call),
               call.op \in {"createUser", "resetPassword", "forgotPassword", "updateMyProfile", "changeMyPassword"}
        PROVE  RequestCallsKept
    <3>1. calls'[c] = call /\ \A d \in Calls \ {c} : calls'[d] = calls[d]
      BY <1>1, <2>2 DEF Begin
    <3>2. call.op \notin DecisionOps \cup {"createRequest"}
      BY <2>2 DEF DecisionOps
    <3>. QED BY <3>1, <3>2 DEF RequestCallsKept
  <2>3. \A u \in UserIds, a \in AdminIds, n \in Names, e \in Emails :
          CreateUser(c, u, a, n, e) => RequestCallsKept
    BY <2>2 DEF CreateUser, Idle
  <2>4. \A u \in UserIds : /\ \A a \in AdminIds : ResetPassword(c, u, a) => RequestCallsKept
                           /\ ForgotPassword(c, u) \/ ChangeMyPassword(c, u) => RequestCallsKept
    BY <2>2 DEF ResetPassword, ForgotPassword, ChangeMyPassword, Idle
  <2>5. RequestCallsKept
    <3>1. \A u \in UserIds, n \in Names \cup {Keep}, e \in Emails \cup {Keep} :
            UpdateMyProfile(c, u, n, e) => RequestCallsKept
      BY <2>2 DEF UpdateMyProfile, Idle
    <3>. QED BY <1>3, <2>3, <2>4, <3>1 DEF AccountStart
  <2>. QED BY <2>1, <2>5, RowsKeep
<1>4. ASSUME NEW c \in Calls, AccountResume(c) \/ Fail(c)
      PROVE  RowsGoOnlyOnce /\ RequestCallsKept
  <2>1. CASE CreateUserInsert(c)
    <3>1. calls[c].op = "createUser" /\ calls[c].user \in UserIds /\ users[calls[c].user].state = "unborn"
      BY <2>1 DEF CreateUserInsert, At, AccountInv, CallOK
    <3>2. GoTo(c, "idle") /\ UNCHANGED admins /\ \A u \in UserIds \ {calls[c].user} : users'[u] = users[u]
      BY <1>1, <2>1 DEF CreateUserInsert
    <3>. QED BY <3>1, <3>2, CallKeeps, RowsKeep
  <2>2. ASSUME NEW p \in Patch, NEW next \in {"idle", "mail"}, UserUpdate(c, p, next),
               calls[c].op \in {"resetPassword", "forgotPassword", "updateMyProfile", "changeMyPassword"},
               calls[c].at # "idle", next = "mail" => calls[c].patch.password \in Nat, UNCHANGED admins
        PROVE  RowsGoOnlyOnce /\ RequestCallsKept
    <3>1. GoTo(c, next) \/ GoTo(c, "idle")
      BY <2>2 DEF UserUpdate
    <3>2. RequestCallsKept
      BY <2>2, <3>1, CallKeeps DEF DecisionOps
    <3>3. \A u \in UserIds : users'[u].state = users[u].state /\ users'[u].createdBy = users[u].createdBy
      BY <2>2, UserUpdateSafe
    <3>. QED BY <2>2, <3>2, <3>3, RowsKeep
  <2>3. calls[c].patch \in Patch /\ WholeProfile(calls[c]) \in Patch /\ CallOK(c)
    BY <1>1 DEF Call, Steps, Patch, WholeProfile, Supplied, AccountInv
  <2>4. CASE ResetPasswordWrite(c) \/ UpdateMyProfileWrite(c) \/ ChangeMyPasswordWrite(c)
    BY <2>2, <2>3, <2>4 DEF ResetPasswordWrite, UpdateMyProfileWrite, ChangeMyPasswordWrite, At, CallOK
  <2>5. CASE SendPasswordResetEmail(c) \/ UpdateMyProfileCheck(c) \/ Fail(c)
    <3>1. PICK next \in {"idle", "write"} :
            GoTo(c, next) /\ (next = "idle" \/ calls[c].op = "updateMyProfile")
      BY <2>5 DEF SendPasswordResetEmail, UpdateMyProfileCheck, Fail, At
    <3>2. UNCHANGED <<admins, users>>
      BY <2>5 DEF SendPasswordResetEmail, UpdateMyProfileCheck, Fail
    <3>. QED BY <3>1, <3>2, CallKeeps, RowsKeep DEF DecisionOps
  <2>. QED BY <1>4, <2>1, <2>4, <2>5 DEF AccountResume
<1>5. CASE AccountOneShot
  <2>1. RequestCallsKept
    BY <1>5 DEF AccountOneShot, CreateAdmin, RemoveAdmin, UpdateUser, RemoveUser, RequestCallsKept
  <2>2. ASSUME NEW a \in AdminIds, CreateAdmin(a) PROVE RowsGoOnlyOnce
    BY <1>1, <2>2 DEF CreateAdmin, RowsGoOnlyOnce
  <2>3. ASSUME NEW a \in AdminIds, RemoveAdmin(a) PROVE RowsGoOnlyOnce
    <3>1. admins' = [admins EXCEPT ![a] = "gone"]
          /\ \A u \in UserIds : users'[u] = IF users[u].createdBy = a THEN [users[u] EXCEPT !.createdBy = None] ELSE users[u]
      BY <2>3 DEF RemoveAdmin
    <3>2. \A u \in UserIds : /\ users'[u].state = users[u].state
                             /\ users'[u].createdBy = IF users[u].createdBy = a THEN None ELSE users[u].createdBy
      BY <1>1, <3>1 DEF UserRow
    <3>3. admins'[a] = "gone" /\ \A b \in AdminIds \ {a} : admins'[b] = admins[b]
      BY <1>1, <3>1
    <3>. QED BY <3>2, <3>3 DEF RowsGoOnlyOnce
  <2>4. ASSUME NEW u \in UserIds, NEW p \in UpdateInputs, UpdateUser(u, p) PROVE RowsGoOnlyOnce
    <3>1. p \in Patch
      BY DEF UpdateInputs, Patch, NewPassword, AccountInv, AccountTypeOK
    <3>2. \A v \in UserIds : users'[v].state = users[v].state /\ users'[v].createdBy = users[v].createdBy
      BY <2>4, <3>1, UpdateRowSafe DEF UpdateUser
    <3>. QED BY <2>4, <3>2, RowsKeep DEF UpdateUser
  <2>5. ASSUME NEW u \in UserIds, RemoveUser(u) PROVE RowsGoOnlyOnce
    <3>1. UNCHANGED admins /\ users'[u].state = "gone" /\ \A v \in UserIds \ {u} : users'[v] = users[v]
      BY <1>1, <2>5 DEF RemoveUser, NoRow
    <3>. QED BY <3>1 DEF RowsGoOnlyOnce
  <2>. QED BY <1>5, <2>1, <2>2, <2>3, <2>4, <2>5 DEF AccountOneShot
<1>. QED BY <1>3, <1>4, <1>5 DEF AccountNext

-----------------------------------------------------------------------------
(* A step of Accounts with its cascade: a request whose user or admin goes, *)
(* goes with it; the others keep both.                                      *)
LEMMA AccountStepSafe ==
  ASSUME Inv, AccountStep
  PROVE  Inv'
<1>1. AccountInv' /\ RowsGoOnlyOnce /\ RequestCallsKept
  BY AccountNextSafe, AccountEffect DEF AccountStep, Inv
<1>2. ASSUME NEW r \in RequestIds
      PROVE  \/ requests'[r] = requests[r] /\ ~(LiveRequest(r) /\ Orphaned(requests[r]))
             \/ LiveRequest(r) /\ requests'[r] \in RequestRow /\ requests'[r].state = "gone"
  BY DEF AccountStep, NoRequest, RequestRow, RowStates, NoPatch, Patch
<1>3. requests' \in [RequestIds -> RequestRow]
  BY <1>2 DEF AccountStep, Inv
<1>4. applied' = {r \in applied : requests'[r].state # "gone"}
  BY DEF AccountStep
<1>5. \A r \in RequestIds : LiveRequest(r)' => requests'[r] = requests[r] /\ LiveRequest(r) /\ ~Orphaned(requests[r])
  BY <1>2 DEF LiveRequest
<1>6. ASSUME NEW c \in Calls PROVE RequestCallOK(c)'
  <2>1. CASE calls'[c].op \in DecisionOps \cup {"createRequest"}
    <3>1. calls'[c] = calls[c] /\ RequestCallOK(c)
      BY <1>1, <2>1 DEF RequestCallsKept, Inv
    <3>2. Deciding(c)' = Deciding(c)
      BY <3>1 DEF Deciding
    <3>4. ASSUME NEW u \in UserIds, NEW a \in AdminIds, users[u].state # "unborn",
                 users[u].state = "live" /\ admins[a] # "gone" => users[u].createdBy = a
          PROVE  /\ users'[u].state # "unborn"
                 /\ users'[u].state = "live" /\ admins'[a] # "gone" => users'[u].createdBy = a
      BY <1>1, <3>4 DEF RowsGoOnlyOnce, Inv, AccountInv, AccountTypeOK, UserRow, RowStates
    <3>3. ASSUME NEW r \in RequestIds
          PROVE  /\ requests[r].state = "unborn" => requests'[r].state = "unborn"
                 /\ requests[r].state # "unborn" => requests'[r].state # "unborn"
                 /\ LiveRequest(r)' => /\ requests'[r] = requests[r] /\ LiveRequest(r)
                                       /\ r \in applied => r \in applied'
      BY <1>2, <1>4, <1>5 DEF LiveRequest
    <3>. QED BY <3>1, <3>2, <3>3, <3>4 DEF RequestCallOK
  <2>2. CASE calls'[c].op \notin DecisionOps \cup {"createRequest"}
    BY <2>2 DEF RequestCallOK, Deciding
  <2>. QED BY <2>1, <2>2
<1>7. RequestIdsDistinct'
  BY <1>1 DEF RequestCallsKept, RequestIdsDistinct, Inv
<1>8. RequestGoesToCreator'
  <2> SUFFICES ASSUME NEW r \in RequestIds, LiveRequest(r)'
               PROVE  /\ requests[r].user \in UserIds /\ users'[requests[r].user].state = "live"
                      /\ requests[r].admin \in AdminIds /\ admins'[requests[r].admin] = "live"
                      /\ requests[r].admin = users'[requests[r].user].createdBy
    BY <1>5 DEF RequestGoesToCreator, LiveUser, LiveAdmin
  <2>1. /\ LiveUser(requests[r].user) /\ LiveAdmin(requests[r].admin)
        /\ requests[r].admin = users[requests[r].user].createdBy
    BY <1>5 DEF Inv, RequestGoesToCreator
  <2>2. users'[requests[r].user].state # "gone" /\ admins'[requests[r].admin] # "gone"
    BY <1>5, <2>1 DEF Orphaned, LiveUser, LiveAdmin
  <2>. QED BY <1>1, <2>1, <2>2 DEF RowsGoOnlyOnce, LiveUser, LiveAdmin
<1>9. ApprovedWasApplied'
  BY <1>4, <1>5 DEF ApprovedWasApplied, LiveRequest, Inv
<1>10. applied' \subseteq RequestIds
  BY <1>4 DEF Inv
<1>. QED BY <1>1, <1>3, <1>6, <1>7, <1>8, <1>9, <1>10 DEF Inv

-----------------------------------------------------------------------------
(* Steps of RequestService that leave the account tables alone. *)
LEMMA AccountsUntouched ==
  ASSUME AccountInv, UNCHANGED <<admins, users>>, issued' \in Nat, told' \subseteq Nat,
         calls' \in [Calls -> Call], \A d \in Calls : CallOK(d)', IdsDistinct'
  PROVE  AccountInv'
<1>1. CreatorsLive' /\ EmailsUnique'
  BY DEF CreatorsLive, EmailsUnique, LiveUser, LiveAdmin, AccountInv
<1>. QED BY <1>1 DEF AccountInv, AccountTypeOK

(* Only one call changes, and no request is created or forgotten: the       *)
(* others still carry what they carried.                                    *)
LEMMA OtherCallsSafe ==
  ASSUME Inv, NEW c \in Calls,
         \A d \in Calls \ {c} : calls'[d] = calls[d],
         \A u \in UserIds : users'[u].state = users[u].state /\ users'[u].createdBy = users[u].createdBy,
         UNCHANGED admins,
         \A r \in RequestIds :
            /\ requests'[r].state = requests[r].state
            /\ requests'[r].user = requests[r].user /\ requests'[r].admin = requests[r].admin,
         applied \subseteq applied',
         RequestCallOK(c)',
         calls'[c].op = "createRequest" => \A d \in Calls : calls[d].req # calls'[c].req
  PROVE  (\A d \in Calls : RequestCallOK(d)') /\ RequestIdsDistinct'
<1>1. ASSUME NEW d \in Calls \ {c} PROVE RequestCallOK(d)'
  BY DEF Inv, RequestCallOK, LiveRequest, Deciding
<1>2. RequestIdsDistinct'
  BY DEF Inv, RequestIdsDistinct
<1>. QED BY <1>1, <1>2

LEMMA CreateRequestSafe ==
  ASSUME Inv, NEW c \in Calls, NEW r \in RequestIds, NEW u \in UserIds,
         NEW change \in RequestedChanges, CreateRequest(c, r, u, change)
  PROVE  Inv'
<1> DEFINE call == [Idle EXCEPT !.op = "createRequest", !.at = "insert", !.req = r, !.user = u,
                      !.admin = users[u].createdBy, !.patch = change]
<1>1. /\ Begin(c, call) /\ UNCHANGED <<admins, users, issued, told, requests, applied>>
      /\ requests[r].state = "unborn" /\ \A d \in Calls : calls[d].req # r
  BY DEF CreateRequest
<1>2. /\ call.op = "createRequest" /\ call.at = "insert" /\ call.req = r /\ call.user = u
      /\ call.admin = users[u].createdBy
  BY DEF Idle
<1>3. users[u].createdBy \in AdminIds /\ users[u].state = "live"
  BY DEF CreateRequest, LiveUser, Inv, AccountInv, AccountTypeOK, UserRow
<1>4. change \in Patch
  BY DEF RequestedChanges, NoPatch, Patch
<1>5. call \in Call
  BY <1>1, <1>2, <1>3, <1>4 DEF Begin, Call, Steps, Idle, NothingSeen
<1> HIDE DEF call
<1>6. /\ calls'[c] = call /\ \A d \in Calls \ {c} : calls'[d] = calls[d]
  BY <1>1, <1>5 DEF Begin, Inv, AccountInv, AccountTypeOK
<1>7. AccountInv'
  <2>1. calls' \in [Calls -> Call] /\ (\A d \in Calls : CallOK(d)') /\ IdsDistinct'
    BY <1>1, <1>2, <1>5, BeginSafe DEF Inv
  <2>. QED BY <1>1, <2>1, AccountsUntouched DEF Inv, AccountInv, AccountTypeOK
<1>8. (\A d \in Calls : RequestCallOK(d)') /\ RequestIdsDistinct'
  <2>1. RequestCallOK(c)'
    BY <1>1, <1>2, <1>3, <1>6 DEF RequestCallOK, Deciding, DecisionOps
  <2>. QED BY <1>1, <1>2, <1>6, <2>1, OtherCallsSafe DEF Inv
<1>9. RequestGoesToCreator' /\ ApprovedWasApplied'
  BY <1>1 DEF Inv, RequestGoesToCreator, ApprovedWasApplied, LiveRequest, LiveUser, LiveAdmin
<1>. QED BY <1>1, <1>7, <1>8, <1>9 DEF Inv

LEMMA BeginDecisionSafe ==
  ASSUME Inv, NEW c \in Calls, NEW r \in RequestIds, NEW a \in AdminIds, NEW op \in DecisionOps,
         NEW step \in {"write", "mark"}, NEW patch \in Patch, BeginDecision(c, r, a, op, step, patch),
         step = "mark" => op = "rejectRequest", op = "generatePassword" => patch.password \in Nat,
         issued' \in Nat, told' \subseteq Nat
  PROVE  Inv'
<1> DEFINE call == [Idle EXCEPT !.op = op, !.at = step, !.req = r, !.admin = a,
                      !.user = requests[r].user, !.patch = patch]
<1>1. /\ Begin(c, call) /\ UNCHANGED <<admins, users, requests, applied>>
      /\ LiveRequest(r) /\ requests[r].admin = a
  BY DEF BeginDecision, MayDecide
<1>2. requests[r].user \in UserIds
  BY <1>1 DEF Inv, RequestGoesToCreator, LiveUser
<1>3. /\ call.op = op /\ call.at = step /\ call.req = r /\ call.admin = a
      /\ call.user = requests[r].user /\ call.patch = patch
  BY DEF Idle
<1>4. call \in Call
  BY <1>1, <1>2, <1>3 DEF Begin, Call, Steps, Idle, NothingSeen
<1>5. op \notin {"createUser", "resetPassword", "forgotPassword", "createRequest"}
  BY DEF DecisionOps
<1> HIDE DEF call
<1>6. /\ calls'[c] = call /\ \A d \in Calls \ {c} : calls'[d] = calls[d]
  BY <1>1, <1>4 DEF Begin, Inv, AccountInv, AccountTypeOK
<1>7. AccountInv'
  <2>1. calls' \in [Calls -> Call] /\ (\A d \in Calls : CallOK(d)') /\ IdsDistinct'
    BY <1>1, <1>2, <1>3, <1>4, <1>5, BeginSafe DEF Inv
  <2>. QED BY <1>1, <2>1, AccountsUntouched DEF Inv
<1>8. (\A d \in Calls : RequestCallOK(d)') /\ RequestIdsDistinct'
  <2>1. RequestCallOK(c)'
    BY <1>1, <1>3, <1>5, <1>6 DEF RequestCallOK, LiveRequest
  <2>. QED BY <1>1, <1>3, <1>5, <1>6, <2>1, OtherCallsSafe DEF Inv
<1>9. RequestGoesToCreator' /\ ApprovedWasApplied'
  BY <1>1 DEF Inv, RequestGoesToCreator, ApprovedWasApplied, LiveRequest, LiveUser, LiveAdmin
<1>. QED BY <1>1, <1>7, <1>8, <1>9 DEF Inv

LEMMA DecisionStartSafe ==
  ASSUME Inv, NEW c \in Calls, NEW r \in RequestIds, NEW a \in AdminIds,
         ApproveRequest(c, r, a) \/ RejectRequest(c, r, a) \/ GeneratePassword(c, r, a)
  PROVE  Inv'
<1>1. issued' \in Nat /\ told' \subseteq Nat
  BY IssueType DEF ApproveRequest, RejectRequest, GeneratePassword, Inv, AccountInv, AccountTypeOK
<1>2. requests[r].change \in Patch /\ NoPatch \in Patch
  BY DEF Inv, RequestRow, NoPatch, Patch
<1>3. CASE ApproveRequest(c, r, a)
  BY <1>1, <1>2, <1>3, BeginDecisionSafe DEF ApproveRequest, DecisionOps
<1>4. CASE RejectRequest(c, r, a)
  BY <1>1, <1>2, <1>4, BeginDecisionSafe DEF RejectRequest, DecisionOps
<1>5. CASE GeneratePassword(c, r, a)
  <2>1. /\ [NoPatch EXCEPT !.password = NewPassword] \in Patch
        /\ [NoPatch EXCEPT !.password = NewPassword].password \in Nat
    BY <1>5, IssueType DEF GeneratePassword, Inv, AccountInv, NoPatch, Patch
  <2>. QED BY <1>1, <1>5, <2>1, BeginDecisionSafe DEF GeneratePassword, DecisionOps
<1>. QED BY <1>3, <1>4, <1>5

-----------------------------------------------------------------------------
(* The insert finds its id free and, past the foreign keys, its user and    *)
(* admin in place: the admin is still the user's creator, because creators  *)
(* are never replaced, only removed.                                        *)
LEMMA CreateRequestInsertSafe ==
  ASSUME Inv, NEW c \in Calls, CreateRequestInsert(c)
  PROVE  Inv'
<1> DEFINE r == calls[c].req  u == calls[c].user  a == calls[c].admin
           row == [state |-> "live", user |-> u, admin |-> a,
                   change |-> calls[c].patch, status |-> "pending"]
<1>1. /\ calls[c].op = "createRequest" /\ calls[c].at = "insert"
      /\ GoTo(c, "idle") /\ UNCHANGED <<admins, users, issued, told, applied>>
      /\ requests' = IF LiveUser(u) /\ LiveAdmin(a) THEN [requests EXCEPT ![r] = row] ELSE requests
  BY DEF CreateRequestInsert, At, RequestRefsExist
<1>2. /\ r \in RequestIds /\ u \in UserIds /\ a \in AdminIds /\ requests[r].state = "unborn"
      /\ users[u].state = "live" /\ admins[a] # "gone" => users[u].createdBy = a
  BY <1>1 DEF Inv, RequestCallOK
<1>3. row \in RequestRow /\ row.state = "live" /\ row.status = "pending" /\ row.user = u /\ row.admin = a
  <2>1. calls[c].patch \in Patch
    BY DEF Inv, AccountInv, AccountTypeOK, Call, Steps
  <2>. QED BY <1>2, <2>1 DEF RequestRow, RowStates
<1>4. calls' \in [Calls -> Call] /\ calls'[c] = Idle /\ \A d \in Calls \ {c} : calls'[d] = calls[d]
  BY <1>1, GoToSafe DEF Inv
<1>5. AccountInv'
  <2>1. calls' \in [Calls -> Call] /\ (\A d \in Calls : CallOK(d)') /\ IdsDistinct'
    BY <1>1, ResumeSafe DEF Inv
  <2>. QED BY <1>1, <2>1, AccountsUntouched DEF Inv, AccountInv, AccountTypeOK
<1> HIDE DEF row
<1>6. /\ requests' \in [RequestIds -> RequestRow] /\ requests'[r] \in {requests[r], row}
      /\ requests'[r].state = "live" => requests'[r] = row /\ LiveUser(u) /\ LiveAdmin(a)
      /\ \A s \in RequestIds \ {r} : requests'[s] = requests[s]
  BY <1>1, <1>2, <1>3 DEF Inv, LiveRequest
<1>7. ASSUME NEW d \in Calls PROVE RequestCallOK(d)'
  <2>1. CASE d = c
    BY <1>4, <2>1 DEF RequestCallOK, Deciding, DecisionOps, Idle
  <2>2. CASE d # c
    <3>1. calls'[d] = calls[d] /\ RequestCallOK(d)
      BY <1>4, <2>2 DEF Inv
    <3>2. /\ calls[d].op = "createRequest" => calls[d].req # r
          /\ Deciding(d) => calls[d].req # r
      BY <1>1, <1>2, <2>2, <3>1 DEF Inv, RequestIdsDistinct, RequestCallOK
    <3>. QED BY <1>1, <1>6, <3>1, <3>2 DEF RequestCallOK, Deciding, LiveRequest
  <2>. QED BY <2>1, <2>2
<1>8. RequestIdsDistinct'
  BY <1>4 DEF Inv, RequestIdsDistinct, Idle
<1>9. RequestGoesToCreator'
  BY <1>1, <1>2, <1>3, <1>6 DEF Inv, RequestGoesToCreator, LiveRequest, LiveUser, LiveAdmin
<1>10. ApprovedWasApplied'
  BY <1>1, <1>3, <1>6 DEF Inv, ApprovedWasApplied, LiveRequest
<1>. QED BY <1>1, <1>5, <1>6, <1>7, <1>8, <1>9, <1>10 DEF Inv

(* The first write of a decision: the user row. *)
LEMMA ApplyDecisionSafe ==
  ASSUME Inv, NEW c \in Calls, ApplyDecision(c)
  PROVE  Inv'
<1>1. /\ calls[c].op \in {"approveRequest", "generatePassword"} /\ calls[c].at = "write"
      /\ UserUpdate(c, calls[c].patch, "mark") /\ UNCHANGED <<admins, issued, told, requests>>
  BY DEF ApplyDecision, At
<1>2. calls[c] \in Call /\ calls[c].patch \in Patch /\ RequestCallOK(c)
  BY DEF Inv, AccountInv, AccountTypeOK, Call, Steps
<1>3. /\ users' \in [UserIds -> UserRow] /\ calls' \in [Calls -> Call]
      /\ \A v \in UserIds : users'[v].state = users[v].state /\ users'[v].createdBy = users[v].createdBy
      /\ (\A d \in Calls : CallOK(d)') /\ IdsDistinct' /\ CreatorsLive' /\ EmailsUnique'
  BY <1>1, <1>2, UserUpdateSafe DEF Inv
<1>4. AccountInv'
  BY <1>1, <1>3 DEF Inv, AccountInv, AccountTypeOK
<1>5. calls[c].req \in RequestIds
  BY <1>1, <1>2 DEF RequestCallOK, Deciding, DecisionOps
<1>6. applied \subseteq applied' /\ applied' \subseteq RequestIds
  BY <1>5 DEF ApplyDecision, Inv
<1>7. /\ \A d \in Calls \ {c} : calls'[d] = calls[d]
      /\ calls'[c] = Idle \/ /\ calls'[c] = [calls[c] EXCEPT !.at = "mark"]
                             /\ LiveRequest(calls[c].req) => calls[c].req \in applied'
  <2>1. GoTo(c, "idle") \/ (GoTo(c, "mark") /\ UpdateSucceeds(calls[c].user, calls[c].patch))
    BY <1>1 DEF UserUpdate, UpdateRow
  <2>2. /\ \A d \in Calls \ {c} : calls'[d] = calls[d]
        /\ GoTo(c, "idle") => calls'[c] = Idle
        /\ GoTo(c, "mark") => calls'[c] = [calls[c] EXCEPT !.at = "mark"]
    BY <2>1, GoToSafe DEF Inv
  <2>. QED BY <2>1, <2>2 DEF ApplyDecision
<1>8. (\A d \in Calls : RequestCallOK(d)') /\ RequestIdsDistinct'
  <2>1. RequestCallOK(c)' /\ calls'[c].op # "createRequest"
    <3>1. CASE calls'[c] = Idle
      BY <3>1 DEF RequestCallOK, Deciding, DecisionOps, Idle
    <3>2. CASE /\ calls'[c] = [calls[c] EXCEPT !.at = "mark"]
               /\ LiveRequest(calls[c].req) => calls[c].req \in applied'
      <4>1. /\ calls'[c].op = calls[c].op /\ calls'[c].at = "mark" /\ calls'[c].req = calls[c].req
            /\ calls'[c].user = calls[c].user /\ calls'[c].admin = calls[c].admin /\ calls'[c].patch = calls[c].patch
        BY <1>2, <3>2 DEF Call, Steps
      <4>2. Deciding(c)
        BY <1>1 DEF Deciding, DecisionOps
      <4>. QED BY <1>1, <1>2, <3>2, <4>1, <4>2 DEF RequestCallOK, Deciding, LiveRequest
    <3>. QED BY <1>7, <3>1, <3>2
  <2>. QED BY <1>1, <1>3, <1>6, <1>7, <2>1, OtherCallsSafe
<1>9. RequestGoesToCreator' /\ ApprovedWasApplied'
  BY <1>1, <1>3, <1>6 DEF Inv, RequestGoesToCreator, ApprovedWasApplied, LiveRequest, LiveUser, LiveAdmin
<1>. QED BY <1>1, <1>4, <1>6, <1>8, <1>9 DEF Inv

(* The second: the status. *)
LEMMA MarkDecidedSafe ==
  ASSUME Inv, NEW c \in Calls, MarkDecided(c)
  PROVE  Inv'
<1> DEFINE r == calls[c].req
<1>1. /\ Deciding(c) /\ calls[c].at = "mark" /\ GoTo(c, "idle") /\ UNCHANGED <<admins, users, issued, applied>>
      /\ requests' = IF LiveRequest(r) THEN [requests EXCEPT ![r].status = Verdict(calls[c].op)] ELSE requests
  BY DEF MarkDecided
<1>2. RequestCallOK(c) /\ calls[c].op # "createUser" /\ calls[c].op \in DecisionOps
  BY <1>1 DEF Inv, Deciding, DecisionOps
<1>3. r \in RequestIds /\ (LiveRequest(r) /\ calls[c].op # "rejectRequest" => r \in applied)
  BY <1>1, <1>2 DEF RequestCallOK
<1>4. told' \subseteq Nat
  <2>1. calls[c].op = "generatePassword" => calls[c].patch.password \in Nat
    BY <1>1, <1>2 DEF RequestCallOK
  <2>2. told' = told \/ (calls[c].op = "generatePassword" /\ told' = told \cup {calls[c].patch.password})
    BY DEF MarkDecided
  <2>. QED BY <2>1, <2>2 DEF Inv, AccountInv, AccountTypeOK
<1>5. AccountInv'
  <2>1. calls' \in [Calls -> Call] /\ (\A d \in Calls : CallOK(d)') /\ IdsDistinct'
    BY <1>1, <1>2, ResumeSafe DEF Inv
  <2>. QED BY <1>1, <1>4, <2>1, AccountsUntouched DEF Inv, AccountInv, AccountTypeOK
<1>6. ASSUME NEW s \in RequestIds
      PROVE  /\ requests'[s] \in RequestRow
             /\ requests'[s].state = requests[s].state
             /\ requests'[s].user = requests[s].user /\ requests'[s].admin = requests[s].admin
             /\ \/ requests'[s].status = requests[s].status
                \/ s = r /\ LiveRequest(r) /\ requests'[s].status = Verdict(calls[c].op)
  <2>1. requests \in [RequestIds -> RequestRow]
    BY DEF Inv
  <2>2. [requests[r] EXCEPT !.status = Verdict(calls[c].op)] \in RequestRow
    BY <1>3, <2>1 DEF RequestRow, Verdict
  <2>3. requests'[s] = IF s = r /\ LiveRequest(r) THEN [requests[r] EXCEPT !.status = Verdict(calls[c].op)]
                                                  ELSE requests[s]
    BY <1>1, <1>3, <2>1
  <2>. QED BY <1>3, <2>1, <2>2, <2>3 DEF RequestRow
<1>7. requests' \in [RequestIds -> RequestRow]
  BY <1>1, <1>6 DEF Inv
<1>8. (\A d \in Calls : RequestCallOK(d)') /\ RequestIdsDistinct'
  <2>1. calls'[c] = Idle /\ \A d \in Calls \ {c} : calls'[d] = calls[d]
    BY <1>1, GoToSafe DEF Inv
  <2>2. RequestCallOK(c)' /\ calls'[c].op # "createRequest"
    BY <2>1 DEF RequestCallOK, Deciding, DecisionOps, Idle
  <2>. QED BY <1>1, <1>6, <2>1, <2>2, OtherCallsSafe
<1>9. RequestGoesToCreator'
  BY <1>1, <1>6 DEF Inv, RequestGoesToCreator, LiveRequest, LiveUser, LiveAdmin
<1>10. ApprovedWasApplied'
  BY <1>1, <1>3, <1>6 DEF Inv, ApprovedWasApplied, LiveRequest, Verdict
<1>. QED BY <1>1, <1>5, <1>7, <1>8, <1>9, <1>10 DEF Inv

-----------------------------------------------------------------------------
LEMMA NextSafe ==
  ASSUME Inv, [Next]_vars
  PROVE  Inv'
<1>1. CASE UNCHANGED vars
  <2>1. AccountInv'
    BY <1>1, AccountNextSafe DEF vars, Inv
  <2>. QED BY <1>1, <2>1 DEF vars, accountVars, Inv, RequestCallOK, RequestIdsDistinct, RequestGoesToCreator,
                ApprovedWasApplied, LiveRequest, LiveUser, LiveAdmin, Deciding
<1>2. ASSUME NEW c \in Calls, RequestStart(c) PROVE Inv'
  BY <1>2, CreateRequestSafe, DecisionStartSafe DEF RequestStart
<1>3. ASSUME NEW c \in Calls, RequestResume(c) PROVE Inv'
  BY <1>3, CreateRequestInsertSafe, ApplyDecisionSafe, MarkDecidedSafe DEF RequestResume
<1>. QED BY <1>1, <1>2, <1>3, AccountStepSafe DEF Next

(* The inductive invariant holds in every behaviour, and with it the types. *)
THEOREM TypeCorrect == Spec => []TypeOK
<1>. QED BY InitInv, NextSafe, InvImplies, PTL DEF Spec

(* Every stored request is for the admin who owns its user (README.md:610), *)
(* whatever createRequest overlaps with.                                    *)
THEOREM RequestsGoToCreators == Spec => []RequestGoesToCreator
<1>. QED BY InitInv, NextSafe, InvImplies, PTL DEF Spec

(* The ownership check of approveRequest, rejectRequest and                 *)
(* generatePassword still holds when their writes are done.                 *)
THEOREM DecisionsByCreators == Spec => []DecisionByCreator
<1>. QED BY InitInv, NextSafe, InvImplies, PTL DEF Spec

(* No request is marked approved before its change is in the user row.      *)
THEOREM ApprovedMeansApplied == Spec => []ApprovedWasApplied
<1>. QED BY InitInv, NextSafe, InvImplies, PTL DEF Spec

-----------------------------------------------------------------------------
(* Passwords.  Only generatePassword stores one; what it is about to        *)
(* answer, it answers, for its request is there as long as the user is      *)
(* owned by an admin.                                                       *)
Owned(u) == LiveUser(u) /\ users[u].createdBy # None

GenerationOK(c) ==
  /\ calls[c].op \in {"createRequest", "approveRequest", "rejectRequest"} => calls[c].patch.password = Keep
  /\ Deciding(c) => /\ users[calls[c].user].state # "unborn"
                    /\ Owned(calls[c].user) => LiveRequest(calls[c].req)

GenerationInv ==
  /\ PasswordsCarried
  /\ \A r \in RequestIds : requests[r].change.password = Keep
  /\ \A c \in Calls : GenerationOK(c)

Untold == {"mail", "mark"}

(* Only one call changes, and no row comes or goes.                         *)
LEMMA OthersGenerate ==
  ASSUME GenerationInv, NEW c \in Calls,
         \A d \in Calls \ {c} : calls'[d] = calls[d],
         \A u \in UserIds : users'[u].state = users[u].state /\ users'[u].createdBy = users[u].createdBy,
         \A d \in Calls : Deciding(d) => calls[d].user \in UserIds,
         \A r \in RequestIds : LiveRequest(r) => LiveRequest(r)',
         GenerationOK(c)'
  PROVE  \A d \in Calls : GenerationOK(d)'
<1> SUFFICES ASSUME NEW d \in Calls \ {c} PROVE GenerationOK(d)'
  OBVIOUS
<1>1. calls'[d] = calls[d] /\ GenerationOK(d) /\ Deciding(d)' = Deciding(d)
  BY DEF GenerationInv, Deciding
<1>2. Deciding(d) => Owned(calls[d].user)' = Owned(calls[d].user)
  BY DEF Owned, LiveUser
<1>. QED BY <1>1, <1>2 DEF GenerationOK, LiveRequest

LEMMA DecidersKnowUsers ==
  ASSUME Inv PROVE \A d \in Calls : Deciding(d) => calls[d].user \in UserIds /\ calls[d].req \in RequestIds
BY DEF Inv, AccountInv, CallOK, RequestCallOK, Deciding, DecisionOps

LEMMA AccountStepGenerates ==
  ASSUME Inv, GenerationInv, AccountStep
  PROVE  GenerationInv'
<1>1. RowsGoOnlyOnce /\ RequestCallsKept /\ AccountInv'
  BY AccountNextSafe, AccountEffect DEF AccountStep, Inv
<1>2. PasswordsCarried'
  BY NextKeepsKnown DEF AccountStep, Inv, GenerationInv
<1>3. \A r \in RequestIds : /\ requests'[r].change.password = Keep
                            /\ LiveRequest(r) => LiveRequest(r)' \/ Orphaned(requests[r])
  BY DEF AccountStep, GenerationInv, NoRequest, NoPatch, LiveRequest
<1>4. ASSUME NEW c \in Calls PROVE GenerationOK(c)'
  <2>1. CASE calls'[c].op \in DecisionOps \cup {"createRequest"}
    <3>1. calls'[c] = calls[c] /\ GenerationOK(c) /\ RequestCallOK(c) /\ Deciding(c)' = Deciding(c)
      BY <1>1, <2>1 DEF RequestCallsKept, GenerationInv, Inv, Deciding
    <3> SUFFICES ASSUME Deciding(c), NEW u \in UserIds, NEW r \in RequestIds,
                        u = calls[c].user, r = calls[c].req
                 PROVE  users'[u].state # "unborn" /\ (Owned(u)' => LiveRequest(r)')
      BY <3>1, DecidersKnowUsers DEF GenerationOK, LiveRequest, Owned, LiveUser
    <3>2. u \in UserIds /\ r \in RequestIds
      OBVIOUS
    <3>3. users[u].state \in {"live", "gone"}
      BY <3>1, <3>2 DEF GenerationOK, Inv, AccountInv, AccountTypeOK, UserRow, RowStates
    <3>4. users'[u].state # "unborn"
      BY <1>1, <3>2, <3>3 DEF RowsGoOnlyOnce
    <3>5. ASSUME Owned(u)' PROVE LiveRequest(r)'
      <4>1. users[u].state = "live" /\ users'[u].createdBy = users[u].createdBy /\ users[u].createdBy # None
        BY <1>1, <3>2, <3>3, <3>5 DEF Owned, LiveUser, RowsGoOnlyOnce
      <4>2. LiveRequest(r) /\ requests[r].user = u /\ requests[r].admin = users[u].createdBy
        BY <3>1, <3>2, <4>1 DEF Owned, LiveUser, GenerationOK, RequestCallOK, Inv, RequestGoesToCreator
      <4>3. LiveAdmin(users[u].createdBy)'
        BY <1>1, <3>2, <3>5, <4>1 DEF AccountInv, CreatorsLive, Owned
      <4>. QED BY <1>3, <3>2, <3>5, <4>1, <4>2, <4>3 DEF Orphaned, Owned, LiveUser, LiveAdmin
    <3>. QED BY <3>4, <3>5
  <2>2. CASE calls'[c].op \notin DecisionOps \cup {"createRequest"}
    BY <2>2 DEF GenerationOK, Deciding, DecisionOps
  <2>. QED BY <2>1, <2>2
<1>. QED BY <1>2, <1>3, <1>4 DEF GenerationInv

(* The handlers that read a request, or a user, first. *)
LEMMA RequestStartGenerates ==
  ASSUME Inv, GenerationInv, NEW c \in Calls, RequestStart(c)
  PROVE  /\ GenerationInv'
         /\ UNCHANGED <<users, told>> /\ calls[c].at = "idle"
         /\ \A d \in Calls \ {c} : calls'[d] = calls[d]
<1> DEFINE Started == /\ GenerationInv'
                      /\ calls[c].at = "idle" /\ \A d \in Calls \ {c} : calls'[d] = calls[d]
<1>1. UNCHANGED <<users, told, requests>>
  BY DEF RequestStart, CreateRequest, ApproveRequest, RejectRequest, GeneratePassword, BeginDecision
<1>2. ASSUME NEW call, Begin(c, call), call.op \notin {"createUser", "changeMyPassword"},
             call.op \in {"createRequest", "approveRequest", "rejectRequest"} => call.patch.password = Keep,
             call.op \in DecisionOps => /\ users[call.user].state # "unborn"
                                       /\ LiveRequest(call.req)
      PROVE  Started
  <2>1. /\ calls[c].at = "idle" /\ calls'[c] = call
        /\ \A d \in Calls \ {c} : calls'[d] = calls[d]
    BY <1>2 DEF Begin, Inv, AccountInv, AccountTypeOK
  <2>2. GenerationOK(c)'
    BY <1>1, <1>2, <2>1 DEF GenerationOK, Deciding, LiveRequest
  <2>3. \A d \in Calls : GenerationOK(d)'
    BY <1>1, <2>1, <2>2, OthersGenerate, DecidersKnowUsers DEF LiveRequest
  <2>4. PasswordsCarried'
    BY <1>1, <1>2, <2>1, CarriedKept DEF GenerationInv
  <2>. QED BY <1>1, <2>1, <2>3, <2>4 DEF GenerationInv
<1>3. ASSUME NEW r \in RequestIds, NEW u \in UserIds, NEW change \in RequestedChanges,
             CreateRequest(c, r, u, change)
      PROVE  Started
  <2>1. change.password = Keep
    BY DEF RequestedChanges, NoPatch
  <2> DEFINE call == [Idle EXCEPT !.op = "createRequest", !.at = "insert", !.req = r, !.user = u,
                        !.admin = users[u].createdBy, !.patch = change]
  <2>2. call.op = "createRequest" /\ call.patch = change /\ Begin(c, call)
    BY <1>3 DEF CreateRequest, Idle
  <2> HIDE DEF call
  <2>. QED BY <1>2, <2>1, <2>2 DEF DecisionOps
<1>4. ASSUME NEW r \in RequestIds, NEW a \in AdminIds, NEW op \in DecisionOps, NEW step, NEW patch,
             BeginDecision(c, r, a, op, step, patch), op # "generatePassword" => patch.password = Keep
      PROVE  Started
  <2> DEFINE call == [Idle EXCEPT !.op = op, !.at = step, !.req = r, !.admin = a,
                        !.user = requests[r].user, !.patch = patch]
  <2>1. /\ call.op = op /\ call.patch = patch /\ call.user = requests[r].user /\ call.req = r
        /\ Begin(c, call) /\ LiveRequest(r)
    BY <1>4 DEF BeginDecision, MayDecide, Idle
  <2>2. users[requests[r].user].state # "unborn"
    BY <2>1 DEF Inv, RequestGoesToCreator, LiveUser
  <2> HIDE DEF call
  <2>. QED BY <1>2, <1>4, <2>1, <2>2 DEF DecisionOps
<1>5. ASSUME NEW r \in RequestIds, NEW a \in AdminIds,
             ApproveRequest(c, r, a) \/ RejectRequest(c, r, a) \/ GeneratePassword(c, r, a)
      PROVE  Started
  <2>1. requests[r].change.password = Keep /\ NoPatch.password = Keep
    BY DEF GenerationInv, NoPatch
  <2>. QED BY <1>4, <1>5, <2>1 DEF ApproveRequest, RejectRequest, GeneratePassword, DecisionOps
<1>. QED BY <1>1, <1>3, <1>5 DEF RequestStart

(* The steps in which a call returns, or goes on to its second write.       *)
LEMMA RequestResumeGenerates ==
  ASSUME Inv, GenerationInv, NEW c \in Calls, RequestResume(c)
  PROVE  GenerationInv'
<1>1. told \subseteq told'
  BY DEF RequestResume, CreateRequestInsert, ApplyDecision, MarkDecided
<1>2. PICK next \in {"idle", "mark"} : GoTo(c, next)
  BY DEF RequestResume, CreateRequestInsert, ApplyDecision, MarkDecided, UserUpdate
<1>3. PasswordsCarried'
  BY <1>1, <1>2, CarriedOnReturn DEF Inv, GenerationInv
<1>4. \A u \in UserIds : users'[u].state = users[u].state /\ users'[u].createdBy = users[u].createdBy
  <2>1. CASE ApplyDecision(c)
    <3>1. /\ UserUpdate(c, calls[c].patch, "mark") /\ UNCHANGED admins
          /\ calls[c].at # "idle" /\ calls[c].op # "createUser" /\ calls[c].patch \in Patch
      BY <2>1 DEF ApplyDecision, At, Inv, AccountInv, AccountTypeOK, Call, Steps
    <3>. QED BY <3>1, UserUpdateSafe DEF Inv
  <2>2. CASE CreateRequestInsert(c) \/ MarkDecided(c)
    BY <2>2 DEF CreateRequestInsert, MarkDecided
  <2>. QED BY <2>1, <2>2 DEF RequestResume
<1>5. \A r \in RequestIds : /\ requests'[r].change.password = Keep
                            /\ LiveRequest(r) => LiveRequest(r)'
  <2>1. CASE CreateRequestInsert(c)
    <3>1. calls[c].patch.password = Keep /\ calls[c].op = "createRequest" /\ RequestCallOK(c)
      BY <2>1 DEF CreateRequestInsert, At, GenerationInv, GenerationOK, Inv
    <3>. QED BY <2>1, <3>1 DEF CreateRequestInsert, GenerationInv, LiveRequest, Inv, RequestCallOK
  <2>2. CASE ApplyDecision(c)
    BY <2>2 DEF ApplyDecision, GenerationInv, LiveRequest
  <2>3. CASE MarkDecided(c)
    BY <2>3 DEF MarkDecided, GenerationInv, LiveRequest, Inv, RequestRow
  <2>. QED BY <2>1, <2>2, <2>3 DEF RequestResume
<1>6. /\ \A d \in Calls \ {c} : calls'[d] = calls[d]
      /\ calls'[c] = Idle \/ calls'[c] = [calls[c] EXCEPT !.at = next]
  BY <1>2, GoToSafe DEF Inv
<1>7. GenerationOK(c)'
  <2>1. CASE calls'[c] = Idle
    BY <2>1 DEF GenerationOK, Deciding, DecisionOps, Idle
  <2>2. CASE calls'[c] = [calls[c] EXCEPT !.at = next]
    <3>1. /\ calls'[c].op = calls[c].op /\ calls'[c].patch = calls[c].patch
          /\ calls'[c].user = calls[c].user /\ calls'[c].req = calls[c].req
      BY <2>2 DEF Inv, AccountInv, AccountTypeOK, Call, Steps
    <3>2. GenerationOK(c) /\ Deciding(c)' = Deciding(c)
      BY <3>1 DEF GenerationInv, Deciding
    <3>. QED BY <1>4, <1>5, <3>1, <3>2, DecidersKnowUsers DEF GenerationOK, Owned, LiveUser
  <2>. QED BY <1>6, <2>1, <2>2
<1>8. \A d \in Calls : GenerationOK(d)'
  BY <1>4, <1>5, <1>6, <1>7, OthersGenerate, DecidersKnowUsers
<1>. QED BY <1>3, <1>5, <1>8 DEF GenerationInv

LEMMA GenerationInductive ==
  /\ Init => GenerationInv /\ GeneratedPasswordReachable
  /\ Inv /\ GenerationInv /\ [Next]_vars => GenerationInv'
<1>1. ASSUME Init PROVE GenerationInv /\ GeneratedPasswordReachable
  <2>1. \A c \in Calls : GenerationOK(c)
    BY <1>1 DEF Init, AccountInit, GenerationOK, Deciding, DecisionOps, Idle
  <2>2. PasswordsCarried /\ PasswordReachable
    BY <1>1, PasswordInductive DEF Init, PasswordInv
  <2>3. \A r \in RequestIds : requests[r].change.password = Keep
    BY <1>1 DEF Init, NoRequest, NoPatch
  <2>. QED BY <2>1, <2>2, <2>3 DEF GenerationInv, GeneratedPasswordReachable, PasswordReachable, KnownOrDue
<1>2. ASSUME Inv, GenerationInv, [Next]_vars PROVE GenerationInv'
  <2>1. CASE UNCHANGED vars
    BY <1>2, <2>1 DEF vars, accountVars, GenerationInv, GenerationOK, PasswordsCarried, Deciding, Owned,
                      LiveUser, LiveRequest
  <2>. QED BY <1>2, <2>1, AccountStepGenerates, RequestStartGenerates, RequestResumeGenerates DEF Next
<1>. QED BY <1>1, <1>2

(* One step, of whatever handler.                                           *)
LEMMA OwnedStaysKnown ==
  ASSUME Inv, GenerationInv, [Next]_vars, NEW u \in UserIds,
         Owned(u) => KnownOrDue(u, Untold), ~CutShort(u, Untold), Owned(u)'
  PROVE  KnownOrDue(u, Untold)'
<1>1. CASE UNCHANGED vars
  BY <1>1 DEF vars, accountVars, Owned, LiveUser, KnownOrDue
<1>2. CASE AccountStep
  <2>1. LiveUser(u) => Owned(u)
    <3>1. RowsGoOnlyOnce
      BY <1>2, AccountEffect DEF AccountStep, Inv
    <3>. QED BY <3>1 DEF RowsGoOnlyOnce, Owned, LiveUser
  <2>. QED BY <1>2, <2>1, NextKeepsKnown DEF AccountStep, Inv, GenerationInv, Owned, Untold
<1>3. ASSUME NEW c \in Calls, RequestStart(c) PROVE KnownOrDue(u, Untold)'
  <2>1. Owned(u) /\ users'[u].password = users[u].password /\ told \subseteq told'
    BY <1>3, RequestStartGenerates DEF Owned, LiveUser
  <2>. QED BY <1>3, <2>1, RequestStartGenerates, KnownKept DEF Untold
<1>4. ASSUME NEW c \in Calls, RequestResume(c) PROVE KnownOrDue(u, Untold)'
  <2>1. CASE CreateRequestInsert(c)
    <3>1. /\ Owned(u) /\ users'[u].password = users[u].password /\ told \subseteq told'
          /\ calls[c].at = "insert" /\ GoTo(c, "idle")
      BY <2>1 DEF CreateRequestInsert, At, Owned, LiveUser
    <3>2. \A d \in Calls \ {c} : calls'[d] = calls[d]
      BY <3>1, GoToSafe DEF Inv
    <3>. QED BY <3>1, <3>2, KnownKept DEF Untold
  <2>2. CASE ApplyDecision(c)
    <3>1. /\ UserUpdate(c, calls[c].patch, "mark") /\ UNCHANGED <<admins, told>> /\ calls[c].at = "write"
          /\ calls[c].op \in {"approveRequest", "generatePassword"} /\ calls[c].patch \in Patch
      BY <2>2 DEF ApplyDecision, At, Inv, AccountInv, AccountTypeOK, Call, Steps
    <3>2. users'[u].state = users[u].state /\ users'[u].createdBy = users[u].createdBy
      BY <3>1, UserUpdateSafe DEF Inv
    <3>3. Owned(u)
      BY <3>2 DEF Owned, LiveUser
    <3>4. calls[c].user \in UserIds
      BY <3>1, DecidersKnowUsers DEF Deciding, DecisionOps
    <3>. QED BY <3>1, <3>3, <3>4, WriteKeepsKnown DEF Inv, Untold, Owned
  <2>3. CASE MarkDecided(c)
    <3>1. Owned(u) /\ users'[u].password = users[u].password /\ told \subseteq told'
      BY <2>3 DEF MarkDecided, Owned, LiveUser
    <3>2. \A d \in Calls \ {c} : calls'[d] = calls[d]
      BY <2>3, GoToSafe DEF MarkDecided, Inv
    <3>3. users[u].password # Keep
      BY SentinelAssumption DEF Inv, AccountInv, AccountTypeOK, UserRow
    <3>4. calls[c].user = u /\ calls[c].patch.password = users[u].password
            => calls[c].patch.password \in told'
      BY <2>3, <3>1, <3>3 DEF MarkDecided, GenerationInv, GenerationOK, Deciding, DecisionOps
    <3>. QED BY <3>1, <3>2, <3>4, KnownKept
  <2>. QED BY <1>4, <2>1, <2>2, <2>3 DEF RequestResume
<1>. QED BY <1>1, <1>2, <1>3, <1>4 DEF Next

(* generatePassword stores a password before it answers with it.  Whatever  *)
(* overlaps it, other generations, resets and removals included, a user     *)
(* that belongs to an admin has a password somebody knows or is about to    *)
(* be told, as long as no call is cut short in between.                     *)
THEOREM GeneratedPasswordsReachable ==
  ASSUME FailAt \cap Untold = {}
  PROVE  Spec => []GeneratedPasswordReachable
<1>1. Inv /\ GenerationInv /\ GeneratedPasswordReachable /\ [Next]_vars => GeneratedPasswordReachable'
  BY OwnedStaysKnown DEF GeneratedPasswordReachable, Owned, Untold, CutShort, Fail
<1>. QED BY <1>1, InitInv, NextSafe, GenerationInductive, PTL DEF Spec

(* With failures anywhere: a user's password is lost only by the step that  *)
(* cuts short a call just before it mails or answers the new one.           *)
THEOREM OnlyTheUntoldIsLost ==
  Spec => [][\A u \in UserIds :
               (Owned(u) => KnownOrDue(u, Untold)) =>
                 (Owned(u)' => KnownOrDue(u, Untold)') \/ CutShort(u, Untold)]_vars
<1> DEFINE Step == \A u \in UserIds :
                     (Owned(u) => KnownOrDue(u, Untold)) =>
                       (Owned(u)' => KnownOrDue(u, Untold)') \/ CutShort(u, Untold)
<1>1. Inv /\ GenerationInv /\ [Next]_vars => [Step]_vars
  BY OwnedStaysKnown
<1>. QED BY <1>1, InitInv, NextSafe, GenerationInductive, PTL DEF Spec

-----------------------------------------------------------------------------
(* Profiles.  A call about a password carries no other field, and a         *)
(* decision carries exactly what its request asks for, not what it read.    *)
PasswordOps == {"resetPassword", "forgotPassword", "changeMyPassword", "generatePassword"}

CarriesOK(c) ==
  /\ calls[c].op \in PasswordOps => calls[c].patch.name = Keep /\ calls[c].patch.email = Keep
  /\ calls[c].op = "approveRequest" /\ LiveRequest(calls[c].req)
       => calls[c].patch = requests[calls[c].req].change

AppliedLive == \A r \in applied : LiveRequest(r)

CarriesInv == AppliedLive /\ \A c \in Calls : CarriesOK(c)

(* A live request asks for what it asked for, and one that has just become  *)
(* live is nobody's to decide yet.                                          *)
ChangesKept ==
  \A r \in RequestIds :
    LiveRequest(r)' => \/ requests'[r].change = requests[r].change /\ LiveRequest(r)
                       \/ \A c \in Calls : Deciding(c) => calls[c].req # r

SameLoad(c) == /\ calls'[c].op = calls[c].op /\ calls'[c].req = calls[c].req
               /\ calls'[c].patch = calls[c].patch

LEMMA CarriesKept ==
  ASSUME Inv, CarriesInv, ChangesKept, AppliedLive', \A d \in Calls : SameLoad(d) \/ CarriesOK(d)'
  PROVE  CarriesInv'
<1>1. ASSUME NEW d \in Calls, SameLoad(d) PROVE CarriesOK(d)'
  <2>1. CarriesOK(d)
    BY DEF CarriesInv
  <2>2. calls[d].op = "approveRequest" => Deciding(d) /\ calls[d].req \in RequestIds
    BY DEF Inv, RequestCallOK, Deciding, DecisionOps
  <2>. QED BY <1>1, <2>1, <2>2 DEF CarriesOK, ChangesKept, SameLoad
<1>. QED BY <1>1 DEF CarriesInv

LEMMA GoToCarries ==
  ASSUME Inv, NEW c \in Calls, NEW next \in {"idle", "check", "insert", "write", "mail", "mark"}, GoTo(c, next)
  PROVE  \A d \in Calls : SameLoad(d) \/ CarriesOK(d)'
<1>1. /\ \A d \in Calls \ {c} : calls'[d] = calls[d]
      /\ next = "idle" => calls'[c] = Idle
      /\ next # "idle" => calls'[c] = [calls[c] EXCEPT !.at = next]
  BY GoToSafe DEF Inv
<1>2. calls'[c] = Idle => CarriesOK(c)'
  BY DEF CarriesOK, Idle, PasswordOps
<1>3. calls'[c] = [calls[c] EXCEPT !.at = next] => SameLoad(c)
  BY DEF SameLoad, Call, Steps, Inv, AccountInv, AccountTypeOK
<1>. QED BY <1>1, <1>2, <1>3 DEF SameLoad

LEMMA BeginCarries ==
  ASSUME Inv, NEW c \in Calls, NEW call, Begin(c, call),
         call.op \in PasswordOps => call.patch.name = Keep /\ call.patch.email = Keep,
         call.op = "approveRequest" => call.patch = requests'[call.req].change
  PROVE  \A d \in Calls : SameLoad(d) \/ CarriesOK(d)'
<1>1. calls'[c] = call /\ \A d \in Calls \ {c} : calls'[d] = calls[d]
  BY DEF Begin, Inv, AccountInv, AccountTypeOK
<1>. QED BY <1>1 DEF CarriesOK, SameLoad

LEMMA AccountCarries ==
  ASSUME Inv, CarriesInv, AccountStep
  PROVE  CarriesInv'
<1>1. ChangesKept
  BY DEF AccountStep, ChangesKept, LiveRequest, NoRequest
<1>5. AppliedLive'
  BY DEF AccountStep, CarriesInv, AppliedLive, LiveRequest, NoRequest, Inv
<1> DEFINE Loads == \A d \in Calls : SameLoad(d) \/ CarriesOK(d)'
<1>2. ASSUME NEW c \in Calls, AccountStart(c) PROVE Loads
  <2>1. ASSUME NEW u \in UserIds, NEW a \in AdminIds, ResetPassword(c, u, a) PROVE Loads
    BY <2>1, BeginCarries DEF ResetPassword, Idle, NoPatch, NothingSeen
  <2>2. ASSUME NEW u \in UserIds, ForgotPassword(c, u) \/ ChangeMyPassword(c, u) PROVE Loads
    BY <2>2, BeginCarries DEF ForgotPassword, ChangeMyPassword, Idle, NoPatch, NothingSeen
  <2>3. ASSUME NEW u \in UserIds, NEW a \in AdminIds, NEW n \in Names, NEW e \in Emails,
               CreateUser(c, u, a, n, e)
        PROVE  Loads
    BY <2>3, BeginCarries DEF CreateUser, Idle, PasswordOps
  <2>4. ASSUME NEW u \in UserIds, NEW n \in Names \cup {Keep}, NEW e \in Emails \cup {Keep},
               UpdateMyProfile(c, u, n, e)
        PROVE  Loads
    BY <2>4, BeginCarries DEF UpdateMyProfile, Idle, PasswordOps
  <2>. QED BY <1>2, <2>1, <2>2, <2>3, <2>4 DEF AccountStart
<1>3. ASSUME NEW c \in Calls, AccountResume(c) \/ Fail(c) PROVE Loads
  <2>1. PICK next \in {"idle", "write", "mail"} : GoTo(c, next)
    BY <1>3 DEF AccountResume, CreateUserInsert, ResetPasswordWrite, SendPasswordResetEmail,
           UpdateMyProfileCheck, UpdateMyProfileWrite, ChangeMyPasswordWrite, Fail, UserUpdate
  <2>. QED BY <2>1, GoToCarries
<1>4. ASSUME AccountOneShot PROVE Loads
  <2>1. UNCHANGED calls
    BY <1>4 DEF AccountOneShot, CreateAdmin, RemoveAdmin, UpdateUser, RemoveUser
  <2>. QED BY <2>1 DEF SameLoad
<1>6. Loads
  BY <1>2, <1>3, <1>4 DEF AccountStep, AccountNext
<1>. QED BY <1>1, <1>5, <1>6, CarriesKept

LEMMA RequestStartCarries ==
  ASSUME Inv, CarriesInv, NEW c \in Calls, RequestStart(c)
  PROVE  CarriesInv'
<1>1. UNCHANGED <<requests, applied>>
  BY DEF RequestStart, CreateRequest, ApproveRequest, RejectRequest, GeneratePassword, BeginDecision
<1>2. ChangesKept /\ AppliedLive'
  BY <1>1 DEF ChangesKept, LiveRequest, CarriesInv, AppliedLive
<1> DEFINE Loads == \A d \in Calls : SameLoad(d) \/ CarriesOK(d)'
<1>3. ASSUME NEW r \in RequestIds, NEW u \in UserIds, NEW change \in RequestedChanges,
             CreateRequest(c, r, u, change)
      PROVE  Loads
  BY <1>3, BeginCarries DEF CreateRequest, Idle, PasswordOps
<1>4. ASSUME NEW r \in RequestIds, NEW a \in AdminIds, ApproveRequest(c, r, a) PROVE Loads
  BY <1>1, <1>4, BeginCarries DEF ApproveRequest, BeginDecision, Idle, PasswordOps
<1>5. ASSUME NEW r \in RequestIds, NEW a \in AdminIds, RejectRequest(c, r, a) \/ GeneratePassword(c, r, a)
      PROVE  Loads
  BY <1>5, BeginCarries DEF RejectRequest, GeneratePassword, BeginDecision, Idle, PasswordOps, NoPatch
<1>. QED BY <1>2, <1>3, <1>4, <1>5, CarriesKept DEF RequestStart

LEMMA RequestResumeCarries ==
  ASSUME Inv, CarriesInv, NEW c \in Calls, RequestResume(c)
  PROVE  CarriesInv'
<1>1. PICK next \in {"idle", "mark"} : GoTo(c, next)
  BY DEF RequestResume, CreateRequestInsert, ApplyDecision, MarkDecided, UserUpdate
<1>2. requests \in [RequestIds -> RequestRow]
  BY DEF Inv
<1>3. ChangesKept /\ AppliedLive'
  <2>1. CASE CreateRequestInsert(c)
    <3>1. /\ requests[calls[c].req].state = "unborn"
          /\ \A r \in RequestIds \ {calls[c].req} : requests'[r] = requests[r]
      BY <1>2, <2>1 DEF CreateRequestInsert, At, Inv, RequestCallOK
    <3>2. \A d \in Calls : Deciding(d) => requests[calls[d].req].state # "unborn"
      BY DEF Inv, RequestCallOK
    <3>. QED BY <2>1, <3>1, <3>2 DEF CreateRequestInsert, ChangesKept, LiveRequest, CarriesInv, AppliedLive
  <2>2. CASE ApplyDecision(c)
    BY <2>2 DEF ApplyDecision, ChangesKept, LiveRequest, CarriesInv, AppliedLive
  <2>3. CASE MarkDecided(c)
    BY <1>2, <2>3 DEF MarkDecided, ChangesKept, LiveRequest, RequestRow, CarriesInv, AppliedLive
  <2>. QED BY <2>1, <2>2, <2>3 DEF RequestResume
<1>. QED BY <1>1, <1>3, GoToCarries, CarriesKept

LEMMA CarriesInductive ==
  /\ Init => CarriesInv
  /\ Inv /\ CarriesInv /\ [Next]_vars => CarriesInv'
<1>1. Init => CarriesInv
  BY DEF Init, AccountInit, CarriesInv, AppliedLive, CarriesOK, Idle, PasswordOps
<1>2. ASSUME Inv, CarriesInv, UNCHANGED vars PROVE CarriesInv'
  BY <1>2 DEF vars, accountVars, CarriesInv, AppliedLive, CarriesOK, LiveRequest
<1>. QED BY <1>1, <1>2, AccountCarries, RequestStartCarries, RequestResumeCarries DEF Next

(* prisma.user.update leaves a field alone that it is not given, or is      *)
(* given as it is, and every other row.                                     *)
LEMMA FieldKept ==
  ASSUME Inv, NEW u \in UserIds, NEW v \in UserIds, NEW p \in Patch, NEW f \in {"name", "email"},
         UpdateRow(u, p), u = v => p[f] \in {Keep, users[v][f]}
  PROVE  users'[v][f] = users[v][f]
<1>1. users' = [users EXCEPT ![u] = Patched(users[u], p)] /\ users \in [UserIds -> UserRow]
  BY DEF UpdateRow, Inv, AccountInv, AccountTypeOK
<1>2. /\ Patched(users[u], p).name = Supplied(users[u].name, p.name)
      /\ Patched(users[u], p).email = Supplied(users[u].email, p.email)
  BY <1>1 DEF Patched, UserRow
<1>. QED BY <1>1, <1>2 DEF Supplied

LEMMA UserUpdateKeeps ==
  ASSUME Inv, NEW c \in Calls, NEW p \in Patch, NEW next, UserUpdate(c, p, next), calls[c].user \in UserIds,
         NEW v \in UserIds, NEW f \in {"name", "email"},
         calls[c].user = v => p[f] \in {Keep, users[v][f]}
  PROVE  users'[v][f] = users[v][f]
BY FieldKept DEF UserUpdate

(* What a handler of Accounts leaves of a profile. *)
LEMMA AccountKeepsField ==
  ASSUME Inv, CarriesInv, AccountNext, NEW u \in UserIds, LiveUser(u), LiveUser(u)', NEW f \in {"name", "email"}
  PROVE  users'[u][f] = users[u][f] \/ GivenAnew(u, f) \/ StaleEdit(u, f)
<1> DEFINE Kept == users'[u][f] = users[u][f]
<1>1. users \in [UserIds -> UserRow] /\ calls \in [Calls -> Call] /\ \A c \in Calls : CallOK(c)
  BY DEF Inv, AccountInv, AccountTypeOK
<1>2. ASSUME NEW c \in Calls, AccountStart(c) PROVE Kept
  BY <1>2 DEF AccountStart, CreateUser, ResetPassword, ForgotPassword, UpdateMyProfile, ChangeMyPassword
<1>3. ASSUME NEW c \in Calls, AccountResume(c) \/ Fail(c)
      PROVE  Kept \/ GivenAnew(u, f) \/ StaleEdit(u, f)
  <2>1. calls[c].patch \in Patch /\ calls[c].seen[f] \in {users[u][f], calls[c].seen[f]} /\ CarriesOK(c)
    BY <1>1 DEF Call, Steps, CarriesInv
  <2>2. CASE CreateUserInsert(c)
    <3>1. users[calls[c].user].state = "unborn"
      BY <1>1, <2>2 DEF CreateUserInsert, At, CallOK
    <3>. QED BY <1>1, <2>2, <3>1 DEF CreateUserInsert, LiveUser
  <2>3. CASE ResetPasswordWrite(c) \/ ChangeMyPasswordWrite(c)
    <3>1. /\ calls[c].user \in UserIds /\ calls[c].patch[f] = Keep
          /\ UserUpdate(c, calls[c].patch, "mail") \/ UserUpdate(c, calls[c].patch, "idle")
      BY <1>1, <2>1, <2>3 DEF ResetPasswordWrite, ChangeMyPasswordWrite, At, CallOK, CarriesOK, PasswordOps
    <3>. QED BY <2>1, <3>1, UserUpdateKeeps
  <2>4. CASE UpdateMyProfileWrite(c)
    <3>1. CASE calls[c].user = u /\ (calls[c].patch[f] # Keep \/ calls[c].seen[f] # users[u][f])
      BY <2>4, <3>1 DEF GivenAnew, StaleEdit
    <3>2. CASE calls[c].user = u => calls[c].patch[f] = Keep /\ calls[c].seen[f] = users[u][f]
      <4>1. calls[c].user \in UserIds /\ UserUpdate(c, WholeProfile(calls[c]), "idle")
        BY <1>1, <2>4 DEF UpdateMyProfileWrite, At, CallOK
      <4>2. WholeProfile(calls[c]) \in Patch
        BY <1>1 DEF Call, Steps, Patch, WholeProfile, Supplied
      <4>3. calls[c].user = u => WholeProfile(calls[c])[f] = users[u][f]
        BY <3>2 DEF WholeProfile, Supplied
      <4>. QED BY <4>1, <4>2, <4>3, UserUpdateKeeps
    <3>. QED BY <3>1, <3>2
  <2>5. CASE SendPasswordResetEmail(c) \/ UpdateMyProfileCheck(c) \/ Fail(c)
    BY <2>5 DEF SendPasswordResetEmail, UpdateMyProfileCheck, Fail
  <2>. QED BY <1>3, <2>2, <2>3, <2>4, <2>5 DEF AccountResume
<1>4. ASSUME NEW a \in AdminIds, CreateAdmin(a) \/ RemoveAdmin(a) PROVE Kept
  BY <1>1, <1>4 DEF CreateAdmin, RemoveAdmin, UserRow
<1>5. ASSUME NEW v \in UserIds, NEW p \in UpdateInputs, UpdateUser(v, p) PROVE Kept \/ GivenAnew(u, f)
  <2>1. CASE v = u /\ p[f] # Keep
    BY <1>5, <2>1 DEF GivenAnew
  <2>2. CASE v = u => p[f] = Keep
    <3>1. p \in Patch
      BY DEF UpdateInputs, Patch, NewPassword, Inv, AccountInv, AccountTypeOK
    <3>. QED BY <1>5, <2>2, <3>1, FieldKept DEF UpdateUser
  <2>. QED BY <2>1, <2>2
<1>6. ASSUME NEW v \in UserIds, RemoveUser(v) PROVE Kept
  BY <1>1, <1>6 DEF RemoveUser, LiveUser, NoRow
<1>. QED BY <1>2, <1>3, <1>4, <1>5, <1>6 DEF AccountNext, AccountOneShot

(* However decisions, resets, removals, updates and edits overlap and fail, *)
(* a change in effect goes out of effect only by a step about the same      *)
(* field, or by the write of an updateMyProfile that read it before.        *)
THEOREM ChangesUndoneByStaleEdits == Spec => ChangeUndoneOnlyByStaleEdit
<1> DEFINE Step == \A r \in applied, f \in {"name", "email"} :
                     Shows(r, f) /\ LiveRequest(r)' /\ ~Shows(r, f)' =>
                       GivenAnew(requests[r].user, f) \/ StaleEdit(requests[r].user, f)
<1>1. ASSUME Inv, CarriesInv, Next PROVE Step
  <2> SUFFICES ASSUME NEW r \in applied, NEW f \in {"name", "email"},
                      Shows(r, f), LiveRequest(r)', ~Shows(r, f)'
               PROVE  GivenAnew(requests[r].user, f) \/ StaleEdit(requests[r].user, f)
    OBVIOUS
  <2> DEFINE u == requests[r].user
  <2>1. /\ r \in RequestIds /\ LiveRequest(r) /\ requests \in [RequestIds -> RequestRow]
        /\ u \in UserIds /\ LiveUser(u)
    BY <1>1 DEF Inv, CarriesInv, AppliedLive, RequestGoesToCreator, LiveUser
  <2>2. ASSUME requests'[r].change = requests[r].change, requests'[r].user = requests[r].user
        PROVE  users'[u][f] # users[u][f]
    BY <2>2 DEF Shows
  <2>3. CASE AccountStep
    <3>1. requests'[r] = requests[r]
      BY <2>1, <2>3 DEF AccountStep, LiveRequest, NoRequest
    <3>2. Inv'
      BY <1>1, <2>3, AccountStepSafe
    <3>3. LiveUser(u)'
      BY <2>1, <3>1, <3>2 DEF Inv, RequestGoesToCreator, LiveUser
    <3>. QED BY <1>1, <2>1, <2>2, <2>3, <3>1, <3>3, AccountKeepsField DEF AccountStep
  <2>4. ASSUME NEW c \in Calls, RequestStart(c) PROVE FALSE
    BY <2>2, <2>4 DEF RequestStart, CreateRequest, ApproveRequest, RejectRequest, GeneratePassword, BeginDecision
  <2>5. ASSUME NEW c \in Calls, CreateRequestInsert(c) PROVE FALSE
    <3>1. requests[calls[c].req].state = "unborn" /\ UNCHANGED users
      BY <1>1, <2>5 DEF CreateRequestInsert, At, Inv, RequestCallOK
    <3>. QED BY <2>1, <2>2, <2>5, <3>1 DEF CreateRequestInsert, LiveRequest
  <2>6. ASSUME NEW c \in Calls, MarkDecided(c) PROVE FALSE
    <3>1. requests'[r].change = requests[r].change /\ requests'[r].user = requests[r].user /\ UNCHANGED users
      BY <2>1, <2>6 DEF MarkDecided, RequestRow
    <3>. QED BY <2>2, <3>1
  <2>7. ASSUME NEW c \in Calls, ApplyDecision(c) PROVE GivenAnew(u, f)
    <3>1. /\ UNCHANGED requests /\ UserUpdate(c, calls[c].patch, "mark")
          /\ calls[c].op \in {"approveRequest", "generatePassword"} /\ calls[c].patch \in Patch
      BY <1>1, <2>7 DEF ApplyDecision, At, Inv, AccountInv, AccountTypeOK, Call, Steps
    <3>2. calls[c].user \in UserIds
      BY <3>1, DecidersKnowUsers, <1>1 DEF Deciding, DecisionOps
    <3>4. calls[c].user = u /\ calls[c].patch[f] # Keep
      BY <1>1, <2>1, <2>2, <3>1, <3>2, UserUpdateKeeps
    <3>5. LiveRequest(calls[c].req) => requests[calls[c].req].change[f] # Keep
      BY <1>1, <3>1, <3>4 DEF CarriesInv, CarriesOK, PasswordOps
    <3>. QED BY <2>7, <3>4, <3>5 DEF GivenAnew
  <2>. QED BY <1>1, <2>3, <2>4, <2>5, <2>6, <2>7 DEF Next, RequestResume
<1>2. Inv /\ CarriesInv /\ [Next]_vars => [Step]_vars
  BY <1>1
<1>. QED BY <1>2, InitInv, NextSafe, CarriesInductive, PTL DEF Spec, ChangeUndoneOnlyByStaleEdit

-----------------------------------------------------------------------------
(* The documented pipeline.  The code keeps to it as long as no request has *)
(* two decisions in flight (DecisionsApart) and none is cut short between    *)
(* its writes; every other handler may overlap them.                        *)

(* What is being decided is pending, and what took effect is still there.   *)
PendingOK(c) == Deciding(c) /\ LiveRequest(calls[c].req) => requests[calls[c].req].status = "pending"

PipelineInv ==
  /\ \A c \in Calls : PendingOK(c)
  /\ \A r \in applied : LiveRequest(r)

Approving(c) == calls[c].op \in {"approveRequest", "generatePassword"} /\ calls[c].at = "mark"

LEMMA SameApprovals ==
  ASSUME \A c \in Calls : /\ Approving(c)' <=> Approving(c)
                          /\ Approving(c) => calls'[c].req = calls[c].req
  PROVE  \A r \in RequestIds : BeingApproved(r)' <=> BeingApproved(r)
<1> SUFFICES ASSUME NEW r \in RequestIds PROVE BeingApproved(r)' <=> BeingApproved(r)
  OBVIOUS
<1>1. BeingApproved(r) <=> \E c \in Calls : Approving(c) /\ calls[c].req = r
  BY DEF BeingApproved, Approving
<1>2. BeingApproved(r)' <=> \E c \in Calls : Approving(c)' /\ calls'[c].req = r
  BY DEF BeingApproved, Approving
<1>. QED BY <1>1, <1>2

(* A status is the request's own, except between the writes of an approval. *)
LEMMA StatusOf ==
  ASSUME NEW r \in RequestIds, requests[r].state \in RowStates
  PROVE  /\ requests[r].state = "unborn" => PipelineStatus(r) = "none"
         /\ requests[r].state = "gone" => PipelineStatus(r) = "withdrawn"
         /\ LiveRequest(r) => PipelineStatus(r) = IF BeingApproved(r) THEN "approved" ELSE requests[r].status
BY DEF PipelineStatus, LiveRequest, RowStates

LEMMA StatusKept ==
  ASSUME NEW r \in RequestIds, requests'[r] = requests[r], BeingApproved(r)' <=> BeingApproved(r)
  PROVE  PipelineStatus(r)' = PipelineStatus(r)
BY DEF PipelineStatus

(* Accounts resumes no call that waits for its second write.                *)
LEMMA MarkersKept ==
  ASSUME AccountInv, AccountNext, "mark" \notin FailAt, NEW c \in Calls, calls[c].at = "mark"
  PROVE  calls'[c] = calls[c]
<1>1. calls \in [Calls -> Call]
  BY DEF AccountInv, AccountTypeOK
<1>2. ASSUME NEW d \in Calls, NEW call, Begin(d, call) PROVE calls'[c] = calls[c]
  BY <1>1, <1>2 DEF Begin
<1>3. ASSUME NEW d \in Calls, NEW next, GoTo(d, next), c # d PROVE calls'[c] = calls[c]
  BY <1>1, <1>3 DEF GoTo
<1>4. ASSUME NEW d \in Calls, AccountStart(d) PROVE calls'[c] = calls[c]
  BY <1>2, <1>4 DEF AccountStart, CreateUser, ResetPassword, ForgotPassword, UpdateMyProfile, ChangeMyPassword
<1>5. ASSUME NEW d \in Calls, AccountResume(d) \/ Fail(d) PROVE calls'[c] = calls[c]
  <2>1. c # d
    BY <1>5 DEF AccountResume, CreateUserInsert, ResetPasswordWrite, SendPasswordResetEmail,
                UpdateMyProfileCheck, UpdateMyProfileWrite, ChangeMyPasswordWrite, Fail, At
  <2>2. \E next \in {"idle", "write", "mail"} : GoTo(d, next)
    BY <1>5 DEF AccountResume, CreateUserInsert, ResetPasswordWrite, SendPasswordResetEmail,
                UpdateMyProfileCheck, UpdateMyProfileWrite, ChangeMyPasswordWrite, Fail, UserUpdate
  <2>. QED BY <1>3, <2>1, <2>2
<1>6. CASE AccountOneShot
  BY <1>6 DEF AccountOneShot, CreateAdmin, RemoveAdmin, UpdateUser, RemoveUser
<1>. QED BY <1>4, <1>5, <1>6 DEF AccountNext

(* A step of Accounts withdraws the requests whose user or admin it deletes *)
(* and no other.                                                            *)
LEMMA AccountStepWithdraws ==
  ASSUME Inv, PipelineInv, AccountStep, "mark" \notin FailAt
  PROVE  PipelineInv' /\ Pipeline!Next
<1> DEFINE R == {r \in RequestIds : LiveRequest(r) /\ Orphaned(requests[r])}
<1>1. RequestCallsKept /\ \A c \in Calls : calls[c].at = "mark" => calls'[c] = calls[c]
  BY AccountEffect, MarkersKept DEF AccountStep, Inv
<1>2. \A r \in RequestIds : /\ requests[r].state \in RowStates
                            /\ r \notin R => requests'[r] = requests[r]
                            /\ r \in R => LiveRequest(r) /\ requests'[r].state = "gone"
  BY DEF AccountStep, NoRequest, Inv, RequestRow
<1>3. ASSUME NEW r \in RequestIds, LiveRequest(r)' PROVE requests'[r] = requests[r] /\ LiveRequest(r)
  BY <1>2, <1>3 DEF LiveRequest
<1>4. applied' = applied \ R
  BY <1>2 DEF AccountStep, PipelineInv, LiveRequest, Inv
<1> HIDE DEF R
<1>5. PipelineInv'
  <2>1. ASSUME NEW c \in Calls PROVE PendingOK(c)'
    <3>1. CASE calls'[c].op \in DecisionOps
      <4>1. calls'[c] = calls[c] /\ PendingOK(c)
        BY <1>1, <3>1 DEF RequestCallsKept, PipelineInv
      <4>. QED BY <1>3, <4>1 DEF PendingOK, Deciding, LiveRequest
    <3>. QED BY <3>1 DEF PendingOK, Deciding
  <2>2. \A r \in applied' : LiveRequest(r)'
    BY <1>2, <1>4 DEF PipelineInv, LiveRequest
  <2>. QED BY <2>1, <2>2 DEF PipelineInv
<1>6. \A r \in RequestIds : BeingApproved(r)' <=> BeingApproved(r)
  BY <1>1, SameApprovals DEF Approving, RequestCallsKept, DecisionOps
<1>7. ASSUME NEW r \in RequestIds
      PROVE  /\ PipelineStatus(r)' = IF r \in R THEN "withdrawn" ELSE PipelineStatus(r)
             /\ r \in R => PipelineStatus(r) \notin {"none", "withdrawn"}
  <2>1. CASE r \notin R
    BY <1>2, <1>6, <2>1, StatusKept
  <2>2. CASE r \in R
    <3>1. requests'[r].state = "gone" /\ LiveRequest(r) /\ requests[r].status \in {"pending", "approved", "rejected"}
      BY <1>2, <2>2 DEF Inv, RequestRow
    <3>2. PipelineStatus(r)' = "withdrawn"
      BY <3>1 DEF PipelineStatus
    <3>. QED BY <2>2, <3>1, <3>2, StatusOf DEF Inv, RequestRow
  <2>. QED BY <2>1, <2>2
<1>8. Pipeline!Withdraw(R)
  BY <1>4, <1>7 DEF Pipeline!Withdraw, R
<1>9. R \in SUBSET RequestIds
  BY DEF R
<1>. QED BY <1>5, <1>8, <1>9 DEF Pipeline!Next

(* A handler that starts has read only: the pipeline does not move.         *)
LEMMA StartStutters ==
  ASSUME Inv, PipelineInv, NEW c \in Calls, RequestStart(c)
  PROVE  /\ PipelineInv' /\ UNCHANGED applied
         /\ \A r \in RequestIds : PipelineStatus(r)' = PipelineStatus(r)
<1>1. UNCHANGED <<requests, applied>>
  BY DEF RequestStart, CreateRequest, ApproveRequest, RejectRequest, GeneratePassword, BeginDecision
<1> DEFINE Kept == /\ PipelineInv'
                   /\ \A r \in RequestIds : BeingApproved(r)' <=> BeingApproved(r)
<1>2. ASSUME NEW call, Begin(c, call), ~(call.op \in {"approveRequest", "generatePassword"} /\ call.at = "mark"),
             call.op \in DecisionOps => requests[call.req].status = "pending"
      PROVE  Kept
  <2>1. /\ calls[c].at = "idle" /\ calls'[c] = call
        /\ \A d \in Calls \ {c} : calls'[d] = calls[d]
    BY <1>2 DEF Begin, Inv, AccountInv, AccountTypeOK
  <2>2. \A d \in Calls : PendingOK(d)'
    BY <1>1, <1>2, <2>1 DEF PipelineInv, PendingOK, Deciding, LiveRequest
  <2>3. \A d \in Calls : /\ Approving(d)' <=> Approving(d)
                         /\ Approving(d) => calls'[d].req = calls[d].req
    BY <1>2, <2>1 DEF Approving
  <2>. QED BY <1>1, <2>2, <2>3, SameApprovals DEF PipelineInv, LiveRequest
<1>3. ASSUME NEW r \in RequestIds, NEW u \in UserIds, NEW change \in RequestedChanges,
             CreateRequest(c, r, u, change)
      PROVE  Kept
  BY <1>2, <1>3 DEF CreateRequest, Idle, DecisionOps
<1>4. ASSUME NEW r \in RequestIds, NEW a \in AdminIds, NEW op \in DecisionOps, NEW step, NEW patch,
             BeginDecision(c, r, a, op, step, patch), step = "mark" => op = "rejectRequest"
      PROVE  Kept
  <2> DEFINE call == [Idle EXCEPT !.op = op, !.at = step, !.req = r, !.admin = a,
                        !.user = requests[r].user, !.patch = patch]
  <2>1. /\ call.op = op /\ call.at = step /\ call.req = r
        /\ Begin(c, call) /\ requests[r].status = "pending"
    BY <1>4 DEF BeginDecision, MayDecide, Idle
  <2> HIDE DEF call
  <2>. QED BY <1>2, <1>4, <2>1
<1>5. ASSUME NEW r \in RequestIds, NEW a \in AdminIds,
             ApproveRequest(c, r, a) \/ RejectRequest(c, r, a) \/ GeneratePassword(c, r, a)
      PROVE  Kept
  BY <1>4, <1>5 DEF ApproveRequest, RejectRequest, GeneratePassword, DecisionOps
<1>6. Kept
  BY <1>3, <1>5 DEF RequestStart
<1>. QED BY <1>1, <1>6, StatusKept

(* The insert of createRequest submits the request, or is refused.          *)
LEMMA InsertSubmits ==
  ASSUME Inv, PipelineInv, NEW c \in Calls, CreateRequestInsert(c)
  PROVE  /\ PipelineInv' /\ UNCHANGED applied
         /\ \/ \A r \in RequestIds : PipelineStatus(r)' = PipelineStatus(r)
            \/ \E r \in RequestIds : Pipeline!Submit(r)
<1> DEFINE s == calls[c].req
<1>1. /\ calls[c].op = "createRequest" /\ s \in RequestIds /\ requests[s].state = "unborn"
      /\ GoTo(c, "idle") /\ UNCHANGED applied
  BY DEF CreateRequestInsert, At, Inv, RequestCallOK
<1>2. calls'[c] = Idle /\ \A d \in Calls \ {c} : calls'[d] = calls[d]
  BY <1>1, GoToSafe DEF Inv
<1>3. \A r \in RequestIds : BeingApproved(r)' <=> BeingApproved(r)
  BY <1>1, <1>2, SameApprovals DEF Approving, Idle
<1>4. ~BeingApproved(s)
  BY <1>1 DEF BeingApproved, Inv, RequestCallOK, Deciding, DecisionOps
<1>5. \/ UNCHANGED requests
      \/ /\ \A r \in RequestIds \ {s} : requests'[r] = requests[r]
         /\ requests'[s].state = "live" /\ requests'[s].status = "pending"
  BY <1>1 DEF CreateRequestInsert, Inv
<1>6. PipelineInv'
  <2>1. ASSUME NEW d \in Calls, Deciding(d)' PROVE PendingOK(d)'
    <3>1. d # c /\ calls'[d] = calls[d] /\ calls[d].req # s /\ PendingOK(d)
      BY <1>1, <1>2, <2>1 DEF Deciding, DecisionOps, Idle, Inv, RequestCallOK, PipelineInv
    <3>. QED BY <1>5, <3>1 DEF PendingOK, Deciding, LiveRequest
  <2>. QED BY <1>1, <1>5, <2>1 DEF PipelineInv, PendingOK, LiveRequest
<1>7. CASE UNCHANGED requests
  BY <1>1, <1>3, <1>6, <1>7, StatusKept
<1>8. CASE /\ \A r \in RequestIds \ {s} : requests'[r] = requests[r]
           /\ requests'[s].state = "live" /\ requests'[s].status = "pending"
  <2>1. \A r \in RequestIds \ {s} : PipelineStatus(r)' = PipelineStatus(r)
    BY <1>3, <1>8, StatusKept
  <2>2. PipelineStatus(s) = "none"
    BY <1>1, StatusOf DEF RowStates
  <2>3. ASSUME NEW r \in RequestIds, r = s PROVE PipelineStatus(r)' = "pending"
    BY <1>3, <1>4, <1>8, <2>3 DEF PipelineStatus
  <2>4. Pipeline!Submit(s)
    BY <1>1, <2>1, <2>2, <2>3 DEF Pipeline!Submit
  <2>. QED BY <1>1, <1>6, <2>4
<1>. QED BY <1>5, <1>7, <1>8

(* Requests other than the one whose decision moves on keep their status.   *)
LEMMA OthersStayAsTheyAre ==
  ASSUME NEW c \in Calls, NEW s \in RequestIds, calls[c].req = s,
         calls'[c] = Idle \/ calls'[c].req = s,
         \A d \in Calls \ {c} : calls'[d] = calls[d],
         NEW r \in RequestIds, r # s, requests'[r] = requests[r]
  PROVE  PipelineStatus(r)' = PipelineStatus(r)
<1>1. \A d \in Calls : Approving(d) /\ calls[d].req = r <=> Approving(d)' /\ calls'[d].req = r
  BY DEF Approving, Idle
<1>2. BeingApproved(r) <=> \E d \in Calls : Approving(d) /\ calls[d].req = r
  BY DEF BeingApproved, Approving
<1>3. BeingApproved(r)' <=> \E d \in Calls : Approving(d)' /\ calls'[d].req = r
  BY DEF BeingApproved, Approving
<1>. QED BY <1>1, <1>2, <1>3, StatusKept

(* The first write of an approval is where the pipeline approves.           *)
LEMMA ApplyApproves ==
  ASSUME Inv, PipelineInv, DecisionsApart, NEW c \in Calls, ApplyDecision(c)
  PROVE  /\ PipelineInv'
         /\ \/ UNCHANGED applied /\ \A r \in RequestIds : PipelineStatus(r)' = PipelineStatus(r)
            \/ \E r \in RequestIds : Pipeline!Approve(r)
<1> DEFINE s == calls[c].req
<1>1. /\ Deciding(c) /\ calls[c].op \in {"approveRequest", "generatePassword"} /\ calls[c].at = "write"
      /\ UserUpdate(c, calls[c].patch, "mark") /\ UNCHANGED requests
      /\ applied' = IF UpdateSucceeds(calls[c].user, calls[c].patch) /\ LiveRequest(s)
                    THEN applied \cup {s} ELSE applied
  BY DEF ApplyDecision, At, Deciding, DecisionOps
<1>2. s \in RequestIds /\ requests[s].state \in {"live", "gone"} /\ calls[c] \in Call
  BY <1>1 DEF Inv, RequestCallOK, AccountInv, AccountTypeOK, RequestRow, RowStates
<1>3. /\ \A d \in Calls \ {c} : calls'[d] = calls[d]
      /\ GoTo(c, "idle") => calls'[c] = Idle
      /\ GoTo(c, "mark") => calls'[c] = [calls[c] EXCEPT !.at = "mark"]
  BY <1>1, GoToSafe DEF Inv, UserUpdate
<1>4. GoTo(c, "mark") => calls'[c].op = calls[c].op /\ calls'[c].at = "mark" /\ calls'[c].req = s
  BY <1>2, <1>3 DEF Call, Steps
<1>5. GoTo(c, "idle") \/ GoTo(c, "mark")
  BY <1>1 DEF UserUpdate
<1>6. PipelineInv'
  <2>1. ASSUME NEW d \in Calls PROVE PendingOK(d)'
    <3>1. PendingOK(d) /\ (Deciding(d)' => Deciding(d) /\ calls'[d].req = calls[d].req)
      BY <1>3, <1>4, <1>5 DEF PipelineInv, Deciding, DecisionOps, Idle
    <3>. QED BY <1>1, <3>1 DEF PendingOK, LiveRequest
  <2>2. \A r \in applied' : LiveRequest(r)'
    BY <1>1 DEF PipelineInv, LiveRequest
  <2>. QED BY <2>1, <2>2 DEF PipelineInv
<1>7. \A r \in RequestIds \ {s} : PipelineStatus(r)' = PipelineStatus(r)
  BY <1>1, <1>2, <1>3, <1>4, <1>5, OthersStayAsTheyAre
<1>8. ~BeingApproved(s)
  BY <1>1 DEF DecisionsApart, BeingApproved, Deciding, DecisionOps
<1>9. CASE LiveRequest(s) /\ GoTo(c, "mark") /\ UpdateSucceeds(calls[c].user, calls[c].patch)
  <2>1. PipelineStatus(s) = "pending"
    BY <1>1, <1>2, <1>8, <1>9, StatusOf DEF PipelineInv, PendingOK, RowStates
  <2>2. ASSUME NEW r \in RequestIds, r = s PROVE PipelineStatus(r)' = "approved"
    <3>1. BeingApproved(r)'
      BY <1>1, <1>4, <1>9, <2>2 DEF BeingApproved
    <3>. QED BY <1>1, <1>9, <2>2, <3>1 DEF PipelineStatus, LiveRequest
  <2>3. Pipeline!Approve(s)
    BY <1>1, <1>2, <1>7, <1>9, <2>1, <2>2 DEF Pipeline!Approve
  <2>. QED BY <1>2, <1>6, <2>3
<1>10. CASE LiveRequest(s) /\ GoTo(c, "idle") /\ ~UpdateSucceeds(calls[c].user, calls[c].patch)
  <2>1. \A r \in RequestIds : BeingApproved(r)' <=> BeingApproved(r)
    BY <1>1, <1>3, <1>10, SameApprovals DEF Approving, Idle
  <2>. QED BY <1>1, <1>6, <1>10, <2>1, StatusKept
<1>11. CASE ~LiveRequest(s)
  <2>1. requests[s].state = "gone"
    BY <1>2, <1>11 DEF LiveRequest
  <2>2. ASSUME NEW r \in RequestIds, r = s PROVE PipelineStatus(r)' = PipelineStatus(r)
    BY <1>1, <2>1, <2>2 DEF PipelineStatus
  <2>. QED BY <1>1, <1>6, <1>7, <1>11, <2>2
<1>. QED BY <1>1, <1>9, <1>10, <1>11 DEF UserUpdate, UpdateRow

(* The second write leaves an approval as it is; for a rejection it is the  *)
(* decision.                                                                *)
LEMMA MarkRejects ==
  ASSUME Inv, PipelineInv, DecisionsApart, NEW c \in Calls, MarkDecided(c)
  PROVE  /\ PipelineInv'
         /\ UNCHANGED applied
         /\ \/ \A r \in RequestIds : PipelineStatus(r)' = PipelineStatus(r)
            \/ \E r \in RequestIds : Pipeline!Reject(r)
<1> DEFINE s == calls[c].req
<1>1. /\ Deciding(c) /\ calls[c].at = "mark" /\ GoTo(c, "idle") /\ UNCHANGED applied
      /\ requests' = IF LiveRequest(s) THEN [requests EXCEPT ![s].status = Verdict(calls[c].op)] ELSE requests
  BY DEF MarkDecided
<1>2. s \in RequestIds /\ requests[s].state \in {"live", "gone"} /\ requests \in [RequestIds -> RequestRow]
  BY <1>1 DEF Inv, RequestCallOK, RequestRow, RowStates
<1>3. calls'[c] = Idle /\ \A d \in Calls \ {c} : calls'[d] = calls[d]
  BY <1>1, GoToSafe DEF Inv
<1>4. /\ \A r \in RequestIds \ {s} : requests'[r] = requests[r]
      /\ requests'[s].state = requests[s].state
      /\ LiveRequest(s) => requests'[s].status = Verdict(calls[c].op)
  BY <1>1, <1>2 DEF RequestRow
<1>5. PipelineInv'
  <2>1. ASSUME NEW d \in Calls, Deciding(d)' PROVE PendingOK(d)'
    <3>1. d # c /\ calls'[d] = calls[d] /\ PendingOK(d) /\ Deciding(d)
      BY <1>3, <2>1 DEF Deciding, DecisionOps, Idle, PipelineInv
    <3>2. calls[d].req # s
      BY <1>1, <3>1 DEF DecisionsApart
    <3>. QED BY <1>4, <3>1, <3>2 DEF PendingOK, LiveRequest
  <2>. QED BY <1>1, <1>4, <2>1 DEF PipelineInv, PendingOK, LiveRequest
<1>6. \A r \in RequestIds \ {s} : PipelineStatus(r)' = PipelineStatus(r)
  BY <1>2, <1>3, <1>4, OthersStayAsTheyAre
<1>7. CASE LiveRequest(s) /\ calls[c].op # "rejectRequest"
  <2>1. PipelineStatus(s) = "approved"
    <3>1. BeingApproved(s)
      BY <1>1, <1>7 DEF BeingApproved, Deciding, DecisionOps
    <3>. QED BY <1>2, <1>7, <3>1, StatusOf DEF RowStates
  <2>2. ASSUME NEW r \in RequestIds, r = s PROVE PipelineStatus(r)' = "approved"
    BY <1>4, <1>7, <2>2 DEF PipelineStatus, Verdict, LiveRequest
  <2>3. \A r \in RequestIds : PipelineStatus(r)' = PipelineStatus(r)
    BY <1>2, <1>6, <2>1, <2>2
  <2>. QED BY <1>1, <1>5, <2>3
<1>8. CASE LiveRequest(s) /\ calls[c].op = "rejectRequest"
  <2>1. ~BeingApproved(s) /\ \A r \in RequestIds : r = s => ~BeingApproved(r)'
    BY <1>1, <1>3, <1>8 DEF DecisionsApart, BeingApproved, Deciding, DecisionOps, Idle
  <2>2. PipelineStatus(s) = "pending"
    BY <1>1, <1>2, <1>8, <2>1, StatusOf DEF PipelineInv, PendingOK, RowStates
  <2>3. ASSUME NEW r \in RequestIds, r = s PROVE PipelineStatus(r)' = "rejected"
    BY <1>4, <1>8, <2>1, <2>3 DEF PipelineStatus, Verdict, LiveRequest
  <2>4. Pipeline!Reject(s)
    BY <1>1, <1>2, <1>6, <2>2, <2>3 DEF Pipeline!Reject
  <2>. QED BY <1>1, <1>2, <1>5, <2>4
<1>9. CASE ~LiveRequest(s)
  <2>1. ASSUME NEW r \in RequestIds, r = s PROVE PipelineStatus(r)' = PipelineStatus(r)
    BY <1>2, <1>4, <1>9, <2>1 DEF PipelineStatus, LiveRequest
  <2>2. \A r \in RequestIds : PipelineStatus(r)' = PipelineStatus(r)
    BY <1>2, <1>6, <2>1
  <2>. QED BY <1>1, <1>5, <2>2
<1>. QED BY <1>7, <1>8, <1>9

LEMMA PipelineStep ==
  ASSUME Inv, PipelineInv, DecisionsApart, [Next]_vars, "mark" \notin FailAt
  PROVE  PipelineInv' /\ [Pipeline!Next]_<<[r \in RequestIds |-> PipelineStatus(r)], applied>>
<1> DEFINE Status == [r \in RequestIds |-> PipelineStatus(r)]
<1>1. ASSUME \A r \in RequestIds : PipelineStatus(r)' = PipelineStatus(r)
      PROVE  Status' = Status
  BY <1>1
<1>2. CASE UNCHANGED vars
  <2>1. \A r \in RequestIds : PipelineStatus(r)' = PipelineStatus(r)
    BY <1>2 DEF vars, accountVars, PipelineStatus, BeingApproved
  <2>2. PipelineInv'
    BY <1>2 DEF vars, accountVars, PipelineInv, PendingOK, Deciding, LiveRequest
  <2>. QED BY <1>1, <1>2, <2>1, <2>2 DEF vars
<1>3. CASE AccountStep
  BY <1>3, AccountStepWithdraws
<1>4. ASSUME NEW c \in Calls, RequestStart(c)
      PROVE  PipelineInv' /\ [Pipeline!Next]_<<Status, applied>>
  BY <1>1, <1>4, StartStutters
<1>5. ASSUME NEW c \in Calls, RequestResume(c)
      PROVE  PipelineInv' /\ [Pipeline!Next]_<<Status, applied>>
  BY <1>1, <1>5, InsertSubmits, ApplyApproves, MarkRejects DEF RequestResume, Pipeline!Next
<1>. QED BY <1>2, <1>3, <1>4, <1>5 DEF Next

LEMMA PipelineStarts == Init => PipelineInv /\ Pipeline!Init
<1> SUFFICES ASSUME Init PROVE PipelineInv /\ Pipeline!Init
  OBVIOUS
<1>1. \A r \in RequestIds : requests[r].state = "unborn"
  BY DEF Init, NoRequest
<1>2. \A r \in RequestIds : PipelineStatus(r) = "none"
  BY <1>1, StatusOf DEF RowStates
<1>3. PipelineInv
  BY DEF Init, AccountInit, PipelineInv, PendingOK, Deciding, DecisionOps, Idle
<1>. QED BY <1>2, <1>3 DEF Pipeline!Init, Init

(* The documented pipeline (README.md:613-615): every request is submitted, *)
(* decided once and for all, and takes effect with its approval, however    *)
(* the other handlers overlap and fail, if no request has two decisions in  *)
(* flight and no decision is cut short between its writes.                  *)
THEOREM DecisionsApartFollowPipeline ==
  ASSUME "mark" \notin FailAt
  PROVE  Spec /\ []DecisionsApart => FollowsPipeline
<1>1. Init => PipelineInv /\ Pipeline!Init
  BY PipelineStarts
<1>2. Inv /\ PipelineInv /\ DecisionsApart /\ [Next]_vars
        => PipelineInv' /\ [Pipeline!Next]_<<[r \in RequestIds |-> PipelineStatus(r)], applied>>
  BY PipelineStep
<1>. QED BY <1>1, <1>2, InitInv, NextSafe, PTL DEF Spec, FollowsPipeline, Pipeline!Spec

-----------------------------------------------------------------------------
(* The safety half of AppliedGetsDecided.  A request whose change was       *)
(* written and that still is pending is in the hands of a call about to     *)
(* mark it, whichever decisions overlap.                                    *)
AppliedIsHeld ==
  \A r \in applied : LiveRequest(r) /\ (requests[r].status = "pending" => BeingApproved(r))

LEMMA StillApproved ==
  ASSUME NEW r \in RequestIds, BeingApproved(r),
         \A d \in Calls : Approving(d) /\ calls[d].req = r => calls'[d] = calls[d]
  PROVE  BeingApproved(r)'
BY DEF BeingApproved, Approving

LEMMA StartHolds ==
  ASSUME Inv, AppliedIsHeld, NEW c \in Calls, RequestStart(c)
  PROVE  AppliedIsHeld'
<1>1. UNCHANGED <<requests, applied>> /\ \E call : Begin(c, call)
  BY DEF RequestStart, CreateRequest, ApproveRequest, RejectRequest, GeneratePassword, BeginDecision
<1>2. calls[c].at = "idle" /\ \A d \in Calls \ {c} : calls'[d] = calls[d]
  BY <1>1 DEF Begin, Idle, Inv, AccountInv, AccountTypeOK
<1>3. \A r \in RequestIds : BeingApproved(r) => BeingApproved(r)'
  BY <1>2, StillApproved DEF Approving
<1>. QED BY <1>1, <1>3 DEF AppliedIsHeld, LiveRequest, Inv

LEMMA AccountStepHolds ==
  ASSUME Inv, AppliedIsHeld, AccountStep, "mark" \notin FailAt
  PROVE  AppliedIsHeld'
<1>1. \A d \in Calls : Approving(d) => calls'[d] = calls[d]
  BY MarkersKept DEF AccountStep, Inv, Approving
<1>2. \A r \in RequestIds : BeingApproved(r) => BeingApproved(r)'
  BY <1>1, StillApproved
<1>3. \A r \in applied' : r \in applied /\ r \in RequestIds /\ requests'[r] = requests[r]
  BY DEF AccountStep, NoRequest, Inv
<1>. QED BY <1>2, <1>3 DEF AppliedIsHeld, LiveRequest

LEMMA ResumeHolds ==
  ASSUME Inv, AppliedIsHeld, NEW c \in Calls, RequestResume(c)
  PROVE  AppliedIsHeld'
<1> DEFINE s == calls[c].req
<1>1. applied \subseteq RequestIds /\ requests \in [RequestIds -> RequestRow] /\ calls[c] \in Call
  BY DEF Inv, AccountInv, AccountTypeOK
<1>2. CASE CreateRequestInsert(c)
  <2>1. /\ calls[c].op = "createRequest" /\ s \in RequestIds /\ requests[s].state = "unborn"
        /\ GoTo(c, "idle") /\ UNCHANGED applied
        /\ \A r \in RequestIds \ {s} : requests'[r] = requests[r]
    BY <1>1, <1>2 DEF CreateRequestInsert, At, Inv, RequestCallOK
  <2>2. \A d \in Calls \ {c} : calls'[d] = calls[d]
    BY <2>1, GoToSafe DEF Inv
  <2>3. \A r \in RequestIds : BeingApproved(r) => BeingApproved(r)'
    BY <2>1, <2>2, StillApproved DEF Approving
  <2>. QED BY <1>1, <2>1, <2>3 DEF AppliedIsHeld, LiveRequest
<1>3. CASE ApplyDecision(c)
  <2>1. /\ calls[c].op \in {"approveRequest", "generatePassword"} /\ calls[c].at = "write"
        /\ UserUpdate(c, calls[c].patch, "mark") /\ UNCHANGED requests
        /\ applied' = IF UpdateSucceeds(calls[c].user, calls[c].patch) /\ LiveRequest(s)
                      THEN applied \cup {s} ELSE applied
    BY <1>3 DEF ApplyDecision, At
  <2>2. /\ \A d \in Calls \ {c} : calls'[d] = calls[d]
        /\ GoTo(c, "mark") => calls'[c] = [calls[c] EXCEPT !.at = "mark"]
    BY <2>1, GoToSafe DEF Inv, UserUpdate
  <2>3. \A r \in RequestIds : BeingApproved(r) => BeingApproved(r)'
    BY <2>1, <2>2, StillApproved DEF Approving
  <2>4. CASE UpdateSucceeds(calls[c].user, calls[c].patch) /\ LiveRequest(s)
    <3>1. GoTo(c, "mark")
      BY <2>1, <2>4 DEF UserUpdate
    <3>2. calls'[c].op = calls[c].op /\ calls'[c].at = "mark" /\ calls'[c].req = s
      BY <1>1, <2>2, <3>1 DEF Call, Steps
    <3>3. \A r \in RequestIds : r = s => BeingApproved(r)'
      BY <2>1, <3>2 DEF BeingApproved
    <3>4. s \in RequestIds
      BY <2>1 DEF Inv, RequestCallOK, Deciding, DecisionOps
    <3>. QED BY <1>1, <2>1, <2>3, <2>4, <3>3, <3>4 DEF AppliedIsHeld, LiveRequest
  <2>. QED BY <1>1, <2>1, <2>3, <2>4 DEF AppliedIsHeld, LiveRequest
<1>4. CASE MarkDecided(c)
  <2>1. /\ Deciding(c) /\ GoTo(c, "idle") /\ UNCHANGED applied
        /\ requests' = IF LiveRequest(s) THEN [requests EXCEPT ![s].status = Verdict(calls[c].op)] ELSE requests
    BY <1>4 DEF MarkDecided
  <2>2. \A d \in Calls \ {c} : calls'[d] = calls[d]
    BY <2>1, GoToSafe DEF Inv
  <2>3. \A r \in RequestIds \ {s} : BeingApproved(r) => BeingApproved(r)'
    BY <2>2, StillApproved
  <2>4. s \in RequestIds /\ Verdict(calls[c].op) # "pending"
    BY <2>1 DEF Inv, RequestCallOK, Verdict
  <2>5. /\ \A r \in RequestIds \ {s} : requests'[r] = requests[r]
        /\ LiveRequest(s) => requests'[s].state = "live" /\ requests'[s].status # "pending"
    BY <1>1, <2>1, <2>4 DEF RequestRow, LiveRequest
  <2>. QED BY <1>1, <2>1, <2>3, <2>5 DEF AppliedIsHeld, LiveRequest
<1>. QED BY <1>2, <1>3, <1>4 DEF RequestResume

(* approveRequest and generatePassword write the user before the request:   *)
(* as long as no call is cut short between the two, no request is left in   *)
(* effect and pending without a call that will mark it, whatever overlaps.  *)
(* With the fairness of Resume this is why AppliedGetsDecided holds.        *)
THEOREM NothingAppliedIsStranded ==
  ASSUME "mark" \notin FailAt
  PROVE  Spec => []AppliedIsHeld
<1>1. Init => AppliedIsHeld
  BY DEF Init, AppliedIsHeld
<1>2. Inv /\ AppliedIsHeld /\ [Next]_vars => AppliedIsHeld'
  <2> SUFFICES ASSUME Inv, AppliedIsHeld, [Next]_vars PROVE AppliedIsHeld'
    OBVIOUS
  <2>1. CASE UNCHANGED vars
    BY <2>1 DEF vars, accountVars, AppliedIsHeld, LiveRequest, BeingApproved
  <2>. QED BY <2>1, StartHolds, AccountStepHolds, ResumeHolds DEF Next
<1>. QED BY <1>1, <1>2, InitInv, NextSafe, PTL DEF Spec
=============================================================================
