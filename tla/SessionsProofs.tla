--------------------------- MODULE SessionsProofs ---------------------------
(***************************************************************************)
(* Proofs about Sessions, for any accounts, any number of sign-ins and     *)
(* handlers in flight, any lifetimes and any clock: rotation retires the   *)
(* token it replaces, a logout ends its sign-in, and its JWTs stay out for *)
(* the life of one that was presented.                                     *)
(***************************************************************************)
EXTENDS Sessions, TLAPS

Stored(t) == t \in TokenIds /\ tokens[t].stored

(* The rows of a chain of refreshes belong to one account. *)
TokensOK ==
  \A t \in TokenIds :
    /\ tokens[t].stored =>
         /\ tokens[t].account \in Accounts
         /\ Stored(tokens[t].root)
         /\ tokens[tokens[t].root].account = tokens[t].account
    /\ ~tokens[t].stored => tokens[t] = NoToken
    /\ tokens[t].parent # None => Stored(tokens[t].parent)

(* A logout of this token keeps its JWTs out until the last second of one  *)
(* that was presented to it.                                               *)
Outlasts(t, until) == \E kind \in presented[t] : until > LastSecond(t, kind)

Remembered(t) == Outlasts(t, blacklist[t]) \/ Outlasts(t, now)

(* What a handler in flight knows of the token it has read. *)
CallOK(call) ==
  /\ call \in Call
  /\ call.at # "idle" => call.account \in Accounts
  /\ call.at \in {"revoke", "find", "blacklist", "revokeAll"} => call.token # None
  /\ call.at # "idle" /\ call.token # None =>
       Stored(call.token) /\ tokens[call.token].account = call.account
  /\ call.at \in {"find", "create"} /\ call.token # None => tokens[call.token].revoked
  /\ call.at = "blacklist" => call.ttl > 0 /\ Outlasts(call.token, now + call.ttl * Tick)
  /\ call.at = "revokeAll" => Remembered(call.token)

CallsOK == \A c \in Calls : CallOK(calls[c])

(* A sign-in that has ended has no usable token and nobody about to store  *)
(* one.                                                                    *)
EndedOK ==
  /\ \A r \in ended : Stored(r) /\ ~Refreshing(r)
  /\ \A t \in TokenIds : tokens[t].stored /\ tokens[t].root \in ended => tokens[t].revoked

LoggedOutOK == \A t \in loggedOut : Stored(t) /\ Remembered(t)

IInv == TypeOK /\ TokensOK /\ CallsOK /\ SuccessorRetiresParent /\ EndedOK /\ LoggedOutOK

-----------------------------------------------------------------------------
(* Whole seconds. *)
LEMMA SecondType == \A n \in Int : Second(n) \in Int
BY TimeAssumption DEF Second

LEMMA Floor ==
  ASSUME NEW x \in Int, NEW T \in Nat \ {0}
  PROVE  (x \div T) * T > x - T
OBVIOUS

LEMMA ProductType ==
  ASSUME NEW m \in Int, NEW n \in Int
  PROVE  m * n \in Int /\ (m >= 0 /\ n >= 0 => m * n >= 0) /\ (m <= 0 /\ n >= 0 => m * n <= 0)
OBVIOUS

LEMMA LastSecondType ==
  ASSUME TypeOK, NEW t \in TokenIds, NEW kind \in Kinds
  PROVE  LastSecond(t, kind) \in Int /\ JwtExpiry(tokens[t].signed, Life(kind)) \in Int
<1>1. tokens[t].signed \in Int /\ Life(kind) \in Int /\ Tick \in Int
  BY TimeAssumption DEF TypeOK, Token, Life
<1>2. JwtExpiry(tokens[t].signed, Life(kind)) \in Int
  BY <1>1, SecondType DEF JwtExpiry
<1>. QED BY <1>1, <1>2, ProductType DEF LastSecond

(* The time to live, rounded down, ends within the last second. *)
LEMMA TtlEndsInLastSecond ==
  ASSUME TypeOK, NEW t \in TokenIds, NEW kind \in Kinds
  PROVE  /\ Ttl(t, kind) \in Int
         /\ now + Ttl(t, kind) * Tick > LastSecond(t, kind)
         /\ Ttl(t, kind) <= 0 => now > LastSecond(t, kind)
<1> DEFINE expiry == JwtExpiry(tokens[t].signed, Life(kind))
<1> DEFINE ttl == Ttl(t, kind)
<1> DEFINE last == LastSecond(t, kind)
<1>1. expiry \in Int /\ now \in Int /\ Tick \in Nat \ {0}
  BY LastSecondType, TimeAssumption DEF TypeOK
<1> DEFINE rest == expiry * Tick - now
<1>3. ttl = rest \div Tick
  BY DEF Ttl, Second
<1>8. last = (expiry - 1) * Tick
  BY DEF LastSecond
<1> HIDE DEF expiry, ttl, last
<1>2. rest \in Int
  BY <1>1, ProductType
<1>4. (expiry - 1) * Tick = expiry * Tick - Tick
  BY <1>1
<1>5. last = rest + now - Tick
  <2>2. expiry * Tick \in Int
    BY <1>1, ProductType
  <2>. QED BY <1>1, <1>4, <1>8, <2>2
<1> HIDE DEF rest
<1>6. ttl \in Int /\ ttl * Tick > rest - Tick
  <2>1. (rest \div Tick) * Tick > rest - Tick
    BY <1>1, <1>2, Floor
  <2>2. rest \div Tick \in Int
    BY <1>1, <1>2
  <2>. QED BY <1>3, <2>1, <2>2
<1>7. ttl * Tick \in Int /\ (ttl <= 0 => ttl * Tick <= 0)
  BY <1>1, <1>6, ProductType
<1>9. ttl \in Int /\ now + ttl * Tick > last /\ (ttl <= 0 => now > last)
  BY <1>1, <1>2, <1>5, <1>6, <1>7
<1>. QED BY <1>9 DEF ttl, last

-----------------------------------------------------------------------------
LEMMA IdleOK == Idle \in Call /\ CallOK(Idle) /\ CallOK(Idle)'
BY DEF Idle, Call, CallOK

LEMMA InitOK == Init => IInv
<1> SUFFICES ASSUME Init PROVE IInv
  OBVIOUS
<1>1. NoToken \in Token
  BY DEF NoToken, Token
<1>2. TypeOK
  BY <1>1, IdleOK DEF Init, TypeOK
<1>3. TokensOK /\ SuccessorRetiresParent
  BY DEF Init, TokensOK, SuccessorRetiresParent, NoToken
<1>4. CallsOK
  BY IdleOK DEF Init, CallsOK
<1>5. EndedOK /\ LoggedOutOK
  BY DEF Init, EndedOK, LoggedOutOK, NoToken
<1>. QED BY <1>2, <1>3, <1>4, <1>5 DEF IInv

(* A step of a call that leaves the rows and the cache alone; a logout adds *)
(* to what was presented.                                                   *)
LEMMA PresentingStep ==
  ASSUME IInv, NEW c \in Calls, calls' = [calls EXCEPT ![c] = calls'[c]], CallOK(calls[c])',
         calls'[c].at \in {"revoke", "find", "create"} /\ calls'[c].token # None
           => tokens[calls'[c].token].root \notin ended,
         presented' \in [TokenIds -> SUBSET Kinds],
         \A t \in TokenIds : presented[t] \subseteq presented'[t],
         UNCHANGED <<tokens, blacklist, now, loggedOut, ended>>,
         accounts' \in [Accounts -> {"unborn", "live", "gone"}]
  PROVE  IInv'
<1>1. \A d \in Calls : d # c => calls'[d] = calls[d]
  BY DEF IInv, TypeOK
<1>2. TypeOK'
  BY DEF IInv, TypeOK, CallOK
<1>3. TokensOK' /\ SuccessorRetiresParent'
  BY DEF IInv, TokensOK, Stored, SuccessorRetiresParent
<1>4. \A t \in TokenIds, kind \in Kinds : LastSecond(t, kind)' = LastSecond(t, kind)
  BY DEF LastSecond, JwtExpiry, Second, Life
<1>5. ASSUME NEW d \in Calls PROVE CallOK(calls[d])'
  <2>1. CASE d # c
    <3>1. CallOK(calls[d]) /\ calls'[d] = calls[d]
      BY <1>1, <2>1 DEF IInv, CallsOK
    <3>. QED BY <1>4, <3>1 DEF CallOK, Stored, Remembered, Outlasts, IInv, TypeOK
  <2>. QED BY <2>1
<1>6. EndedOK'
  <2>1. \A r \in ended : Stored(r) /\ ~Refreshing(r)'
    BY <1>1 DEF IInv, EndedOK, Refreshing
  <2>. QED BY <2>1 DEF IInv, EndedOK, Stored
<1>7. LoggedOutOK'
  BY <1>4 DEF IInv, TypeOK, LoggedOutOK, Stored, Remembered, Outlasts
<1>. QED BY <1>2, <1>3, <1>5, <1>6, <1>7 DEF IInv, CallsOK

LEMMA CallStep ==
  ASSUME IInv, NEW c \in Calls, NEW call, CallOK(call), calls' = [calls EXCEPT ![c] = call],
         call.at \in {"revoke", "find", "create"} /\ call.token # None
           => tokens[call.token].root \notin ended,
         UNCHANGED <<tokens, blacklist, now, presented, loggedOut, ended>>,
         accounts' \in [Accounts -> {"unborn", "live", "gone"}]
  PROVE  IInv'
<1>1. calls'[c] = call
  BY DEF IInv, TypeOK
<1>2. CallOK(calls[c])'
  BY <1>1 DEF IInv, TypeOK, CallOK, Stored, Remembered, Outlasts, LastSecond
<1>3. presented' \in [TokenIds -> SUBSET Kinds] /\ \A t \in TokenIds : presented[t] \subseteq presented'[t]
  BY DEF IInv, TypeOK
<1>. QED BY <1>1, <1>2, <1>3, PresentingStep

LEMMA ReturnStep ==
  ASSUME IInv, NEW c \in Calls, Return(c),
         UNCHANGED <<accounts, tokens, blacklist, now, presented, loggedOut, ended>>
  PROVE  IInv'
<1>1. Idle.at = "idle"
  BY DEF Idle
<1>. QED BY <1>1, IdleOK, CallStep DEF Return, IInv, TypeOK

LEMMA SignStep ==
  ASSUME IInv, NEW c \in Calls, NEW a \in Accounts, Begin(c, Sign(a, None)),
         UNCHANGED <<tokens, blacklist, now, presented, loggedOut, ended>>,
         accounts' \in [Accounts -> {"unborn", "live", "gone"}]
  PROVE  IInv'
<1> DEFINE call == Sign(a, None)
<1>1. call \in Call /\ call.at = "create" /\ call.account = a /\ call.token = None
  BY IdleOK DEF Sign, Idle, Call, IInv, TypeOK
<1> HIDE DEF call
<1>2. CallOK(call)
  BY <1>1 DEF CallOK
<1>3. calls' = [calls EXCEPT ![c] = call]
  BY DEF Begin, call
<1>. QED BY <1>1, <1>2, <1>3, CallStep

LEMMA RefreshStep ==
  ASSUME IInv, NEW c \in Calls, NEW t \in TokenIds, Refresh(c, t)
  PROVE  IInv'
<1> DEFINE call == [Idle EXCEPT !.at = "revoke", !.account = tokens[t].account, !.token = t]
<1>1. /\ tokens[t].stored /\ ~tokens[t].revoked /\ tokens[t].account \in Accounts
      /\ t # None
  BY NoneAssumption DEF Refresh, Usable, IInv, TokensOK
<1>2. call \in Call /\ call.at = "revoke" /\ call.account = tokens[t].account /\ call.token = t
  BY <1>1, IdleOK DEF Idle, Call
<1> HIDE DEF call
<1>3. CallOK(call)
  BY <1>1, <1>2 DEF CallOK, Stored
<1>4. tokens[t].root \notin ended
  BY <1>1 DEF IInv, EndedOK
<1>5. calls' = [calls EXCEPT ![c] = call]
  BY DEF Refresh, Begin, call
<1>. QED BY <1>2, <1>3, <1>4, <1>5, CallStep DEF Refresh, IInv, TypeOK

LEMMA FindAccountStep ==
  ASSUME IInv, NEW c \in Calls, FindAccount(c)
  PROVE  IInv'
<1> DEFINE old == calls[c]
<1>1. /\ old.at = "find" /\ CallOK(old) /\ old.account \in Accounts /\ old.token # None
      /\ old.token \in TokenIds /\ tokens[old.token].revoked
      /\ Stored(old.token) /\ tokens[old.token].account = old.account
  BY DEF FindAccount, IInv, CallsOK, CallOK, Stored
<1>2. CASE LiveAccount(old.account)
  <2> DEFINE call == Sign(old.account, old.token)
  <2>1. call \in Call /\ call.at = "create" /\ call.account = old.account /\ call.token = old.token
    BY <1>1, IdleOK DEF Sign, Idle, Call, IInv, TypeOK
  <2>2. calls' = [calls EXCEPT ![c] = call]
    BY <1>2 DEF FindAccount
  <2> HIDE DEF call
  <2>3. CallOK(call)
    BY <1>1, <2>1 DEF CallOK
  <2>4. tokens[old.token].root \notin ended
    BY <1>1 DEF IInv, EndedOK, Refreshing
  <2>. QED BY <2>1, <2>2, <2>3, <2>4, CallStep DEF FindAccount, IInv, TypeOK
<1>3. CASE ~LiveAccount(old.account)
  BY <1>3, ReturnStep DEF FindAccount, Return
<1>. QED BY <1>2, <1>3

(* What a logout carries, once its time to live is known. *)
LogoutCall(a, t, ttl) ==
  [Idle EXCEPT !.at = IF ttl > 0 THEN "blacklist" ELSE "revokeAll",
     !.account = a, !.token = t, !.ttl = ttl]

LEMMA LogoutCallType ==
  ASSUME NEW a \in Accounts, NEW t \in TokenIds, NEW ttl \in Int
  PROVE  LET call == LogoutCall(a, t, ttl)
         IN /\ call \in Call /\ call.account = a /\ call.token = t /\ call.ttl = ttl
            /\ call.at = IF ttl > 0 THEN "blacklist" ELSE "revokeAll"
BY DEF LogoutCall, Idle, Call

LEMMA LogoutStep ==
  ASSUME IInv, NEW c \in Calls, NEW t \in TokenIds, NEW kind \in Kinds, Logout(c, t, kind)
  PROVE  IInv'
<1> DEFINE call == LogoutCall(tokens[t].account, t, Ttl(t, kind))
<1>1. tokens[t].stored /\ tokens[t].account \in Accounts /\ t # None
  BY NoneAssumption DEF Logout, Accepted, IInv, TokensOK
<1>2. PICK ttl : /\ ttl \in Int /\ ttl = Ttl(t, kind)
                 /\ now + ttl * Tick > LastSecond(t, kind)
                 /\ ttl <= 0 => now > LastSecond(t, kind)
  BY TtlEndsInLastSecond DEF IInv
<1>3. calls' = [calls EXCEPT ![c] = call]
  BY DEF Logout, Begin, LogoutCall
<1>4. /\ call \in Call /\ call.account = tokens[t].account /\ call.token = t /\ call.ttl = ttl
      /\ call.at = IF ttl > 0 THEN "blacklist" ELSE "revokeAll"
  BY <1>1, <1>2, LogoutCallType
<1> HIDE DEF call
<1>5. calls'[c] = call
  BY <1>3 DEF IInv, TypeOK
<1>6. /\ presented' = [presented EXCEPT ![t] = @ \cup {kind}]
      /\ UNCHANGED <<accounts, tokens, blacklist, now, loggedOut, ended>>
  BY DEF Logout
<1>7. /\ presented' \in [TokenIds -> SUBSET Kinds] /\ kind \in presented'[t]
      /\ \A u \in TokenIds : presented[u] \subseteq presented'[u]
  BY <1>6 DEF IInv, TypeOK
<1>8. \A k \in Kinds : LastSecond(t, k)' = LastSecond(t, k)
  BY <1>6 DEF LastSecond, JwtExpiry, Second, Life
<1>9. ttl > 0 => Outlasts(t, now + ttl * Tick)'
  <2>1. \E k \in presented'[t] : now' + ttl * Tick > LastSecond(t, k)'
    BY <1>2, <1>6, <1>7, <1>8
  <2>. QED BY <2>1 DEF Outlasts
<1>10. ttl <= 0 => Remembered(t)'
  <2>1. ttl <= 0 => \E k \in presented'[t] : now' > LastSecond(t, k)'
    BY <1>2, <1>6, <1>7, <1>8
  <2>. QED BY <2>1 DEF Outlasts, Remembered
<1>11. CallOK(calls[c])'
  <2>1. /\ calls'[c] \in Call /\ calls'[c].account = tokens'[t].account /\ calls'[c].token = t
        /\ calls'[c].ttl = ttl /\ tokens'[t].stored /\ tokens'[t].account \in Accounts
        /\ calls'[c].at = IF ttl > 0 THEN "blacklist" ELSE "revokeAll"
    BY <1>1, <1>4, <1>5, <1>6
  <2>2. calls'[c].at = "blacklist" =>
          calls'[c].ttl > 0 /\ Outlasts(calls[c].token, now + calls[c].ttl * Tick)'
    BY <1>9, <2>1 DEF Outlasts, LastSecond
  <2>3. calls'[c].at = "revokeAll" => Remembered(calls[c].token)'
    BY <1>2, <1>10, <2>1 DEF Remembered, Outlasts, LastSecond
  <2>. QED BY <1>1, <2>1, <2>2, <2>3 DEF CallOK, Stored
<1>12. calls'[c].at \notin {"revoke", "find", "create"}
  BY <1>4, <1>5
<1>13. calls' = [calls EXCEPT ![c] = calls'[c]]
  BY <1>3, <1>5
<1>. QED BY <1>6, <1>7, <1>11, <1>12, <1>13, PresentingStep DEF IInv, TypeOK

-----------------------------------------------------------------------------
(* Rows are revoked and otherwise kept. *)
LEMMA Revoking ==
  ASSUME IInv, NEW R \in SUBSET TokenIds, \A t \in R : tokens[t].stored,
         tokens' = [t \in TokenIds |-> IF t \in R THEN [tokens[t] EXCEPT !.revoked = TRUE]
                                                  ELSE tokens[t]]
  PROVE  /\ tokens' \in [TokenIds -> Token]
         /\ \A t \in TokenIds :
              /\ tokens'[t].stored = tokens[t].stored /\ tokens'[t].account = tokens[t].account
              /\ tokens'[t].signed = tokens[t].signed /\ tokens'[t].parent = tokens[t].parent
              /\ tokens'[t].root = tokens[t].root
              /\ tokens[t].revoked \/ t \in R => tokens'[t].revoked
              /\ t \notin R => tokens'[t] = tokens[t]
         /\ TokensOK' /\ SuccessorRetiresParent'
         /\ \A t \in TokenIds, kind \in Kinds : LastSecond(t, kind)' = LastSecond(t, kind)
<1>1. tokens' \in [TokenIds -> Token]
  <2>1. \A row \in Token : [row EXCEPT !.revoked = TRUE] \in Token
    BY DEF Token
  <2>. QED BY <2>1 DEF IInv, TypeOK
<1>2. ASSUME NEW t \in TokenIds
      PROVE  /\ tokens'[t].stored = tokens[t].stored /\ tokens'[t].account = tokens[t].account
             /\ tokens'[t].signed = tokens[t].signed /\ tokens'[t].parent = tokens[t].parent
             /\ tokens'[t].root = tokens[t].root
             /\ tokens[t].revoked \/ t \in R => tokens'[t].revoked
             /\ t \notin R => tokens'[t] = tokens[t]
  <2>1. tokens[t] \in Token
    BY DEF IInv, TypeOK
  <2>2. CASE t \in R
    <3>1. tokens'[t] = [tokens[t] EXCEPT !.revoked = TRUE]
      BY <2>2
    <3>. QED BY <2>1, <2>2, <3>1 DEF Token
  <2>3. CASE t \notin R
    <3>1. tokens'[t] = tokens[t]
      BY <2>3
    <3>. QED BY <2>3, <3>1
  <2>. QED BY <2>2, <2>3
<1>3. TokensOK'
  <2> SUFFICES ASSUME NEW t \in TokenIds
               PROVE  /\ tokens'[t].stored =>
                           /\ tokens'[t].account \in Accounts
                           /\ tokens'[t].root \in TokenIds /\ tokens'[tokens'[t].root].stored
                           /\ tokens'[tokens'[t].root].account = tokens'[t].account
                      /\ ~tokens'[t].stored => tokens'[t] = NoToken
                      /\ tokens'[t].parent # None
                           => tokens'[t].parent \in TokenIds /\ tokens'[tokens'[t].parent].stored
    BY DEF TokensOK, Stored
  <2>. QED BY <1>2 DEF IInv, TokensOK, Stored
<1>4. SuccessorRetiresParent'
  BY <1>2 DEF IInv, TokensOK, Stored, SuccessorRetiresParent
<1>5. \A t \in TokenIds, kind \in Kinds : LastSecond(t, kind)' = LastSecond(t, kind)
  BY <1>2 DEF LastSecond, JwtExpiry, Second, Life
<1>. QED BY <1>1, <1>2, <1>3, <1>4, <1>5

LEMMA RevokeTokenStep ==
  ASSUME IInv, NEW c \in Calls, RevokeToken(c)
  PROVE  IInv'
<1> DEFINE p == calls[c].token
<1> DEFINE call == [calls[c] EXCEPT !.at = "find"]
<1>1. /\ calls[c] \in Call /\ calls[c].at = "revoke" /\ p # None /\ Stored(p)
      /\ tokens[p].account = calls[c].account /\ calls[c].account \in Accounts
  BY DEF RevokeToken, IInv, CallsOK, CallOK
<1>2. tokens' = [t \in TokenIds |-> IF t \in {p} THEN [tokens[t] EXCEPT !.revoked = TRUE]
                                                 ELSE tokens[t]]
  BY <1>1 DEF RevokeToken, IInv, TypeOK, Stored
<1>3. {p} \in SUBSET TokenIds /\ \A t \in {p} : tokens[t].stored
  BY <1>1 DEF Stored
<1>4. call \in Call /\ call.at = "find" /\ call.token = p /\ call.account = calls[c].account
  BY <1>1 DEF Call
<1>5. calls' = [calls EXCEPT ![c] = call]
  BY DEF RevokeToken, GoTo, IInv, TypeOK
<1>6. \A d \in Calls : calls'[d] = IF d = c THEN call ELSE calls[d]
  BY <1>5 DEF IInv, TypeOK
<1> HIDE DEF p, call
<1>7. /\ tokens' \in [TokenIds -> Token]
      /\ \A t \in TokenIds :
           /\ tokens'[t].stored = tokens[t].stored /\ tokens'[t].account = tokens[t].account
           /\ tokens'[t].root = tokens[t].root
           /\ tokens[t].revoked \/ t \in {p} => tokens'[t].revoked
      /\ TokensOK' /\ SuccessorRetiresParent'
      /\ \A t \in TokenIds, kind \in Kinds : LastSecond(t, kind)' = LastSecond(t, kind)
  BY <1>2, <1>3, Revoking
<1>8. UNCHANGED <<accounts, blacklist, now, presented, loggedOut, ended>>
  BY DEF RevokeToken
<1>9. TypeOK'
  BY <1>4, <1>5, <1>7, <1>8 DEF IInv, TypeOK
<1>10. ASSUME NEW d \in Calls PROVE CallOK(calls[d])'
  <2>1. CASE d = c
    <3>1. calls'[d] = call /\ p \in TokenIds /\ tokens'[p].revoked /\ tokens'[p].stored
          /\ tokens'[p].account = tokens[p].account
      BY <1>1, <1>6, <1>7, <2>1 DEF Stored
    <3>. QED BY <3>1, <1>1, <1>4 DEF CallOK, Stored, p
  <2>2. CASE d # c
    <3>1. CallOK(calls[d]) /\ calls'[d] = calls[d]
      BY <1>6, <2>2 DEF IInv, CallsOK
    <3>. QED BY <1>7, <1>8, <3>1 DEF IInv, TypeOK, CallOK, Stored, Remembered, Outlasts
  <2>. QED BY <2>1, <2>2
<1>11. EndedOK'
  <2>1. ASSUME NEW r \in ended PROVE Stored(r)' /\ ~Refreshing(r)'
    <3>1. Stored(r) /\ ~Refreshing(r)
      BY DEF IInv, EndedOK
    <3>2. \A d \in Calls : calls'[d].at \in {"revoke", "find", "create"} /\ calls'[d].token # None
            => /\ calls[d].at \in {"revoke", "find", "create"} /\ calls'[d].token = calls[d].token
               /\ calls[d].token \in TokenIds
      BY <1>1, <1>4, <1>6 DEF IInv, CallsOK, CallOK, Stored, p
    <3>. QED BY <1>7, <3>1, <3>2 DEF Refreshing, Stored
  <2>2. \A t \in TokenIds : tokens'[t].stored /\ tokens'[t].root \in ended' => tokens'[t].revoked
    BY <1>7, <1>8 DEF IInv, EndedOK
  <2>. QED BY <1>8, <2>1, <2>2 DEF EndedOK
<1>12. LoggedOutOK'
  BY <1>7, <1>8 DEF TypeOK, IInv, LoggedOutOK, Stored, Remembered, Outlasts
<1>. QED BY <1>7, <1>9, <1>10, <1>11, <1>12 DEF IInv, CallsOK

LEMMA RevokeAllStep ==
  ASSUME IInv, NEW c \in Calls, RevokeAll(c)
  PROVE  IInv'
<1> DEFINE l == calls[c].token
<1> DEFINE R == {t \in TokenIds : tokens[t].stored /\ tokens[t].account.id = calls[c].account.id}
<1>1. /\ calls[c].at = "revokeAll" /\ Stored(l) /\ tokens[l].account = calls[c].account
      /\ Remembered(l)
  BY DEF RevokeAll, IInv, CallsOK, CallOK
<1>2. tokens' = [t \in TokenIds |-> IF t \in R THEN [tokens[t] EXCEPT !.revoked = TRUE]
                                               ELSE tokens[t]]
  BY DEF RevokeAll
<1>3. R \in SUBSET TokenIds /\ \A t \in R : tokens[t].stored
  OBVIOUS
<1>4. \A d \in Calls : calls'[d] = IF d = c THEN Idle ELSE calls[d]
  BY DEF RevokeAll, Return, IInv, TypeOK
<1>5. \A t \in TokenIds : tokens[t].stored /\ tokens[t].account = calls[c].account => t \in R
  OBVIOUS
<1>6. /\ loggedOut' = loggedOut \cup {l}
      /\ ended' = IF Refreshing(tokens[l].root) THEN ended ELSE ended \cup {tokens[l].root}
      /\ UNCHANGED <<accounts, blacklist, now, presented>>
  BY DEF RevokeAll, RecordLogout
<1> HIDE DEF R, l
<1>7. /\ tokens' \in [TokenIds -> Token]
      /\ \A t \in TokenIds :
           /\ tokens'[t].stored = tokens[t].stored /\ tokens'[t].account = tokens[t].account
           /\ tokens'[t].root = tokens[t].root
           /\ tokens[t].revoked \/ t \in R => tokens'[t].revoked
      /\ TokensOK' /\ SuccessorRetiresParent'
      /\ \A t \in TokenIds, kind \in Kinds : LastSecond(t, kind)' = LastSecond(t, kind)
  BY <1>2, <1>3, Revoking
<1>8. Stored(tokens[l].root) /\ tokens[tokens[l].root].account = tokens[l].account /\ l \in TokenIds
  BY <1>1 DEF IInv, TokensOK, Stored
<1>9. TypeOK'
  <2>1. calls' \in [Calls -> Call]
    BY IdleOK DEF RevokeAll, Return, IInv, TypeOK
  <2>. QED BY <1>6, <1>7, <1>8, <2>1 DEF IInv, TypeOK, Stored
<1>10. ASSUME NEW d \in Calls PROVE CallOK(calls[d])'
  <2>1. CASE d = c
    BY <1>4, <2>1, IdleOK DEF CallOK
  <2>2. CASE d # c
    <3>1. CallOK(calls[d]) /\ calls'[d] = calls[d]
      BY <1>4, <2>2 DEF IInv, CallsOK
    <3>. QED BY <1>6, <1>7, <3>1 DEF IInv, TypeOK, CallOK, Stored, Remembered, Outlasts
  <2>. QED BY <2>1, <2>2
<1>11. \A r : Refreshing(r)' => Refreshing(r)
  <2>1. \A d \in Calls : calls'[d].at \in {"revoke", "find", "create"} /\ calls'[d].token # None
            => calls'[d] = calls[d] /\ calls[d].token \in TokenIds
    BY <1>4 DEF IInv, CallsOK, CallOK, Stored, Idle
  <2>. QED BY <1>7, <2>1 DEF Refreshing
<1>12. EndedOK'
  <2>1. ASSUME NEW r \in ended' PROVE Stored(r)' /\ ~Refreshing(r)'
    <3>1. Stored(r) /\ ~Refreshing(r)
      BY <1>6, <1>8 DEF IInv, EndedOK
    <3>. QED BY <1>7, <1>11, <3>1 DEF Stored
  <2>2. ASSUME NEW t \in TokenIds, tokens'[t].stored, tokens'[t].root \in ended'
        PROVE  tokens'[t].revoked
    <3>1. tokens[t].stored /\ tokens[t].root \in ended'
      BY <1>7, <2>2
    <3>2. CASE tokens[t].root \in ended
      BY <1>7, <3>1, <3>2 DEF IInv, EndedOK
    <3>3. CASE tokens[t].root = tokens[l].root
      <4>1. tokens[t].account = calls[c].account
        BY <1>1, <1>8, <3>1, <3>3 DEF IInv, TokensOK
      <4>. QED BY <1>5, <1>7, <3>1, <4>1
    <3>. QED BY <1>6, <3>1, <3>2, <3>3
  <2>. QED BY <2>1, <2>2 DEF EndedOK
<1>13. LoggedOutOK'
  BY <1>1, <1>6, <1>7 DEF TypeOK, IInv, LoggedOutOK, Stored, Remembered, Outlasts
<1>. QED BY <1>7, <1>9, <1>10, <1>12, <1>13 DEF IInv, CallsOK

-----------------------------------------------------------------------------
(* A new row starts a chain, or continues the chain of a retired token     *)
(* whose sign-in has not ended.                                            *)
LEMMA StoreTokenStep ==
  ASSUME IInv, NEW c \in Calls, StoreToken(c)
  PROVE  IInv'
<1> DEFINE call == calls[c]
<1> DEFINE p == call.token
<1>1. PICK t \in TokenIds :
        /\ call.at = "create" /\ ~tokens[t].stored
        /\ tokens' = [tokens EXCEPT ![t] =
             [stored |-> TRUE, account |-> call.account, signed |-> call.signed, revoked |-> FALSE,
              parent |-> p, root |-> IF p = None THEN t ELSE tokens[p].root]]
        /\ Return(c)
        /\ UNCHANGED <<accounts, blacklist, now, presented, loggedOut, ended>>
  BY DEF StoreToken
<1> DEFINE root == IF p = None THEN t ELSE tokens[p].root
<1> DEFINE row == [stored |-> TRUE, account |-> call.account, signed |-> call.signed,
                   revoked |-> FALSE, parent |-> p, root |-> root]
<1>2. /\ call \in Call /\ call.account \in Accounts /\ call.signed \in Nat /\ p \in TokenIds \cup {None}
      /\ p # None => /\ Stored(p) /\ tokens[p].account = call.account /\ tokens[p].revoked
  BY <1>1 DEF IInv, CallsOK, CallOK, Call
<1>3. p # None => /\ p # t /\ Stored(tokens[p].root) /\ tokens[p].root # t
                  /\ tokens[tokens[p].root].account = call.account
                  /\ tokens[p].root \notin ended
  <2>1. p # None => Refreshing(tokens[p].root)
    BY <1>1 DEF Refreshing
  <2>. QED BY <1>1, <1>2, <2>1 DEF IInv, TokensOK, EndedOK, Stored
<1>4. root \in TokenIds /\ row \in Token
  BY <1>2, <1>3 DEF Token, Stored
<1>5. tokens' = [tokens EXCEPT ![t] = row]
  BY <1>1
<1>6. \A u \in TokenIds : tokens'[u] = IF u = t THEN row ELSE tokens[u]
  BY <1>5 DEF IInv, TypeOK
<1>7. \A d \in Calls : calls'[d] = IF d = c THEN Idle ELSE calls[d]
  BY <1>1 DEF Return, IInv, TypeOK
<1>8. /\ row.stored /\ row.account = call.account /\ row.parent = p /\ row.root = root
      /\ p = None => root = t
      /\ p # None => root = tokens[p].root
  OBVIOUS
<1> HIDE DEF row, root
<1>9. \A u \in TokenIds : tokens[u].stored => u # t /\ tokens'[u] = tokens[u]
  BY <1>1, <1>6
<1>10. TypeOK'
  <2>1. calls' \in [Calls -> Call]
    BY <1>1, IdleOK DEF Return, IInv, TypeOK
  <2>2. tokens' \in [TokenIds -> Token]
    BY <1>4, <1>5 DEF IInv, TypeOK
  <2>. QED BY <1>1, <2>1, <2>2 DEF IInv, TypeOK
<1>11. TokensOK'
  <2> SUFFICES ASSUME NEW u \in TokenIds
               PROVE  /\ tokens'[u].stored =>
                           /\ tokens'[u].account \in Accounts
                           /\ tokens'[u].root \in TokenIds /\ tokens'[tokens'[u].root].stored
                           /\ tokens'[tokens'[u].root].account = tokens'[u].account
                      /\ ~tokens'[u].stored => tokens'[u] = NoToken
                      /\ tokens'[u].parent # None
                           => tokens'[u].parent \in TokenIds /\ tokens'[tokens'[u].parent].stored
    BY DEF TokensOK, Stored
  <2>1. CASE u = t
    <3>1. tokens'[u] = row
      BY <1>6, <2>1
    <3>2. CASE p = None
      BY <1>2, <1>8, <2>1, <3>1, <3>2
    <3>3. CASE p # None
      <4>1. /\ tokens'[p] = tokens[p] /\ tokens[p].stored /\ root \in TokenIds
            /\ tokens'[root] = tokens[root] /\ tokens[root].stored
            /\ tokens[root].account = call.account
        BY <1>2, <1>3, <1>6, <1>8, <1>9, <3>3 DEF Stored
      <4>. QED BY <1>2, <1>8, <3>1, <3>3, <4>1
    <3>. QED BY <3>2, <3>3
  <2>2. CASE u # t
    <3>1. tokens'[u] = tokens[u]
      BY <1>6, <2>2
    <3>. QED BY <1>9, <3>1 DEF IInv, TokensOK, Stored
  <2>. QED BY <2>1, <2>2
<1>12. SuccessorRetiresParent'
  <2> SUFFICES ASSUME NEW u \in TokenIds, tokens'[u].parent # None
               PROVE  /\ tokens'[tokens'[u].parent].revoked
                      /\ tokens'[u].account = tokens'[tokens'[u].parent].account
                      /\ tokens'[u].root = tokens'[tokens'[u].parent].root
    BY DEF SuccessorRetiresParent
  <2>1. CASE u = t
    BY <1>2, <1>6, <1>8, <1>9, <2>1 DEF Stored
  <2>2. CASE u # t
    BY <1>6, <1>9, <2>2 DEF IInv, TokensOK, Stored, SuccessorRetiresParent
  <2>. QED BY <2>1, <2>2
<1>13. \A u \in TokenIds, kind \in Kinds :
         tokens[u].stored => LastSecond(u, kind)' = LastSecond(u, kind)
  BY <1>9 DEF LastSecond, JwtExpiry, Second, Life
<1>14. ASSUME NEW d \in Calls PROVE CallOK(calls[d])'
  <2>1. CASE d = c
    BY <1>7, <2>1, IdleOK DEF CallOK
  <2>2. CASE d # c
    <3>1. CallOK(calls[d]) /\ calls'[d] = calls[d]
      BY <1>7, <2>2 DEF IInv, CallsOK
    <3>. QED BY <1>1, <1>9, <1>13, <3>1 DEF IInv, TypeOK, CallOK, Stored, Remembered, Outlasts
  <2>. QED BY <2>1, <2>2
<1>15. EndedOK'
  <2>1. \A d \in Calls : calls'[d].at \in {"revoke", "find", "create"} /\ calls'[d].token # None
            => calls'[d] = calls[d] /\ Stored(calls[d].token)
    BY <1>7 DEF IInv, CallsOK, CallOK, Idle
  <2>2. ASSUME NEW r \in ended PROVE Stored(r)' /\ ~Refreshing(r)'
    <3>1. Stored(r) /\ ~Refreshing(r)
      BY DEF IInv, EndedOK
    <3>. QED BY <1>9, <2>1, <3>1 DEF Stored, Refreshing
  <2>3. ASSUME NEW u \in TokenIds, tokens'[u].stored, tokens'[u].root \in ended
        PROVE  tokens'[u].revoked
    <3>1. CASE u = t
      <4>1. t \notin ended
        BY <1>1 DEF IInv, EndedOK, Stored
      <4>2. root \notin ended
        BY <1>3, <1>8, <4>1
      <4>. QED BY <1>6, <1>8, <2>3, <3>1, <4>2
    <3>2. CASE u # t
      BY <1>6, <2>3, <3>2 DEF IInv, EndedOK
    <3>. QED BY <3>1, <3>2
  <2>. QED BY <1>1, <2>2, <2>3 DEF EndedOK
<1>16. LoggedOutOK'
  BY <1>1, <1>9, <1>13 DEF TypeOK, IInv, LoggedOutOK, Stored, Remembered, Outlasts
<1>. QED BY <1>10, <1>11, <1>12, <1>14, <1>15, <1>16 DEF IInv, CallsOK

(* The clock only moves forward. *)
LEMMA LaterStep ==
  ASSUME IInv, UNCHANGED <<accounts, tokens, calls, presented, loggedOut, ended>>, now' \in Nat, now' >= now,
         blacklist' \in [TokenIds -> Nat],
         \A t \in TokenIds : Remembered(t) => Outlasts(t, blacklist'[t]) \/ Outlasts(t, now')
  PROVE  IInv'
<1>1. TypeOK' /\ TokensOK' /\ SuccessorRetiresParent'
  BY DEF IInv, TypeOK, TokensOK, Stored, SuccessorRetiresParent
<1>2. \A t \in TokenIds, kind \in Kinds : LastSecond(t, kind)' = LastSecond(t, kind)
  BY DEF LastSecond, JwtExpiry, Second, Life
<1>3. ASSUME NEW d \in Calls PROVE CallOK(calls[d])'
  <2>1. CallOK(calls[d])
    BY DEF IInv, CallsOK
  <2>2. calls[d].at = "blacklist" => Outlasts(calls[d].token, now' + calls[d].ttl * Tick)
    <3> SUFFICES ASSUME calls[d].at = "blacklist"
                 PROVE  Outlasts(calls[d].token, now' + calls[d].ttl * Tick)
      OBVIOUS
    <3>1. calls[d].token \in TokenIds /\ calls[d].ttl \in Int /\ now \in Int /\ now' \in Int
      BY <2>1 DEF CallOK, Call, Stored, IInv, TypeOK
    <3>2. PICK kind \in presented[calls[d].token] :
            now + calls[d].ttl * Tick > LastSecond(calls[d].token, kind)
      BY <2>1 DEF CallOK, Outlasts
    <3>3. calls[d].ttl * Tick \in Int /\ LastSecond(calls[d].token, kind) \in Int
      BY <3>1, ProductType, LastSecondType, TimeAssumption DEF IInv, TypeOK
    <3>. QED BY <3>1, <3>2, <3>3 DEF Outlasts
  <2>3. calls[d].at = "blacklist" => Outlasts(calls[d].token, now + calls[d].ttl * Tick)'
    BY <1>2, <2>1, <2>2 DEF CallOK, Stored, Outlasts, IInv, TypeOK
  <2>4. calls[d].at = "revokeAll" => Remembered(calls[d].token)'
    BY <1>2, <2>1 DEF CallOK, Stored, Remembered, Outlasts, IInv, TypeOK
  <2>. QED BY <2>1, <2>3, <2>4 DEF CallOK, Stored
<1>4. EndedOK' /\ LoggedOutOK'
  BY <1>2 DEF IInv, TypeOK, EndedOK, LoggedOutOK, Stored, Remembered, Outlasts, Refreshing
<1>. QED BY <1>1, <1>3, <1>4 DEF IInv, CallsOK

LEMMA AdvanceStep == IInv /\ Advance => IInv'
<1> SUFFICES ASSUME IInv, Advance PROVE IInv'
  OBVIOUS
<1>1. now \in Nat /\ now' = now + 1 /\ UNCHANGED blacklist
  BY DEF Advance, IInv, TypeOK
<1>2. \A t \in TokenIds : Remembered(t) => Outlasts(t, blacklist[t]) \/ Outlasts(t, now')
  <2>1. \A t \in TokenIds, kind \in Kinds : LastSecond(t, kind) \in Int
    BY LastSecondType DEF IInv
  <2>. QED BY <1>1, <2>1 DEF Remembered, Outlasts, IInv, TypeOK
<1>. QED BY <1>1, <1>2, LaterStep DEF Advance, IInv, TypeOK

LEMMA BlacklistTokenStep ==
  ASSUME IInv, NEW c \in Calls, BlacklistToken(c)
  PROVE  IInv'
<1> DEFINE l == calls[c].token
<1> DEFINE until == now + calls[c].ttl * Tick
<1> DEFINE call == [calls[c] EXCEPT !.at = "revokeAll", !.ttl = 0]
<1>1. /\ calls[c] \in Call /\ calls[c].at = "blacklist" /\ Stored(l) /\ l # None
      /\ tokens[l].account = calls[c].account /\ calls[c].account \in Accounts
      /\ calls[c].ttl > 0 /\ Outlasts(l, until)
  BY DEF BlacklistToken, IInv, CallsOK, CallOK
<1>2. until \in Nat
  <2>1. calls[c].ttl \in Int /\ calls[c].ttl > 0 /\ Tick \in Nat /\ now \in Nat
    BY <1>1, TimeAssumption DEF Call, IInv, TypeOK
  <2>2. calls[c].ttl * Tick \in Int /\ calls[c].ttl * Tick >= 0
    BY <2>1, ProductType
  <2>. QED BY <2>1, <2>2
<1>3. /\ call \in Call /\ call.at = "revokeAll" /\ call.token = l /\ call.account = calls[c].account
  <2>1. calls[c] \in Call
    BY <1>1
  <2>2. \A old \in Call, n \in Int :
          LET new == [old EXCEPT !.at = "revokeAll", !.ttl = n]
          IN /\ new \in Call
             /\ new.at = "revokeAll" /\ new.token = old.token /\ new.account = old.account
    BY DEF Call
  <2>3. 0 \in Int
    OBVIOUS
  <2>. QED BY <2>1, <2>2, <2>3
<1>4. calls' = [calls EXCEPT ![c] = call]
  BY DEF BlacklistToken, IInv, TypeOK
<1>5. blacklist' = [blacklist EXCEPT ![l] = until]
      /\ UNCHANGED <<accounts, tokens, now, presented, loggedOut, ended>>
  BY DEF BlacklistToken
<1>13. \A t \in TokenIds, kind \in Kinds : LastSecond(t, kind)' = LastSecond(t, kind)
  BY <1>5 DEF LastSecond, JwtExpiry, Second, Life
<1> HIDE DEF call, until, l
<1>6. \A d \in Calls : calls'[d] = IF d = c THEN call ELSE calls[d]
  BY <1>4 DEF IInv, TypeOK
<1>7. \A t \in TokenIds : Remembered(t) \/ t = l => Remembered(t)'
  <2>1. \A t \in TokenIds : blacklist'[t] = IF t = l THEN until ELSE blacklist[t]
    BY <1>5 DEF IInv, TypeOK
  <2>. QED BY <1>1, <1>5, <1>13, <2>1 DEF Remembered, Outlasts, IInv, TypeOK
<1>8. TypeOK'
  BY <1>2, <1>3, <1>4, <1>5 DEF IInv, TypeOK
<1>9. TokensOK' /\ SuccessorRetiresParent'
  BY <1>5 DEF IInv, TokensOK, Stored, SuccessorRetiresParent
<1>10. ASSUME NEW d \in Calls PROVE CallOK(calls[d])'
  <2>1. CASE d = c
    <3>1. calls'[d] = call /\ l \in TokenIds /\ tokens[l].stored
      BY <1>1, <1>6, <2>1 DEF Stored
    <3>2. calls'[d].token = l
      BY <1>3, <3>1
    <3>3. Remembered(calls[d].token)'
      BY <1>7, <3>1, <3>2 DEF IInv, TypeOK, Remembered, Outlasts, LastSecond
    <3>. QED BY <1>1, <1>3, <1>5, <3>1, <3>3 DEF CallOK, Stored
  <2>2. CASE d # c
    <3>1. CallOK(calls[d]) /\ calls'[d] = calls[d]
      BY <1>6, <2>2 DEF IInv, CallsOK
    <3>2. calls[d].at = "blacklist" => Outlasts(calls[d].token, now + calls[d].ttl * Tick)'
      BY <1>5, <1>13, <3>1 DEF CallOK, Stored, Outlasts, IInv, TypeOK
    <3>3. calls[d].at = "revokeAll" => Remembered(calls[d].token)'
      <4>1. calls[d].at = "revokeAll" => calls[d].token \in TokenIds /\ Remembered(calls[d].token)
        BY <3>1 DEF CallOK, Stored
      <4>2. \A t \in TokenIds : t = calls[d].token /\ Remembered(t) => Remembered(calls[d].token)'
        BY <1>7, <3>1 DEF IInv, TypeOK, Remembered, Outlasts, LastSecond
      <4>. QED BY <4>1, <4>2
    <3>. QED BY <1>5, <3>1, <3>2, <3>3 DEF CallOK, Stored
  <2>. QED BY <2>1, <2>2
<1>11. EndedOK'
  <2>1. \A d \in Calls : calls'[d].at \in {"revoke", "find", "create"} => calls'[d] = calls[d]
    BY <1>3, <1>6
  <2>. QED BY <1>5, <2>1 DEF IInv, EndedOK, Stored, Refreshing
<1>12. LoggedOutOK'
  BY <1>5, <1>7 DEF IInv, LoggedOutOK, Stored
<1>. QED BY <1>8, <1>9, <1>10, <1>11, <1>12 DEF IInv, CallsOK

LEMMA InvStep == IInv /\ [Next]_vars => IInv'
<1> SUFFICES ASSUME IInv, [Next]_vars PROVE IInv'
  OBVIOUS
<1>1. CASE UNCHANGED vars
  BY <1>1, LaterStep DEF vars, IInv, TypeOK, Remembered, Outlasts
<1>2. ASSUME NEW a \in Accounts, CreateAccount(a) \/ RemoveAccount(a) PROVE IInv'
  <2>1. accounts' \in [Accounts -> {"unborn", "live", "gone"}]
        /\ UNCHANGED <<tokens, blacklist, calls, now, presented, loggedOut, ended>>
    BY <1>2 DEF CreateAccount, RemoveAccount, IInv, TypeOK
  <2>. QED BY <2>1 DEF IInv, TypeOK, TokensOK, Stored, CallsOK, CallOK, Remembered, Outlasts,
                       LastSecond, SuccessorRetiresParent, EndedOK, Refreshing, LoggedOutOK
<1>3. ASSUME NEW c \in Calls, NEW a \in Accounts, Signup(c, a) \/ Login(c, a) PROVE IInv'
  <2>1. accounts' \in [Accounts -> {"unborn", "live", "gone"}]
    BY <1>3 DEF Signup, Login, IInv, TypeOK
  <2>. QED BY <1>3, <2>1, SignStep DEF Signup, Login
<1>4. ASSUME NEW c \in Calls, Resume(c) PROVE IInv'
  BY <1>4, StoreTokenStep, RevokeTokenStep, FindAccountStep, BlacklistTokenStep, RevokeAllStep
     DEF Resume
<1>5. ASSUME NEW c \in Calls, Fail(c) PROVE IInv'
  BY <1>5, ReturnStep DEF Fail
<1>. QED BY <1>1, <1>2, <1>3, <1>4, <1>5, RefreshStep, LogoutStep, AdvanceStep DEF Next

-----------------------------------------------------------------------------
(* Type correctness: in particular no time to live lies in the past.       *)
THEOREM TypeCorrect == Spec => []TypeOK
<1>1. IInv => TypeOK
  BY DEF IInv
<1>. QED BY <1>1, InitOK, InvStep, PTL DEF Spec

(* A token issued by a refresh has retired the one it replaces.            *)
THEOREM RotationRetires == Spec => []SuccessorRetiresParent
<1>1. IInv => SuccessorRetiresParent
  BY DEF IInv
<1>. QED BY <1>1, InitOK, InvStep, PTL DEF Spec

(* No token of a sign-in that was logged out is usable again.              *)
THEOREM LogoutIsFinal == Spec => []LogoutEndsSignIn
<1>1. IInv => LogoutEndsSignIn
  BY DEF IInv, EndedOK, LogoutEndsSignIn, Usable, TypeOK
<1>. QED BY <1>1, InitOK, InvStep, PTL DEF Spec

(* After a logout neither JWT is accepted before the last second of one   *)
(* that was presented.                                                     *)
THEOREM LogoutsOutlastPresented == Spec => []LogoutOutlastsPresented
<1>1. IInv => LogoutOutlastsPresented
  <2> SUFFICES ASSUME IInv, NEW t \in loggedOut, NEW kind \in Kinds, Accepted(t, kind)
               PROVE  \E p \in presented[t] : now > LastSecond(t, p)
    BY DEF LogoutOutlastsPresented
  <2>1. t \in TokenIds /\ Remembered(t) /\ blacklist[t] <= now
    BY DEF IInv, LoggedOutOK, Stored, Accepted
  <2>2. presented[t] \subseteq Kinds /\ now \in Int /\ blacklist[t] \in Int
    BY <2>1 DEF IInv, TypeOK
  <2>3. \A p \in presented[t] : LastSecond(t, p) \in Int
    BY <2>1, <2>2, LastSecondType DEF IInv
  <2>. QED BY <2>1, <2>2, <2>3 DEF IInv, TypeOK, Remembered, Outlasts
<1>. QED BY <1>1, InitOK, InvStep, PTL DEF Spec
=============================================================================
