------------------------------ MODULE Sessions ------------------------------
(***************************************************************************)
(* Sign-in sessions: AuthService.login, signup, refreshTokens and logout,  *)
(* over the RefreshToken table, the two JWTs of a sign-in and the cache    *)
(* that remembers the jti of those logged out.                             *)
(*                                                                         *)
(* A token is the pair signed by one generateTokens: the access token, the *)
(* refresh token and its row; the two JWTs share their jti.  Its lineage   *)
(* is the chain of refreshes it comes from.  Every await lets the other    *)
(* handlers run.  Time advances in ticks, Tick of them a second: JWTs      *)
(* count whole seconds, the database and the cache count ticks.            *)
(***************************************************************************)
EXTENDS Integers

CONSTANTS
  Accounts,     \* each of the admin or of the user table, with its id there
  TokenIds,
  Calls,        \* handlers that may be in flight at once
  Tick,         \* clock ticks in a second
  AccessLife,   \* JWT_ACCESS_EXPIRY, in seconds
  RefreshLife,  \* JWT_REFRESH_EXPIRY, in seconds
  MaxTime,      \* bound on the clock
  Failures,     \* may a call be cut short after a step?
  None

ASSUME TimeAssumption ==
  /\ Tick \in Nat \ {0} /\ AccessLife \in Nat /\ RefreshLife \in Nat /\ MaxTime \in Nat
  /\ Failures \in BOOLEAN

ASSUME AccountAssumption == \A a \in Accounts : a.type \in {"admin", "user"} /\ a.id \in Nat
ASSUME NoneAssumption == None \notin TokenIds \cup Accounts

VARIABLES
  accounts,   \* the admin and user tables: which accounts exist
  tokens,     \* the RefreshToken table, with what the JWTs of each row say
  blacklist,  \* the cache: until when (a tick) it remembers a jti
  calls,      \* the handlers in flight
  now,        \* the clock, in ticks
  presented,  \* history: which JWTs of a token a logout was called with
  loggedOut,  \* history: tokens whose logout has run to its end
  ended       \* history: sign-ins logged out while no refresh of theirs was in flight

vars == <<accounts, tokens, blacklist, calls, now, presented, loggedOut, ended>>

-----------------------------------------------------------------------------
Token == [stored: BOOLEAN, account: Accounts \cup {None}, signed: Nat,
          revoked: BOOLEAN, parent: TokenIds \cup {None}, root: TokenIds \cup {None}]

NoToken == [stored |-> FALSE, account |-> None, signed |-> 0, revoked |-> FALSE,
            parent |-> None, root |-> None]

Call == [at: {"idle", "create", "revoke", "find", "blacklist", "revokeAll"},
         account: Accounts \cup {None}, token: TokenIds \cup {None},
         signed: Nat, ttl: Int]

Idle == [at |-> "idle", account |-> None, token |-> None, signed |-> 0, ttl |-> 0]

LiveAccount(a) == a \in Accounts /\ accounts[a] = "live"

(* The two JWTs of a token; jsonwebtoken compares whole seconds. *)
Kinds == {"access", "refresh"}
Life(kind) == IF kind = "access" THEN AccessLife ELSE RefreshLife

Second(tick) == tick \div Tick
JwtExpiry(signed, life) == Second(signed) + life
JwtLive(signed, life) == Second(now) < JwtExpiry(signed, life)

(* JwtStrategy: the bearer's JWT is not expired and its jti not in the cache; *)
(* of which type it is, is not asked.                                         *)
Accepted(t, kind) == /\ tokens[t].stored
                     /\ JwtLive(tokens[t].signed, Life(kind))
                     /\ blacklist[t] <= now

(* What refreshTokens checks: the JWT, the row, its expiresAt. *)
Usable(t) == /\ tokens[t].stored
             /\ JwtLive(tokens[t].signed, RefreshLife)
             /\ ~tokens[t].revoked
             /\ now <= tokens[t].signed + RefreshLife * Tick

-----------------------------------------------------------------------------
Begin(c, call) == calls[c].at = "idle" /\ calls' = [calls EXCEPT ![c] = call]
GoTo(c, step) == calls' = [calls EXCEPT ![c].at = step]
Return(c) == calls' = [calls EXCEPT ![c] = Idle]

(* AdminService.create (by another admin) and UserService.create. *)
CreateAccount(a) == /\ accounts[a] = "unborn"
                    /\ accounts' = [accounts EXCEPT ![a] = "live"]
                    /\ UNCHANGED <<tokens, blacklist, calls, now, presented, loggedOut, ended>>

(* AdminService.remove and UserService.remove: tokens have no foreign key. *)
RemoveAccount(a) == /\ LiveAccount(a)
                    /\ accounts' = [accounts EXCEPT ![a] = "gone"]
                    /\ UNCHANGED <<tokens, blacklist, calls, now, presented, loggedOut, ended>>

(* generateTokens signs both JWTs and then awaits the insert of the row. *)
Sign(account, parent) ==
  [Idle EXCEPT !.at = "create", !.account = account, !.token = parent, !.signed = now]

Signup(c, a) ==
  /\ a.type = "admin" /\ accounts[a] = "unborn"
  /\ accounts' = [accounts EXCEPT ![a] = "live"]
  /\ Begin(c, Sign(a, None))
  /\ UNCHANGED <<tokens, blacklist, now, presented, loggedOut, ended>>

Login(c, a) ==
  /\ LiveAccount(a)
  /\ Begin(c, Sign(a, None))
  /\ UNCHANGED <<accounts, tokens, blacklist, now, presented, loggedOut, ended>>

StoreToken(c) ==
  \E t \in TokenIds :
    /\ calls[c].at = "create" /\ ~tokens[t].stored
    /\ tokens' = [tokens EXCEPT ![t] =
         [stored |-> TRUE, account |-> calls[c].account, signed |-> calls[c].signed,
          revoked |-> FALSE, parent |-> calls[c].token,
          root |-> IF calls[c].token = None THEN t ELSE tokens[calls[c].token].root]]
    /\ Return(c)
    /\ UNCHANGED <<accounts, blacklist, now, presented, loggedOut, ended>>

-----------------------------------------------------------------------------
(* refreshTokens: check, revoke the row, find the account, sign anew.       *)

Refresh(c, t) ==
  /\ Usable(t)
  /\ Begin(c, [Idle EXCEPT !.at = "revoke", !.account = tokens[t].account, !.token = t])
  /\ UNCHANGED <<accounts, tokens, blacklist, now, presented, loggedOut, ended>>

(* Mutant: the row is left as it is. *)
RevokeNothing(c) ==
  /\ calls[c].at = "revoke"
  /\ GoTo(c, "find")
  /\ UNCHANGED <<accounts, tokens, blacklist, now, presented, loggedOut, ended>>

RevokeToken(c) ==
  /\ calls[c].at = "revoke"
  /\ tokens' = [tokens EXCEPT ![calls[c].token].revoked = TRUE]
  /\ GoTo(c, "find")
  /\ UNCHANGED <<accounts, blacklist, now, presented, loggedOut, ended>>

FindAccount(c) ==
  /\ calls[c].at = "find"
  /\ calls' = [calls EXCEPT ![c] = IF LiveAccount(@.account) THEN Sign(@.account, @.token)
                                                              ELSE Idle]
  /\ UNCHANGED <<accounts, tokens, blacklist, now, presented, loggedOut, ended>>

-----------------------------------------------------------------------------
(* logout: remember the jti for the rest of the life of the JWT presented,  *)
(* then revoke the refresh tokens.                                          *)

Ttl(t, kind) == Second(JwtExpiry(tokens[t].signed, Life(kind)) * Tick - now)

Logout(c, t, kind) ==
  /\ Accepted(t, kind)
  /\ Begin(c, [Idle EXCEPT !.at = IF Ttl(t, kind) > 0 THEN "blacklist" ELSE "revokeAll",
                 !.account = tokens[t].account, !.token = t, !.ttl = Ttl(t, kind)])
  /\ presented' = [presented EXCEPT ![t] = @ \cup {kind}]
  /\ UNCHANGED <<accounts, tokens, blacklist, now, loggedOut, ended>>

(* Mutants: the time to live is taken from now; it is in seconds where the  *)
(* cache counts milliseconds.                                               *)
BlacklistTokenPast(c) ==
  /\ calls[c].at = "blacklist"
  /\ blacklist' = [blacklist EXCEPT ![calls[c].token] = now - calls[c].ttl * Tick]
  /\ calls' = [calls EXCEPT ![c].at = "revokeAll", ![c].ttl = 0]
  /\ UNCHANGED <<accounts, tokens, now, presented, loggedOut, ended>>

BlacklistTokenSeconds(c) ==
  /\ calls[c].at = "blacklist"
  /\ blacklist' = [blacklist EXCEPT ![calls[c].token] = now + calls[c].ttl]
  /\ calls' = [calls EXCEPT ![c].at = "revokeAll", ![c].ttl = 0]
  /\ UNCHANGED <<accounts, tokens, now, presented, loggedOut, ended>>

BlacklistToken(c) ==
  /\ calls[c].at = "blacklist"
  /\ blacklist' = [blacklist EXCEPT ![calls[c].token] = now + calls[c].ttl * Tick]
  /\ calls' = [calls EXCEPT ![c].at = "revokeAll", ![c].ttl = 0]
  /\ UNCHANGED <<accounts, tokens, now, presented, loggedOut, ended>>

(* A refresh checked its token before the logout and stores a successor after it. *)
Refreshing(root) ==
  \E d \in Calls : /\ calls[d].at \in {"revoke", "find", "create"}
                   /\ calls[d].token # None /\ tokens[calls[d].token].root = root

RecordLogout(t) ==
  /\ loggedOut' = loggedOut \cup {t}
  /\ ended' = IF Refreshing(tokens[t].root) THEN ended ELSE ended \cup {tokens[t].root}

(* Mutant: only the row of the access token presented is revoked. *)
RevokeOne(c) ==
  /\ calls[c].at = "revokeAll"
  /\ tokens' = [tokens EXCEPT ![calls[c].token].revoked = TRUE]
  /\ RecordLogout(calls[c].token)
  /\ Return(c)
  /\ UNCHANGED <<accounts, blacklist, now, presented>>

(* updateMany where userId, whatever the userType. *)
RevokeAll(c) ==
  /\ calls[c].at = "revokeAll"
  /\ tokens' = [t \in TokenIds |->
       IF tokens[t].stored /\ tokens[t].account.id = calls[c].account.id
       THEN [tokens[t] EXCEPT !.revoked = TRUE] ELSE tokens[t]]
  /\ RecordLogout(calls[c].token)
  /\ Return(c)
  /\ UNCHANGED <<accounts, blacklist, now, presented>>

(* An await rejects or the process stops; logout answers success even so.   *)
Fail(c) == /\ Failures /\ calls[c].at # "idle" /\ Return(c)
           /\ UNCHANGED <<accounts, tokens, blacklist, now, presented, loggedOut, ended>>

Advance == /\ now < MaxTime /\ now' = now + 1
           /\ UNCHANGED <<accounts, tokens, blacklist, calls, presented, loggedOut, ended>>

-----------------------------------------------------------------------------
Resume(c) == StoreToken(c) \/ RevokeToken(c) \/ FindAccount(c) \/ BlacklistToken(c) \/ RevokeAll(c)

Next ==
  \/ \E a \in Accounts : CreateAccount(a) \/ RemoveAccount(a)
  \/ \E c \in Calls :
       \/ \E a \in Accounts : Signup(c, a) \/ Login(c, a)
       \/ \E t \in TokenIds : Refresh(c, t) \/ \E kind \in Kinds : Logout(c, t, kind)
       \/ Resume(c) \/ Fail(c)
  \/ Advance

Init == /\ accounts \in [Accounts -> {"unborn", "live"}]
        /\ tokens = [t \in TokenIds |-> NoToken]
        /\ blacklist = [t \in TokenIds |-> 0]
        /\ calls = [c \in Calls |-> Idle]
        /\ now = 0
        /\ presented = [t \in TokenIds |-> {}]
        /\ loggedOut = {} /\ ended = {}

(* A handler whose awaited call has settled is resumed.                     *)
Spec == Init /\ [][Next]_vars /\ \A c \in Calls : WF_vars(Resume(c))

-----------------------------------------------------------------------------
(* Properties *)

(* Type invariant. *)
TypeOK ==
  /\ accounts \in [Accounts -> {"unborn", "live", "gone"}]
  /\ tokens \in [TokenIds -> Token]
  /\ blacklist \in [TokenIds -> Nat]
  /\ calls \in [Calls -> Call]
  /\ now \in Nat
  /\ presented \in [TokenIds -> SUBSET Kinds]
  /\ loggedOut \subseteq TokenIds /\ ended \subseteq TokenIds

(* Rotation: a token issued by a refresh belongs to the account of the one  *)
(* it replaces, and that one is no longer usable, however many refreshes,   *)
(* logouts and failures overlap.                                            *)
SuccessorRetiresParent ==
  \A t \in TokenIds :
    LET p == tokens[t].parent IN
    p # None => /\ tokens[p].revoked
                /\ tokens[t].account = tokens[p].account
                /\ tokens[t].root = tokens[p].root

(* A logout ends the sign-in: however logins, refreshes and failures of the *)
(* account overlap afterwards, no token of the chain is usable again, those *)
(* before and after the one presented included, unless a refresh that had   *)
(* already passed its checks was in flight (its successor survives).        *)
LogoutEndsSignIn == \A t \in TokenIds : tokens[t].root \in ended => ~Usable(t)

(* The last second of a JWT starts after this tick. *)
LastSecond(t, kind) == (JwtExpiry(tokens[t].signed, Life(kind)) - 1) * Tick

(* Once a logout has run to its end, neither JWT of the pair is accepted    *)
(* again before the last second (which the whole seconds of the time to     *)
(* live may leave out) of a JWT that some logout was called with, however   *)
(* logouts with the two JWTs overwrite each other's cache entry.  What the  *)
(* code does not give is more: the refresh JWT outlives the entry of a      *)
(* logout called with the access token, and is accepted then.               *)
LogoutOutlastsPresented ==
  \A t \in loggedOut, kind \in Kinds :
    Accepted(t, kind) => \E p \in presented[t] : now > LastSecond(t, p)

(* schema.prisma:66, a token's row says whose it is with userId and         *)
(* userType, 'admin' | 'user': a logout revokes the tokens of the account   *)
(* that logs out and of no other.                                           *)
LogoutOnlyOwnTokens ==
  [][\A c \in Calls : RevokeAll(c) =>
       \A t \in TokenIds : tokens'[t].revoked /\ ~tokens[t].revoked =>
         tokens[t].account = calls[c].account]_vars
=============================================================================
