--------------------------- MODULE PasswordReset ---------------------------
(***************************************************************************)
(* Reset links: AuthService.forgotPassword mails a link that carries a     *)
(* token, AuthService.resetPassword exchanges the token for a new          *)
(* password.  A token names an address, never an account, and shares the   *)
(* user table with every handler of Accounts, whose steps interleave.      *)
(***************************************************************************)
EXTENDS Accounts

CONSTANTS
  TokenIds,
  LinkCalls,    \* forgotPassword and resetPassword calls that may be in flight
  LinkFailAt    \* the steps before which one of those may be cut short

LinkSteps == {"delete", "create", "mail", "find", "write", "mark"}

ASSUME TokenAssumption == None \notin TokenIds /\ LinkFailAt \subseteq LinkSteps

VARIABLES
  tokens,  \* the PasswordResetToken table
  links,   \* the forgotPassword and resetPassword calls in flight
  mailed,  \* history: tokens whose link has been sent
  uses,    \* history: how many passwords each token has set
  crossed  \* history: tokens created when another call was about to create one

linkVars == <<tokens, links, mailed, uses, crossed>>
vars == <<accountVars, linkVars>>

-----------------------------------------------------------------------------
TokenRow == [state: RowStates, email: Emails \cup {None}, used: BOOLEAN, expired: BOOLEAN]

NoToken == [state |-> "unborn", email |-> None, used |-> FALSE, expired |-> FALSE]

LinkCall == [at: LinkSteps \cup {"idle"},
             email: Emails \cup {None}, token: TokenIds \cup {None},
             user: UserIds \cup {None}, password: Nat]

NoCall == [at |-> "idle", email |-> None, token |-> None, user |-> None, password |-> 0]

LiveToken(t) == tokens[t].state = "live"
Outstanding(t) == LiveToken(t) /\ ~tokens[t].used

GoOn(k, step) ==
  links' = [links EXCEPT ![k] = IF step = "idle" THEN NoCall ELSE [@ EXCEPT !.at = step]]

-----------------------------------------------------------------------------
(* forgotPassword: find the user, delete the tokens of the address, create  *)
(* a new one, mail it.                                                      *)

RequestLink(k, e) ==
  /\ links[k] = NoCall
  /\ \E u \in UserIds : LiveUser(u) /\ users[u].email = e
  /\ links' = [links EXCEPT ![k] = [NoCall EXCEPT !.at = "delete", !.email = e]]
  /\ UNCHANGED <<accountVars, tokens, mailed, uses, crossed>>

(* Mutants: the old tokens stay; those of every address go. *)
DeleteNoTokens(k) ==
  /\ links[k].at = "delete"
  /\ GoOn(k, "create")
  /\ UNCHANGED <<accountVars, tokens, mailed, uses, crossed>>

DeleteEveryToken(k) ==
  /\ links[k].at = "delete"
  /\ tokens' = [t \in TokenIds |->
       IF LiveToken(t) THEN [tokens[t] EXCEPT !.state = "gone"] ELSE tokens[t]]
  /\ GoOn(k, "create")
  /\ UNCHANGED <<accountVars, mailed, uses, crossed>>

DeleteTokens(k) ==
  /\ links[k].at = "delete"
  /\ tokens' = [t \in TokenIds |->
       IF LiveToken(t) /\ tokens[t].email = links[k].email
       THEN [tokens[t] EXCEPT !.state = "gone"] ELSE tokens[t]]
  /\ GoOn(k, "create")
  /\ UNCHANGED <<accountVars, mailed, uses, crossed>>

CreatingToo(k) ==
  \E m \in LinkCalls \ {k} : links[m].at = "create" /\ links[m].email = links[k].email

(* Mutant: email and token are swapped in the row. *)
CreateTokenSwapped(k, t) ==
  /\ links[k].at = "create" /\ tokens[t].state = "unborn"
  /\ tokens' = [tokens EXCEPT ![t] =
       [state |-> "live", email |-> t, used |-> FALSE, expired |-> FALSE]]
  /\ links' = [links EXCEPT ![k].at = "mail", ![k].token = t]
  /\ crossed' = IF CreatingToo(k) THEN crossed \cup {t} ELSE crossed
  /\ UNCHANGED <<accountVars, mailed, uses>>

CreateToken(k, t) ==
  /\ links[k].at = "create" /\ tokens[t].state = "unborn"
  /\ tokens' = [tokens EXCEPT ![t] =
       [state |-> "live", email |-> links[k].email, used |-> FALSE, expired |-> FALSE]]
  /\ links' = [links EXCEPT ![k].at = "mail", ![k].token = t]
  /\ crossed' = IF CreatingToo(k) THEN crossed \cup {t} ELSE crossed
  /\ UNCHANGED <<accountVars, mailed, uses>>

MailLink(k) ==
  /\ links[k].at = "mail"
  /\ mailed' = mailed \cup {links[k].token}
  /\ GoOn(k, "idle")
  /\ UNCHANGED <<accountVars, tokens, uses, crossed>>

-----------------------------------------------------------------------------
(* resetPassword: check the token, find the user by its address, write the  *)
(* hash, mark the token.  Whoever follows the link chooses the password.    *)

UseLink(k, t) ==
  /\ links[k] = NoCall
  /\ t \in mailed
  /\ LiveToken(t) /\ ~tokens[t].used /\ ~tokens[t].expired
  /\ links' = [links EXCEPT ![k] = [NoCall EXCEPT !.at = "find", !.token = t,
                 !.email = tokens[t].email, !.password = NewPassword]]
  /\ Choose
  /\ UNCHANGED <<admins, users, calls, tokens, mailed, uses, crossed>>

FindUser(k) ==
  /\ links[k].at = "find"
  /\ \/ \E u \in UserIds :
          /\ LiveUser(u) /\ users[u].email = links[k].email
          /\ links' = [links EXCEPT ![k].at = "write", ![k].user = u]
     \/ /\ \A u \in UserIds : LiveUser(u) => users[u].email # links[k].email
        /\ GoOn(k, "idle")
  /\ UNCHANGED <<accountVars, tokens, mailed, uses, crossed>>

NewHash(k) == [NoPatch EXCEPT !.password = links[k].password]

(* Mutant: a missing row is not an error. *)
WritePasswordLeniently(k) ==
  /\ links[k].at = "write"
  /\ IF UpdateSucceeds(links[k].user, NewHash(k))
     THEN /\ UpdateRow(links[k].user, NewHash(k))
          /\ uses' = [uses EXCEPT ![links[k].token] = @ + 1]
     ELSE UNCHANGED <<users, uses>>
  /\ GoOn(k, "mark")
  /\ UNCHANGED <<admins, calls, issued, told, tokens, mailed, crossed>>

WritePassword(k) ==
  /\ links[k].at = "write"
  /\ IF UpdateSucceeds(links[k].user, NewHash(k))
     THEN /\ UpdateRow(links[k].user, NewHash(k))
          /\ uses' = [uses EXCEPT ![links[k].token] = @ + 1]
          /\ GoOn(k, "mark")
     ELSE GoOn(k, "idle") /\ UNCHANGED <<users, uses>>
  /\ UNCHANGED <<admins, calls, issued, told, tokens, mailed, crossed>>

(* Mutant: usedAt is written only when the token has expired. *)
MarkUsedIfExpired(k) ==
  /\ links[k].at = "mark"
  /\ tokens' = [tokens EXCEPT ![links[k].token].used = tokens[links[k].token].expired]
  /\ GoOn(k, "idle")
  /\ UNCHANGED <<accountVars, mailed, uses, crossed>>

(* A token deleted meanwhile fails the update: the client is told of an     *)
(* error although its password has changed.                                 *)
MarkUsed(k) ==
  LET t == links[k].token IN
  /\ links[k].at = "mark"
  /\ tokens' = IF LiveToken(t) THEN [tokens EXCEPT ![t].used = TRUE] ELSE tokens
  /\ GoOn(k, "idle")
  /\ UNCHANGED <<accountVars, mailed, uses, crossed>>

(* An hour passes. *)
Expire(t) ==
  /\ LiveToken(t) /\ ~tokens[t].expired
  /\ tokens' = [tokens EXCEPT ![t].expired = TRUE]
  /\ UNCHANGED <<accountVars, links, mailed, uses, crossed>>

LinkFail(k) ==
  /\ links[k].at \in LinkFailAt
  /\ GoOn(k, "idle")
  /\ UNCHANGED <<accountVars, tokens, mailed, uses, crossed>>

-----------------------------------------------------------------------------
LinkStart(k) == \/ \E e \in Emails : RequestLink(k, e)
                \/ \E t \in TokenIds : UseLink(k, t)

LinkResume(k) ==
  \/ DeleteTokens(k)
  \/ \E t \in TokenIds : CreateToken(k, t)
  \/ MailLink(k)
  \/ FindUser(k)
  \/ WritePassword(k)
  \/ MarkUsed(k)

Next ==
  \/ AccountNext /\ UNCHANGED linkVars
  \/ \E k \in LinkCalls : LinkStart(k) \/ LinkResume(k) \/ LinkFail(k)
  \/ \E t \in TokenIds : Expire(t)

Init == /\ AccountInit
        /\ tokens = [t \in TokenIds |-> NoToken]
        /\ links = [k \in LinkCalls |-> NoCall]
        /\ mailed = {}
        /\ uses = [t \in TokenIds |-> 0]
        /\ crossed = {}

Spec == Init /\ [][Next]_vars /\ \A k \in LinkCalls : WF_vars(LinkResume(k))

-----------------------------------------------------------------------------
(* Properties *)

(* Type invariant. *)
TypeOK ==
  /\ AccountTypeOK
  /\ tokens \in [TokenIds -> TokenRow]
  /\ links \in [LinkCalls -> LinkCall]
  /\ mailed \subseteq TokenIds
  /\ uses \in [TokenIds -> Nat]
  /\ crossed \subseteq TokenIds

(* A token is marked used only once it has set a password: a resetPassword  *)
(* that fails, because the user was removed or changed address, leaves the  *)
(* link valid.                                                              *)
UsedHasSetPassword == \A t \in TokenIds : tokens[t].used => uses[t] > 0

(* A link that can still set a password, for e: somebody has it in the      *)
(* mail, or a call in flight is about to create or to mail it.              *)
Works(t) == Outstanding(t) /\ ~tokens[t].expired

OwesLink(k, e) ==
  \/ links[k].at = "create" /\ links[k].email = e
  \/ links[k].at = "mail" /\ Works(links[k].token) /\ tokens[links[k].token].email = e

LinkHeldOrDue(e) ==
  \/ \E t \in mailed : Works(t) /\ tokens[t].email = e
  \/ \E k \in LinkCalls : OwesLink(k, e)

LinkSpent(e) ==
  \/ \E t \in TokenIds : tokens[t].email = e /\ Expire(t)
  \/ \E k \in LinkCalls : MarkUsed(k) /\ tokens[links[k].token].email = e
  \/ \E k \in LinkCalls : OwesLink(k, e) /\ LinkFail(k)

(* forgotPassword deletes the link an address has before it mails another,  *)
(* and deletes what an overlapping call has created or mailed.  Even so an  *)
(* address that has a working link, or has one coming, ends up without only *)
(* when the link expires, when it has been used, or when a call is cut      *)
(* short between its deletion and its mail.                                 *)
LinkLostOnlyUnsent ==
  [][\A e \in Emails : LinkHeldOrDue(e) => LinkHeldOrDue(e)' \/ LinkSpent(e)]_vars

(* auth.service.ts:254, "Invalidate any existing reset tokens for this      *)
(* email": an address has two unused tokens only if two calls stood between *)
(* their deletion and their creation at once; no other overlap, no failure  *)
(* and no change of the user's address leaves an old one.                   *)
OneTokenPerAddress ==
  \A s, t \in TokenIds :
    Outstanding(s) /\ Outstanding(t) /\ tokens[s].email = tokens[t].email
      => s = t \/ s \in crossed \/ t \in crossed

(* auth.service.ts:278, "Reset token has already been used": a token sets   *)
(* at most one password.                                                    *)
TokenSetsOnePassword == \A t \in TokenIds : uses[t] <= 1

(* A password set through a link is not left without effect on the link:    *)
(* the token is marked, or deleted.                                         *)
UsedTokenIsSpent ==
  \A t \in TokenIds : (uses[t] > 0) ~> (tokens[t].used \/ ~LiveToken(t))
=============================================================================
