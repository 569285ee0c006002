------------------------- MODULE PasswordResetProofs -------------------------
(***************************************************************************)
(* Proofs about PasswordReset: what a link leaves behind, for any number   *)
(* of users, tokens and calls in flight, whichever of them are cut short.  *)
(* The last sections: what a link is lost by, that no used token is left   *)
(* to nobody, and that links lose no password.                             *)
(***************************************************************************)
EXTENDS PasswordReset, AccountsProofs

(* What a link call carries.  While a call is about to create a token, the  *)
(* unused tokens its address has are those created since it deleted, and    *)
(* whoever created them saw this call.                                      *)
LinkOK(k) ==
  LET link == links[k] IN
  /\ link.at \in {"mail", "find", "write", "mark"} => link.token \in TokenIds
  /\ link.at = "mail" => tokens[link.token].state # "unborn"
  /\ link.at = "write" => link.user \in UserIds
  /\ link.at = "mark" => uses[link.token] > 0
  /\ link.at = "create" =>
       \A s \in TokenIds : Outstanding(s) /\ tokens[s].email = link.email => s \in crossed

LinksType ==
  /\ tokens \in [TokenIds -> TokenRow]
  /\ links \in [LinkCalls -> LinkCall]
  /\ mailed \subseteq TokenIds
  /\ uses \in [TokenIds -> Nat]
  /\ crossed \subseteq TokenIds

(* The inductive invariant of the links, beside that of the accounts. *)
LinkInv ==
  /\ LinksType
  /\ \A k \in LinkCalls : LinkOK(k)
  /\ \A t \in mailed : tokens[t].state # "unborn"
  /\ UsedHasSetPassword
  /\ OneTokenPerAddress

LinksInv == AccountInv /\ LinkInv

LEMMA InvImplies ==
  LinksInv => TypeOK /\ UsedHasSetPassword /\ OneTokenPerAddress
BY DEF LinksInv, LinkInv, LinksType, AccountInv, TypeOK

LEMMA NoCallType == NoCall \in LinkCall /\ NoToken \in TokenRow
BY DEF NoCall, LinkCall, LinkSteps, NoToken, TokenRow, RowStates

LEMMA InitInv == Init => LinksInv
<1> SUFFICES ASSUME Init PROVE LinksInv
  OBVIOUS
<1>1. LinksType
  BY NoCallType DEF Init, LinksType
<1>2. \A t \in TokenIds : tokens[t].state = "unborn" /\ ~tokens[t].used
  BY DEF Init, NoToken
<1>3. \A k \in LinkCalls : LinkOK(k)
  BY DEF Init, NoCall, LinkOK
<1>4. UsedHasSetPassword /\ OneTokenPerAddress
  BY <1>2 DEF UsedHasSetPassword, OneTokenPerAddress, Outstanding, LiveToken
<1>. QED BY <1>1, <1>2, <1>3, <1>4, AccountInitInv DEF Init, LinksInv, LinkInv

-----------------------------------------------------------------------------
(* A call that moves on to a step other than creation, or ends, with the    *)
(* token it holds kept. *)
LEMMA GoOnSafe ==
  ASSUME LinkInv, NEW k \in LinkCalls, NEW step \in LinkSteps \cup {"idle"}, GoOn(k, step)
  PROVE  /\ links' \in [LinkCalls -> LinkCall]
         /\ \A m \in LinkCalls \ {k} : links'[m] = links[m]
         /\ links'[k] = IF step = "idle" THEN NoCall ELSE [links[k] EXCEPT !.at = step]
         /\ links'[k].at = step
         /\ step # "idle" => /\ links'[k].email = links[k].email /\ links'[k].token = links[k].token
                             /\ links'[k].user = links[k].user
<1>1. links \in [LinkCalls -> LinkCall]
  BY DEF LinkInv, LinksType
<1>2. [links[k] EXCEPT !.at = step] \in LinkCall
  BY <1>1 DEF LinkCall
<1>3. /\ links' \in [LinkCalls -> LinkCall]
      /\ \A m \in LinkCalls \ {k} : links'[m] = links[m]
      /\ links'[k] = IF step = "idle" THEN NoCall ELSE [links[k] EXCEPT !.at = step]
  BY <1>1, <1>2, NoCallType DEF GoOn
<1>4. links[k] \in LinkCall
  BY <1>1
<1>. QED BY <1>3, <1>4 DEF NoCall, LinkCall

(* A step that leaves the tokens alone: the calls other than k stand.       *)
LEMMA TokensUntouched ==
  ASSUME LinkInv, NEW k \in LinkCalls,
         UNCHANGED <<tokens, crossed>>,
         links' \in [LinkCalls -> LinkCall],
         \A m \in LinkCalls \ {k} : links'[m] = links[m],
         uses' \in [TokenIds -> Nat], \A t \in TokenIds : uses'[t] >= uses[t],
         mailed' \subseteq TokenIds, \A t \in mailed' : tokens[t].state # "unborn",
         LinkOK(k)'
  PROVE  LinkInv'
<1>1. LinksType'
  BY DEF LinkInv, LinksType
<1>2. ASSUME NEW m \in LinkCalls \ {k} PROVE LinkOK(m)'
  <2>1. LinkOK(m) /\ links'[m] = links[m]
    BY DEF LinkInv
  <2>2. \A t \in TokenIds : uses[t] > 0 => uses'[t] > 0
    BY DEF LinkInv, LinksType
  <2>. QED BY <2>1, <2>2 DEF LinkOK, Outstanding, LiveToken
<1>3. UsedHasSetPassword'
  BY DEF LinkInv, LinksType, UsedHasSetPassword
<1>4. OneTokenPerAddress'
  BY DEF LinkInv, OneTokenPerAddress, Outstanding, LiveToken
<1>. QED BY <1>1, <1>2, <1>3, <1>4 DEF LinkInv

-----------------------------------------------------------------------------
(* Starts: a request about to delete, and a use about to look its user up.  *)
LEMMA StartSafe ==
  ASSUME LinksInv, NEW k \in LinkCalls, LinkStart(k)
  PROVE  LinkInv'
<1>1. /\ links \in [LinkCalls -> LinkCall] /\ tokens \in [TokenIds -> TokenRow]
      /\ uses \in [TokenIds -> Nat] /\ mailed \subseteq TokenIds /\ LinkInv
  BY DEF LinksInv, LinkInv, LinksType
<1>2. ASSUME NEW link \in LinkCall, links' = [links EXCEPT ![k] = link], links[k] = NoCall,
             link.at \in {"delete", "find"}, link.at = "find" => link.token \in TokenIds,
             UNCHANGED <<tokens, mailed, uses, crossed>>
      PROVE  LinkInv'
  <2>1. links' \in [LinkCalls -> LinkCall] /\ links'[k] = link /\ \A m \in LinkCalls \ {k} : links'[m] = links[m]
    BY <1>1, <1>2
  <2>2. LinkOK(k)'
    BY <1>2, <2>1 DEF LinkOK
  <2>4. \A t \in mailed : tokens[t].state # "unborn"
    BY <1>1 DEF LinkInv
  <2>. QED BY <1>1, <1>2, <2>1, <2>2, <2>4, TokensUntouched
<1>3. ASSUME NEW e \in Emails, RequestLink(k, e) PROVE LinkInv'
  <2>1. [NoCall EXCEPT !.at = "delete", !.email = e] \in LinkCall
    BY DEF NoCall, LinkCall, LinkSteps
  <2>2. [NoCall EXCEPT !.at = "delete", !.email = e].at = "delete"
    BY DEF NoCall
  <2>. QED BY <1>2, <1>3, <2>1, <2>2 DEF RequestLink
<1>4. ASSUME NEW t \in TokenIds, UseLink(k, t) PROVE LinkInv'
  <2> DEFINE link == [NoCall EXCEPT !.at = "find", !.token = t, !.email = tokens[t].email, !.password = NewPassword]
  <2>1. tokens[t].email \in Emails \cup {None} /\ NewPassword \in Nat
    BY <1>1 DEF TokenRow, LinksInv, AccountInv, AccountTypeOK, NewPassword
  <2>2. link \in LinkCall
    BY <1>4, <2>1 DEF NoCall, LinkCall, LinkSteps
  <2>3. link.at = "find" /\ link.token = t
    BY DEF NoCall
  <2>4. links' = [links EXCEPT ![k] = link] /\ links[k] = NoCall /\ UNCHANGED <<tokens, mailed, uses, crossed>>
    BY <1>4 DEF UseLink
  <2> HIDE DEF link
  <2>. QED BY <1>2, <2>2, <2>3, <2>4
<1>. QED BY <1>3, <1>4 DEF LinkStart

(* deleteMany by address: the call has none left when it goes on, and       *)
(* vouches for whatever it deleted.                                         *)
LEMMA DeleteTokensSafe ==
  ASSUME LinkInv, NEW k \in LinkCalls, DeleteTokens(k)
  PROVE  LinkInv'
<1>1. /\ links \in [LinkCalls -> LinkCall] /\ tokens \in [TokenIds -> TokenRow]
      /\ uses \in [TokenIds -> Nat] /\ mailed \subseteq TokenIds /\ crossed \subseteq TokenIds
  BY DEF LinkInv, LinksType
<1>2. /\ links[k].at = "delete" /\ GoOn(k, "create") /\ UNCHANGED <<mailed, uses, crossed>>
      /\ \A t \in TokenIds : tokens'[t] = IF LiveToken(t) /\ tokens[t].email = links[k].email
                                          THEN [tokens[t] EXCEPT !.state = "gone"] ELSE tokens[t]
      /\ tokens' = [t \in TokenIds |-> tokens'[t]]
  BY DEF DeleteTokens
<1>3. \A row \in TokenRow : /\ [row EXCEPT !.state = "gone"] \in TokenRow
                            /\ [row EXCEPT !.state = "gone"].state = "gone"
                            /\ [row EXCEPT !.state = "gone"].email = row.email
                            /\ [row EXCEPT !.state = "gone"].used = row.used
  BY DEF TokenRow, RowStates
<1>4. ASSUME NEW t \in TokenIds
      PROVE  /\ tokens'[t] \in TokenRow
             /\ tokens'[t].email = tokens[t].email /\ tokens'[t].used = tokens[t].used
             /\ (tokens'[t].state = "unborn") <=> (tokens[t].state = "unborn")
             /\ LiveToken(t)' <=> (LiveToken(t) /\ tokens[t].email # links[k].email)
  <2>1. tokens[t] \in TokenRow
    BY <1>1
  <2>2. CASE LiveToken(t) /\ tokens[t].email = links[k].email
    <3>1. tokens'[t] = [tokens[t] EXCEPT !.state = "gone"]
      BY <1>2, <2>2
    <3>. QED BY <1>3, <2>1, <2>2, <3>1 DEF LiveToken
  <2>3. CASE ~(LiveToken(t) /\ tokens[t].email = links[k].email)
    <3>1. tokens'[t] = tokens[t]
      BY <1>2, <2>3
    <3>. QED BY <2>1, <2>3, <3>1 DEF LiveToken
  <2>. QED BY <2>2, <2>3
<1>5. /\ links' \in [LinkCalls -> LinkCall]
      /\ \A m \in LinkCalls \ {k} : links'[m] = links[m]
      /\ links'[k].at = "create" /\ links'[k].email = links[k].email
  <2>1. "create" \in LinkSteps \cup {"idle"} /\ "create" # "idle"
    BY DEF LinkSteps
  <2>. QED BY <1>2, <2>1, GoOnSafe
<1>6. LinksType'
  BY <1>1, <1>2, <1>4, <1>5 DEF LinksType
<1>7. ASSUME NEW m \in LinkCalls PROVE LinkOK(m)'
  <2>1. CASE m = k
    BY <1>2, <1>4, <1>5, <2>1 DEF LinkOK, Outstanding
  <2>2. CASE m # k
    <3>1. LinkOK(m) /\ links'[m] = links[m]
      BY <1>5, <2>2 DEF LinkInv
    <3>. QED BY <1>2, <1>4, <3>1 DEF LinkOK, Outstanding
  <2>. QED BY <2>1, <2>2
<1>8. UsedHasSetPassword'
  BY <1>2, <1>4 DEF LinkInv, UsedHasSetPassword
<1>9. OneTokenPerAddress'
  BY <1>2, <1>4 DEF LinkInv, OneTokenPerAddress, Outstanding
<1>11. \A t \in mailed' : tokens'[t].state # "unborn"
  BY <1>1, <1>2, <1>4 DEF LinkInv
<1>. QED BY <1>6, <1>7, <1>8, <1>9, <1>11 DEF LinkInv

(* A new token: any unused one its address has is crossed, and when another *)
(* call is about to create one too, so is the new one.                      *)
LEMMA CreateTokenSafe ==
  ASSUME LinkInv, NEW k \in LinkCalls, NEW t \in TokenIds, CreateToken(k, t)
  PROVE  LinkInv'
<1>1. /\ links \in [LinkCalls -> LinkCall] /\ tokens \in [TokenIds -> TokenRow]
      /\ uses \in [TokenIds -> Nat] /\ mailed \subseteq TokenIds /\ crossed \subseteq TokenIds
  BY DEF LinkInv, LinksType
<1>2. /\ links[k].at = "create" /\ tokens[t].state = "unborn" /\ UNCHANGED <<mailed, uses>>
      /\ links' = [links EXCEPT ![k] = [links[k] EXCEPT !.at = "mail", !.token = t]]
      /\ crossed' = IF CreatingToo(k) THEN crossed \cup {t} ELSE crossed
      /\ tokens' = [tokens EXCEPT ![t] =
           [state |-> "live", email |-> links[k].email, used |-> FALSE, expired |-> FALSE]]
  BY <1>1 DEF CreateToken
<1>3. links[k] \in LinkCall
  BY <1>1
<1>4. [state |-> "live", email |-> links[k].email, used |-> FALSE, expired |-> FALSE] \in TokenRow
  BY <1>3 DEF TokenRow, LinkCall, RowStates
<1>5. /\ tokens' \in [TokenIds -> TokenRow]
      /\ tokens'[t].state = "live" /\ tokens'[t].email = links[k].email /\ tokens'[t].used = FALSE
      /\ \A s \in TokenIds \ {t} : tokens'[s] = tokens[s]
  BY <1>1, <1>2, <1>4
<1>6. [links[k] EXCEPT !.at = "mail", !.token = t] \in LinkCall
  BY <1>3 DEF LinkCall, LinkSteps
<1>7. /\ links' \in [LinkCalls -> LinkCall]
      /\ \A m \in LinkCalls \ {k} : links'[m] = links[m]
      /\ links'[k].at = "mail" /\ links'[k].token = t
  BY <1>1, <1>2, <1>3, <1>6 DEF LinkCall
<1>8. crossed \subseteq crossed' /\ crossed' \subseteq TokenIds /\ (CreatingToo(k) => t \in crossed')
  BY <1>1, <1>2
<1>9. LinksType'
  BY <1>1, <1>2, <1>5, <1>7, <1>8 DEF LinksType
<1>10. ASSUME NEW m \in LinkCalls PROVE LinkOK(m)'
  <2>1. CASE m = k
    BY <1>5, <1>7, <2>1 DEF LinkOK
  <2>2. CASE m # k
    <3>1. LinkOK(m) /\ links'[m] = links[m]
      BY <1>7, <2>2 DEF LinkInv
    <3>2. links[m].at = "create" /\ links[m].email = links[k].email => t \in crossed'
      BY <1>8, <2>2 DEF CreatingToo
    <3>3. links[m].at = "mail" => tokens'[links[m].token].state # "unborn"
      BY <1>5, <3>1 DEF LinkOK
    <3>4. ASSUME links[m].at = "create", NEW s \in TokenIds, Outstanding(s)', tokens'[s].email = links[m].email
          PROVE  s \in crossed'
      BY <1>5, <1>8, <3>1, <3>2, <3>4 DEF LinkOK, Outstanding, LiveToken
    <3>. QED BY <1>2, <3>1, <3>3, <3>4 DEF LinkOK
  <2>. QED BY <2>1, <2>2
<1>11. UsedHasSetPassword'
  BY <1>2, <1>5 DEF LinkInv, UsedHasSetPassword
<1>12. OneTokenPerAddress'
  <2>1. \A s \in TokenIds : Outstanding(s) /\ tokens[s].email = links[k].email => s \in crossed
    BY <1>2 DEF LinkInv, LinkOK
  <2>. QED BY <1>5, <1>8, <2>1 DEF LinkInv, OneTokenPerAddress, Outstanding, LiveToken
<1>14. \A s \in mailed' : tokens'[s].state # "unborn"
  BY <1>1, <1>2, <1>5 DEF LinkInv
<1>. QED BY <1>9, <1>10, <1>11, <1>12, <1>14 DEF LinkInv

(* Ends, mails, lookups: the tokens stay as they are.                       *)
LEMMA QuietSafe ==
  ASSUME LinkInv, NEW k \in LinkCalls, MailLink(k) \/ FindUser(k) \/ LinkFail(k)
  PROVE  LinkInv'
<1>1. /\ links \in [LinkCalls -> LinkCall] /\ uses \in [TokenIds -> Nat] /\ mailed \subseteq TokenIds
      /\ \A t \in mailed : tokens[t].state # "unborn"
      /\ LinkOK(k) /\ links[k] \in LinkCall
  BY DEF LinkInv, LinksType
<1>2. ASSUME GoOn(k, "idle"), UNCHANGED <<tokens, uses, crossed>>,
             mailed' \subseteq TokenIds, \A t \in mailed' : tokens[t].state # "unborn"
      PROVE  LinkInv'
  <2>1. /\ links' \in [LinkCalls -> LinkCall]
        /\ \A m \in LinkCalls \ {k} : links'[m] = links[m]
        /\ links'[k].at = "idle"
    BY <1>2, GoOnSafe
  <2>2. LinkOK(k)'
    BY <2>1 DEF LinkOK
  <2>3. uses' \in [TokenIds -> Nat] /\ \A t \in TokenIds : uses'[t] >= uses[t]
    BY <1>1, <1>2
  <2>. QED BY <1>2, <2>1, <2>2, <2>3, TokensUntouched
<1>3. CASE MailLink(k)
  <2>1. links[k].token \in TokenIds /\ tokens[links[k].token].state # "unborn"
    BY <1>1, <1>3 DEF MailLink, LinkOK
  <2>2. mailed' \subseteq TokenIds /\ \A t \in mailed' : tokens[t].state # "unborn"
    BY <1>1, <1>3, <2>1 DEF MailLink
  <2>. QED BY <1>2, <1>3, <2>2 DEF MailLink
<1>4. CASE FindUser(k)
  <2>1. CASE GoOn(k, "idle")
    BY <1>1, <1>2, <1>4, <2>1 DEF FindUser
  <2>2. ASSUME NEW u \in UserIds, links' = [links EXCEPT ![k] = [links[k] EXCEPT !.at = "write", !.user = u]]
        PROVE  LinkInv'
    <3>1. /\ [links[k] EXCEPT !.at = "write", !.user = u] \in LinkCall
          /\ [links[k] EXCEPT !.at = "write", !.user = u].at = "write"
          /\ [links[k] EXCEPT !.at = "write", !.user = u].user = u
          /\ [links[k] EXCEPT !.at = "write", !.user = u].token = links[k].token
      BY <1>1 DEF LinkCall, LinkSteps
    <3>2. /\ links' \in [LinkCalls -> LinkCall]
          /\ \A m \in LinkCalls \ {k} : links'[m] = links[m]
          /\ links'[k].at = "write" /\ links'[k].user = u /\ links'[k].token = links[k].token
      BY <1>1, <2>2, <3>1
    <3>3. LinkOK(k)'
      BY <1>1, <1>4, <3>2 DEF FindUser, LinkOK
    <3>4. UNCHANGED <<tokens, mailed, uses, crossed>> /\ \A t \in TokenIds : uses'[t] >= uses[t]
      BY <1>1, <1>4 DEF FindUser
    <3>. QED BY <1>1, <3>2, <3>3, <3>4, TokensUntouched
  <2>. QED BY <1>1, <1>4, <2>1, <2>2 DEF FindUser
<1>5. CASE LinkFail(k)
  BY <1>1, <1>2, <1>5 DEF LinkFail
<1>. QED BY <1>3, <1>4, <1>5

(* The password is written, and only then the call may mark.                *)
LEMMA WritePasswordSafe ==
  ASSUME LinkInv, NEW k \in LinkCalls, WritePassword(k)
  PROVE  LinkInv'
<1>1. /\ links \in [LinkCalls -> LinkCall] /\ uses \in [TokenIds -> Nat] /\ mailed \subseteq TokenIds
      /\ \A t \in mailed : tokens[t].state # "unborn"
      /\ LinkOK(k) /\ links[k].at = "write" /\ UNCHANGED <<tokens, mailed, crossed>>
  BY DEF LinkInv, LinksType, WritePassword
<1>2. links[k].token \in TokenIds
  BY <1>1 DEF LinkOK
<1>3. /\ uses' \in [TokenIds -> Nat] /\ \A t \in TokenIds : uses'[t] >= uses[t]
      /\ \/ GoOn(k, "idle")
         \/ GoOn(k, "mark") /\ uses'[links[k].token] > 0
  BY <1>1, <1>2 DEF WritePassword
<1>4. ASSUME NEW step \in {"idle", "mark"}, GoOn(k, step), step = "mark" => uses'[links[k].token] > 0
      PROVE  LinkInv'
  <2>1. step \in LinkSteps \cup {"idle"}
    BY DEF LinkSteps
  <2>2. /\ links' \in [LinkCalls -> LinkCall]
        /\ \A m \in LinkCalls \ {k} : links'[m] = links[m]
        /\ links'[k].at = step
        /\ step # "idle" => links'[k].token = links[k].token
    BY <1>4, <2>1, GoOnSafe
  <2>3. LinkOK(k)'
    BY <1>2, <1>4, <2>2 DEF LinkOK
  <2>. QED BY <1>1, <1>3, <2>2, <2>3, TokensUntouched
<1>. QED BY <1>3, <1>4

(* Marking and expiring touch one row and neither revive nor rename it.     *)
LEMMA RowChangeSafe ==
  ASSUME LinkInv, NEW t \in TokenIds, NEW row \in TokenRow,
         tokens' = [tokens EXCEPT ![t] = row] \/ UNCHANGED tokens,
         row.state = tokens[t].state, row.email = tokens[t].email,
         tokens[t].used => row.used, row.used => uses[t] > 0,
         links' \in [LinkCalls -> LinkCall],
         \A m \in LinkCalls : links'[m] = links[m] \/ links'[m].at = "idle",
         UNCHANGED <<mailed, uses, crossed>>
  PROVE  LinkInv'
<1>1. LinksType'
  BY DEF LinkInv, LinksType
<1>2. ASSUME NEW s \in TokenIds
      PROVE  /\ tokens'[s].state = tokens[s].state /\ tokens'[s].email = tokens[s].email
             /\ tokens[s].used => tokens'[s].used
             /\ tokens'[s].used => uses[s] > 0
             /\ Outstanding(s)' => Outstanding(s)
  BY DEF LinkInv, LinksType, UsedHasSetPassword, Outstanding, LiveToken
<1>3. ASSUME NEW m \in LinkCalls PROVE LinkOK(m)'
  <2>1. LinkOK(m)
    BY DEF LinkInv
  <2>. QED BY <1>2, <2>1 DEF LinkOK
<1>4. UsedHasSetPassword' /\ OneTokenPerAddress'
  BY <1>2 DEF LinkInv, UsedHasSetPassword, OneTokenPerAddress
<1>6. \A s \in mailed' : tokens'[s].state # "unborn"
  BY <1>1, <1>2 DEF LinkInv, LinksType
<1>. QED BY <1>1, <1>3, <1>4, <1>6 DEF LinkInv

LEMMA MarkUsedSafe ==
  ASSUME LinkInv, NEW k \in LinkCalls, MarkUsed(k)
  PROVE  LinkInv'
<1> DEFINE t == links[k].token
<1>1. /\ tokens \in [TokenIds -> TokenRow] /\ LinkOK(k) /\ links[k].at = "mark"
      /\ UNCHANGED <<mailed, uses, crossed>> /\ GoOn(k, "idle")
  BY DEF LinkInv, LinksType, MarkUsed
<1>2. t \in TokenIds /\ uses[t] > 0
  BY <1>1 DEF LinkOK
<1>3. /\ [tokens[t] EXCEPT !.used = TRUE] \in TokenRow
      /\ [tokens[t] EXCEPT !.used = TRUE].state = tokens[t].state
      /\ [tokens[t] EXCEPT !.used = TRUE].email = tokens[t].email
      /\ [tokens[t] EXCEPT !.used = TRUE].used
  BY <1>1, <1>2 DEF TokenRow
<1>4. tokens' = [tokens EXCEPT ![t] = [tokens[t] EXCEPT !.used = TRUE]] \/ UNCHANGED tokens
  BY <1>1, <1>2 DEF MarkUsed
<1>5. /\ links' \in [LinkCalls -> LinkCall]
      /\ \A m \in LinkCalls : links'[m] = links[m] \/ links'[m].at = "idle"
  BY <1>1, GoOnSafe
<1> HIDE DEF t
<1>. QED BY <1>1, <1>2, <1>3, <1>4, <1>5, RowChangeSafe

LEMMA ExpireSafe ==
  ASSUME LinkInv, NEW t \in TokenIds, Expire(t)
  PROVE  LinkInv'
<1>1. /\ tokens \in [TokenIds -> TokenRow] /\ links \in [LinkCalls -> LinkCall]
      /\ tokens[t].used => uses[t] > 0
  BY DEF LinkInv, LinksType, UsedHasSetPassword
<1>2. /\ [tokens[t] EXCEPT !.expired = TRUE] \in TokenRow
      /\ [tokens[t] EXCEPT !.expired = TRUE].state = tokens[t].state
      /\ [tokens[t] EXCEPT !.expired = TRUE].email = tokens[t].email
      /\ [tokens[t] EXCEPT !.expired = TRUE].used = tokens[t].used
  BY <1>1 DEF TokenRow
<1>3. tokens' = [tokens EXCEPT ![t] = [tokens[t] EXCEPT !.expired = TRUE]] /\ UNCHANGED <<links, mailed, uses, crossed>>
  BY <1>1 DEF Expire
<1>4. links' \in [LinkCalls -> LinkCall] /\ \A m \in LinkCalls : links'[m] = links[m]
  BY <1>1, <1>3
<1> DEFINE row == [tokens[t] EXCEPT !.expired = TRUE]
<1>5. row \in TokenRow /\ row.state = tokens[t].state /\ row.email = tokens[t].email /\ row.used = tokens[t].used
  BY <1>2
<1>6. tokens' = [tokens EXCEPT ![t] = row] /\ UNCHANGED <<mailed, uses, crossed>>
  BY <1>3
<1> HIDE DEF row
<1>. QED BY <1>1, <1>4, <1>5, <1>6, RowChangeSafe

-----------------------------------------------------------------------------
(* To the accounts a link call is one more writer of a password.            *)
LEMMA AccountsSafe ==
  ASSUME LinksInv, Next
  PROVE  AccountInv'
<1>1. /\ admins \in [AdminIds -> RowStates] /\ users \in [UserIds -> UserRow] /\ calls \in [Calls -> Call]
      /\ issued \in Nat /\ told \subseteq Nat /\ AccountInv
  BY DEF LinksInv, AccountInv, AccountTypeOK
<1>2. CASE AccountNext
  BY <1>1, <1>2, AccountNextSafe
<1>3. CASE UNCHANGED accountVars
  BY <1>1, <1>3, AccountNextSafe
<1>4. ASSUME NEW k \in LinkCalls, NEW t \in TokenIds, UseLink(k, t) PROVE AccountInv'
  <2>1. UNCHANGED <<admins, users, calls>> /\ issued' \in Nat /\ told' \subseteq Nat
    BY <1>1, <1>4 DEF UseLink, Choose, Issue, NewPassword
  <2>. QED BY <1>1, <2>1 DEF AccountInv, AccountTypeOK, CallOK, IdsDistinct, CreatorsLive, EmailsUnique, LiveUser, LiveAdmin
<1>5. ASSUME NEW k \in LinkCalls, WritePassword(k) PROVE AccountInv'
  <2>1. CASE UNCHANGED accountVars
    BY <1>3, <2>1
  <2>2. ASSUME UpdateRow(links[k].user, NewHash(k))
        PROVE  AccountInv'
    <3>1. links[k].user \in UserIds /\ links[k].password \in Nat
      BY <1>5 DEF LinksInv, LinkInv, LinksType, LinkCall, LinkOK, WritePassword
    <3>2. NewHash(k) \in Patch
      BY <3>1 DEF NewHash, NoPatch, Patch
    <3>3. /\ users' \in [UserIds -> UserRow]
          /\ \A v \in UserIds : users'[v].state = users[v].state /\ users'[v].createdBy = users[v].createdBy
          /\ EmailsUnique'
      BY <1>1, <2>2, <3>1, <3>2, UpdateRowSafe
    <3>4. UNCHANGED <<admins, calls, issued, told>>
      BY <1>5 DEF WritePassword
    <3>5. AccountTypeOK' /\ CreatorsLive' /\ IdsDistinct'
      BY <1>1, <3>3, <3>4 DEF AccountTypeOK, AccountInv, CreatorsLive, LiveUser, LiveAdmin, IdsDistinct
    <3>6. \A c \in Calls : CallOK(c)'
      BY <3>3, <3>4, <1>1 DEF AccountInv, CallOK
    <3>. QED BY <3>3, <3>5, <3>6 DEF AccountInv
  <2>. QED BY <1>5, <2>1, <2>2 DEF WritePassword, accountVars
<1>6. ASSUME NEW k \in LinkCalls, LinkResume(k), ~WritePassword(k) PROVE UNCHANGED accountVars
  BY <1>6 DEF LinkResume, DeleteTokens, CreateToken, MailLink, FindUser, MarkUsed
<1>7. ASSUME NEW k \in LinkCalls, NEW e \in Emails, RequestLink(k, e) PROVE UNCHANGED accountVars
  BY <1>7 DEF RequestLink
<1>8. \A k \in LinkCalls : LinkFail(k) => UNCHANGED accountVars
  BY DEF LinkFail
<1>9. \A t \in TokenIds : Expire(t) => UNCHANGED accountVars
  BY DEF Expire
<1>10. ASSUME NEW k \in LinkCalls, LinkStart(k) \/ LinkResume(k) \/ LinkFail(k) PROVE AccountInv'
  <2>1. CASE LinkStart(k)
    BY <1>3, <1>4, <1>7, <2>1 DEF LinkStart
  <2>2. CASE LinkResume(k)
    BY <1>3, <1>5, <1>6, <2>2
  <2>3. CASE LinkFail(k)
    BY <1>3, <1>8, <2>3
  <2>. QED BY <1>10, <2>1, <2>2, <2>3
<1>11. ASSUME NEW t \in TokenIds, Expire(t) PROVE AccountInv'
  BY <1>3, <1>9, <1>11
<1>. QED BY <1>2, <1>10, <1>11 DEF Next

LEMMA LinkNextSafe ==
  ASSUME LinksInv, [Next]_vars
  PROVE  LinksInv'
<1>1. ASSUME UNCHANGED linkVars PROVE LinkInv'
  BY <1>1 DEF linkVars, LinksInv, LinkInv, LinksType, LinkOK, UsedHasSetPassword, OneTokenPerAddress,
              Outstanding, LiveToken
<1>2. CASE Next
  <2>1. AccountInv'
    BY <1>2, AccountsSafe
  <2>2. LinkInv
    BY DEF LinksInv
  <2>3. ASSUME NEW k \in LinkCalls, LinkStart(k) \/ LinkResume(k) \/ LinkFail(k) PROVE LinkInv'
    BY <2>2, <2>3, StartSafe, DeleteTokensSafe, CreateTokenSafe, QuietSafe, WritePasswordSafe, MarkUsedSafe
       DEF LinkResume
  <2>. QED BY <1>1, <1>2, <2>1, <2>2, <2>3, ExpireSafe DEF Next, LinksInv
<1>3. CASE UNCHANGED vars
  <2>1. UNCHANGED linkVars /\ UNCHANGED accountVars
    BY <1>3 DEF vars
  <2>2. AccountInv'
    BY <2>1, AccountNextSafe DEF LinksInv
  <2>. QED BY <1>1, <2>1, <2>2 DEF LinksInv
<1>. QED BY <1>2, <1>3

(* The token table, the calls in flight and the accounts keep their types.  *)
THEOREM TypeCorrect == Spec => []TypeOK
<1>. QED BY InitInv, LinkNextSafe, InvImplies, PTL DEF Spec

(* AuthService.resetPassword marks no token it has set no password with, so *)
(* a use that fails before its write leaves the link valid.                 *)
THEOREM FailedUseKeepsLink == Spec => []UsedHasSetPassword
<1>. QED BY InitInv, LinkNextSafe, InvImplies, PTL DEF Spec

(* AuthService.forgotPassword leaves an address two unused tokens only when *)
(* two calls stood between deletion and creation at once, whatever else     *)
(* overlaps or fails.                                                       *)
THEOREM OneLinkPerAddress == Spec => []OneTokenPerAddress
<1>. QED BY InitInv, LinkNextSafe, InvImplies, PTL DEF Spec

-----------------------------------------------------------------------------
(* Links are not lost.  A step that keeps every working token and every     *)
(* call that owes e a link keeps e's link; so do the steps of               *)
(* forgotPassword, which owe what they take away.                           *)
LEMMA LinksKept ==
  ASSUME NEW e, LinkHeldOrDue(e), mailed \subseteq mailed',
         \A t : Works(t) => Works(t)' /\ tokens'[t].email = tokens[t].email,
         \A k \in LinkCalls : links[k].at \in {"create", "mail"} => links'[k] = links[k]
  PROVE  LinkHeldOrDue(e)'
BY DEF LinkHeldOrDue, OwesLink

(* The call k alone moves, and owed nothing before.                         *)
LEMMA OtherCallsKept ==
  ASSUME LinkInv, NEW e, LinkHeldOrDue(e), NEW k \in LinkCalls, links[k].at \notin {"create", "mail"},
         NEW link, links' = [links EXCEPT ![k] = link], UNCHANGED <<tokens, mailed>>
  PROVE  LinkHeldOrDue(e)'
<1>1. \A m \in LinkCalls : links[m].at \in {"create", "mail"} => links'[m] = links[m]
  BY DEF LinkInv, LinksType
<1>. QED BY <1>1, LinksKept DEF Works, Outstanding, LiveToken

LEMMA DeletionKeepsLinks ==
  ASSUME LinkInv, NEW e, LinkHeldOrDue(e), NEW k \in LinkCalls, DeleteTokens(k)
  PROVE  LinkHeldOrDue(e)'
<1>1. /\ links'[k].at = "create" /\ links'[k].email = links[k].email
      /\ \A m \in LinkCalls \ {k} : links'[m] = links[m]
      /\ links[k].at = "delete" /\ UNCHANGED mailed
  BY GoOnSafe DEF DeleteTokens, LinkSteps
<1>2. CASE e = links[k].email
  BY <1>1, <1>2 DEF LinkHeldOrDue, OwesLink
<1>3. CASE e # links[k].email
  <2>1. /\ \A t \in TokenIds : tokens[t].email = e => tokens'[t] = tokens[t]
        /\ mailed \subseteq TokenIds
    BY <1>3 DEF DeleteTokens, LinkInv, LinksType
  <2>2. \A m \in LinkCalls : links[m].at = "mail" => links[m].token \in TokenIds
    BY DEF LinkInv, LinkOK
  <2>. QED BY <1>1, <2>1, <2>2 DEF LinkHeldOrDue, OwesLink, Works, Outstanding, LiveToken
<1>. QED BY <1>2, <1>3

LEMMA CreationKeepsLinks ==
  ASSUME LinkInv, NEW e, LinkHeldOrDue(e), NEW k \in LinkCalls, NEW t \in TokenIds, CreateToken(k, t)
  PROVE  LinkHeldOrDue(e)'
<1>1. /\ links \in [LinkCalls -> LinkCall] /\ tokens \in [TokenIds -> TokenRow] /\ mailed \subseteq TokenIds
      /\ \A m \in LinkCalls : links[m].at = "mail" => links[m].token \in TokenIds
  BY DEF LinkInv, LinksType, LinkOK
<1>2. /\ links[k].at = "create" /\ tokens[t].state = "unborn" /\ UNCHANGED mailed
      /\ tokens'[t] = [state |-> "live", email |-> links[k].email, used |-> FALSE, expired |-> FALSE]
      /\ \A s \in TokenIds \ {t} : tokens'[s] = tokens[s]
      /\ links' = [links EXCEPT ![k] = [links[k] EXCEPT !.at = "mail", !.token = t]]
  BY <1>1 DEF CreateToken
<1>3. /\ links'[k].at = "mail" /\ links'[k].token = t
      /\ \A m \in LinkCalls \ {k} : links'[m] = links[m]
  BY <1>1, <1>2 DEF LinkCall
<1>4. Works(t)' /\ tokens'[t].email = links[k].email
  BY <1>2 DEF Works, Outstanding, LiveToken
<1>5. \A s \in TokenIds : Works(s) => Works(s)' /\ tokens'[s].email = tokens[s].email
  BY <1>2 DEF Works, Outstanding, LiveToken
<1>. QED BY <1>1, <1>2, <1>3, <1>4, <1>5 DEF LinkHeldOrDue, OwesLink

LEMMA MailKeepsLinks ==
  ASSUME LinkInv, NEW e, LinkHeldOrDue(e), NEW k \in LinkCalls, MailLink(k)
  PROVE  LinkHeldOrDue(e)'
<1>1. /\ \A m \in LinkCalls \ {k} : links'[m] = links[m]
      /\ links[k].at = "mail" /\ mailed' = mailed \cup {links[k].token} /\ UNCHANGED tokens
  BY GoOnSafe DEF MailLink
<1>. QED BY <1>1 DEF LinkHeldOrDue, OwesLink, Works, Outstanding, LiveToken

LEMMA RowChangeKeepsLinks ==
  ASSUME LinkInv, NEW e, LinkHeldOrDue(e), NEW t \in TokenIds, tokens[t].email # e,
         \A s \in TokenIds \ {t} : tokens'[s] = tokens[s], UNCHANGED mailed,
         \A k \in LinkCalls : links[k].at \in {"create", "mail"} => links'[k] = links[k]
  PROVE  LinkHeldOrDue(e)'
<1>1. /\ mailed \subseteq TokenIds
      /\ \A m \in LinkCalls : links[m].at = "mail" => links[m].token \in TokenIds
  BY DEF LinkInv, LinksType, LinkOK
<1>. QED BY <1>1 DEF LinkHeldOrDue, OwesLink, Works, Outstanding, LiveToken

LEMMA LinkStepKeepsLinks ==
  ASSUME LinkInv, NEW e, LinkHeldOrDue(e), NEW k \in LinkCalls,
         LinkStart(k) \/ LinkResume(k) \/ LinkFail(k)
  PROVE  LinkHeldOrDue(e)' \/ LinkSpent(e)
<1>1. links \in [LinkCalls -> LinkCall] /\ tokens \in [TokenIds -> TokenRow]
  BY DEF LinkInv, LinksType
<1>2. CASE LinkStart(k)
  <2>1. /\ links[k] = NoCall /\ UNCHANGED <<tokens, mailed>>
        /\ \E link : links' = [links EXCEPT ![k] = link]
    BY <1>2 DEF LinkStart, RequestLink, UseLink
  <2>2. links[k].at \notin {"create", "mail"}
    BY <2>1 DEF NoCall
  <2>. QED BY <2>1, <2>2, OtherCallsKept
<1>3. CASE FindUser(k) \/ WritePassword(k)
  <2>1. links[k].at \notin {"create", "mail"} /\ UNCHANGED <<tokens, mailed>>
    BY <1>3 DEF FindUser, WritePassword
  <2>2. \E link : links' = [links EXCEPT ![k] = link]
    BY <1>3 DEF FindUser, WritePassword, GoOn
  <2>. QED BY <2>1, <2>2, OtherCallsKept
<1>4. CASE MarkUsed(k)
  <2> DEFINE t == links[k].token
  <2>1. /\ links[k].at = "mark" /\ UNCHANGED mailed
        /\ \A m \in LinkCalls \ {k} : links'[m] = links[m]
        /\ t \in TokenIds /\ \A s \in TokenIds \ {t} : tokens'[s] = tokens[s]
    BY <1>1, <1>4, GoOnSafe DEF MarkUsed, LinkInv, LinkOK
  <2>2. CASE tokens[t].email = e
    BY <1>4, <2>2 DEF LinkSpent
  <2>3. CASE tokens[t].email # e
    BY <2>1, <2>3, RowChangeKeepsLinks
  <2>. QED BY <2>2, <2>3
<1>5. CASE LinkFail(k)
  <2>1. /\ UNCHANGED <<tokens, mailed>>
        /\ \A m \in LinkCalls \ {k} : links'[m] = links[m]
    BY <1>5, GoOnSafe DEF LinkFail
  <2>2. CASE OwesLink(k, e)
    BY <1>5, <2>2 DEF LinkSpent
  <2>3. CASE ~OwesLink(k, e)
    BY <2>1, <2>3 DEF LinkHeldOrDue, OwesLink, Works, Outstanding, LiveToken
  <2>. QED BY <2>2, <2>3
<1>. QED BY <1>2, <1>3, <1>4, <1>5, DeletionKeepsLinks, CreationKeepsLinks, MailKeepsLinks DEF LinkResume

(* Whatever overlaps, fails or changes address: an address that has a       *)
(* working link, or has one coming, is left without only by its expiry, by  *)
(* its use, or by a call cut short between deletion and mail.               *)
THEOREM LinksLostOnlyUnsent == Spec => LinkLostOnlyUnsent
<1> DEFINE Step == \A e \in Emails : LinkHeldOrDue(e) => LinkHeldOrDue(e)' \/ LinkSpent(e)
<1>1. ASSUME LinkInv, [Next]_vars, ~UNCHANGED vars, NEW e \in Emails, LinkHeldOrDue(e)
      PROVE  LinkHeldOrDue(e)' \/ LinkSpent(e)
  <2>1. CASE UNCHANGED linkVars
    BY <1>1, <2>1 DEF linkVars, LinkHeldOrDue, OwesLink, Works, Outstanding, LiveToken
  <2>2. ASSUME NEW t \in TokenIds, Expire(t) PROVE LinkHeldOrDue(e)' \/ LinkSpent(e)
    <3>1. CASE tokens[t].email = e
      BY <2>2, <3>1 DEF LinkSpent
    <3>2. CASE tokens[t].email # e
      <4>1. /\ \A s \in TokenIds \ {t} : tokens'[s] = tokens[s]
            /\ UNCHANGED <<links, mailed>>
        BY <1>1, <2>2 DEF Expire, LinkInv, LinksType
      <4>. QED BY <1>1, <3>2, <4>1, RowChangeKeepsLinks
    <3>. QED BY <3>1, <3>2
  <2>. QED BY <1>1, <2>1, <2>2, LinkStepKeepsLinks DEF Next
<1>2. LinksInv /\ [Next]_vars => [Step]_vars
  BY <1>1 DEF LinksInv
<1>. QED BY <1>2, InitInv, LinkNextSafe, PTL DEF Spec, LinkLostOnlyUnsent

-----------------------------------------------------------------------------
(* The safety half of UsedTokenIsSpent.  A token that set a password is     *)
(* marked, deleted, or in the hands of a call about to mark it.             *)
Marking(t) == \E k \in LinkCalls : links[k].at = "mark" /\ links[k].token = t

UsedIsHeld ==
  \A t \in TokenIds : uses[t] > 0 => tokens[t].used \/ ~LiveToken(t) \/ Marking(t)

(* A call uses a token that has been created. *)
TokenBorn(k) ==
  links[k].at \in {"find", "write", "mark"} => tokens[links[k].token].state # "unborn"

HeldInv ==
  /\ \A t \in TokenIds : uses[t] > 0 => tokens[t].state # "unborn"
  /\ \A k \in LinkCalls : TokenBorn(k)
  /\ UsedIsHeld

(* A step of one call that keeps the uses and revives no token. *)
LEMMA CallKeepsHeld ==
  ASSUME HeldInv, NEW k \in LinkCalls, UNCHANGED uses,
         \A m \in LinkCalls \ {k} : links'[m] = links[m],
         \A m \in LinkCalls : links[m].at \in {"find", "write", "mark"} => links[m].token \in TokenIds,
         TokenBorn(k)',
         \A t \in TokenIds : /\ tokens[t].used => tokens'[t].used
                             /\ tokens[t].state # "unborn" => tokens'[t].state # "unborn"
                             /\ LiveToken(t)' => LiveToken(t) \/ tokens[t].state = "unborn",
         links[k].at = "mark" => \A t \in TokenIds : t = links[k].token => tokens'[t].used \/ ~LiveToken(t)'
  PROVE  HeldInv'
<1>1. \A m \in LinkCalls : TokenBorn(m)'
  BY DEF HeldInv, TokenBorn
<1>2. ASSUME NEW t \in TokenIds, uses'[t] > 0
      PROVE  tokens'[t].state # "unborn" /\ (tokens'[t].used \/ ~LiveToken(t)' \/ Marking(t)')
  <2>1. /\ uses[t] > 0 /\ tokens[t].state # "unborn"
        /\ tokens[t].used \/ ~LiveToken(t) \/ Marking(t)
    BY <1>2 DEF HeldInv, UsedIsHeld
  <2>2. Marking(t) => Marking(t)' \/ tokens'[t].used \/ ~LiveToken(t)'
    <3>1. ASSUME NEW m \in LinkCalls, links[m].at = "mark", links[m].token = t, m # k
          PROVE  Marking(t)'
      BY <3>1 DEF Marking
    <3>. QED BY <3>1 DEF Marking
  <2>. QED BY <2>1, <2>2
<1>. QED BY <1>1, <1>2 DEF HeldInv, UsedIsHeld

LEMMA LinkStepHolds ==
  ASSUME LinksInv, HeldInv, "mark" \notin LinkFailAt,
         NEW k \in LinkCalls, LinkStart(k) \/ LinkResume(k) \/ LinkFail(k)
  PROVE  HeldInv'
<1>1. /\ links \in [LinkCalls -> LinkCall] /\ tokens \in [TokenIds -> TokenRow]
      /\ uses \in [TokenIds -> Nat] /\ mailed \subseteq TokenIds /\ LinkInv
      /\ \A t \in mailed : tokens[t].state # "unborn"
  BY DEF LinksInv, LinkInv, LinksType
<1>2. \A m \in LinkCalls : links[m].at \in {"find", "write", "mark"} => links[m].token \in TokenIds
  BY <1>1 DEF LinkInv, LinkOK
<1>3. ASSUME NEW e \in Emails, RequestLink(k, e) PROVE HeldInv'
  <2>1. /\ links[k].at = "idle" /\ UNCHANGED <<tokens, uses>>
        /\ \A m \in LinkCalls \ {k} : links'[m] = links[m]
        /\ links'[k].at = "delete"
    BY <1>1, <1>3 DEF RequestLink, NoCall
  <2>. QED BY <1>2, <2>1, CallKeepsHeld DEF TokenBorn, LiveToken
<1>4. ASSUME NEW t \in TokenIds, UseLink(k, t) PROVE HeldInv'
  <2>1. /\ links[k].at = "idle" /\ UNCHANGED <<tokens, uses>> /\ tokens[t].state # "unborn"
        /\ \A m \in LinkCalls \ {k} : links'[m] = links[m]
        /\ links'[k].token = t
    BY <1>1, <1>4 DEF UseLink, NoCall
  <2>. QED BY <1>2, <2>1, CallKeepsHeld DEF TokenBorn, LiveToken
<1>5. ASSUME NEW step \in {"idle", "create"}, GoOn(k, step)
      PROVE  /\ \A m \in LinkCalls \ {k} : links'[m] = links[m]
             /\ TokenBorn(k)'
  <2>1. step \in LinkSteps \cup {"idle"}
    BY DEF LinkSteps
  <2>. QED BY <1>1, <1>5, <2>1, GoOnSafe DEF TokenBorn
<1>6. CASE DeleteTokens(k)
  <2>1. \A t \in TokenIds : /\ tokens[t].used => tokens'[t].used
                            /\ tokens[t].state # "unborn" => tokens'[t].state # "unborn"
                            /\ LiveToken(t)' => LiveToken(t)
    BY <1>1, <1>6 DEF DeleteTokens, LiveToken, TokenRow
  <2>. QED BY <1>2, <1>5, <1>6, <2>1, CallKeepsHeld DEF DeleteTokens
<1>7. ASSUME NEW t \in TokenIds, CreateToken(k, t) PROVE HeldInv'
  <2>1. /\ links[k].at = "create" /\ tokens[t].state = "unborn" /\ UNCHANGED uses
        /\ \A m \in LinkCalls \ {k} : links'[m] = links[m]
        /\ links'[k].at = "mail"
        /\ \A s \in TokenIds \ {t} : tokens'[s] = tokens[s]
        /\ tokens'[t].state = "live"
    BY <1>1, <1>7 DEF CreateToken, LinkCall
  <2>2. ASSUME NEW m \in LinkCalls PROVE TokenBorn(m)'
    BY <1>2, <2>1 DEF HeldInv, TokenBorn
  <2>3. ASSUME NEW s \in TokenIds, uses'[s] > 0
        PROVE  tokens'[s].state # "unborn" /\ (tokens'[s].used \/ ~LiveToken(s)' \/ Marking(s)')
    <3>1. s # t /\ tokens'[s] = tokens[s] /\ (Marking(s) => Marking(s)')
      BY <2>1, <2>3 DEF HeldInv, Marking
    <3>. QED BY <2>1, <2>3, <3>1 DEF HeldInv, UsedIsHeld, LiveToken
  <2>. QED BY <2>2, <2>3 DEF HeldInv, UsedIsHeld
<1>8. CASE MailLink(k)
  BY <1>2, <1>5, <1>8, CallKeepsHeld DEF MailLink, LiveToken
<1>9. CASE FindUser(k)
  <2>1. links[k].at = "find" /\ UNCHANGED <<tokens, uses>> /\ links[k] \in LinkCall
    BY <1>1, <1>9 DEF FindUser
  <2>2. \/ GoOn(k, "idle")
        \/ \E u \in UserIds : links' = [links EXCEPT ![k] = [links[k] EXCEPT !.at = "write", !.user = u]]
    BY <1>1, <1>9 DEF FindUser
  <2>3. CASE GoOn(k, "idle")
    BY <1>2, <1>5, <2>1, <2>3, CallKeepsHeld DEF LiveToken
  <2>4. ASSUME NEW u \in UserIds, links' = [links EXCEPT ![k] = [links[k] EXCEPT !.at = "write", !.user = u]]
        PROVE  HeldInv'
    <3>1. /\ \A m \in LinkCalls \ {k} : links'[m] = links[m]
          /\ links'[k].token = links[k].token
      BY <1>1, <2>1, <2>4 DEF LinkCall
    <3>2. TokenBorn(k)'
      BY <2>1, <3>1 DEF HeldInv, TokenBorn
    <3>. QED BY <1>2, <2>1, <3>1, <3>2, CallKeepsHeld DEF LiveToken
  <2>. QED BY <2>2, <2>3, <2>4
<1>10. CASE WritePassword(k)
  <2> DEFINE t == links[k].token
  <2>1. links[k].at = "write" /\ t \in TokenIds /\ tokens[t].state # "unborn" /\ UNCHANGED tokens
    BY <1>2, <1>10 DEF WritePassword, HeldInv, TokenBorn
  <2>2. CASE GoOn(k, "idle") /\ UNCHANGED uses
    BY <1>2, <1>5, <2>1, <2>2, CallKeepsHeld DEF LiveToken
  <2>3. CASE GoOn(k, "mark") /\ uses' = [uses EXCEPT ![t] = @ + 1]
    <3>1. /\ \A m \in LinkCalls \ {k} : links'[m] = links[m]
          /\ links'[k].at = "mark" /\ links'[k].token = t
      BY <1>1, <2>3, GoOnSafe DEF LinkSteps
    <3>2. ASSUME NEW m \in LinkCalls PROVE TokenBorn(m)'
      BY <2>1, <3>1 DEF HeldInv, TokenBorn
    <3>3. ASSUME NEW s \in TokenIds, s = t PROVE Marking(s)'
      BY <3>1, <3>3 DEF Marking
    <3>4. ASSUME NEW s \in TokenIds \ {t}
          PROVE  uses'[s] = uses[s] /\ (Marking(s) => Marking(s)')
      BY <1>1, <2>1, <2>3, <3>1 DEF Marking
    <3>5. ASSUME NEW s \in TokenIds, uses'[s] > 0
          PROVE  tokens'[s].state # "unborn" /\ (tokens'[s].used \/ ~LiveToken(s)' \/ Marking(s)')
      BY <2>1, <3>3, <3>4, <3>5 DEF HeldInv, UsedIsHeld, LiveToken
    <3>. QED BY <3>2, <3>5 DEF HeldInv, UsedIsHeld
  <2>. QED BY <1>10, <2>2, <2>3 DEF WritePassword
<1>11. CASE MarkUsed(k)
  <2> DEFINE t == links[k].token
  <2>1. /\ links[k].at = "mark" /\ t \in TokenIds /\ GoOn(k, "idle") /\ UNCHANGED uses
        /\ tokens' = IF LiveToken(t) THEN [tokens EXCEPT ![t].used = TRUE] ELSE tokens
    BY <1>2, <1>11 DEF MarkUsed
  <2>2. CASE LiveToken(t)
    <3>1. /\ \A s \in TokenIds : tokens'[s].state = tokens[s].state
          /\ \A s \in TokenIds \ {t} : tokens'[s] = tokens[s]
          /\ tokens'[t].used = TRUE
      BY <1>1, <2>1, <2>2 DEF TokenRow
    <3>. QED BY <1>2, <1>5, <2>1, <3>1, CallKeepsHeld DEF LiveToken
  <2>3. CASE ~LiveToken(t)
    BY <1>2, <1>5, <2>1, <2>3, CallKeepsHeld DEF LiveToken
  <2>. QED BY <2>2, <2>3
<1>12. CASE LinkFail(k)
  <2>1. links[k].at # "mark" /\ GoOn(k, "idle") /\ UNCHANGED <<tokens, uses>>
    BY <1>12 DEF LinkFail
  <2>. QED BY <1>2, <1>5, <2>1, CallKeepsHeld DEF LiveToken
<1>. QED BY <1>3, <1>4, <1>6, <1>7, <1>8, <1>9, <1>10, <1>11, <1>12 DEF LinkStart, LinkResume

(* AuthService.resetPassword writes the password before it marks the token: *)
(* as long as no call is cut short between the two, no used token is left   *)
(* unmarked without a call that will mark it.  With the fairness of         *)
(* LinkResume this is why UsedTokenIsSpent holds.                           *)
THEOREM NoUsedTokenIsStranded ==
  ASSUME "mark" \notin LinkFailAt
  PROVE  Spec => []UsedIsHeld
<1>1. Init => HeldInv
  BY DEF Init, HeldInv, UsedIsHeld, TokenBorn, NoCall
<1>2. LinksInv /\ HeldInv /\ [Next]_vars => HeldInv'
  <2> SUFFICES ASSUME LinksInv, HeldInv, [Next]_vars PROVE HeldInv'
    OBVIOUS
  <2>1. CASE UNCHANGED linkVars
    BY <2>1 DEF linkVars, HeldInv, UsedIsHeld, TokenBorn, Marking, LiveToken
  <2>2. ASSUME NEW t \in TokenIds, Expire(t) PROVE HeldInv'
    <3>1. tokens \in [TokenIds -> TokenRow]
      BY DEF LinksInv, LinkInv, LinksType
    <3>2. /\ \A s \in TokenIds : tokens'[s].used = tokens[s].used /\ tokens'[s].state = tokens[s].state
          /\ UNCHANGED <<links, uses>>
      BY <2>2, <3>1 DEF Expire, TokenRow
    <3>3. \A k \in LinkCalls : links[k].at \in {"find", "write", "mark"} => links[k].token \in TokenIds
      BY DEF LinksInv, LinkInv, LinkOK
    <3>. QED BY <3>2, <3>3 DEF HeldInv, UsedIsHeld, TokenBorn, Marking, LiveToken
  <2>. QED BY <2>1, <2>2, LinkStepHolds DEF Next, vars
<1>3. HeldInv => UsedIsHeld
  BY DEF HeldInv
<1>. QED BY <1>1, <1>2, <1>3, InitInv, LinkNextSafe, PTL DEF Spec

-----------------------------------------------------------------------------
(* Passwords.  Whoever follows a link knows the password it will set.       *)
ChosenPasswords ==
  /\ PasswordsCarried
  /\ \A k \in LinkCalls : links[k].at \in {"find", "write"} => links[k].password \in told

LEMMA ToldGrows == AccountInv /\ AccountNext => told \subseteq told'
<1> SUFFICES ASSUME AccountInv, AccountNext PROVE told \subseteq told'
  OBVIOUS
<1>1. CASE AccountOneShot
  BY <1>1 DEF AccountOneShot, CreateAdmin, RemoveAdmin, UpdateUser, RemoveUser, Choose
<1>2. ASSUME NEW c \in Calls, AccountResume(c) \/ Fail(c) PROVE told \subseteq told'
  BY <1>2 DEF AccountResume, CreateUserInsert, ResetPasswordWrite, SendPasswordResetEmail,
              UpdateMyProfileCheck, UpdateMyProfileWrite, ChangeMyPasswordWrite, Fail
<1>. QED BY <1>1, <1>2, StartTells DEF AccountNext

LEMMA ChoicesKept ==
  ASSUME ChosenPasswords, NEW k \in LinkCalls, UNCHANGED calls, told \subseteq told',
         \A m \in LinkCalls \ {k} : links'[m] = links[m],
         links'[k].at \in {"find", "write"} => links'[k].password \in told'
  PROVE  ChosenPasswords'
BY DEF ChosenPasswords, PasswordsCarried

LEMMA LinkStepChooses ==
  ASSUME LinksInv, ChosenPasswords,
         NEW k \in LinkCalls, LinkStart(k) \/ LinkResume(k) \/ LinkFail(k)
  PROVE  ChosenPasswords'
<1>1. links \in [LinkCalls -> LinkCall] /\ LinkInv
  BY DEF LinksInv, LinkInv, LinksType
<1>2. CASE LinkStart(k)
  <2>1. ASSUME NEW e \in Emails, RequestLink(k, e) PROVE ChosenPasswords'
    BY <1>1, <2>1, ChoicesKept DEF RequestLink, NoCall, accountVars
  <2>2. ASSUME NEW t \in TokenIds, UseLink(k, t) PROVE ChosenPasswords'
    BY <1>1, <2>2, ChoicesKept DEF UseLink, NoCall, Choose
  <2>. QED BY <1>2, <2>1, <2>2 DEF LinkStart
<1>3. ASSUME NEW step \in {"idle", "create", "mark"}, GoOn(k, step), UNCHANGED <<calls, told>>
      PROVE  ChosenPasswords'
  <2>1. step \in LinkSteps \cup {"idle"}
    BY DEF LinkSteps
  <2>. QED BY <1>1, <1>3, <2>1, GoOnSafe, ChoicesKept
<1>4. ASSUME NEW t \in TokenIds, CreateToken(k, t) PROVE ChosenPasswords'
  <2>1. /\ \A m \in LinkCalls \ {k} : links'[m] = links[m]
        /\ links'[k].at = "mail" /\ UNCHANGED <<calls, told>>
    BY <1>1, <1>4 DEF CreateToken, LinkCall, accountVars
  <2>. QED BY <2>1, ChoicesKept
<1>5. CASE FindUser(k)
  <2>1. links[k].at = "find" /\ links[k] \in LinkCall /\ UNCHANGED <<calls, told>>
    BY <1>1, <1>5 DEF FindUser, accountVars
  <2>2. ASSUME NEW u \in UserIds, links' = [links EXCEPT ![k] = [links[k] EXCEPT !.at = "write", !.user = u]]
        PROVE  ChosenPasswords'
    <3>1. /\ \A m \in LinkCalls \ {k} : links'[m] = links[m]
          /\ links'[k].password = links[k].password
      BY <1>1, <2>1, <2>2 DEF LinkCall
    <3>. QED BY <2>1, <3>1, ChoicesKept DEF ChosenPasswords
  <2>. QED BY <1>1, <1>3, <1>5, <2>1, <2>2 DEF FindUser
<1>6. CASE DeleteTokens(k) \/ MailLink(k) \/ WritePassword(k) \/ MarkUsed(k) \/ LinkFail(k)
  BY <1>3, <1>6 DEF DeleteTokens, MailLink, WritePassword, MarkUsed, LinkFail, accountVars
<1>. QED BY <1>2, <1>4, <1>5, <1>6 DEF LinkResume

LEMMA ChosenInductive ==
  /\ Init => ChosenPasswords
  /\ LinksInv /\ ChosenPasswords /\ [Next]_vars => ChosenPasswords'
<1>1. Init => ChosenPasswords
  BY PasswordInductive DEF Init, PasswordInv, ChosenPasswords, NoCall
<1>2. ASSUME LinksInv, ChosenPasswords, [Next]_vars PROVE ChosenPasswords'
  <2>1. CASE AccountNext /\ UNCHANGED linkVars
    <3>1. PasswordsCarried' /\ told \subseteq told'
      BY <1>2, <2>1, NextKeepsKnown, ToldGrows DEF LinksInv, ChosenPasswords
    <3>. QED BY <1>2, <2>1, <3>1 DEF ChosenPasswords, linkVars
  <2>2. ASSUME UNCHANGED <<calls, told, links>> PROVE ChosenPasswords'
    BY <1>2, <2>2 DEF ChosenPasswords, PasswordsCarried
  <2>. QED BY <1>2, <2>1, <2>2, LinkStepChooses DEF Next, Expire, vars, accountVars, linkVars
<1>. QED BY <1>1, <1>2

LEMMA LinkStepKeepsKnown ==
  ASSUME LinksInv, ChosenPasswords,
         NEW k \in LinkCalls, LinkStart(k) \/ LinkResume(k) \/ LinkFail(k),
         NEW u \in UserIds, LiveUser(u) => KnownOrDue(u, {"mail"}), LiveUser(u)'
  PROVE  KnownOrDue(u, {"mail"})'
<1>1. users \in [UserIds -> UserRow] /\ links \in [LinkCalls -> LinkCall] /\ LinkOK(k)
  BY DEF LinksInv, LinkInv, LinksType, AccountInv, AccountTypeOK
<1>2. CASE UNCHANGED <<users, calls>> /\ told \subseteq told'
  BY <1>2 DEF KnownOrDue, LiveUser
<1>3. CASE WritePassword(k) /\ UpdateRow(links[k].user, NewHash(k))
  <2> DEFINE v == links[k].user
  <2>1. /\ users' = [users EXCEPT ![v] = Patched(users[v], NewHash(k))]
        /\ v \in UserIds /\ links[k].password \in told /\ UNCHANGED <<calls, told>>
    BY <1>1, <1>3 DEF UpdateRow, WritePassword, LinkOK, ChosenPasswords
  <2>2. links[k].password # Keep
    BY <1>1, SentinelAssumption DEF LinkCall
  <2>3. NewHash(k).password = links[k].password
    BY DEF NewHash, NoPatch
  <2>4. /\ Patched(users[v], NewHash(k)).password = links[k].password
        /\ Patched(users[v], NewHash(k)).state = users[v].state
    BY <1>1, <2>1, <2>2, <2>3 DEF Patched, UserRow, Supplied
  <2>5. CASE u = v
    BY <1>1, <2>1, <2>4, <2>5 DEF KnownOrDue
  <2>6. CASE u # v
    BY <1>1, <2>1, <2>6 DEF KnownOrDue, LiveUser
  <2>. QED BY <2>5, <2>6
<1>4. LinkStart(k) => UNCHANGED <<users, calls>> /\ told \subseteq told'
  BY DEF LinkStart, RequestLink, UseLink, Choose, accountVars
<1>5. LinkFail(k) => UNCHANGED <<users, calls, told>>
  BY DEF LinkFail, accountVars
<1>6. LinkResume(k) => \/ UNCHANGED <<users, calls, told>>
                       \/ WritePassword(k) /\ UpdateRow(links[k].user, NewHash(k))
  BY DEF LinkResume, DeleteTokens, CreateToken, MailLink, FindUser, WritePassword, MarkUsed, accountVars
<1>. QED BY <1>2, <1>3, <1>4, <1>5, <1>6

(* Links are no further way to lose a password: with them too, an account   *)
(* comes to one nobody knows only by a call of AdminService or              *)
(* RequestService cut short just before its mail.                           *)
THEOREM LinksLoseNoPassword == Spec => PasswordLostOnlyUnmailed
<1> DEFINE Step == \A u \in UserIds :
                     (LiveUser(u) => KnownOrDue(u, {"mail"})) =>
                       \/ LiveUser(u)' => KnownOrDue(u, {"mail"})'
                       \/ CutShort(u, {"mail"})
<1>1. LinksInv /\ ChosenPasswords /\ [Next]_vars => [Step]_accountVars
  <2> SUFFICES ASSUME LinksInv, ChosenPasswords, Next, ~UNCHANGED accountVars PROVE Step
    BY DEF vars
  <2>1. CASE AccountNext
    BY <2>1, NextKeepsKnown DEF LinksInv, ChosenPasswords
  <2>2. ASSUME NEW k \in LinkCalls, LinkStart(k) \/ LinkResume(k) \/ LinkFail(k) PROVE Step
    BY <2>2, LinkStepKeepsKnown
  <2>. QED BY <2>1, <2>2 DEF Next, Expire
<1>. QED BY <1>1, ChosenInductive, InitInv, LinkNextSafe, PTL DEF Spec, PasswordLostOnlyUnmailed
=============================================================================
