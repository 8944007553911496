--------------------------- MODULE AccountsProofs ---------------------------
(***************************************************************************)
(* Theorems about Accounts for any number of users, countries, calls and   *)
(* refresh tokens: its rows keep their shape, refresh tokens rotate, and   *)
(* Stripe makes one payout account for a contributor.                      *)
(*                                                                         *)
(* Typed says what a call still knows to be true of the rows it read;      *)
(* Sessions and Payouts are the inductive invariants built on it.          *)
(***************************************************************************)
EXTENDS Accounts, FiniteSetTheorems, TLAPS

Tokens == [user : Users, state : {"active", "revoked", "expired"}, parent : Nat, session : Nat]
Locals == [pc : Pcs, user : Users \cup {"nobody"}, token : Nat, role : Roles \cup {"none"},
           country : Countries \cup {"none"}, made : Nat]

(* What a call knows: its user is registered, its token is that user's, it *)
(* pays out in the country of the row and to an account of the user.       *)
Sound(call, roles, toks, rows, accounts) ==
  /\ call \in Locals
  /\ call.token \in 0 .. Len(toks) /\ call.made \in 0 .. Len(accounts)
  /\ call.pc # "idle" => call.user \in Users
  /\ call.pc = "create" => call.role \in Roles
  /\ call.pc \in {"find", "revoke", "logout"} => call.token # 0
  /\ call.token # 0 => /\ call.pc \in {"find", "revoke", "logout", "issue"}
                       /\ toks[call.token].user = call.user
  /\ call.pc = "issue" => roles[call.user] # "none"
  /\ call.pc \in {"account", "save"} =>
       /\ rows[call.user].there
       /\ call.country \in Countries /\ rows[call.user].country = call.country
  /\ call.pc = "save" => call.made # 0 /\ accounts[call.made].user = call.user

Held ==
  /\ at \in [Calls -> Locals]
  /\ \A c \in Calls : Sound(at[c], role, tokens, account, stripe)

(* Stripe remembers a key for the contributor whose account it made.       *)
KeysMatch == \A u \in Users, a \in DOMAIN stripe : <<u, a>> \in remembered => stripe[a].user = u

Typed == TypeOK /\ Held /\ KeysMatch

(* What no step takes back.                                                *)
Grows ==
  /\ \A u \in Users : role[u] # "none" => role'[u] # "none"
  /\ Len(tokens) <= Len(tokens')
  /\ \A t \in DOMAIN tokens : tokens'[t].user = tokens[t].user
  /\ \A u \in Users : account[u].there => /\ account'[u].there
                                          /\ account'[u].country = account[u].country
  /\ Len(stripe) <= Len(stripe')
  /\ \A a \in DOMAIN stripe : stripe'[a] = stripe[a]

-----------------------------------------------------------------------------
(* The calls of a step that moves one of them, or none.                    *)
LEMMA OthersStaySound ==
  ASSUME Typed, Grows, NEW c \in Calls
  PROVE  Sound(at[c], role', tokens', account', stripe')
<1>1. Sound(at[c], role, tokens, account, stripe)
  BY DEF Typed, Held
<1>2. /\ Len(tokens) \in Nat /\ Len(tokens') >= Len(tokens)
      /\ Len(stripe) \in Nat /\ Len(stripe') >= Len(stripe)
      /\ DOMAIN tokens = 1 .. Len(tokens) /\ DOMAIN stripe = 1 .. Len(stripe)
  BY DEF Typed, TypeOK, Grows
<1> QED BY <1>1, <1>2 DEF Sound, Grows, Locals

LEMMA MoveCall ==
  ASSUME Typed, Grows, NEW c \in Calls, NEW to, Step(c, to),
         Sound(to, role', tokens', account', stripe')
  PROVE  Held'
<1>1. at' = [at EXCEPT ![c] = to] /\ at \in [Calls -> Locals] /\ to \in Locals
  BY DEF Step, Typed, Held, Sound
<1>2. at' \in [Calls -> Locals]
  BY <1>1
<1>3. ASSUME NEW d \in Calls PROVE Sound(at'[d], role', tokens', account', stripe')
  <2>1. CASE d = c
    <3>1. at'[d] = to
      BY <1>1, <2>1
    <3> QED BY <3>1
  <2>2. CASE d # c
    <3>1. at'[d] = at[d]
      BY <1>1, <2>2
    <3>2. Sound(at[d], role', tokens', account', stripe')
      BY OthersStaySound
    <3> QED BY <3>1, <3>2
  <2> QED BY <2>1, <2>2
<1> QED BY <1>2, <1>3 DEF Held

LEMMA KeepCalls ==
  ASSUME Typed, Grows, UNCHANGED at
  PROVE  Held'
<1>1. \A c \in Calls : Sound(at[c], role', tokens', account', stripe')
  BY OthersStaySound
<1>2. at \in [Calls -> Locals]
  BY DEF Typed, Held
<1> QED BY <1>1, <1>2 DEF Held

LEMMA EndCall ==
  ASSUME Typed, Grows, NEW c \in Calls, End(c), Len(tokens') \in Nat, Len(stripe') \in Nat
  PROVE  Held'
<1>1. Sound(Idle, role', tokens', account', stripe')
  BY DEF Sound, Idle, Locals, Pcs
<1> QED BY <1>1, MoveCall DEF End

-----------------------------------------------------------------------------
(* Type correctness: one step per action.                                  *)
StripeAccounts == [user : Users, country : Countries]
PayoutRow == [there : BOOLEAN, country : Countries \cup {"none"}, old : BOOLEAN, stripe : Nat]

SessionRows ==
  /\ role \in [Users -> Roles \cup {"none"}]
  /\ tokens \in Seq(Tokens)
  /\ \A t \in DOMAIN tokens : /\ tokens[t].parent \in 0 .. t - 1 /\ tokens[t].session \in 1 .. t
                              /\ role[tokens[t].user] # "none"
  /\ overlapped \subseteq DOMAIN tokens

PayoutRows ==
  /\ account \in [Users -> PayoutRow]
  /\ \A u \in Users : account[u].stripe <= Len(stripe)
  /\ \A u \in Users : account[u].there => role[u] = "user"
  /\ stripe \in Seq(StripeAccounts)
  /\ remembered \subseteq Users \X DOMAIN stripe
  /\ KeysMatch

Facts ==
  /\ SessionRows /\ PayoutRows /\ Held
  /\ Len(tokens) \in Nat /\ DOMAIN tokens = 1 .. Len(tokens)
  /\ Len(stripe) \in Nat /\ DOMAIN stripe = 1 .. Len(stripe)
  /\ \A t \in DOMAIN tokens : tokens[t] \in Tokens
  /\ \A a \in DOMAIN stripe : stripe[a] \in StripeAccounts

LEMMA Unfold == Typed => Facts
<1> SUFFICES ASSUME Typed PROVE Facts
  OBVIOUS
<1>1. tokens \in Seq(Tokens) /\ stripe \in Seq(StripeAccounts)
  BY DEF Typed, TypeOK, Tokens, StripeAccounts
<1>2. SessionRows /\ Held
  BY <1>1 DEF Typed, TypeOK, SessionRows
<1>3. account \in [Users -> PayoutRow] /\ \A u \in Users : account[u].stripe <= Len(stripe)
  BY <1>1 DEF Typed, TypeOK, PayoutRow
<1>4. PayoutRows
  BY <1>1, <1>3 DEF Typed, TypeOK, PayoutRows
<1> QED BY <1>1, <1>2, <1>4 DEF Facts

LEMMA FoldNext ==
  ASSUME SessionRows', PayoutRows', Held'
  PROVE  Typed'
<1>0. Len(tokens') \in Nat /\ Len(stripe') \in Nat
  BY DEF SessionRows, PayoutRows
<1>1. account' \in [Users -> [there : BOOLEAN, country : Countries \cup {"none"}, old : BOOLEAN,
                             stripe : 0 .. Len(stripe')]]
  BY <1>0 DEF PayoutRows, PayoutRow
<1>2. at' \in [Calls -> [pc : Pcs, user : Users \cup {"nobody"}, token : 0 .. Len(tokens'),
                         role : Roles \cup {"none"},
                         country : Countries \cup {"none"}, made : 0 .. Len(stripe')]]
  BY <1>0 DEF Held, Sound, Locals
<1>3. TypeOK'
  BY <1>1, <1>2 DEF TypeOK, SessionRows, PayoutRows, Tokens, StripeAccounts
<1> QED BY <1>3 DEF Typed, PayoutRows

LEMMA KeepSessions ==
  ASSUME SessionRows, UNCHANGED <<role, tokens, overlapped>>
  PROVE  SessionRows'
BY DEF SessionRows

LEMMA KeepPayouts ==
  ASSUME PayoutRows, UNCHANGED <<role, account, stripe, remembered>>
  PROVE  PayoutRows'
BY DEF PayoutRows, KeysMatch

(* One token gets another state.                                           *)
LEMMA SameLength ==
  ASSUME Typed, NEW t \in DOMAIN tokens, NEW state \in {"active", "revoked", "expired"},
         tokens' = [tokens EXCEPT ![t].state = state]
  PROVE  /\ tokens' \in Seq(Tokens)
         /\ Len(tokens') = Len(tokens) /\ DOMAIN tokens' = DOMAIN tokens
         /\ \A s \in DOMAIN tokens : /\ tokens'[s].user = tokens[s].user
                                     /\ tokens'[s].parent = tokens[s].parent
                                     /\ tokens'[s].session = tokens[s].session
                                     /\ tokens'[s].state = IF s = t THEN state ELSE tokens[s].state
<1>1. Facts
  BY Unfold
<1>2. tokens' = [tokens EXCEPT ![t] = [tokens[t] EXCEPT !.state = state]]
  OBVIOUS
<1>3. [tokens[t] EXCEPT !.state = state] \in Tokens
  BY <1>1 DEF Facts, Tokens
<1>4. tokens' \in Seq(Tokens)
  BY <1>1, <1>2, <1>3 DEF Facts, SessionRows
<1> QED BY <1>1, <1>2, <1>4 DEF Facts, SessionRows, Tokens

LEMMA TypedInit == Init => Typed
BY DEF Init, Typed, TypeOK, KeysMatch, NoAccount, Held, Sound, Locals, Idle, Pcs

LEMMA TypedStep == Typed /\ [Next]_vars => Typed'
<1> SUFFICES ASSUME Typed, [Next]_vars PROVE SessionRows' /\ PayoutRows' /\ Held'
  BY FoldNext
<1> USE Unfold
<1>c. \A c \in Calls : at[c] \in Locals /\ Sound(at[c], role, tokens, account, stripe)
  BY DEF Facts, Held, Sound
<1>1. ASSUME NEW c \in Calls, NEW u \in Users, NEW wanted \in Roles, Register(c, u, wanted)
      PROVE  SessionRows' /\ PayoutRows' /\ Held'
  <2>1. UNCHANGED <<role, tokens, overlapped, account, stripe, remembered>>
    BY <1>1 DEF Register, sessionVars, payoutVars
  <2>2. Sound([Idle EXCEPT !.pc = "create", !.user = u, !.role = wanted], role', tokens', account', stripe')
    <3> DEFINE to == [Idle EXCEPT !.pc = "create", !.user = u, !.role = wanted]
    <3>1. /\ to.pc = "create" /\ to.user = u /\ to.token = 0 /\ to.role = wanted
          /\ to.country = "none" /\ to.made = 0
      BY DEF Idle
    <3>2. to \in Locals
      BY DEF Locals, Pcs, Idle
    <3> HIDE DEF to
    <3>3. Sound(to, role', tokens', account', stripe')
      BY <2>1, <3>1, <3>2 DEF Facts, Sound
    <3> QED BY <3>3 DEF to
  <2>3. Grows
    BY <2>1 DEF Facts, Grows
  <2> QED BY <1>1, <2>1, <2>2, <2>3, MoveCall, KeepSessions, KeepPayouts DEF Register, Facts
<1>2. ASSUME NEW c \in Calls, CreateUser(c)
      PROVE  SessionRows' /\ PayoutRows' /\ Held'
  <2>1. at[c].user \in Users /\ at[c].role \in Roles /\ at[c].token = 0
    BY <1>2, <1>c DEF CreateUser, Sound
  <2>2. UNCHANGED <<tokens, overlapped, account, stripe, remembered>>
    BY <1>2 DEF CreateUser, payoutVars
  <2>3. CASE role[at[c].user] # "none"
    <3>1. UNCHANGED role /\ End(c)
      BY <1>2, <2>3 DEF CreateUser
    <3>2. Grows /\ Len(tokens') \in Nat /\ Len(stripe') \in Nat
      BY <2>2, <3>1 DEF Facts, Grows
    <3> QED BY <2>2, <3>1, <3>2, EndCall, KeepSessions, KeepPayouts DEF Facts
  <2>4. CASE role[at[c].user] = "none"
    <3>1. role' = [role EXCEPT ![at[c].user] = at[c].role] /\ Step(c, [at[c] EXCEPT !.pc = "issue"])
      BY <1>2, <2>4 DEF CreateUser, Goto
    <3>2. /\ role' \in [Users -> Roles \cup {"none"}] /\ role'[at[c].user] # "none"
          /\ \A u \in Users : role[u] # "none" => role'[u] = role[u]
      BY <2>1, <2>4, <3>1 DEF Facts, SessionRows, Roles
    <3>3. Grows
      BY <2>2, <3>2 DEF Facts, Grows
    <3>4. SessionRows'
      BY <2>2, <3>2 DEF Facts, SessionRows, Tokens
    <3>5. PayoutRows'
      BY <2>2, <3>2 DEF Facts, PayoutRows, KeysMatch
    <3>6. Sound([at[c] EXCEPT !.pc = "issue"], role', tokens', account', stripe')
      BY <1>c, <2>1, <2>2, <3>2 DEF Facts, Sound, Locals, Pcs
    <3> QED BY <3>1, <3>3, <3>4, <3>5, <3>6, MoveCall
  <2> QED BY <2>3, <2>4
<1>3. ASSUME NEW c \in Calls, NEW u \in Users, NEW client, Login(c, u, client)
      PROVE  SessionRows' /\ PayoutRows' /\ Held'
  <2>1. UNCHANGED <<role, tokens, overlapped, account, stripe, remembered>> /\ role[u] # "none"
    BY <1>3 DEF Login, sessionVars, payoutVars
  <2>2. Sound([Idle EXCEPT !.pc = "issue", !.user = u], role', tokens', account', stripe')
    <3> DEFINE to == [Idle EXCEPT !.pc = "issue", !.user = u]
    <3>1. /\ to.pc = "issue" /\ to.user = u /\ to.token = 0 /\ to.role = "none"
          /\ to.country = "none" /\ to.made = 0
      BY DEF Idle
    <3>2. to \in Locals
      BY DEF Locals, Pcs, Idle
    <3> HIDE DEF to
    <3>3. Sound(to, role', tokens', account', stripe')
      BY <2>1, <3>1, <3>2 DEF Facts, Sound
    <3> QED BY <3>3 DEF to
  <2>3. Grows
    BY <2>1 DEF Facts, Grows
  <2> QED BY <1>3, <2>1, <2>2, <2>3, MoveCall, KeepSessions, KeepPayouts DEF Login, Facts
<1>4. ASSUME NEW c \in Calls, NEW t \in DOMAIN tokens, NEW pc \in {"find", "logout"}, Present(c, t, pc)
      PROVE  SessionRows' /\ PayoutRows' /\ Held'
  <2>1. UNCHANGED <<role, tokens, account, stripe, remembered>>
    BY <1>4 DEF Present, payoutVars
  <2>2. Sound([Idle EXCEPT !.pc = pc, !.user = tokens[t].user, !.token = t], role', tokens', account', stripe')
    <3> DEFINE to == [Idle EXCEPT !.pc = pc, !.user = tokens[t].user, !.token = t]
    <3>1. /\ to.pc = pc /\ to.user = tokens[t].user /\ to.token = t /\ to.role = "none"
          /\ to.country = "none" /\ to.made = 0
      BY DEF Idle
    <3>2. t \in Nat /\ t \in 0 .. Len(tokens) /\ t # 0 /\ tokens[t].user \in Users
      BY DEF Facts, Tokens
    <3>3. to \in Locals
      BY <3>2 DEF Locals, Pcs, Idle
    <3> HIDE DEF to
    <3>4. Sound(to, role', tokens', account', stripe')
      BY <2>1, <3>1, <3>2, <3>3 DEF Facts, Sound
    <3> QED BY <3>4 DEF to
  <2>3. Grows
    BY <2>1 DEF Facts, Grows
  <2>4. tokens[t].session \in DOMAIN tokens
    BY DEF Facts, SessionRows
  <2>5. SessionRows'
    BY <1>4, <2>1, <2>4 DEF Present, Session, Facts, SessionRows
  <2> QED BY <1>4, <2>1, <2>2, <2>3, <2>5, MoveCall, KeepPayouts DEF Present, Facts
<1>5. ASSUME NEW c \in Calls, NEW client, FindUser(c, client)
      PROVE  SessionRows' /\ PayoutRows' /\ Held'
  <2>1. UNCHANGED <<role, tokens, overlapped, account, stripe, remembered>>
    BY <1>5 DEF FindUser, sessionVars, payoutVars
  <2>2. Grows /\ Len(tokens') \in Nat /\ Len(stripe') \in Nat
    BY <2>1 DEF Facts, Grows
  <2>3. Held'
    <3>1. CASE Step(c, [at[c] EXCEPT !.pc = "revoke"])
      <4>1. Sound([at[c] EXCEPT !.pc = "revoke"], role', tokens', account', stripe')
        BY <1>5, <1>c, <2>1 DEF FindUser, Facts, Sound, Locals, Pcs
      <4> QED BY <2>2, <3>1, <4>1, MoveCall
    <3>2. CASE End(c)
      BY <2>2, <3>2, EndCall
    <3> QED BY <1>5, <3>1, <3>2 DEF FindUser, Goto
  <2> QED BY <2>1, <2>3, KeepSessions, KeepPayouts DEF Facts
<1>6. ASSUME NEW c \in Calls, RevokeToken(c)
      PROVE  SessionRows' /\ PayoutRows' /\ Held'
  <2>1. /\ at[c].token \in DOMAIN tokens /\ tokens[at[c].token].user = at[c].user
        /\ role[at[c].user] # "none"
    BY <1>6, <1>c DEF RevokeToken, Sound, Facts, SessionRows
  <2>2. UNCHANGED <<role, overlapped, account, stripe, remembered>>
    BY <1>6 DEF RevokeToken, payoutVars
  <2>3. /\ tokens' \in Seq(Tokens)
        /\ Len(tokens') = Len(tokens) /\ DOMAIN tokens' = DOMAIN tokens
        /\ \A t \in DOMAIN tokens : /\ tokens'[t].user = tokens[t].user
                                    /\ tokens'[t].parent = tokens[t].parent
                                    /\ tokens'[t].session = tokens[t].session
    BY <1>6, <2>1, SameLength DEF RevokeToken
  <2>4. Grows
    BY <2>2, <2>3 DEF Facts, Grows
  <2>5. SessionRows'
    BY <2>2, <2>3 DEF Facts, SessionRows
  <2>6. Held'
    <3>1. CASE Step(c, [at[c] EXCEPT !.pc = "issue"]) /\ at[c].pc = "revoke"
      <4>1. Sound([at[c] EXCEPT !.pc = "issue"], role', tokens', account', stripe')
        BY <1>c, <2>1, <2>2, <2>3, <3>1 DEF Facts, Sound, Locals, Pcs
      <4> QED BY <2>4, <3>1, <4>1, MoveCall
    <3>2. CASE End(c)
      BY <2>2, <2>3, <2>4, <3>2, EndCall DEF Facts
    <3> QED BY <1>6, <3>1, <3>2 DEF RevokeToken, Goto
  <2> QED BY <2>2, <2>5, <2>6, KeepPayouts DEF Facts
<1>7. ASSUME NEW c \in Calls, IssueTokens(c)
      PROVE  SessionRows' /\ PayoutRows' /\ Held'
  <2> DEFINE new == [user |-> at[c].user, state |-> "active", parent |-> at[c].token,
                     session |-> IF at[c].token = 0 THEN Len(tokens) + 1 ELSE Session(at[c].token)]
  <2>1. at[c].user \in Users /\ role[at[c].user] # "none" /\ at[c].token \in 0 .. Len(tokens)
    BY <1>7, <1>c DEF IssueTokens, Sound
  <2>2. new.session \in 1 .. Len(tokens) + 1
    BY <2>1 DEF Session, Facts, SessionRows
  <2>3. /\ new \in Tokens /\ new.user = at[c].user /\ new.parent \in 0 .. Len(tokens)
        /\ tokens' = Append(tokens, new)
    BY <1>7, <2>1, <2>2 DEF IssueTokens, Tokens, Facts
  <2> HIDE DEF new
  <2>4. /\ Len(tokens') = Len(tokens) + 1 /\ DOMAIN tokens' = 1 .. Len(tokens) + 1
        /\ tokens' \in Seq(Tokens)
        /\ tokens'[Len(tokens) + 1] = new /\ \A t \in DOMAIN tokens : tokens'[t] = tokens[t]
    BY <2>3 DEF Facts, SessionRows
  <2>5. UNCHANGED <<role, overlapped, account, stripe, remembered>>
    BY <1>7 DEF IssueTokens, payoutVars
  <2>6. Grows /\ Len(tokens') \in Nat /\ Len(stripe') \in Nat
    BY <2>4, <2>5 DEF Facts, Grows
  <2>7. \A t \in DOMAIN tokens' : /\ tokens'[t].parent \in 0 .. t - 1 /\ tokens'[t].session \in 1 .. t
                                  /\ role'[tokens'[t].user] # "none"
    BY <2>1, <2>2, <2>3, <2>4, <2>5 DEF Facts, SessionRows
  <2>8. SessionRows'
    BY <2>4, <2>5, <2>7 DEF Facts, SessionRows
  <2> QED BY <1>7, <2>5, <2>6, <2>8, EndCall, KeepPayouts DEF IssueTokens, Facts
<1>8. ASSUME NEW t \in DOMAIN tokens, ExpireToken(t)
      PROVE  SessionRows' /\ PayoutRows' /\ Held'
  <2>1. UNCHANGED <<role, overlapped, account, stripe, remembered, at>>
    BY <1>8 DEF ExpireToken, payoutVars
  <2>2. /\ tokens' \in Seq(Tokens)
        /\ Len(tokens') = Len(tokens) /\ DOMAIN tokens' = DOMAIN tokens
        /\ \A s \in DOMAIN tokens : /\ tokens'[s].user = tokens[s].user
                                    /\ tokens'[s].parent = tokens[s].parent
                                    /\ tokens'[s].session = tokens[s].session
    BY <1>8, SameLength DEF ExpireToken
  <2>3. Grows
    BY <2>1, <2>2 DEF Facts, Grows
  <2>4. SessionRows'
    BY <2>1, <2>2 DEF Facts, SessionRows
  <2> QED BY <2>1, <2>3, <2>4, KeepCalls, KeepPayouts DEF Facts
<1>9. ASSUME NEW c \in Calls, NEW u \in Users, NEW country \in Countries, Onboard(c, u, country)
      PROVE  SessionRows' /\ PayoutRows' /\ Held'
  <2> DEFINE row == Claimed(u, country)
  <2>1. /\ row \in PayoutRow /\ row.there /\ row.stripe <= Len(stripe)
        /\ account[u].there => row = account[u]
    <3>1. CASE account[u].there
      BY <3>1 DEF Claimed, Facts, PayoutRows
    <3>2. CASE ~ account[u].there
      <4>1. row = [there |-> TRUE, country |-> country, old |-> FALSE, stripe |-> 0]
        BY <3>2 DEF Claimed, NoAccount
      <4> QED BY <3>2, <4>1 DEF PayoutRow, Facts
    <3> QED BY <3>1, <3>2
  <2>2. /\ account' = [account EXCEPT ![u] = row] /\ role[u] = "user"
        /\ UNCHANGED <<role, tokens, overlapped, stripe, remembered>>
        /\ \/ End(c)
           \/ /\ row.country = country
              /\ Step(c, [Idle EXCEPT !.pc = "account", !.user = u, !.country = country])
    BY <1>9 DEF Onboard, sessionVars
  <2> HIDE DEF row
  <2>3. account' \in [Users -> PayoutRow] /\ account'[u] = row /\ \A o \in Users : o # u => account'[o] = account[o]
    BY <2>1, <2>2 DEF Facts, PayoutRows
  <2>4. Grows /\ Len(tokens') \in Nat /\ Len(stripe') \in Nat
    BY <2>1, <2>2, <2>3 DEF Facts, Grows
  <2>5. PayoutRows'
    BY <2>1, <2>2, <2>3 DEF Facts, PayoutRows, KeysMatch
  <2>6. Held'
    <3>1. CASE End(c)
      BY <2>4, <3>1, EndCall
    <3>2. CASE /\ row.country = country
               /\ Step(c, [Idle EXCEPT !.pc = "account", !.user = u, !.country = country])
      <4> DEFINE to == [Idle EXCEPT !.pc = "account", !.user = u, !.country = country]
      <4>1. /\ to.pc = "account" /\ to.user = u /\ to.token = 0 /\ to.role = "none"
            /\ to.country = country /\ to.made = 0
        BY DEF Idle
      <4>2. to \in Locals
        BY DEF Locals, Pcs, Idle
      <4> HIDE DEF to
      <4>3. Sound(to, role', tokens', account', stripe')
        BY <2>1, <2>2, <2>3, <3>2, <4>1, <4>2 DEF Facts, Sound
      <4> QED BY <2>4, <3>2, <4>3, MoveCall DEF to
    <3> QED BY <2>2, <3>1, <3>2
  <2> QED BY <2>2, <2>5, <2>6, KeepSessions DEF Facts
<1>10. ASSUME NEW c \in Calls, CreateAccount(c)
       PROVE  SessionRows' /\ PayoutRows' /\ Held'
  <2> DEFINE u == at[c].user
             known == {a \in DOMAIN stripe : <<u, a>> \in remembered}
  <2>1. u \in Users /\ at[c].country \in Countries /\ at[c].pc = "account"
    BY <1>10, <1>c DEF CreateAccount, Sound
  <2>2. UNCHANGED <<role, tokens, overlapped, account>>
    BY <1>10 DEF CreateAccount, sessionVars
  <2>3. CASE known # {}
    <3>1. PICK a \in known : Step(c, [at[c] EXCEPT !.pc = "save", !.made = a])
      BY <1>10, <2>3 DEF CreateAccount
    <3>2. UNCHANGED <<stripe, remembered>>
      BY <1>10, <2>3 DEF CreateAccount
    <3>3. Grows
      BY <2>2, <3>2 DEF Facts, Grows
    <3>4. a \in DOMAIN stripe /\ stripe[a].user = u
      BY <2>1, <3>1 DEF Facts, PayoutRows, KeysMatch
    <3>5. Sound([at[c] EXCEPT !.pc = "save", !.made = a], role', tokens', account', stripe')
      <4> DEFINE to == [at[c] EXCEPT !.pc = "save", !.made = a]
      <4>1. /\ to.pc = "save" /\ to.user = u /\ to.token = 0 /\ to.country = at[c].country
            /\ to.made = a
        <5>1. at[c] \in Locals /\ at[c].token = 0
          BY <1>c, <2>1 DEF Sound
        <5> QED BY <5>1 DEF Locals
      <4>2. to \in Locals
        <5>1. at[c] \in Locals /\ a \in Nat
          BY <1>c, <3>4 DEF Facts
        <5>2. [at[c] EXCEPT !.pc = "save"] \in Locals
          BY <5>1 DEF Locals, Pcs
        <5> QED BY <5>1, <5>2 DEF Locals
      <4> HIDE DEF to
      <4>3. account[u].there /\ account[u].country = at[c].country
        BY <1>c, <2>1 DEF Sound
      <4>4. Sound(to, role', tokens', account', stripe')
        BY <2>1, <2>2, <3>2, <3>4, <4>1, <4>2, <4>3 DEF Facts, Sound
      <4> QED BY <4>4 DEF to
    <3> QED BY <2>2, <3>1, <3>2, <3>3, <3>5, MoveCall, KeepSessions, KeepPayouts DEF Facts
  <2>4. CASE known = {}
    <3> DEFINE new == Len(stripe) + 1
               made == [user |-> u, country |-> at[c].country]
    <3>1. /\ stripe' = Append(stripe, made) /\ remembered' = remembered \cup {<<u, new>>}
          /\ Step(c, [at[c] EXCEPT !.pc = "save", !.made = new])
      BY <1>10, <2>4 DEF CreateAccount
    <3>2. made \in StripeAccounts /\ made.user = u
      BY <2>1 DEF StripeAccounts
    <3> HIDE DEF made
    <3>3. /\ Len(stripe') = new /\ DOMAIN stripe' = 1 .. new
          /\ stripe' \in Seq(StripeAccounts)
          /\ stripe'[new] = made /\ \A a \in DOMAIN stripe : stripe'[a] = stripe[a]
      BY <3>1, <3>2 DEF Facts, PayoutRows
    <3>4. Grows
      BY <2>2, <3>3 DEF Facts, Grows
    <3>5. KeysMatch'
      BY <3>1, <3>2, <3>3 DEF Facts, PayoutRows, KeysMatch
    <3>6. remembered' \subseteq Users \X DOMAIN stripe'
      BY <2>1, <3>1, <3>3 DEF Facts, PayoutRows
    <3>7. \A o \in Users : account[o].stripe <= Len(stripe')
      BY <3>3 DEF Facts, PayoutRows, PayoutRow
    <3>8. PayoutRows'
      BY <2>2, <3>3, <3>5, <3>6, <3>7 DEF Facts, PayoutRows
    <3>9. Sound([at[c] EXCEPT !.pc = "save", !.made = new], role', tokens', account', stripe')
      <4> DEFINE to == [at[c] EXCEPT !.pc = "save", !.made = new]
      <4>1. /\ to.pc = "save" /\ to.user = u /\ to.token = 0 /\ to.country = at[c].country
            /\ to.made = new
        <5>1. at[c] \in Locals /\ at[c].token = 0
          BY <1>c, <2>1 DEF Sound
        <5> QED BY <5>1 DEF Locals
      <4>2. to \in Locals
        <5>1. at[c] \in Locals /\ new \in Nat
          BY <1>c DEF Facts
        <5>2. [at[c] EXCEPT !.pc = "save"] \in Locals
          BY <5>1 DEF Locals, Pcs
        <5> QED BY <5>1, <5>2 DEF Locals
      <4> HIDE DEF to
      <4>3. account[u].there /\ account[u].country = at[c].country
        BY <1>c, <2>1 DEF Sound
      <4>4. Sound(to, role', tokens', account', stripe')
        BY <2>1, <2>2, <3>2, <3>3, <4>1, <4>2, <4>3 DEF Facts, Sound
      <4> QED BY <4>4 DEF to
    <3> QED BY <2>2, <3>1, <3>4, <3>8, <3>9, MoveCall, KeepSessions DEF Facts
  <2> QED BY <2>3, <2>4
<1>11. ASSUME NEW c \in Calls, SaveAccount(c)
       PROVE  SessionRows' /\ PayoutRows' /\ Held'
  <2> DEFINE u == at[c].user
  <2>1. u \in Users /\ account[u].there /\ at[c].made \in 0 .. Len(stripe)
    BY <1>11, <1>c DEF SaveAccount, Sound
  <2>2. /\ account' = [account EXCEPT ![u] = [account[u] EXCEPT !.stripe = at[c].made]]
        /\ End(c) /\ UNCHANGED <<role, tokens, overlapped, stripe, remembered>>
    BY <1>11 DEF SaveAccount, sessionVars
  <2>3. /\ account' \in [Users -> PayoutRow]
        /\ \A o \in Users : /\ account'[o].there = account[o].there
                            /\ account'[o].country = account[o].country
                            /\ account'[o].stripe <= Len(stripe)
    <3> DEFINE new == [account[u] EXCEPT !.stripe = at[c].made]
    <3>1. account[u] \in PayoutRow /\ at[c].made \in Nat /\ at[c].made <= Len(stripe)
      BY <2>1 DEF Facts, PayoutRows
    <3>2. /\ new \in PayoutRow /\ new.there = account[u].there
          /\ new.country = account[u].country /\ new.stripe <= Len(stripe)
      BY <3>1 DEF PayoutRow
    <3>3. account \in [Users -> PayoutRow] /\ \A o \in Users : account[o].stripe <= Len(stripe)
      BY DEF Facts, PayoutRows
    <3>4. account' = [account EXCEPT ![u] = new]
      BY <2>2
    <3> HIDE DEF new, u
    <3>5. account' \in [Users -> PayoutRow]
      BY <2>1, <3>2, <3>3, <3>4
    <3>6. \A o \in Users : account'[o] = IF o = u THEN new ELSE account[o]
      BY <2>1, <3>3, <3>4
    <3> QED BY <3>2, <3>3, <3>5, <3>6
  <2>4. Grows /\ Len(tokens') \in Nat /\ Len(stripe') \in Nat
    BY <2>2, <2>3 DEF Facts, Grows
  <2>5. PayoutRows'
    BY <2>2, <2>3 DEF Facts, PayoutRows, KeysMatch
  <2> QED BY <2>2, <2>4, <2>5, EndCall, KeepSessions DEF Facts
<1>12. ASSUME NEW u \in Users, RowAges(u)
       PROVE  SessionRows' /\ PayoutRows' /\ Held'
  <2>1. /\ account' = [account EXCEPT ![u] = [account[u] EXCEPT !.old = TRUE]]
        /\ UNCHANGED <<role, tokens, overlapped, stripe, remembered, at>>
    BY <1>12 DEF RowAges, sessionVars
  <2>2. /\ account' \in [Users -> PayoutRow]
        /\ \A o \in Users : /\ account'[o].there = account[o].there
                            /\ account'[o].country = account[o].country
                            /\ account'[o].stripe = account[o].stripe
    BY <2>1 DEF Facts, PayoutRows, PayoutRow
  <2>3. Grows
    BY <2>1, <2>2 DEF Facts, Grows
  <2>4. PayoutRows'
    BY <2>1, <2>2 DEF Facts, PayoutRows, KeysMatch
  <2> QED BY <2>1, <2>3, <2>4, KeepCalls, KeepSessions DEF Facts
<1>13. ASSUME NEW u \in Users, StripeForgets(u)
       PROVE  SessionRows' /\ PayoutRows' /\ Held'
  <2>1. /\ remembered' \subseteq remembered
        /\ UNCHANGED <<role, tokens, overlapped, account, stripe, at>>
    BY <1>13 DEF StripeForgets, sessionVars
  <2>2. Grows
    BY <2>1 DEF Facts, Grows
  <2>3. PayoutRows'
    BY <2>1 DEF Facts, PayoutRows, KeysMatch
  <2> QED BY <2>1, <2>2, <2>3, KeepCalls, KeepSessions DEF Facts
<1>14. ASSUME NEW c \in Calls, CallDies(c)
       PROVE  SessionRows' /\ PayoutRows' /\ Held'
  <2>1. UNCHANGED <<role, tokens, overlapped, account, stripe, remembered>> /\ End(c)
    BY <1>14 DEF CallDies, sessionVars, payoutVars
  <2>2. Grows /\ Len(tokens') \in Nat /\ Len(stripe') \in Nat
    BY <2>1 DEF Facts, Grows
  <2> QED BY <2>1, <2>2, EndCall, KeepSessions, KeepPayouts DEF Facts
<1>15. CASE UNCHANGED vars
  <2>1. UNCHANGED <<role, tokens, overlapped, account, stripe, remembered, at>>
    BY <1>15 DEF vars
  <2>2. Grows
    BY <2>1 DEF Facts, Grows
  <2> QED BY <2>1, <2>2, KeepCalls, KeepSessions, KeepPayouts DEF Facts
<1> QED
  BY <1>1, <1>2, <1>3, <1>4, <1>5, <1>6, <1>7, <1>8, <1>9, <1>10, <1>11, <1>12, <1>13, <1>14, <1>15
  DEF Next, Registration, Refresh, Logout, Onboarding

(* Rows and locals keep their shape, and payout accounts and tokens belong *)
(* to registered users, for any number of users, calls and tokens.         *)
THEOREM AccountsTypeCorrect == Spec => []TypeOK
<1>1. Typed => TypeOK
  BY DEF Typed
<1> QED BY <1>1, TypedInit, TypedStep, PTL DEF Spec

-----------------------------------------------------------------------------
(* Payout accounts.  The key of an account is remembered as long as its    *)
(* row is young or a call is about to use it: this is what makes a second  *)
(* accounts.create() find the first one's account.                         *)
AccountOfRow ==
  \A a \in DOMAIN stripe : /\ account[stripe[a].user].there
                           /\ account[stripe[a].user].country = stripe[a].country
OneEach == \A a, b \in DOMAIN stripe : stripe[a].user = stripe[b].user => a = b
SavedIsMade == \A u \in Users : account[u].stripe # 0 => stripe[account[u].stripe].user = u
KeyInTime ==
  \A a \in DOMAIN stripe :
    \/ ~ account[stripe[a].user].old
    \/ \E c \in Calls : at[c].pc = "account" /\ at[c].user = stripe[a].user
    => <<stripe[a].user, a>> \in remembered

Payouts == AccountOfRow /\ OneEach /\ SavedIsMade /\ KeyInTime

(* A step that leaves the accounts alone and brings no call to the creation*)
(* of one.                                                                 *)
LEMMA KeepPayoutAccounts ==
  ASSUME Payouts, UNCHANGED <<account, stripe, remembered>>,
         \A c \in Calls : at'[c].pc = "account" => at[c].pc = "account" /\ at'[c].user = at[c].user
  PROVE  Payouts'
BY DEF Payouts, AccountOfRow, OneEach, SavedIsMade, KeyInTime

(* Where the other calls are.                                              *)
LEMMA Moved ==
  ASSUME Typed, NEW c \in Calls, NEW to, Step(c, to)
  PROVE  at'[c] = to /\ \A d \in Calls : d # c => at'[d] = at[d]
BY DEF Typed, Held, Step

LEMMA PayoutsInit == Init => Payouts
BY DEF Init, Payouts, AccountOfRow, OneEach, SavedIsMade, KeyInTime, NoAccount

LEMMA PayoutsStep == Typed /\ Payouts /\ [Next]_vars => Payouts'
<1> SUFFICES ASSUME Typed, Payouts, [Next]_vars PROVE Payouts'
  OBVIOUS
<1> USE Unfold
<1>c. \A c \in Calls : at[c] \in Locals /\ Sound(at[c], role, tokens, account, stripe)
  BY DEF Facts, Held, Sound
<1>1. ASSUME NEW c \in Calls, NEW to, Step(c, to), to.pc # "account",
             UNCHANGED <<account, stripe, remembered>>
      PROVE  Payouts'
  BY <1>1, Moved, KeepPayoutAccounts
<1>2. ASSUME NEW c \in Calls, Registration(c) \/ Refresh(c) \/ Logout(c) \/ CallDies(c)
             \/ (\E u \in Users, client \in {"web", "mobile"} : Login(c, u, client))
             \/ RevokeToken(c) \/ IssueTokens(c)
      PROVE  Payouts'
  <2>1. UNCHANGED <<account, stripe, remembered>>
    BY <1>2 DEF Registration, Refresh, Logout, CallDies, Login, RevokeToken, IssueTokens, Register,
                CreateUser, Present, FindUser, payoutVars
  <2>2. \A pc : [at[c] EXCEPT !.pc = pc].pc = pc
    BY <1>c DEF Locals
  <2>3. ASSUME NEW pc \in Pcs \ {"account"}, Goto(c, pc)
        PROVE  Payouts'
    BY <1>1, <2>1, <2>2, <2>3 DEF Goto
  <2>4. ASSUME End(c)
        PROVE  Payouts'
    <3>1. Idle.pc = "idle"
      BY DEF Idle
    <3> QED BY <1>1, <2>1, <2>4, <3>1 DEF End
  <2>5. ASSUME NEW pc \in Pcs \ {"account"}, NEW to, to.pc = pc, Step(c, to)
        PROVE  Payouts'
    BY <1>1, <2>1, <2>5
  <2>6. CASE Registration(c)
    <3>1. ASSUME NEW u \in Users, NEW wanted \in Roles, Register(c, u, wanted)
          PROVE  Payouts'
      <4>1. [Idle EXCEPT !.pc = "create", !.user = u, !.role = wanted].pc = "create"
        BY DEF Idle
      <4> QED BY <2>5, <3>1, <4>1 DEF Register, Pcs
    <3>2. CASE CreateUser(c)
      BY <2>3, <2>4, <3>2 DEF CreateUser, Pcs
    <3> QED BY <2>6, <3>1, <3>2 DEF Registration
  <2>7. CASE Refresh(c) \/ Logout(c)
    <3>1. ASSUME NEW t \in DOMAIN tokens, NEW pc \in {"find", "logout"}, Present(c, t, pc)
          PROVE  Payouts'
      <4>1. [Idle EXCEPT !.pc = pc, !.user = tokens[t].user, !.token = t].pc = pc
        BY DEF Idle
      <4> QED BY <2>5, <3>1, <4>1 DEF Present, Pcs
    <3>2. ASSUME NEW client, FindUser(c, client)
          PROVE  Payouts'
      BY <2>3, <2>4, <3>2 DEF FindUser, Pcs
    <3> QED BY <2>7, <3>1, <3>2 DEF Refresh, Logout
  <2>8. ASSUME NEW u \in Users, NEW client, Login(c, u, client)
        PROVE  Payouts'
    <3>1. [Idle EXCEPT !.pc = "issue", !.user = u].pc = "issue"
      BY DEF Idle
    <3> QED BY <2>5, <2>8, <3>1 DEF Login, Pcs
  <2>9. CASE CallDies(c) \/ RevokeToken(c) \/ IssueTokens(c)
    BY <2>3, <2>4, <2>9 DEF CallDies, RevokeToken, IssueTokens, Pcs
  <2> QED BY <1>2, <2>6, <2>7, <2>8, <2>9
<1>3. ASSUME NEW c \in Calls, NEW u \in Users, NEW country \in Countries, Onboard(c, u, country)
      PROVE  Payouts'
  <2> DEFINE row == Claimed(u, country)
  <2>1. row.there /\ (account[u].there => row = account[u]) /\ (~ account[u].there => row.stripe = 0)
    BY DEF Claimed, NoAccount, Facts, PayoutRows, PayoutRow
  <2>2. /\ account' = [account EXCEPT ![u] = row]
        /\ UNCHANGED <<stripe, remembered>>
        /\ \/ End(c)
           \/ ~ row.old /\ Step(c, [Idle EXCEPT !.pc = "account", !.user = u, !.country = country])
    BY <1>3 DEF Onboard
  <2> HIDE DEF row
  <2>3. account'[u] = row /\ \A o \in Users : o # u => account'[o] = account[o]
    BY <2>2 DEF Facts, PayoutRows
  <2>4. \A a \in DOMAIN stripe : stripe[a].user \in Users /\ account[stripe[a].user].there
    BY DEF Facts, StripeAccounts, Payouts, AccountOfRow
  <2>5. \A a \in DOMAIN stripe : account'[stripe[a].user] = account[stripe[a].user]
    BY <2>1, <2>3, <2>4
  <2>6. AccountOfRow' /\ OneEach'
    BY <2>2, <2>5 DEF Payouts, AccountOfRow, OneEach
  <2>7. SavedIsMade'
    BY <2>1, <2>2, <2>3 DEF Payouts, SavedIsMade
  <2>8. \A d \in Calls : at'[d].pc = "account" =>
          (at[d].pc = "account" /\ at'[d].user = at[d].user) \/ (at'[d].user = u /\ ~ row.old)
    <3>1. [Idle EXCEPT !.pc = "account", !.user = u, !.country = country].user = u /\ Idle.pc = "idle"
      BY DEF Idle
    <3>2. CASE End(c)
      <4>1. at'[c] = Idle /\ \A d \in Calls : d # c => at'[d] = at[d]
        BY <3>2, Moved DEF End
      <4> QED BY <3>1, <4>1
    <3>3. CASE ~ row.old /\ Step(c, [Idle EXCEPT !.pc = "account", !.user = u, !.country = country])
      <4> DEFINE to == [Idle EXCEPT !.pc = "account", !.user = u, !.country = country]
      <4>1. at'[c] = to /\ \A d \in Calls : d # c => at'[d] = at[d]
        BY <3>3, Moved
      <4>2. to.user = u /\ ~ row.old
        BY <3>1, <3>3
      <4> HIDE DEF to
      <4> QED BY <4>1, <4>2
    <3> QED BY <2>2, <3>2, <3>3
  <2>9. KeyInTime'
    BY <2>1, <2>2, <2>4, <2>5, <2>8 DEF Payouts, KeyInTime
  <2> QED BY <2>6, <2>7, <2>9 DEF Payouts
<1>4. ASSUME NEW c \in Calls, CreateAccount(c)
      PROVE  Payouts'
  <2> DEFINE u == at[c].user
             known == {a \in DOMAIN stripe : <<u, a>> \in remembered}
  <2>1. u \in Users /\ at[c].pc = "account" /\ account[u].there /\ account[u].country = at[c].country
    BY <1>4, <1>c DEF CreateAccount, Sound
  <2>2. UNCHANGED account
    BY <1>4 DEF CreateAccount
  <2>3. CASE known # {}
    <3>1. PICK a \in known : Step(c, [at[c] EXCEPT !.pc = "save", !.made = a])
      BY <1>4, <2>3 DEF CreateAccount
    <3>2. [at[c] EXCEPT !.pc = "save", !.made = a].pc = "save"
      BY <1>c DEF Locals
    <3> QED BY <1>1, <1>4, <2>2, <2>3, <3>1, <3>2 DEF CreateAccount
  <2>4. CASE known = {}
    <3> DEFINE new == Len(stripe) + 1
               made == [user |-> u, country |-> at[c].country]
    <3>1. /\ stripe' = Append(stripe, made) /\ remembered' = remembered \cup {<<u, new>>}
          /\ Step(c, [at[c] EXCEPT !.pc = "save", !.made = new])
      BY <1>4, <2>4 DEF CreateAccount
    <3>2. \A a \in DOMAIN stripe : stripe[a].user # u
      BY <2>1, <2>4 DEF Payouts, KeyInTime
    <3>3. made.user = u /\ made.country = at[c].country
      OBVIOUS
    <3> HIDE DEF made
    <3>4. /\ DOMAIN stripe' = 1 .. new
          /\ stripe'[new] = made /\ \A a \in DOMAIN stripe : stripe'[a] = stripe[a]
      BY <3>1 DEF Facts, PayoutRows
    <3>5. \A d \in Calls : at'[d].pc = "account" => at[d].pc = "account" /\ at'[d].user = at[d].user
      <4>1. [at[c] EXCEPT !.pc = "save", !.made = new].pc = "save"
        BY <1>c DEF Locals
      <4> QED BY <3>1, <4>1, Moved
    <3>6. AccountOfRow' /\ OneEach'
      BY <2>1, <2>2, <3>2, <3>3, <3>4 DEF Payouts, AccountOfRow, OneEach, Facts
    <3>7. SavedIsMade'
      <4>1. \A o \in Users : account[o].stripe # 0 => account[o].stripe \in DOMAIN stripe
        BY DEF Facts, PayoutRows, PayoutRow
      <4> QED BY <2>2, <3>4, <4>1 DEF Payouts, SavedIsMade
    <3>8. KeyInTime'
      BY <2>2, <3>1, <3>3, <3>4, <3>5 DEF Payouts, KeyInTime, Facts
    <3> QED BY <3>6, <3>7, <3>8 DEF Payouts
  <2> QED BY <2>3, <2>4
<1>5. ASSUME NEW c \in Calls, SaveAccount(c)
      PROVE  Payouts'
  <2> DEFINE u == at[c].user
  <2>1. u \in Users /\ stripe[at[c].made].user = u
    BY <1>5, <1>c DEF SaveAccount, Sound
  <2>2. /\ account' = [account EXCEPT ![u] = [account[u] EXCEPT !.stripe = at[c].made]]
        /\ End(c) /\ UNCHANGED <<stripe, remembered>>
    BY <1>5 DEF SaveAccount, sessionVars
  <2>3. /\ account'[u].stripe = at[c].made /\ \A o \in Users : o # u => account'[o] = account[o]
        /\ \A o \in Users : /\ account'[o].there = account[o].there
                            /\ account'[o].country = account[o].country
                            /\ account'[o].old = account[o].old
    BY <2>1, <2>2 DEF Facts, PayoutRows, PayoutRow
  <2>4. \A d \in Calls : at'[d].pc = "account" => at'[d] = at[d]
    BY <2>2, Moved DEF End, Idle
  <2>5. \A a \in DOMAIN stripe : stripe[a].user \in Users
    BY DEF Facts, StripeAccounts
  <2>6. AccountOfRow' /\ OneEach' /\ SavedIsMade'
    BY <2>1, <2>2, <2>3, <2>5 DEF Payouts, AccountOfRow, OneEach, SavedIsMade
  <2>7. KeyInTime'
    BY <2>2, <2>3, <2>4, <2>5 DEF Payouts, KeyInTime
  <2> QED BY <2>6, <2>7 DEF Payouts
<1>6. ASSUME NEW u \in Users, RowAges(u)
      PROVE  Payouts'
  <2>1. /\ account' = [account EXCEPT ![u] = [account[u] EXCEPT !.old = TRUE]]
        /\ UNCHANGED <<stripe, remembered, at>>
    BY <1>6 DEF RowAges, sessionVars
  <2>2. /\ \A o \in Users : /\ account'[o].there = account[o].there
                            /\ account'[o].country = account[o].country
                            /\ account'[o].stripe = account[o].stripe
                            /\ account[o].old => account'[o].old
    BY <2>1 DEF Facts, PayoutRows, PayoutRow
  <2>3. \A a \in DOMAIN stripe : stripe[a].user \in Users
    BY DEF Facts, StripeAccounts
  <2> QED BY <2>1, <2>2, <2>3 DEF Payouts, AccountOfRow, OneEach, SavedIsMade, KeyInTime
<1>7. ASSUME NEW u \in Users, StripeForgets(u)
      PROVE  Payouts'
  <2>1. /\ UNCHANGED <<account, stripe, at>> /\ account[u].old
        /\ \A c \in Calls : ~ (at[c].user = u /\ at[c].pc = "account")
        /\ \A p \in remembered : p[1] # u => p \in remembered'
    BY <1>7 DEF StripeForgets
  <2>2. AccountOfRow' /\ OneEach' /\ SavedIsMade'
    BY <2>1 DEF Payouts, AccountOfRow, OneEach, SavedIsMade
  <2>3. KeyInTime'
    BY <2>1 DEF Payouts, KeyInTime
  <2> QED BY <2>2, <2>3 DEF Payouts
<1>8. CASE UNCHANGED vars
  BY <1>8, KeepPayoutAccounts DEF vars
<1>9. ASSUME NEW t \in DOMAIN tokens, ExpireToken(t)
      PROVE  Payouts'
  BY <1>9, KeepPayoutAccounts DEF ExpireToken, payoutVars
<1> QED BY <1>2, <1>3, <1>4, <1>5, <1>6, <1>7, <1>8, <1>9 DEF Next, Onboarding

(* A contributor is paid into one account, in the country the row is       *)
(* locked to, for any number of simultaneous calls, deaths and returns     *)
(* after Stripe forgot the key.                                            *)
THEOREM OnePayoutAccountAlways == Spec => []OnePayoutAccount
<1>1. Typed /\ Payouts => OnePayoutAccount
  <2> SUFFICES ASSUME Typed, Payouts, NEW u \in Users
               PROVE  LET made == {a \in DOMAIN stripe : stripe[a].user = u} IN
                      /\ Cardinality(made) <= 1
                      /\ \A a \in made : stripe[a].country = account[u].country
                      /\ account[u].stripe # 0 => account[u].stripe \in made
    BY DEF OnePayoutAccount
  <2> DEFINE made == {a \in DOMAIN stripe : stripe[a].user = u}
  <2>1. Cardinality(made) <= 1
    <3>1. CASE made = {}
      BY <3>1, FS_EmptySet
    <3>2. CASE made # {}
      <4>1. PICK a \in made : TRUE
        BY <3>2
      <4>2. made = {a}
        BY <4>1 DEF Payouts, OneEach
      <4>3. Cardinality({a}) = 1
        BY FS_Singleton
      <4> HIDE DEF made
      <4> QED BY <4>2, <4>3
    <3> QED BY <3>1, <3>2
  <2>2. \A a \in made : stripe[a].country = account[u].country
    BY DEF Payouts, AccountOfRow
  <2>3. account[u].stripe # 0 => account[u].stripe \in made
    BY Unfold DEF Facts, PayoutRows, PayoutRow, Payouts, SavedIsMade
  <2> QED BY <2>1, <2>2, <2>3
<1> QED BY <1>1, TypedInit, TypedStep, PayoutsInit, PayoutsStep, PTL DEF Spec

-----------------------------------------------------------------------------
(* Sessions.  The token a call holds is the only one of its session that   *)
(* can be active, and is revoked when the call comes to issue the next.    *)
Active(s) == {t \in DOMAIN tokens : tokens[t].session = s /\ tokens[t].state = "active"}

SpentIsRevoked ==
  /\ \A t \in DOMAIN tokens : tokens[t].parent # 0 => tokens[tokens[t].parent].state = "revoked"
  /\ \A c \in Calls : at[c].pc = "issue" /\ at[c].token # 0 => tokens[at[c].token].state = "revoked"
OneActive ==
  \A s \in DOMAIN tokens \ overlapped : \A t1, t2 \in Active(s) : t1 = t2
Alone ==
  \A c, d \in Calls : c # d /\ at[c].token # 0 /\ at[d].token # 0 /\ Session(at[c].token) = Session(at[d].token)
                      => Session(at[c].token) \in overlapped
HoldsActive ==
  \A c \in Calls : at[c].token # 0 /\ Session(at[c].token) \notin overlapped =>
                     \A t \in Active(Session(at[c].token)) : t = at[c].token /\ at[c].pc # "issue"

Rotation == SpentIsRevoked /\ OneActive /\ Alone /\ HoldsActive

(* A step that leaves the tokens alone and brings no call to one.          *)
LEMMA KeepRotation ==
  ASSUME Typed, Rotation, UNCHANGED <<tokens, overlapped>>,
         \A c \in Calls : at'[c].token # 0 => /\ at'[c].token = at[c].token
                                              /\ at'[c].pc = "issue" => at[c].pc = "issue"
  PROVE  Rotation'
<1>1. SpentIsRevoked' /\ OneActive'
  BY DEF Rotation, SpentIsRevoked, OneActive, Active
<1>2. Alone'
  BY DEF Rotation, Alone, Session
<1>3. HoldsActive'
  BY DEF Rotation, HoldsActive, Session, Active
<1> QED BY <1>1, <1>2, <1>3 DEF Rotation

LEMMA RotationInit == Init => Rotation
BY DEF Init, Rotation, SpentIsRevoked, OneActive, Alone, HoldsActive, Active, Idle

LEMMA RotationStep == Typed /\ Rotation /\ [Next]_vars => Rotation'
<1> SUFFICES ASSUME Typed, Rotation, [Next]_vars PROVE Rotation'
  OBVIOUS
<1> USE Unfold
<1>c. \A c \in Calls : at[c] \in Locals /\ Sound(at[c], role, tokens, account, stripe)
  BY DEF Facts, Held, Sound
<1>t. \A c \in Calls : at[c].token # 0 => at[c].token \in DOMAIN tokens
  BY <1>c DEF Facts, Sound
<1>s. \A t \in DOMAIN tokens : tokens[t].session \in DOMAIN tokens /\ tokens[t].session <= t
  BY DEF Facts, SessionRows
<1>i. Idle.token = 0
  BY DEF Idle
<1>1. ASSUME NEW c \in Calls, NEW to, Step(c, to), UNCHANGED <<tokens, overlapped>>,
             to.token = 0 \/ (to.token = at[c].token /\ (to.pc = "issue" => at[c].pc = "issue"))
      PROVE  Rotation'
  BY <1>1, Moved, KeepRotation
<1>2. ASSUME NEW c \in Calls, End(c), UNCHANGED <<tokens, overlapped>>
      PROVE  Rotation'
  BY <1>1, <1>2, <1>i DEF End
<1>3. ASSUME NEW c \in Calls, Registration(c)
      PROVE  Rotation'
  <2>1. UNCHANGED <<tokens, overlapped>>
    BY <1>3 DEF Registration, Register, CreateUser, sessionVars
  <2>2. ASSUME NEW u \in Users, NEW wanted \in Roles, Register(c, u, wanted)
        PROVE  Rotation'
    <3>1. [Idle EXCEPT !.pc = "create", !.user = u, !.role = wanted].token = 0
      BY DEF Idle
    <3> QED BY <1>1, <2>1, <2>2, <3>1 DEF Register
  <2>3. CASE CreateUser(c)
    <3>1. at[c].token = 0
      BY <1>c, <2>3 DEF CreateUser, Sound
    <3>2. [at[c] EXCEPT !.pc = "issue"].token = 0
      BY <1>c, <3>1 DEF Locals
    <3> QED BY <1>1, <1>2, <2>1, <2>3, <3>2 DEF CreateUser, Goto
  <2> QED BY <1>3, <2>2, <2>3 DEF Registration
<1>4. ASSUME NEW c \in Calls, NEW u \in Users, NEW client, Login(c, u, client)
      PROVE  Rotation'
  <2>1. [Idle EXCEPT !.pc = "issue", !.user = u].token = 0
    BY DEF Idle
  <2> QED BY <1>1, <1>4, <2>1 DEF Login, sessionVars
<1>5. ASSUME NEW c \in Calls, Onboarding(c) \/ CallDies(c) \/ (\E client \in {"web", "mobile"} : FindUser(c, client))
      PROVE  Rotation'
  <2>1. UNCHANGED <<tokens, overlapped>>
    BY <1>5 DEF Onboarding, Onboard, CreateAccount, SaveAccount, CallDies, FindUser, sessionVars
  <2>2. ASSUME NEW u \in Users, NEW country \in Countries, Onboard(c, u, country)
        PROVE  Rotation'
    <3>1. [Idle EXCEPT !.pc = "account", !.user = u, !.country = country].token = 0
      BY DEF Idle
    <3> QED BY <1>1, <1>2, <2>1, <2>2, <3>1 DEF Onboard
  <2>3. CASE CreateAccount(c)
    <3>1. at[c].token = 0
      BY <1>c, <2>3 DEF CreateAccount, Sound
    <3>2. \A a : [at[c] EXCEPT !.pc = "save", !.made = a].token = 0
      BY <1>c, <3>1 DEF Locals
    <3>3. PICK a : Step(c, [at[c] EXCEPT !.pc = "save", !.made = a])
      BY <2>3 DEF CreateAccount
    <3> QED BY <1>1, <2>1, <3>2, <3>3
  <2>4. CASE SaveAccount(c) \/ CallDies(c)
    BY <1>2, <2>1, <2>4 DEF SaveAccount, CallDies
  <2>5. ASSUME NEW client, FindUser(c, client)
        PROVE  Rotation'
    <3>1. /\ [at[c] EXCEPT !.pc = "revoke"].token = at[c].token
          /\ [at[c] EXCEPT !.pc = "revoke"].pc = "revoke"
      BY <1>c DEF Locals
    <3> QED BY <1>1, <1>2, <2>1, <2>5, <3>1 DEF FindUser, Goto
  <2> QED BY <1>5, <2>2, <2>3, <2>4, <2>5 DEF Onboarding
<1>6. ASSUME NEW c \in Calls, NEW t \in DOMAIN tokens, NEW pc \in {"find", "logout"}, Present(c, t, pc)
      PROVE  Rotation'
  <2> DEFINE to == [Idle EXCEPT !.pc = pc, !.user = tokens[t].user, !.token = t]
             s == tokens[t].session
  <2>1. to.pc = pc /\ to.token = t
    BY DEF Idle
  <2>2. Step(c, to) /\ UNCHANGED tokens /\ at[c].pc = "idle" /\ tokens[t].state = "active"
    BY <1>6 DEF Present
  <2>3. overlapped' = overlapped \cup {x \in {s} : \E d \in Calls : at[d].token # 0 /\ Session(at[d].token) = x}
    BY <1>6 DEF Present, InUse, Session
  <2> HIDE DEF to
  <2>4. at'[c] = to /\ \A d \in Calls : d # c => at'[d] = at[d]
    BY <2>2, Moved
  <2>5. at[c].token = 0
    BY <1>c, <2>2 DEF Sound
  <2>6. SpentIsRevoked'
    BY <2>1, <2>2, <2>4 DEF Rotation, SpentIsRevoked
  <2>7. OneActive'
    BY <2>2, <2>3 DEF Rotation, OneActive, Active
  <2>8. Alone'
    BY <2>1, <2>2, <2>3, <2>4 DEF Rotation, Alone, Session
  <2>9. HoldsActive'
    <3> SUFFICES ASSUME NEW d \in Calls, at'[d].token # 0, Session(at[d].token)' \notin overlapped',
                        NEW a \in Active(Session(at[d].token))'
                 PROVE  a = at'[d].token /\ at'[d].pc # "issue"
      BY DEF HoldsActive
    <3>1. CASE d = c
      <4>1. s \in DOMAIN tokens /\ s \notin overlapped /\ t \in Active(s) /\ a \in Active(s)
        BY <1>s, <2>1, <2>2, <2>3, <2>4, <3>1 DEF Session, Active
      <4> QED BY <2>1, <2>4, <3>1, <4>1 DEF Rotation, OneActive
    <3>2. CASE d # c
      BY <2>2, <2>3, <2>4, <3>2 DEF Rotation, HoldsActive, Session, Active
    <3> QED BY <3>1, <3>2
  <2> QED BY <2>6, <2>7, <2>8, <2>9 DEF Rotation
<1>7. ASSUME NEW t \in DOMAIN tokens, NEW state \in {"revoked", "expired"},
             tokens' = [tokens EXCEPT ![t].state = state], UNCHANGED overlapped,
             state = "expired" => tokens[t].state = "active",
             \A c \in Calls : at'[c].token # 0 =>
               /\ at'[c].token = at[c].token
               /\ at'[c].pc = "issue" /\ at[c].pc # "issue" => at[c].token = t /\ state = "revoked"
      PROVE  Rotation'
  <2>1. /\ DOMAIN tokens' = DOMAIN tokens
        /\ \A x \in DOMAIN tokens : /\ tokens'[x].parent = tokens[x].parent
                                    /\ tokens'[x].session = tokens[x].session
                                    /\ tokens'[x].state = IF x = t THEN state ELSE tokens[x].state
    BY <1>7, SameLength
  <2>2. \A x \in DOMAIN tokens : tokens[x].parent # 0 => tokens[x].parent \in DOMAIN tokens
    BY DEF Facts, SessionRows
  <2>3. \A x \in DOMAIN tokens : tokens[x].state = "revoked" => tokens'[x].state = "revoked"
    BY <1>7, <2>1
  <2>4. SpentIsRevoked'
    <3>1. \A x \in DOMAIN tokens' : tokens'[x].parent # 0 => tokens'[tokens'[x].parent].state = "revoked"
      BY <2>1, <2>2, <2>3 DEF Rotation, SpentIsRevoked
    <3>2. \A c \in Calls : at'[c].pc = "issue" /\ at'[c].token # 0 => tokens'[at'[c].token].state = "revoked"
      BY <1>7, <1>t, <2>1, <2>3 DEF Rotation, SpentIsRevoked
    <3> QED BY <3>1, <3>2 DEF SpentIsRevoked
  <2>5. \A s \in DOMAIN tokens : Active(s)' \subseteq Active(s) /\ t \notin Active(s)'
    BY <1>7, <2>1 DEF Active
  <2>6. OneActive'
    BY <1>7, <2>1, <2>5 DEF Rotation, OneActive
  <2>7. \A c \in Calls : at'[c].token # 0 =>
          at[c].token = at'[c].token /\ Session(at[c].token)' = Session(at[c].token)
    BY <1>7, <1>t, <2>1 DEF Session
  <2>8. Alone'
    BY <1>7, <2>7 DEF Rotation, Alone
  <2>9. HoldsActive'
    <3> SUFFICES ASSUME NEW d \in Calls, at'[d].token # 0, Session(at[d].token)' \notin overlapped',
                        NEW a \in Active(Session(at[d].token))'
                 PROVE  a = at'[d].token /\ at'[d].pc # "issue"
      BY DEF HoldsActive
    <3> DEFINE s == Session(at[d].token)
    <3>1. at[d].token = at'[d].token /\ at[d].token \in DOMAIN tokens /\ s \in DOMAIN tokens /\ s \notin overlapped
      BY <1>7, <1>s, <1>t, <2>7 DEF Session
    <3>2. a \in Active(s) /\ a # t
      BY <2>5, <2>7, <3>1
    <3>3. a = at[d].token /\ at[d].pc # "issue"
      BY <3>1, <3>2 DEF Rotation, HoldsActive
    <3> QED BY <1>7, <3>1, <3>2, <3>3
  <2> QED BY <2>4, <2>6, <2>8, <2>9 DEF Rotation
<1>8. ASSUME NEW c \in Calls, RevokeToken(c)
      PROVE  Rotation'
  <2>1. at[c].token \in DOMAIN tokens /\ at[c].token # 0
    BY <1>8, <1>c, <1>t DEF RevokeToken, Sound
  <2>2. [at[c] EXCEPT !.pc = "issue"].token = at[c].token
    BY <1>c DEF Locals
  <2>3. \A d \in Calls : at'[d].token # 0 =>
          /\ at'[d].token = at[d].token
          /\ at'[d].pc = "issue" /\ at[d].pc # "issue" => at[d].token = at[c].token
    BY <1>8, <1>i, <2>2, Moved DEF RevokeToken, Goto, End
  <2> QED BY <1>7, <1>8, <2>1, <2>3 DEF RevokeToken
<1>9. ASSUME NEW t \in DOMAIN tokens, ExpireToken(t)
      PROVE  Rotation'
  BY <1>7, <1>9 DEF ExpireToken
<1>10. ASSUME NEW c \in Calls, IssueTokens(c)
       PROVE  Rotation'
  <2> DEFINE n == Len(tokens) + 1
             old == at[c].token
             new == [user |-> at[c].user, state |-> "active", parent |-> old,
                     session |-> IF old = 0 THEN n ELSE Session(old)]
  <2>1. /\ new.state = "active" /\ new.parent = old
        /\ old = 0 => new.session = n
        /\ old # 0 => new.session = tokens[old].session
    BY DEF Session
  <2>2. tokens' = Append(tokens, new) /\ End(c) /\ UNCHANGED overlapped /\ at[c].pc = "issue"
    BY <1>10 DEF IssueTokens
  <2> HIDE DEF new
  <2>3. /\ DOMAIN tokens' = 1 .. n /\ n \notin DOMAIN tokens /\ n # 0
        /\ tokens'[n] = new /\ \A t \in DOMAIN tokens : tokens'[t] = tokens[t]
    BY <2>2 DEF Facts, SessionRows
  <2>4. at'[c] = Idle /\ \A d \in Calls : d # c => at'[d] = at[d]
    BY <2>2, Moved DEF End
  <2>5. old = 0 \/ old \in DOMAIN tokens
    BY <1>t
  <2>6. \A d \in Calls : at'[d].token # 0 => d # c /\ at'[d] = at[d] /\ at[d].token \in DOMAIN tokens
    BY <1>i, <1>t, <2>4
  <2>7. SpentIsRevoked'
    <3>1. \A t \in DOMAIN tokens : tokens[t].parent # 0 => tokens[t].parent \in DOMAIN tokens
      BY DEF Facts, SessionRows
    <3>2. \A t \in DOMAIN tokens' : tokens'[t].parent # 0 => tokens'[tokens'[t].parent].state = "revoked"
      <4> SUFFICES ASSUME NEW t \in DOMAIN tokens', tokens'[t].parent # 0
                   PROVE  tokens'[tokens'[t].parent].state = "revoked"
        OBVIOUS
      <4>1. CASE t = n
        BY <2>1, <2>2, <2>3, <2>5, <4>1 DEF Rotation, SpentIsRevoked
      <4>2. CASE t # n
        <5>1. t \in DOMAIN tokens
          BY <2>3, <4>2 DEF Facts
        <5> QED BY <2>3, <3>1, <5>1 DEF Rotation, SpentIsRevoked
      <4> QED BY <4>1, <4>2
    <3>3. \A d \in Calls : at'[d].pc = "issue" /\ at'[d].token # 0 => tokens'[at'[d].token].state = "revoked"
      BY <2>3, <2>6 DEF Rotation, SpentIsRevoked
    <3> QED BY <3>2, <3>3 DEF SpentIsRevoked
  (* The new token joins the session of the old one, or begins one.        *)
  <2>8. \A s : Active(s)' \subseteq Active(s) \cup {n} /\ (s # new.session => n \notin Active(s)')
    BY <2>3 DEF Active, Facts
  <2>9. Active(n) = {}
    BY <1>s, <2>3 DEF Active, Facts
  <2>10. old # 0 /\ new.session \notin overlapped => Active(new.session) = {}
    BY <2>1, <2>2 DEF Rotation, HoldsActive, Session
  <2>11. new.session \notin overlapped => Active(new.session) = {}
    BY <2>1, <2>9, <2>10
  <2>12. OneActive'
    <3> SUFFICES ASSUME NEW s \in DOMAIN tokens', s \notin overlapped, NEW t1 \in Active(s)', NEW t2 \in Active(s)'
                 PROVE  t1 = t2
      BY <2>2 DEF OneActive
    <3>1. CASE s = new.session
      BY <2>8, <2>11, <3>1
    <3>2. CASE s # new.session
      <4>1. t1 \in Active(s) /\ t2 \in Active(s)
        BY <2>8, <3>2
      <4>2. s \in DOMAIN tokens
        BY <1>s, <4>1 DEF Active
      <4> QED BY <4>1, <4>2 DEF Rotation, OneActive
    <3> QED BY <3>1, <3>2
  <2>13. \A d \in Calls : at'[d].token # 0 => Session(at[d].token)' = Session(at[d].token)
    BY <2>3, <2>6 DEF Session
  <2>14. Alone'
    BY <2>2, <2>6, <2>13 DEF Rotation, Alone
  <2>15. HoldsActive'
    <3> SUFFICES ASSUME NEW d \in Calls, at'[d].token # 0, Session(at[d].token)' \notin overlapped',
                        NEW a \in Active(Session(at[d].token))'
                 PROVE  a = at'[d].token /\ at'[d].pc # "issue"
      BY DEF HoldsActive
    <3>1. d # c /\ at'[d] = at[d] /\ at[d].token \in DOMAIN tokens /\ at[d].token # 0
      BY <2>6
    <3>2. PICK s \in DOMAIN tokens : s = Session(at[d].token)
      BY <1>s, <3>1 DEF Session
    <3>3. a \in Active(s)' /\ s \notin overlapped
      BY <2>2, <2>13, <3>2
    <3>4. s # new.session
      <4>1. CASE old = 0
        BY <2>1, <2>3, <4>1
      <4>2. CASE old # 0
        BY <2>1, <3>2, <3>1, <3>3, <4>2 DEF Rotation, Alone, Session
      <4> QED BY <4>1, <4>2
    <3>5. a \in Active(s)
      BY <2>8, <3>3, <3>4
    <3> QED BY <3>2, <3>1, <3>3, <3>5 DEF Rotation, HoldsActive
  <2> QED BY <2>7, <2>12, <2>14, <2>15 DEF Rotation
<1>11. ASSUME NEW u \in Users, RowAges(u) \/ StripeForgets(u)
       PROVE  Rotation'
  BY <1>11, KeepRotation DEF RowAges, StripeForgets, sessionVars
<1>12. CASE UNCHANGED vars
  BY <1>12, KeepRotation DEF vars
<1> QED
  BY <1>3, <1>4, <1>5, <1>6, <1>8, <1>9, <1>10, <1>11, <1>12 DEF Next, Refresh, Logout

(* Refresh tokens rotate, for any number of calls that die, lose answers   *)
(* and are shown old tokens: what was exchanged is revoked, and a session  *)
(* without overlapping calls has one token that can be exchanged.          *)
THEOREM RotatedAlways == Spec => []Rotated
<1>1. Typed /\ Rotation => Rotated
  <2> SUFFICES ASSUME Typed, Rotation, NEW s \in DOMAIN tokens \ overlapped
               PROVE  Cardinality({t \in DOMAIN tokens : Session(t) = s /\ tokens[t].state = "active"}) <= 1
    BY DEF Rotated, Rotation, SpentIsRevoked
  <2>1. {t \in DOMAIN tokens : Session(t) = s /\ tokens[t].state = "active"} = Active(s)
    BY DEF Session, Active
  <2>2. CASE Active(s) = {}
    BY <2>1, <2>2, FS_EmptySet
  <2>3. CASE Active(s) # {}
    <3>1. PICK t : t \in Active(s)
      BY <2>3
    <3>2. Active(s) = {t}
      BY <3>1 DEF Rotation, OneActive
    <3>3. Cardinality({t}) = 1
      BY FS_Singleton
    <3> QED BY <2>1, <3>2, <3>3
  <2> QED BY <2>2, <2>3
<1> QED BY <1>1, TypedInit, TypedStep, RotationInit, RotationStep, PTL DEF Spec
====
