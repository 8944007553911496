------------------------------ MODULE Accounts ------------------------------
(***************************************************************************)
(* People of the server: registration and sessions (src/src/auth,          *)
(* src/src/users) and the contributors' payout accounts (onboard() of      *)
(* src/src/settlement/settlement.service.ts).  Calls run into each other   *)
(* at every await and may die there.                                       *)
(*                                                                         *)
(* An access token is valid for a quarter of an hour whatever happens to   *)
(* its session, and no row knows of it: only refresh tokens are modelled.  *)
(* Passwords, hashes and signatures are correct.                           *)
(***************************************************************************)
EXTENDS Integers, Sequences, FiniteSets

CONSTANTS
  Users,     \* e-mail addresses, unique in the table of users
  Countries, \* those enabled for payouts
  Calls,     \* simultaneous calls
  MaxTokens  \* bound: refresh tokens ever issued

ASSUME BoundsAssumption == MaxTokens \in Nat

VARIABLES
  role,       \* the role of a user, "none" before registration
  tokens,     \* RefreshToken rows in the order of their creation; which token
              \*   (its parent) and session each came from is history
  account,    \* the ContributorAccount row of each user
  stripe,     \* Stripe's accounts, by the contributor they were made for
  remembered, \* <contributor, account>: idempotency keys Stripe remembers
  at,         \* where each call is
  overlapped  \* history: sessions of which two calls ran at the same time

vars == <<role, tokens, account, stripe, remembered, at, overlapped>>
sessionVars == <<role, tokens, overlapped>>
payoutVars == <<account, stripe, remembered>>

Roles == {"user", "buyer"}
NoAccount == [there |-> FALSE, country |-> "none", old |-> FALSE, stripe |-> 0]
Idle == [pc |-> "idle", user |-> "nobody", token |-> 0, role |-> "none", country |-> "none", made |-> 0]

Init ==
  /\ role = [u \in Users |-> "none"]
  /\ tokens = <<>>
  /\ account = [u \in Users |-> NoAccount]
  /\ stripe = <<>> /\ remembered = {}
  /\ at = [c \in Calls |-> Idle]
  /\ overlapped = {}

Step(c, to) == at' = [at EXCEPT ![c] = to]
Goto(c, pc) == Step(c, [at[c] EXCEPT !.pc = pc])
End(c) == Step(c, Idle)

(***************************************************************************)
(* Sessions.                                                               *)
(***************************************************************************)
(* register() and registerBuyer() hash the password ...                    *)
Register(c, u, wanted) ==
  /\ at[c].pc = "idle"
  /\ Step(c, [Idle EXCEPT !.pc = "create", !.user = u, !.role = wanted])
  /\ UNCHANGED <<sessionVars, payoutVars>>

(* An address that is taken gets the role that was asked for.              *)
CreateUserWrong(c) ==
  /\ at[c].pc = "create"
  /\ role' = [role EXCEPT ![at[c].user] = at[c].role]
  /\ Goto(c, "issue")
  /\ UNCHANGED <<tokens, overlapped, payoutVars>>

(* ... and create the user, "Email is already registered" if there is one. *)
CreateUser(c) ==
  LET u == at[c].user IN
  /\ at[c].pc = "create"
  /\ IF role[u] # "none" THEN End(c) /\ UNCHANGED role
     ELSE role' = [role EXCEPT ![u] = at[c].role] /\ Goto(c, "issue")
  /\ UNCHANGED <<tokens, overlapped, payoutVars>>

(* "Buyer and admin accounts must sign in on the website."                 *)
Admitted(u, client) == client = "web" \/ role[u] = "user"

Login(c, u, client) ==
  /\ at[c].pc = "idle"
  /\ role[u] # "none" /\ Admitted(u, client)
  /\ Step(c, [Idle EXCEPT !.pc = "issue", !.user = u])
  /\ UNCHANGED <<sessionVars, payoutVars>>

(* The session of a token is the token it started with.                    *)
Session(t) == tokens[t].session
InUse(s) == {c \in Calls : at[c].token # 0 /\ Session(at[c].token) = s}

(* A token that was refreshed or logged out is accepted until it expires.  *)
PresentWrong(c, t, pc) ==
  /\ at[c].pc = "idle"
  /\ tokens[t].state # "expired"
  /\ Step(c, [Idle EXCEPT !.pc = pc, !.user = tokens[t].user, !.token = t])
  /\ overlapped' = overlapped \cup {s \in {Session(t)} : InUse(s) # {}}
  /\ UNCHANGED <<role, tokens, payoutVars>>

(* verifyRefreshToken() and getActiveRefreshToken() of refresh() and       *)
(* logout(): a token that is neither expired nor revoked.                  *)
Present(c, t, pc) ==
  /\ at[c].pc = "idle"
  /\ tokens[t].state = "active"
  /\ Step(c, [Idle EXCEPT !.pc = pc, !.user = tokens[t].user, !.token = t])
  /\ overlapped' = overlapped \cup {s \in {Session(t)} : InUse(s) # {}}
  /\ UNCHANGED <<role, tokens, payoutVars>>

(* refresh() finds the user; a token shown by the wrong client stays.      *)
FindUser(c, client) ==
  /\ at[c].pc = "find"
  /\ IF Admitted(at[c].user, client) THEN Goto(c, "revoke") ELSE End(c)
  /\ UNCHANGED <<sessionVars, payoutVars>>

(* revokeRefreshToken(): the row is revoked, by whichever call comes       *)
(* first; the others go on all the same.                                   *)
RevokeToken(c) ==
  /\ at[c].pc \in {"revoke", "logout"}
  /\ tokens' = [tokens EXCEPT ![at[c].token].state = "revoked"]
  /\ IF at[c].pc = "revoke" THEN Goto(c, "issue") ELSE End(c)
  /\ UNCHANGED <<role, overlapped, payoutVars>>

(* issueTokens(): the new row.  A token whose answer gets lost is one that *)
(* nobody shows again.                                                     *)
IssueTokens(c) ==
  LET t == Len(tokens) + 1 old == at[c].token IN
  /\ at[c].pc = "issue"
  /\ t <= MaxTokens
  /\ tokens' = Append(tokens, [user |-> at[c].user, state |-> "active", parent |-> old,
                               session |-> IF old = 0 THEN t ELSE Session(old)])
  /\ End(c)
  /\ UNCHANGED <<role, overlapped, payoutVars>>

ExpireToken(t) ==
  /\ tokens[t].state = "active"
  /\ tokens' = [tokens EXCEPT ![t].state = "expired"]
  /\ UNCHANGED <<role, overlapped, payoutVars, at>>

(***************************************************************************)
(* Payout accounts: onboard().                                             *)
(***************************************************************************)
(* The role, the country, and the row, made if there is none.  The country *)
(* is locked to it.  A row without an account is good for 23 hours, the    *)
(* limit of checkRecovery().  Links to Stripe's pages about an account     *)
(* change nothing.                                                         *)
Claimed(u, country) ==
  IF account[u].there THEN account[u] ELSE [NoAccount EXCEPT !.there = TRUE, !.country = country]

(* Without checkRecovery().                                                *)
OnboardWrong(c, u, country) ==
  LET row == Claimed(u, country) IN
  /\ at[c].pc = "idle"
  /\ role[u] = "user"
  /\ account' = [account EXCEPT ![u] = row]
  /\ IF row.country # country \/ row.stripe # 0 THEN End(c)
     ELSE Step(c, [Idle EXCEPT !.pc = "account", !.user = u, !.country = country])
  /\ UNCHANGED <<sessionVars, stripe, remembered>>

Onboard(c, u, country) ==
  LET row == Claimed(u, country) IN
  /\ at[c].pc = "idle"
  /\ role[u] = "user"
  /\ account' = [account EXCEPT ![u] = row]
  /\ IF row.country # country \/ row.stripe # 0 \/ row.old THEN End(c)
     ELSE Step(c, [Idle EXCEPT !.pc = "account", !.user = u, !.country = country])
  /\ UNCHANGED <<sessionVars, stripe, remembered>>

(* accounts.create() with the key "connect-v2:" and the id of the row:     *)
(* what was made under that key, or a new account.                         *)
CreateAccount(c) ==
  LET u == at[c].user
      known == {a \in DOMAIN stripe : <<u, a>> \in remembered}
      new == Len(stripe) + 1 IN
  /\ at[c].pc = "account"
  /\ IF known # {}
     THEN /\ \E a \in known : Step(c, [at[c] EXCEPT !.pc = "save", !.made = a])
          /\ UNCHANGED <<stripe, remembered>>
     ELSE /\ stripe' = Append(stripe, [user |-> u, country |-> at[c].country])
          /\ remembered' = remembered \cup {<<u, new>>}
          /\ Step(c, [at[c] EXCEPT !.pc = "save", !.made = new])
  /\ UNCHANGED <<sessionVars, account>>

(* Written by id, whatever the row says by then.                           *)
SaveAccount(c) ==
  /\ at[c].pc = "save"
  /\ account' = [account EXCEPT ![at[c].user].stripe = at[c].made]
  /\ End(c)
  /\ UNCHANGED <<sessionVars, stripe, remembered>>

(* 23 hours after the row was made ...                                     *)
RowAges(u) ==
  /\ account[u].there /\ ~ account[u].old
  /\ account' = [account EXCEPT ![u].old = TRUE]
  /\ UNCHANGED <<sessionVars, stripe, remembered, at>>

(* ... and 24 after the account was, Stripe forgets the key.  No call is   *)
(* under way for the hour in between.                                      *)
StripeForgets(u) ==
  /\ account[u].old
  /\ \A c \in Calls : ~ (at[c].user = u /\ at[c].pc = "account")
  /\ \E a \in DOMAIN stripe : <<u, a>> \in remembered
  /\ remembered' = {p \in remembered : p[1] # u}
  /\ UNCHANGED <<sessionVars, account, stripe, at>>

CallDies(c) ==
  /\ at[c].pc # "idle"
  /\ End(c)
  /\ UNCHANGED <<sessionVars, payoutVars>>

-----------------------------------------------------------------------------
Refresh(c) ==
  \/ \E t \in DOMAIN tokens : Present(c, t, "find")
  \/ \E client \in {"web", "mobile"} : FindUser(c, client)
Logout(c) == \E t \in DOMAIN tokens : Present(c, t, "logout")
Registration(c) == (\E u \in Users, wanted \in Roles : Register(c, u, wanted)) \/ CreateUser(c)
Onboarding(c) ==
  \/ \E u \in Users, country \in Countries : Onboard(c, u, country)
  \/ CreateAccount(c) \/ SaveAccount(c)

Next ==
  \/ \E c \in Calls :
       \/ Registration(c) \/ Refresh(c) \/ Logout(c) \/ Onboarding(c) \/ CallDies(c)
       \/ \E u \in Users, client \in {"web", "mobile"} : Login(c, u, client)
       \/ RevokeToken(c) \/ IssueTokens(c)
  \/ \E t \in DOMAIN tokens : ExpireToken(t)
  \/ \E u \in Users : RowAges(u) \/ StripeForgets(u)

Spec == Init /\ [][Next]_vars

(***************************************************************************)
(* Properties.                                                             *)
(***************************************************************************)
Pcs == {"idle", "create", "find", "revoke", "logout", "issue", "account", "save"}

(* The shape of rows and locals; tokens and payout accounts belong to      *)
(* registered users, and only contributors have the latter.                *)
TypeOK ==
  /\ role \in [Users -> Roles \cup {"none"}]
  /\ tokens \in Seq([user : Users, state : {"active", "revoked", "expired"}, parent : Nat, session : Nat])
  /\ \A t \in DOMAIN tokens : /\ tokens[t].parent \in 0 .. t - 1 /\ tokens[t].session \in 1 .. t
                              /\ role[tokens[t].user] # "none"
  /\ account \in [Users -> [there : BOOLEAN, country : Countries \cup {"none"}, old : BOOLEAN,
                            stripe : 0 .. Len(stripe)]]
  /\ \A u \in Users : account[u].there => role[u] = "user"
  /\ stripe \in Seq([user : Users, country : Countries])
  /\ remembered \subseteq Users \X DOMAIN stripe
  /\ at \in [Calls -> [pc : Pcs, user : Users \cup {"nobody"}, token : 0 .. Len(tokens),
                       role : Roles \cup {"none"},
                       country : Countries \cup {"none"}, made : 0 .. Len(stripe)]]
  /\ overlapped \subseteq DOMAIN tokens

(* Refresh tokens rotate: a token that was exchanged for another is        *)
(* revoked, and of one session at most one token can be exchanged, however *)
(* often calls die, answers get lost and old tokens are shown again,       *)
(* unless two calls with tokens of that session ran at the same time.      *)
Rotated ==
  /\ \A t \in DOMAIN tokens :
       tokens[t].parent # 0 => tokens[tokens[t].parent].state = "revoked"
  /\ \A s \in DOMAIN tokens \ overlapped :
       Cardinality({t \in DOMAIN tokens : Session(t) = s /\ tokens[t].state = "active"}) <= 1

(* A contributor is paid into one account: Stripe makes at most one, in    *)
(* the country the row is locked to, and the saved reference is never      *)
(* another, although two clicks may create and save it at once, die        *)
(* between the two, name different countries or come back after days.      *)
OnePayoutAccount ==
  \A u \in Users :
    LET made == {a \in DOMAIN stripe : stripe[a].user = u} IN
    /\ Cardinality(made) <= 1
    /\ \A a \in made : stripe[a].country = account[u].country
    /\ account[u].stripe # 0 => account[u].stripe \in made
====
