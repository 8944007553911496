------------------------------ MODULE Funding ------------------------------
(***************************************************************************)
(* Funding a brief (src/src/payments and the operator side of              *)
(* src/src/briefs): a moderator quotes an amount, the buyer pays it in a   *)
(* Stripe Checkout session, Stripe's webhooks tell what became of it, and  *)
(* only then may a moderator make the brief live.                          *)
(*                                                                         *)
(* A brief has one BriefPayment row, so a brief also names its payment.    *)
(* Checkout calls of the buyer run concurrently, each awaiting the         *)
(* database and Stripe several times; webhooks are delivered late, out of  *)
(* order and more than once, and read Stripe before their transaction.     *)
(* Each of those steps is an action, and a call or a delivery may be cut   *)
(* short between two of them.                                              *)
(*                                                                         *)
(* A definition named ...Wrong or ...Unnamed is the one after it with a    *)
(* mistake its code could plausibly have; no specification uses it.        *)
(***************************************************************************)
EXTENDS Integers, FiniteSets

CONSTANTS
  Briefs,       \* Brief rows
  Seeded,       \* those made by prisma/seed.ts, with a sandbox escrow
  Calls,        \* concurrent checkout() calls
  Amounts,      \* the amounts a moderator may quote
  Methods,      \* the results a payment method can give at once
  Reversals,    \* what can befall a paid charge
  Expiring,     \* the briefs whose expiry is near
  MaxAttempt,   \* bound on BriefPayment.attempt
  MaxDeliveries \* bound on deliveries that are under way at a time

ASSUME SeededAssumption == Seeded \subseteq Briefs
ASSUME AmountsAssumption == Amounts \subseteq Nat \ {0}
ASSUME StripeAssumption == /\ Methods \subseteq {"paid", "processing"}
                           /\ Reversals \subseteq {"refunded", "disputed"}
ASSUME BoundsAssumption == MaxAttempt \in Nat \ {0} /\ MaxDeliveries \in Nat \ {0}

VARIABLES
  status,       \* Brief.status
  quote,        \* Brief.fundingAmountCents, 0 before a quote
  escrow,       \* briefs with escrowCommitted
  expired,      \* briefs whose expiresAt has passed
  pay,          \* the BriefPayment row, status "none" before it exists
  stale,        \* <<brief, attempt>> begun more than 23 hours ago
  sess,         \* Stripe: the checkout sessions by brief, attempt and copy
  shown,        \* sessions whose URL a buyer was given
  reversed,     \* Stripe: <<outcome, brief, session>>, refunds and disputes
  events,       \* Stripe: the events it has emitted
  inbox,        \* deliveries between their look at Stripe and the database
  processed,    \* StripeEvent rows
  answered,     \* events answered with success, which Stripe may stop delivering
  calls         \* where each checkout() call is

rowVars    == <<status, quote, escrow, expired, pay, processed>>
stripeVars == <<sess, shown, reversed, events, stale>>
vars       == <<rowVars, stripeVars, inbox, answered, calls>>

Attempts == 1 .. MaxAttempt
(* A session is named by the attempt whose idempotency key made it and by  *)
(* its copy: 2 for one that Stripe made after it had forgotten the key.    *)
Sessions == Attempts \X {1, 2}
NoSession == <<0, 0>>
SessionStatuses == {"none", "open", "processing", "paid", "failed", "expired"}
PayStatuses == {"none", "pending", "failed", "paid", "refunded", "disputed"}
CallPcs == {"idle", "reset", "reread", "retrieve", "replace", "refetch", "create", "save"}
Kinds == {"completed", "succeeded", "failed", "refunded", "disputed"}
Outcomes == {"paid", "refunded", "disputed"}

NoPayment == [status |-> "none", attempt |-> 0, session |-> NoSession, cents |-> 0,
              intent |-> NoSession]
NoCopy    == [status |-> "none", cents |-> 0]
Idle(b)   == [pc |-> "idle", brief |-> b, row |-> NoPayment, session |-> NoSession]

Init ==
  /\ status = [b \in Briefs |-> "draft"]
  /\ quote = [b \in Briefs |-> 0]
  /\ escrow = {} /\ expired = {}
  /\ pay = [b \in Briefs |-> NoPayment]
  /\ stale = {}
  /\ sess = [b \in Briefs |-> [s \in Sessions |-> NoCopy]]
  /\ shown = {} /\ reversed = {} /\ events = {}
  /\ inbox = {} /\ processed = {} /\ answered = {}
  /\ \E b \in Briefs : calls = [c \in Calls |-> Idle(b)]

(***************************************************************************)
(* Moderators and buyers, in one transaction each.                         *)
(***************************************************************************)
(* Neither a payment nor the brief's closing freezes the quote.            *)
QuoteWrong(b, cents) ==
  /\ b \notin escrow /\ status[b] \in {"draft", "paused"} /\ b \notin expired
  /\ quote' = [quote EXCEPT ![b] = cents]
  /\ UNCHANGED <<status, escrow, expired, pay, processed, stripeVars, inbox, answered, calls>>

Quote(b, cents) ==
  /\ pay[b].status = "none"
  /\ b \notin escrow /\ status[b] \in {"draft", "paused"} /\ b \notin expired
  /\ quote' = [quote EXCEPT ![b] = cents]
  /\ UNCHANGED <<status, escrow, expired, pay, processed, stripeVars, inbox, answered, calls>>

(* The seed commits a sandbox reference before it makes its brief live.    *)
CommitEscrow(b) ==
  /\ b \in Seeded
  /\ pay[b].status = "none"
  /\ escrow' = escrow \cup {b}
  /\ UNCHANGED <<status, quote, expired, pay, processed, stripeVars, inbox, answered, calls>>

(* Without the escrow in the update's where clause, after a read of it     *)
(* that may be old.                                                        *)
GoLiveWrong(b) ==
  /\ status[b] \in {"draft", "paused"} /\ b \notin expired
  /\ b \in escrow \/ pay[b].status \in {"paid", "refunded", "disputed"}
  /\ status' = [status EXCEPT ![b] = "live"]
  /\ UNCHANGED <<quote, escrow, expired, pay, processed, stripeVars, inbox, answered, calls>>

GoLive(b) ==
  /\ b \in escrow /\ b \notin expired
  /\ status[b] \in {"draft", "paused"}
  /\ status' = [status EXCEPT ![b] = "live"]
  /\ UNCHANGED <<quote, escrow, expired, pay, processed, stripeVars, inbox, answered, calls>>

(* moderateForAccount('paused') checks the status long before it writes,   *)
(* so even a brief that was closed in between is written.                  *)
Pause(b) ==
  /\ status[b] # "paused"
  /\ status' = [status EXCEPT ![b] = "paused"]
  /\ UNCHANGED <<quote, escrow, expired, pay, processed, stripeVars, inbox, answered, calls>>

(***************************************************************************)
(* checkout(), await by await.  `row` is the payment as the call last read *)
(* it.                                                                     *)
(***************************************************************************)
At(c, pc) == calls[c].pc = pc
Step(c, to) == calls' = [calls EXCEPT ![c] = to]
Leave(c) == Step(c, Idle(calls[c].brief))

(* What a call does next with the row it read: a session is looked at, no  *)
(* session is created anew, a payment that is not pending is refused.      *)
Continue(c, b, row) ==
  LET to(pc) == Step(c, [pc |-> pc, brief |-> b, row |-> row, session |-> NoSession]) IN
  \/ row.status = "pending" /\ row.session # NoSession /\ to("retrieve")
  \/ row.status = "pending" /\ row.session = NoSession /\ to("create")
  \/ row.status # "pending" /\ Step(c, Idle(b))

(* The transaction: one payment row per brief, with the quote frozen in it.*)
Checkout(c, b) ==
  LET row == IF pay[b].status = "none"
             THEN [status |-> "pending", attempt |-> 1, session |-> NoSession,
                   cents |-> quote[b], intent |-> NoSession]
             ELSE pay[b]
  IN
  /\ At(c, "idle")
  /\ b \notin escrow /\ status[b] \in {"draft", "paused"} /\ b \notin expired
  /\ quote[b] # 0
  /\ pay' = [pay EXCEPT ![b] = row]
  /\ IF row.status = "failed"
     THEN Step(c, [pc |-> "reset", brief |-> b, row |-> row, session |-> NoSession])
     ELSE Continue(c, b, row)
  /\ UNCHANGED <<status, quote, escrow, expired, processed, stripeVars, inbox, answered>>

(* A failed payment is tried again under a new key, once.                  *)
Reset(c) ==
  LET b == calls[c].brief IN
  /\ At(c, "reset")
  /\ IF pay[b].status = "failed" /\ pay[b].attempt = calls[c].row.attempt
     THEN /\ pay[b].attempt < MaxAttempt
          /\ pay' = [pay EXCEPT ![b].status = "pending", ![b].attempt = @ + 1,
                                ![b].session = NoSession]
          /\ Step(c, [calls[c] EXCEPT !.pc = "reread"])
     ELSE Leave(c) /\ UNCHANGED pay
  /\ UNCHANGED <<status, quote, escrow, expired, processed, stripeVars, inbox, answered>>

Reread(c) ==
  /\ At(c, "reread")
  /\ Continue(c, calls[c].brief, pay[calls[c].brief])
  /\ UNCHANGED <<rowVars, stripeVars, inbox, answered>>

(* checkout.sessions.retrieve(): an open session is shown again, a         *)
(* complete one, paid or not, is waited for, an expired one is replaced.   *)
Retrieve(c) ==
  LET b == calls[c].brief
      s == calls[c].row.session IN
  /\ At(c, "retrieve")
  /\ \/ sess[b][s].status = "open" /\ shown' = shown \cup {<<b, s>>} /\ Leave(c)
     \/ sess[b][s].status \in {"processing", "paid", "failed"} /\ UNCHANGED shown /\ Leave(c)
     \/ /\ sess[b][s].status = "expired"
        /\ UNCHANGED shown
        /\ Step(c, [calls[c] EXCEPT !.pc = "replace"])
  /\ UNCHANGED <<rowVars, sess, reversed, events, stale, inbox, answered>>

(* An update by id: two calls may both replace the session.                *)
ReplaceWrong(c) ==
  LET b == calls[c].brief IN
  /\ At(c, "replace")
  /\ pay[b].attempt < MaxAttempt
  /\ pay' = [pay EXCEPT ![b].status = "pending", ![b].session = NoSession, ![b].attempt = @ + 1]
  /\ Step(c, [calls[c] EXCEPT !.pc = "refetch"])
  /\ UNCHANGED <<status, quote, escrow, expired, processed, stripeVars, inbox, answered>>

Replace(c) ==
  LET b == calls[c].brief IN
  /\ At(c, "replace")
  /\ IF /\ pay[b].status = "pending"
        /\ pay[b].attempt = calls[c].row.attempt
        /\ pay[b].session = calls[c].row.session
     THEN /\ pay[b].attempt < MaxAttempt
          /\ pay' = [pay EXCEPT ![b].session = NoSession, ![b].attempt = @ + 1]
          /\ Step(c, [calls[c] EXCEPT !.pc = "refetch"])
     ELSE Leave(c) /\ UNCHANGED pay
  /\ UNCHANGED <<status, quote, escrow, expired, processed, stripeVars, inbox, answered>>

(* The row is read again, its status and session are not looked at again.  *)
Refetch(c) ==
  /\ At(c, "refetch")
  /\ Step(c, [calls[c] EXCEPT !.pc = "create", !.row = pay[calls[c].brief]])
  /\ UNCHANGED <<rowVars, stripeVars, inbox, answered>>

(* The session that sessions.create() returns for an attempt: the one its  *)
(* idempotency key made, or another once Stripe has forgotten the key.     *)
Created(b, a) ==
  IF sess[b][<<a, 1>>].status = "none" \/ <<b, a>> \notin stale THEN <<a, 1>> ELSE <<a, 2>>

MakeSession(c) ==
  LET b == calls[c].brief
      s == Created(b, calls[c].row.attempt) IN
  /\ sess' = IF sess[b][s].status = "none"
             THEN [sess EXCEPT ![b][s] = [status |-> "open", cents |-> calls[c].row.cents]]
             ELSE sess
  /\ Step(c, [calls[c] EXCEPT !.pc = "save", !.session = s])

Create(c) ==
  /\ At(c, "create")
  /\ IF calls[c].row.session = NoSession /\ <<calls[c].brief, calls[c].row.attempt>> \in stale
     THEN Leave(c) /\ UNCHANGED sess
     ELSE MakeSession(c)
  /\ UNCHANGED <<rowVars, shown, reversed, events, stale, inbox, answered>>

(* The session is saved if its attempt is still the current one, and its   *)
(* URL returned to the buyer in any case.                                  *)
Save(c) ==
  LET b == calls[c].brief IN
  /\ At(c, "save")
  /\ pay' = IF pay[b].attempt = calls[c].row.attempt /\ pay[b].status = "pending"
            THEN [pay EXCEPT ![b].session = calls[c].session] ELSE pay
  /\ shown' = shown \cup {<<b, calls[c].session>>}
  /\ Leave(c)
  /\ UNCHANGED <<status, quote, escrow, expired, processed, sess, reversed, events, stale,
                 inbox, answered>>

(* The call throws, its server dies, or an answer is lost.                 *)
CallDies(c) ==
  /\ ~ At(c, "idle")
  /\ Leave(c)
  /\ UNCHANGED <<rowVars, stripeVars, inbox, answered>>

(***************************************************************************)
(* Stripe and the buyer at its checkout page.                              *)
(***************************************************************************)
Emit(kind, b, s) == events' = events \cup {<<kind, b, s>>}
Becomes(b, s, to) == sess' = [sess EXCEPT ![b][s].status = to]

(* The buyer pays a session that was shown, at once or with a method that  *)
(* takes days.                                                             *)
BuyerPays(b, s) ==
  /\ <<b, s>> \in shown /\ sess[b][s].status = "open"
  /\ \E result \in Methods : Becomes(b, s, result)
  /\ Emit("completed", b, s)
  /\ UNCHANGED <<rowVars, shown, reversed, stale, inbox, answered, calls>>

PaymentEnds(b, s) ==
  /\ sess[b][s].status = "processing"
  /\ \/ Becomes(b, s, "paid") /\ Emit("succeeded", b, s)
     \/ Becomes(b, s, "failed") /\ Emit("failed", b, s)
  /\ UNCHANGED <<rowVars, shown, reversed, stale, inbox, answered, calls>>

(* A session lives for a day, longer than its attempt is fresh.            *)
SessionExpires(b, s) ==
  /\ sess[b][s].status = "open" /\ <<b, s[1]>> \in stale
  /\ Becomes(b, s, "expired")
  /\ UNCHANGED <<rowVars, shown, reversed, events, stale, inbox, answered, calls>>

(* The charge is refunded, by the server or in the dashboard, or disputed. *)
Reverse(b, s, outcome) ==
  /\ sess[b][s].status = "paid"
  /\ reversed' = reversed \cup {<<outcome, b, s>>}
  /\ Emit(outcome, b, s)
  /\ UNCHANGED <<rowVars, sess, shown, stale, inbox, answered, calls>>

(* A day passes over an attempt; no request is in flight that long.        *)
Ages(b, a) ==
  /\ pay[b].attempt >= a /\ <<b, a>> \notin stale
  /\ \A c \in Calls : ~ At(c, "idle") => calls[c].brief # b
  /\ stale' = stale \cup {<<b, a>>}
  /\ UNCHANGED <<rowVars, sess, shown, reversed, events, inbox, answered, calls>>

ReachExpiry(b) ==
  /\ b \in Expiring \ expired
  /\ expired' = expired \cup {b}
  /\ UNCHANGED <<status, quote, escrow, pay, processed, stripeVars, inbox, answered, calls>>

(***************************************************************************)
(* webhook(): an event is delivered, again and again until it is answered  *)
(* with success, and sometimes after that.                                 *)
(***************************************************************************)
Outcome(kind, b, s) ==
  CASE kind \in {"refunded", "disputed"}        -> kind
    [] <<"disputed", b, s>> \in reversed        -> "disputed"
    [] <<"refunded", b, s>> \in reversed        -> "refunded"
    [] OTHER                                    -> "paid"

(* The failure is taken at its word, whichever session it is about.        *)
HearUnpaidWrong(kind, b, s) ==
  /\ <<kind, b, s>> \in events
  /\ kind \in {"completed", "failed"} /\ sess[b][s].status # "paid"
  /\ pay' = IF kind = "failed" /\ pay[b].status = "pending"
            THEN [pay EXCEPT ![b].status = "failed"] ELSE pay
  /\ answered' = answered \cup {<<kind, b, s>>}
  /\ UNCHANGED <<status, quote, escrow, expired, processed, stripeVars, inbox, calls>>

(* A session event about a session that is not paid: only a failure of the *)
(* saved session counts.                                                   *)
HearUnpaid(kind, b, s) ==
  /\ <<kind, b, s>> \in events
  /\ kind \in {"completed", "failed"} /\ sess[b][s].status # "paid"
  /\ pay' = IF kind = "failed" /\ pay[b].status = "pending" /\ pay[b].session = s
            THEN [pay EXCEPT ![b].status = "failed"] ELSE pay
  /\ answered' = answered \cup {<<kind, b, s>>}
  /\ UNCHANGED <<status, quote, escrow, expired, processed, stripeVars, inbox, calls>>

(* The event is put down as processed before it is.                        *)
HearWrong(kind, b, s) ==
  LET e == <<kind, b, s>> IN
  /\ e \in events /\ kind # "failed"
  /\ sess[b][s].status = "paid"
  /\ IF e \in processed
     THEN answered' = answered \cup {e} /\ UNCHANGED <<inbox, processed>>
     ELSE /\ Cardinality(inbox) < MaxDeliveries
          /\ inbox' = inbox \cup {<<e, Outcome(kind, b, s)>>}
          /\ processed' = processed \cup {e}
          /\ UNCHANGED answered
  /\ UNCHANGED <<status, quote, escrow, expired, pay, stripeVars, calls>>

(* Any other event: Stripe's present word on it is taken to the            *)
(* transaction.  An event that was processed is acknowledged at once.      *)
Hear(kind, b, s) ==
  LET e == <<kind, b, s>> IN
  /\ e \in events /\ kind # "failed"
  /\ sess[b][s].status = "paid"
  /\ IF e \in processed
     THEN answered' = answered \cup {e} /\ UNCHANGED inbox
     ELSE /\ Cardinality(inbox) < MaxDeliveries
          /\ inbox' = inbox \cup {<<e, Outcome(kind, b, s)>>}
          /\ UNCHANGED answered
  /\ UNCHANGED <<rowVars, stripeVars, calls>>

(* A success is recorded whatever has become of the payment since.         *)
RecordPaidWrong(b, s) ==
  /\ pay' = [pay EXCEPT ![b].status = "paid", ![b].intent = s, ![b].session = s]
  /\ escrow' = escrow \cup {b}
  /\ UNCHANGED status

(* The row does not name the payment intent it was paid by.                *)
RecordPaidUnnamed(b, s) ==
  /\ IF pay[b].status = "pending"
     THEN /\ pay' = [pay EXCEPT ![b].status = "paid", ![b].session = s]
          /\ escrow' = escrow \cup {b}
     ELSE UNCHANGED <<pay, escrow>>
  /\ UNCHANGED status

(* "Terminal reversals win even if a delayed success event arrives later." *)
RecordPaid(b, s) ==
  /\ IF pay[b].status = "pending"
     THEN /\ pay' = [pay EXCEPT ![b].status = "paid", ![b].intent = s, ![b].session = s]
          /\ escrow' = escrow \cup {b}
     ELSE UNCHANGED <<pay, escrow>>
  /\ UNCHANGED status

(* A refund or dispute ends the payment and stops the brief.               *)
RecordReversal(b, s, outcome) ==
  /\ pay' = [pay EXCEPT ![b].status = outcome, ![b].intent = s]
  /\ escrow' = escrow \ {b}
  /\ status' = [status EXCEPT ![b] = "paused"]

(* The event is about no payment, or another charge or session than its.   *)
Mismatch(e) ==
  LET b == e[2]
      s == e[3] IN
  \/ pay[b].status = "none"
  \/ sess[b][s].cents # pay[b].cents
  \/ pay[b].intent \notin {NoSession, s}
  \/ e[1] \in {"completed", "succeeded"} /\ pay[b].session \notin {NoSession, s}

(* The transaction: each event once (its id is a key), and not at all when *)
(* it does not match.                                                      *)
Process(e, outcome) ==
  LET b == e[2]
      s == e[3] IN
  /\ <<e, outcome>> \in inbox
  /\ inbox' = inbox \ {<<e, outcome>>}
  /\ IF Mismatch(e) /\ e \notin processed
     THEN UNCHANGED <<status, escrow, pay, processed, answered>>
     ELSE /\ answered' = answered \cup {e}
          /\ processed' = processed \cup {e}
          /\ IF e \in processed THEN UNCHANGED <<status, escrow, pay>>
             ELSE IF outcome = "paid" THEN RecordPaid(b, s)
             ELSE RecordReversal(b, s, outcome)
  /\ UNCHANGED <<quote, expired, stripeVars, calls>>

DeliveryDies ==
  /\ \E d \in inbox : inbox' = inbox \ {d}
  /\ UNCHANGED <<rowVars, stripeVars, answered, calls>>

(***************************************************************************)
(* The settlement service's part (module Settlement): it lets go of money  *)
(* that is reversed or, after the expiry, unused.                          *)
(***************************************************************************)
Release(b) ==
  /\ \/ /\ pay[b].status = "paid" /\ b \in expired
        /\ status' = [status EXCEPT ![b] = "expired"]
     \/ /\ \E r \in reversed : r[2] = b /\ r[3] = pay[b].intent
        /\ status' = [status EXCEPT ![b] = "paused"]
  /\ escrow' = escrow \ {b}
  /\ UNCHANGED <<quote, expired, pay, processed, stripeVars, inbox, answered, calls>>

-----------------------------------------------------------------------------
Buying(c) ==
  \/ \E b \in Briefs : Checkout(c, b)
  \/ Reset(c) \/ Reread(c) \/ Retrieve(c) \/ Replace(c) \/ Refetch(c) \/ Create(c) \/ Save(c)
  \/ CallDies(c)

Stripe ==
  \E b \in Briefs : \E s \in Sessions :
    \/ BuyerPays(b, s) \/ PaymentEnds(b, s) \/ SessionExpires(b, s)
    \/ \E outcome \in Reversals : Reverse(b, s, outcome)

Webhook(e) ==
  \/ HearUnpaid(e[1], e[2], e[3]) \/ Hear(e[1], e[2], e[3])
  \/ \E outcome \in Outcomes : Process(e, outcome)

Next ==
  \/ \E b \in Briefs : \/ \E cents \in Amounts : Quote(b, cents)
                       \/ CommitEscrow(b) \/ GoLive(b) \/ Pause(b)
                       \/ ReachExpiry(b) \/ Release(b)
                       \/ \E a \in Attempts : Ages(b, a)
  \/ \E c \in Calls : Buying(c)
  \/ Stripe
  \/ \E e \in events : Webhook(e)
  \/ DeliveryDies

Spec == Init /\ [][Next]_vars

(***************************************************************************)
(* Stripe redelivers an event until it is answered, so a delivery that is  *)
(* never answered is tried for ever and failures are assumed to cease;     *)
(* buyers and moderators owe nothing.  The methods that take days do end.  *)
(***************************************************************************)
Redeliver(kind, b, s) ==
  <<kind, b, s>> \notin answered /\ (Hear(kind, b, s) \/ HearUnpaid(kind, b, s))
Conclude(kind, b, s) == \E outcome \in Outcomes : Process(<<kind, b, s>>, outcome)
Fairness ==
  /\ \A kind \in Kinds, b \in Briefs, s \in Sessions :
       WF_vars(Redeliver(kind, b, s)) /\ WF_vars(Conclude(kind, b, s))
  /\ <>[][DeliveryDies => \E d \in inbox : Process(d[1], d[2])]_vars
FairSpec == Spec /\ Fairness

(***************************************************************************)
(* Properties.                                                             *)
(***************************************************************************)
Cents == Amounts \cup {0}
SessionIds == Sessions \cup {NoSession}
Rows == [status : PayStatuses, attempt : Attempts \cup {0}, session : SessionIds,
         cents : Cents, intent : SessionIds]

(* The shape of the rows, of Stripe's sessions and of a call's snapshot; a *)
(* payment names its intent from the moment it is paid or reversed.        *)
TypeOK ==
  /\ status \in [Briefs -> {"draft", "live", "paused", "expired"}]
  /\ quote \in [Briefs -> Cents]
  /\ escrow \subseteq Briefs /\ expired \subseteq Briefs
  /\ pay \in [Briefs -> Rows]
  /\ \A b \in Briefs : /\ pay[b].status = "none" <=> pay[b].attempt = 0
                       /\ pay[b].status \in {"paid", "refunded", "disputed"}
                            <=> pay[b].intent # NoSession
  /\ stale \subseteq Briefs \X Attempts
  /\ sess \in [Briefs -> [Sessions -> [status : SessionStatuses, cents : Cents]]]
  /\ shown \subseteq Briefs \X Sessions
  /\ reversed \subseteq {"refunded", "disputed"} \X Briefs \X Sessions
  /\ events \subseteq Kinds \X Briefs \X Sessions
  /\ inbox \subseteq events \X Outcomes
  /\ processed \subseteq events /\ answered \subseteq events
  /\ calls \in [Calls -> [pc : CallPcs, brief : Briefs, row : Rows, session : SessionIds]]

(* However often the buyer presses pay, in however many tabs, and wherever *)
(* the calls die, the money is taken in one session at most, and while it  *)
(* is being taken no other session is open.                                *)
ChargedOnce ==
  \A b \in Briefs : \A s, t \in Sessions :
    sess[b][s].status \in {"processing", "paid"}
      /\ sess[b][t].status \in {"open", "processing", "paid"} => s = t

(* A committed escrow is backed by a paid session over the amount the      *)
(* moderator quoted and the row says (or it is the seed's).                *)
EscrowIsPaid ==
  \A b \in escrow :
    \/ pay[b].status = "none" /\ b \in Seeded
    \/ /\ pay[b].status = "paid"
       /\ sess[b][pay[b].intent] = [status |-> "paid", cents |-> quote[b]]
       /\ pay[b].cents = quote[b]

(* A payment is called failed when none of its sessions can be paid: one   *)
(* that still could would not be recorded.                                 *)
FailedIsOver ==
  \A b \in Briefs :
    pay[b].status = "failed" =>
      \A s \in Sessions : sess[b][s].status \notin {"open", "processing", "paid"}

(* A refund or dispute ends the payment, whatever arrives or is called     *)
(* afterwards.                                                             *)
ReversalIsFinal ==
  [][\A b \in Briefs :
       pay[b].status \in {"refunded", "disputed"} =>
         pay'[b].status \in {"refunded", "disputed"} /\ b \notin escrow']_vars

(* Money that was taken is recorded, though its event came early, twice or *)
(* while the buyer was checking out again.                                 *)
PaidIsRecorded ==
  \A b \in Briefs, s \in Sessions :
    sess[b][s].status = "paid" ~> pay[b].status \in {"paid", "refunded", "disputed"}

(* Funding keeps the promise of module Escrow.                             *)
Funds(b) ==
  IF b \in escrow THEN "held"
  ELSE IF pay[b].status \in {"paid", "refunded", "disputed"} THEN "ended" ELSE "none"
Promise == INSTANCE Escrow WITH funds <- [b \in Briefs |-> Funds(b)],
                                open <- {b \in Briefs : status[b] = "live"}
KeepsEscrow == Promise!Spec
====
