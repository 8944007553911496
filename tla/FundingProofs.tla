---------------------------- MODULE FundingProofs ----------------------------
(***************************************************************************)
(* Theorems about Funding for any number of briefs, checkout calls,        *)
(* attempts and deliveries: its rows keep their shape, an escrow is backed *)
(* by a payment of the quoted amount, a reversal is final, the brief is    *)
(* open only while its money is held (module Escrow), the buyer is charged *)
(* once, and a payment called failed cannot be paid.                       *)
(*                                                                         *)
(* The first four follow from one inductive invariant, FundingInv, and the *)
(* last two from AttemptInv, which adds the sessions and their keys.       *)
(***************************************************************************)
EXTENDS Funding, TLAPS

Locals == [pc : CallPcs, brief : Briefs, row : Rows, session : SessionIds]

(* What a call's snapshot still says of the row, however old it is: the    *)
(* row exists, and a call about to use a session has one.                  *)
CallsHold ==
  \A c \in Calls :
    /\ calls[c].pc # "idle" => calls[c].row.attempt # 0 /\ pay[calls[c].brief].status # "none"
    /\ calls[c].pc = "retrieve" => calls[c].row.session # NoSession
    /\ calls[c].pc = "save" => calls[c].session # NoSession

(* The quote is frozen from the moment the payment row copies it.          *)
QuoteFrozen == \A b \in Briefs : pay[b].status # "none" => pay[b].cents = quote[b]

(* What a delivery saw at Stripe is still so when it reaches the database: *)
(* a paid session stays paid.                                              *)
DeliveriesHold == \A d \in inbox : sess[d[1][2]][d[1][3]].status = "paid"

(* The escrow is still committed while the brief is live.                  *)
LiveIsHeld == \A b \in Briefs : status[b] = "live" => b \in escrow

FundingInv ==
  TypeOK /\ CallsHold /\ QuoteFrozen /\ DeliveriesHold /\ EscrowIsPaid /\ LiveIsHeld

-----------------------------------------------------------------------------
(* The pieces the steps are made of: a row, a call's locals, a session.    *)
RowOK(row, cents) ==
  /\ row \in Rows
  /\ row.status = "none" <=> row.attempt = 0
  /\ row.status \in {"paid", "refunded", "disputed"} <=> row.intent # NoSession
  /\ row.status # "none" => row.cents = cents

LocalOK(local) ==
  /\ local \in Locals
  /\ local.pc # "idle" => local.row.attempt # 0
  /\ local.pc = "retrieve" => local.row.session # NoSession
  /\ local.pc = "save" => local.session # NoSession

Events == Kinds \X Briefs \X Sessions
Receipts == [status : SessionStatuses, cents : Cents]

(* What the proofs use of the constants and of the sets built from them.   *)
LEMMA Constants ==
  /\ NoSession \notin Sessions /\ NoSession \in SessionIds
  /\ 0 \in Cents
  /\ Attempts \subseteq Nat \ {0}
  /\ MaxAttempt \in Nat \ {0}
  /\ \A kind \in Kinds, b \in Briefs, s \in Sessions : <<kind, b, s>> \in Events
  /\ \A e \in Events : e[1] \in Kinds /\ e[2] \in Briefs /\ e[3] \in Sessions
BY BoundsAssumption DEF NoSession, Sessions, SessionIds, Cents, Attempts, Events

(* The invariant, piece by piece.                                          *)
LEMMA Pieces ==
  ASSUME FundingInv
  PROVE  /\ \A b \in Briefs : RowOK(pay[b], quote[b])
         /\ \A c \in Calls : LocalOK(calls[c])
         /\ \A b \in Briefs, s \in Sessions : sess[b][s] \in Receipts
         /\ \A d \in inbox : d[1] \in Events
BY DEF FundingInv, TypeOK, CallsHold, QuoteFrozen, RowOK, LocalOK, Locals, Receipts, Events

(* The one row that a step writes.                                         *)
LEMMA WriteRow ==
  ASSUME FundingInv, NEW b \in Briefs, NEW row, pay' = [pay EXCEPT ![b] = row],
         RowOK(row, quote[b]), row.status # "none", UNCHANGED quote
  PROVE  /\ pay' \in [Briefs -> Rows]
         /\ \A o \in Briefs : RowOK(pay'[o], quote'[o])
         /\ \A o \in Briefs : pay[o].status # "none" => pay'[o].status # "none"
BY Pieces DEF FundingInv, TypeOK, RowOK

(* A step that writes no row.                                              *)
LEMMA KeepRows ==
  ASSUME FundingInv, UNCHANGED <<pay, quote>>
  PROVE  /\ pay' \in [Briefs -> Rows]
         /\ \A o \in Briefs : RowOK(pay'[o], quote'[o])
         /\ \A o \in Briefs : pay[o].status # "none" => pay'[o].status # "none"
BY Pieces DEF FundingInv, TypeOK

(* The one call that a step moves.                                         *)
LEMMA MoveCall ==
  ASSUME FundingInv, NEW c \in Calls, NEW local, Step(c, local), LocalOK(local),
         local.pc # "idle" => pay'[local.brief].status # "none",
         \A b \in Briefs : pay[b].status # "none" => pay'[b].status # "none"
  PROVE  calls' \in [Calls -> Locals] /\ CallsHold'
BY DEF FundingInv, TypeOK, Step, CallsHold, LocalOK, Locals

(* A call that ends.                                                       *)
LEMMA LeaveCall ==
  ASSUME FundingInv, NEW c \in Calls, Leave(c),
         \A b \in Briefs : pay[b].status # "none" => pay'[b].status # "none"
  PROVE  calls' \in [Calls -> Locals] /\ CallsHold'
<1>1. LocalOK(Idle(calls[c].brief))
  BY Constants DEF FundingInv, TypeOK, LocalOK, Locals, Idle, CallPcs, Rows, NoPayment, PayStatuses
<1> QED BY <1>1, MoveCall DEF Leave, Idle

(* A step of somebody else.                                                *)
LEMMA KeepCalls ==
  ASSUME FundingInv, UNCHANGED calls,
         \A b \in Briefs : pay[b].status # "none" => pay'[b].status # "none"
  PROVE  calls' \in [Calls -> Locals] /\ CallsHold'
BY DEF FundingInv, TypeOK, CallsHold, Locals

(* A step that leaves paid sessions alone and commits no escrow.           *)
LEMMA PaidStays ==
  ASSUME FundingInv, UNCHANGED quote, inbox' \subseteq inbox, escrow' \subseteq escrow,
         \A b \in escrow' : pay'[b] = pay[b],
         \A b \in Briefs, s \in Sessions : sess[b][s].status = "paid" => sess'[b][s] = sess[b][s]
  PROVE  DeliveriesHold' /\ EscrowIsPaid'
<1>1. DeliveriesHold'
  <2> SUFFICES ASSUME NEW d \in inbox' PROVE sess'[d[1][2]][d[1][3]].status = "paid"
    BY DEF DeliveriesHold
  <2>1. d[1][2] \in Briefs /\ d[1][3] \in Sessions
    BY Pieces, Constants
  <2>2. sess[d[1][2]][d[1][3]].status = "paid"
    BY DEF FundingInv, DeliveriesHold
  <2> QED BY <2>1, <2>2
<1>2. EscrowIsPaid'
  <2> SUFFICES ASSUME NEW b \in escrow'
               PROVE  \/ pay'[b].status = "none" /\ b \in Seeded
                      \/ /\ pay'[b].status = "paid"
                         /\ sess'[b][pay'[b].intent] = [status |-> "paid", cents |-> quote'[b]]
                         /\ pay'[b].cents = quote'[b]
    BY DEF EscrowIsPaid
  <2>1. b \in escrow /\ b \in Briefs /\ pay'[b] = pay[b] /\ quote'[b] = quote[b]
    BY DEF FundingInv, TypeOK
  <2>2. CASE pay[b].status = "none"
    BY <2>1, <2>2 DEF FundingInv, EscrowIsPaid
  <2>3. CASE pay[b].status # "none"
    <3>1. /\ pay[b].status = "paid" /\ pay[b].cents = quote[b]
          /\ sess[b][pay[b].intent] = [status |-> "paid", cents |-> quote[b]]
      BY <2>1, <2>3 DEF FundingInv, EscrowIsPaid
    <3>2. pay[b].intent \in Sessions
      BY <2>1, <3>1 DEF FundingInv, TypeOK, Rows, SessionIds
    <3>3. sess'[b][pay[b].intent] = sess[b][pay[b].intent]
      BY <2>1, <3>1, <3>2
    <3> QED BY <2>1, <3>1, <3>3
  <2> QED BY <2>2, <2>3
<1> QED BY <1>1, <1>2

(* A step on one session that is not paid.                                 *)
LEMMA MoveSession ==
  ASSUME FundingInv, NEW b \in Briefs, NEW s \in Sessions, NEW receipt \in Receipts,
         sess' = [sess EXCEPT ![b][s] = receipt], sess[b][s].status # "paid"
  PROVE  /\ sess' \in [Briefs -> [Sessions -> Receipts]]
         /\ \A o \in Briefs, t \in Sessions :
              sess[o][t].status = "paid" => sess'[o][t] = sess[o][t]
<1>1. sess \in [Briefs -> [Sessions -> Receipts]]
  BY DEF FundingInv, TypeOK, Receipts
<1> QED BY <1>1

OthersTyped ==
  /\ status \in [Briefs -> {"draft", "live", "paused", "expired"}]
  /\ quote \in [Briefs -> Cents]
  /\ escrow \subseteq Briefs /\ expired \subseteq Briefs
  /\ stale \subseteq Briefs \X Attempts
  /\ sess \in [Briefs -> [Sessions -> Receipts]]
  /\ shown \subseteq Briefs \X Sessions
  /\ reversed \subseteq {"refunded", "disputed"} \X Briefs \X Sessions
  /\ events \subseteq Events
  /\ inbox \subseteq events \X Outcomes
  /\ processed \subseteq events /\ answered \subseteq events

(* The parts of TypeOK besides rows and calls.                             *)
LEMMA Apart == FundingInv => OthersTyped
BY DEF FundingInv, TypeOK, OthersTyped, Receipts, Events

(* The pieces make up the invariant again.                                 *)
LEMMA Together ==
  ASSUME pay' \in [Briefs -> Rows], \A b \in Briefs : RowOK(pay'[b], quote'[b]),
         calls' \in [Calls -> Locals], CallsHold', OthersTyped',
         DeliveriesHold', EscrowIsPaid', LiveIsHeld'
  PROVE  FundingInv'
<1>1. TypeOK'
  BY DEF TypeOK, OthersTyped, RowOK, Locals, Receipts, Events
<1>2. QuoteFrozen'
  BY DEF QuoteFrozen, RowOK
<1> QED BY <1>1, <1>2 DEF FundingInv

-----------------------------------------------------------------------------
(* checkout(): the row, then the call; nobody pays in a session by it, and *)
(* a committed escrow keeps it away.                                       *)
LEMMA ContinueCall ==
  ASSUME FundingInv, NEW c \in Calls, NEW b \in Briefs, NEW row \in Rows, Continue(c, b, row),
         row.attempt # 0, row.status # "none", pay'[b].status # "none",
         \A o \in Briefs : pay[o].status # "none" => pay'[o].status # "none"
  PROVE  calls' \in [Calls -> Locals] /\ CallsHold'
<1> DEFINE to(pc) == [pc |-> pc, brief |-> b, row |-> row, session |-> NoSession]
<1>1. LocalOK(to("create"))
  BY Constants DEF LocalOK, Locals, CallPcs
<1>2. row.session # NoSession => LocalOK(to("retrieve"))
  BY Constants DEF LocalOK, Locals, CallPcs
<1>3. LocalOK(Idle(b))
  BY Constants DEF LocalOK, Locals, Idle, CallPcs, Rows, NoPayment, PayStatuses
<1>4. CASE Step(c, to("create"))
  BY <1>1, <1>4, MoveCall
<1>5. CASE row.session # NoSession /\ Step(c, to("retrieve"))
  BY <1>2, <1>5, MoveCall
<1>6. CASE Step(c, Idle(b))
  BY <1>3, <1>6, MoveCall DEF Idle
<1> QED BY <1>4, <1>5, <1>6 DEF Continue

(* The transaction of checkout() keeps the invariant.                      *)
LEMMA CheckoutHolds ==
  ASSUME FundingInv, NEW c \in Calls, NEW b \in Briefs, Checkout(c, b)
  PROVE  FundingInv'
<1> DEFINE row == IF pay[b].status = "none"
                  THEN [status |-> "pending", attempt |-> 1, session |-> NoSession,
                        cents |-> quote[b], intent |-> NoSession]
                  ELSE pay[b]
<1>1. RowOK(row, quote[b]) /\ row.status # "none"
  <2>1. CASE pay[b].status = "none"
    <3>1. quote[b] \in Cents /\ 1 \in Attempts
      BY Constants, BoundsAssumption DEF FundingInv, TypeOK, Attempts
    <3> QED BY <2>1, <3>1, Constants DEF RowOK, Rows, PayStatuses
  <2>2. CASE pay[b].status # "none"
    BY <2>2, Pieces
  <2> QED BY <2>1, <2>2
<1>2. pay' = [pay EXCEPT ![b] = row] /\ UNCHANGED quote
  BY DEF Checkout
<1> HIDE DEF row
<1>3. /\ pay' \in [Briefs -> Rows]
      /\ \A o \in Briefs : RowOK(pay'[o], quote'[o])
      /\ \A o \in Briefs : pay[o].status # "none" => pay'[o].status # "none"
  BY <1>1, <1>2, WriteRow
<1>4. row \in Rows /\ row.attempt # 0 /\ pay'[b].status # "none"
  BY <1>1, <1>2 DEF RowOK, FundingInv, TypeOK
<1>5. calls' \in [Calls -> Locals] /\ CallsHold'
  <2> DEFINE local == [pc |-> "reset", brief |-> b, row |-> row, session |-> NoSession]
  <2>1. LocalOK(local)
    BY <1>4, Constants DEF LocalOK, Locals, CallPcs
  <2>2. CASE Step(c, local)
    BY <1>3, <1>4, <2>1, <2>2, MoveCall
  <2>3. CASE Continue(c, b, row)
    BY <1>1, <1>3, <1>4, <2>3, ContinueCall
  <2> QED BY <2>2, <2>3 DEF Checkout, row
<1>6. OthersTyped' /\ LiveIsHeld'
  BY Apart DEF OthersTyped, Checkout, stripeVars, LiveIsHeld, FundingInv
<1>7. DeliveriesHold' /\ EscrowIsPaid'
  <2>1. UNCHANGED <<quote, inbox, escrow, sess>> /\ b \notin escrow
    BY DEF Checkout, stripeVars
  <2>2. \A o \in escrow : pay'[o] = pay[o]
    BY <1>2, <2>1 DEF FundingInv, TypeOK
  <2> QED BY <2>1, <2>2, PaidStays
<1> QED BY <1>3, <1>5, <1>6, <1>7, Together

(* The steps of a call that write its payment write one that is not paid.  *)
LEMMA CallWrites ==
  ASSUME FundingInv, NEW b \in Briefs, NEW row, pay' = [pay EXCEPT ![b] = row],
         RowOK(row, quote[b]), row.status # "none", pay[b].status \in {"pending", "failed"},
         UNCHANGED <<status, quote, escrow, expired, processed, stripeVars, inbox, answered>>,
         calls' \in [Calls -> Locals], CallsHold'
  PROVE  FundingInv'
<1>1. /\ pay' \in [Briefs -> Rows]
      /\ \A o \in Briefs : RowOK(pay'[o], quote'[o])
  BY WriteRow
<1>2. OthersTyped' /\ LiveIsHeld'
  BY Apart DEF OthersTyped, stripeVars, LiveIsHeld, FundingInv
<1>3. b \notin escrow
  BY DEF FundingInv, EscrowIsPaid
<1>4. DeliveriesHold' /\ EscrowIsPaid'
  <2>1. \A o \in escrow : pay'[o] = pay[o]
    BY <1>3 DEF FundingInv, TypeOK
  <2> QED BY <2>1, PaidStays DEF stripeVars
<1> QED BY <1>1, <1>2, <1>4, Together

(* The steps of a call that write nothing to the database.                 *)
LEMMA CallReads ==
  ASSUME FundingInv, UNCHANGED <<rowVars, sess, reversed, events, stale, inbox, answered>>,
         shown' \subseteq Briefs \X Sessions,
         calls' \in [Calls -> Locals], CallsHold'
  PROVE  FundingInv'
<1>1. /\ pay' \in [Briefs -> Rows]
      /\ \A o \in Briefs : RowOK(pay'[o], quote'[o])
  BY KeepRows DEF rowVars
<1>2. OthersTyped' /\ LiveIsHeld'
  BY Apart DEF OthersTyped, rowVars, LiveIsHeld, FundingInv
<1>3. DeliveriesHold' /\ EscrowIsPaid'
  BY PaidStays DEF rowVars
<1> QED BY <1>1, <1>2, <1>3, Together

(* What a call that is under way knows of the row it read.                 *)
LEMMA UnderWay ==
  ASSUME FundingInv, NEW c \in Calls, calls[c].pc # "idle"
  PROVE  /\ calls[c].brief \in Briefs /\ calls[c].row \in Rows
         /\ calls[c].row.attempt \in Attempts
         /\ calls[c].session \in SessionIds
         /\ pay[calls[c].brief] \in Rows
         /\ pay[calls[c].brief].status # "none" /\ pay[calls[c].brief].attempt \in Attempts
<1>1. calls[c] \in Locals /\ calls[c].row.attempt # 0 /\ pay[calls[c].brief].status # "none"
  BY DEF FundingInv, TypeOK, CallsHold, Locals
<1>2. calls[c].brief \in Briefs /\ calls[c].row \in Rows /\ calls[c].session \in SessionIds
  BY <1>1 DEF Locals
<1>3. RowOK(pay[calls[c].brief], quote[calls[c].brief])
  BY <1>2, Pieces
<1> QED BY <1>1, <1>2, <1>3 DEF RowOK, Rows

(* Retrying a failed payment keeps the invariant.                          *)
LEMMA ResetHolds ==
  ASSUME FundingInv, NEW c \in Calls, Reset(c)
  PROVE  FundingInv'
<1> DEFINE b == calls[c].brief
           row == [pay[b] EXCEPT !.status = "pending", !.attempt = @ + 1, !.session = NoSession]
<1>1. calls[c].pc # "idle" /\ LocalOK(calls[c])
  BY Pieces DEF Reset, At
<1>2. CASE Leave(c) /\ UNCHANGED pay
  <2>1. calls' \in [Calls -> Locals] /\ CallsHold'
    BY <1>2, LeaveCall
  <2> QED BY <1>2, <2>1, CallReads, Apart DEF Reset, rowVars, stripeVars, OthersTyped
<1>3. CASE /\ pay[b].status = "failed" /\ pay[b].attempt < MaxAttempt
           /\ pay' = [pay EXCEPT ![b] = row]
           /\ Step(c, [calls[c] EXCEPT !.pc = "reread"])
  <2>1. RowOK(row, quote[b]) /\ row.status # "none"
    <3>1. RowOK(pay[b], quote[b]) /\ pay[b].attempt \in Attempts
      BY <1>1, UnderWay, Pieces
    <3>2. pay[b].attempt + 1 \in Attempts
      BY <1>3, <3>1, Constants DEF Attempts
    <3> QED BY <1>3, <3>1, <3>2, Constants DEF RowOK, Rows, PayStatuses
  <2>2. LocalOK([calls[c] EXCEPT !.pc = "reread"])
    BY <1>1 DEF LocalOK, Locals, CallPcs
  <2>3. b \in Briefs
    BY <1>1, UnderWay
  <2>4. UNCHANGED quote
    BY DEF Reset
  <2>5. \A o \in Briefs : pay[o].status # "none" => pay'[o].status # "none"
    BY <1>3, <2>1, <2>3, <2>4, WriteRow
  <2>6. pay'[b].status # "none"
    BY <1>1, <2>3, <2>5, UnderWay
  <2>7. calls' \in [Calls -> Locals] /\ CallsHold'
    BY <1>3, <2>2, <2>5, <2>6, MoveCall DEF LocalOK, Locals
  <2> QED BY <1>3, <2>1, <2>3, <2>7, CallWrites DEF Reset
<1>4. pay \in [Briefs -> Rows] /\ b \in Briefs
  BY <1>1, UnderWay DEF FundingInv, TypeOK
<1> QED BY <1>2, <1>3, <1>4 DEF Reset

(* Replacing an expired session keeps the invariant.                       *)
LEMMA ReplaceHolds ==
  ASSUME FundingInv, NEW c \in Calls, Replace(c)
  PROVE  FundingInv'
<1> DEFINE b == calls[c].brief
           row == [pay[b] EXCEPT !.session = NoSession, !.attempt = @ + 1]
<1>1. calls[c].pc # "idle" /\ LocalOK(calls[c])
  BY Pieces DEF Replace, At
<1>2. CASE Leave(c) /\ UNCHANGED pay
  <2>1. calls' \in [Calls -> Locals] /\ CallsHold'
    BY <1>2, LeaveCall
  <2> QED BY <1>2, <2>1, CallReads, Apart DEF Replace, rowVars, stripeVars, OthersTyped
<1>3. CASE /\ pay[b].status = "pending" /\ pay[b].attempt < MaxAttempt
           /\ pay' = [pay EXCEPT ![b] = row]
           /\ Step(c, [calls[c] EXCEPT !.pc = "refetch"])
  <2>1. RowOK(row, quote[b]) /\ row.status # "none"
    <3>1. RowOK(pay[b], quote[b]) /\ pay[b].attempt \in Attempts
      BY <1>1, UnderWay, Pieces
    <3>2. pay[b].attempt + 1 \in Attempts
      BY <1>3, <3>1, Constants DEF Attempts
    <3> QED BY <1>3, <3>1, <3>2, Constants DEF RowOK, Rows, PayStatuses
  <2>2. LocalOK([calls[c] EXCEPT !.pc = "refetch"])
    BY <1>1 DEF LocalOK, Locals, CallPcs
  <2>3. b \in Briefs
    BY <1>1, UnderWay
  <2>4. UNCHANGED quote
    BY DEF Replace
  <2>5. \A o \in Briefs : pay[o].status # "none" => pay'[o].status # "none"
    BY <1>3, <2>1, <2>3, <2>4, WriteRow
  <2>6. pay'[b].status # "none"
    BY <1>1, <2>3, <2>5, UnderWay
  <2>7. calls' \in [Calls -> Locals] /\ CallsHold'
    BY <1>3, <2>2, <2>5, <2>6, MoveCall DEF LocalOK, Locals
  <2> QED BY <1>3, <2>1, <2>3, <2>7, CallWrites DEF Replace
<1>4. pay \in [Briefs -> Rows] /\ b \in Briefs
  BY <1>1, UnderWay DEF FundingInv, TypeOK
<1> QED BY <1>2, <1>3, <1>4 DEF Replace

(* Saving the new session keeps the invariant.                             *)
LEMMA SaveHolds ==
  ASSUME FundingInv, NEW c \in Calls, Save(c)
  PROVE  FundingInv'
<1> DEFINE b == calls[c].brief
           row == [pay[b] EXCEPT !.session = calls[c].session]
<1>1. calls[c].pc = "save" /\ b \in Briefs /\ pay \in [Briefs -> Rows]
  BY UnderWay DEF Save, At, FundingInv, TypeOK
<1>2. <<b, calls[c].session>> \in Briefs \X Sessions
  BY <1>1, UnderWay DEF FundingInv, CallsHold, SessionIds
<1>3. shown' \subseteq Briefs \X Sessions
  BY <1>2 DEF Save, FundingInv, TypeOK
<1>4. OthersTyped' /\ LiveIsHeld'
  BY <1>3, Apart DEF OthersTyped, Save, LiveIsHeld, FundingInv
<1>5. CASE pay[b].status = "pending" /\ pay' = [pay EXCEPT ![b] = row]
  <2>1. RowOK(row, quote[b]) /\ row.status # "none" /\ UNCHANGED quote
    <3>1. RowOK(pay[b], quote[b]) /\ calls[c].session \in SessionIds
      BY <1>1, UnderWay, Pieces
    <3> QED BY <1>5, <3>1 DEF RowOK, Rows, Save
  <2>2. /\ pay' \in [Briefs -> Rows]
        /\ \A o \in Briefs : RowOK(pay'[o], quote'[o])
        /\ \A o \in Briefs : pay[o].status # "none" => pay'[o].status # "none"
    BY <1>1, <1>5, <2>1, WriteRow
  <2>3. calls' \in [Calls -> Locals] /\ CallsHold'
    BY <2>2, LeaveCall DEF Save
  <2>4. b \notin escrow
    BY <1>5 DEF FundingInv, EscrowIsPaid
  <2>5. \A o \in escrow : pay'[o] = pay[o]
    BY <1>5, <2>4 DEF FundingInv, TypeOK
  <2>6. DeliveriesHold' /\ EscrowIsPaid'
    BY <2>5, PaidStays DEF Save
  <2> QED BY <1>4, <2>2, <2>3, <2>6, Together
<1>6. CASE UNCHANGED pay
  <2>1. calls' \in [Calls -> Locals] /\ CallsHold'
    BY <1>6, LeaveCall DEF Save
  <2> QED BY <1>3, <1>6, <2>1, CallReads DEF Save, rowVars
<1> QED BY <1>1, <1>5, <1>6 DEF Save

(* Reading the row again, or dying, keeps the invariant.                   *)
LEMMA RereadHolds ==
  ASSUME FundingInv, NEW c \in Calls, Reread(c) \/ Refetch(c) \/ CallDies(c)
  PROVE  FundingInv'
<1>1. UNCHANGED <<rowVars, stripeVars, inbox, answered>> /\ calls[c].pc # "idle"
  BY DEF Reread, Refetch, CallDies, At
<1>2. CASE Reread(c)
  <2>1. pay[calls[c].brief].attempt # 0
    BY <1>1, UnderWay, Constants
  <2>2. calls' \in [Calls -> Locals] /\ CallsHold'
    BY <1>1, <1>2, <2>1, UnderWay, ContinueCall DEF Reread, rowVars
  <2> QED BY <1>1, <2>2, CallReads, Apart DEF stripeVars, OthersTyped
<1>3. CASE Refetch(c)
  <2> DEFINE local == [calls[c] EXCEPT !.pc = "create", !.row = pay[calls[c].brief]]
  <2>1. LocalOK(local) /\ local.brief = calls[c].brief
    BY <1>1, UnderWay, Pieces, Constants DEF LocalOK, Locals, CallPcs
  <2>2. calls' \in [Calls -> Locals] /\ CallsHold'
    BY <1>1, <1>3, <2>1, UnderWay, MoveCall DEF Refetch, rowVars
  <2> QED BY <1>1, <2>2, CallReads, Apart DEF stripeVars, OthersTyped
<1>4. CASE CallDies(c)
  <2>1. calls' \in [Calls -> Locals] /\ CallsHold'
    BY <1>1, <1>4, LeaveCall DEF CallDies, rowVars
  <2> QED BY <1>1, <2>1, CallReads, Apart DEF stripeVars, OthersTyped
<1> QED BY <1>2, <1>3, <1>4

(* Looking at the saved session keeps the invariant.                       *)
LEMMA RetrieveHolds ==
  ASSUME FundingInv, NEW c \in Calls, Retrieve(c)
  PROVE  FundingInv'
<1>1. calls[c].pc = "retrieve" /\ LocalOK(calls[c])
      /\ UNCHANGED <<rowVars, sess, reversed, events, stale, inbox, answered>>
  BY Pieces DEF Retrieve, At
<1>2. <<calls[c].brief, calls[c].row.session>> \in Briefs \X Sessions
  BY <1>1, UnderWay DEF LocalOK, Rows, SessionIds
<1>3. shown' \subseteq Briefs \X Sessions
  BY <1>2 DEF Retrieve, FundingInv, TypeOK
<1>4. CASE Leave(c)
  BY <1>1, <1>3, <1>4, LeaveCall, CallReads DEF rowVars
<1>5. CASE Step(c, [calls[c] EXCEPT !.pc = "replace"])
  <2> DEFINE local == [calls[c] EXCEPT !.pc = "replace"]
  <2>1. LocalOK(local) /\ local.brief = calls[c].brief
    BY <1>1 DEF LocalOK, Locals, CallPcs
  <2>2. calls' \in [Calls -> Locals] /\ CallsHold'
    BY <1>1, <1>5, <2>1, UnderWay, MoveCall DEF rowVars
  <2> QED BY <1>1, <1>3, <2>2, CallReads
<1> QED BY <1>4, <1>5 DEF Retrieve

(* Creating a session at Stripe keeps the invariant.                       *)
LEMMA CreateHolds ==
  ASSUME FundingInv, NEW c \in Calls, Create(c)
  PROVE  FundingInv'
<1> DEFINE b == calls[c].brief
           s == Created(b, calls[c].row.attempt)
<1>1. calls[c].pc = "create" /\ LocalOK(calls[c])
      /\ UNCHANGED <<rowVars, shown, reversed, events, stale, inbox, answered>>
  BY Pieces DEF Create, At
<1>2. b \in Briefs /\ s \in Sessions /\ calls[c].row \in Rows
  BY <1>1, UnderWay DEF Created, Sessions
<1>3. CASE Leave(c) /\ UNCHANGED sess
  <2>1. calls' \in [Calls -> Locals] /\ CallsHold'
    BY <1>1, <1>3, LeaveCall DEF rowVars
  <2> QED BY <1>1, <1>3, <2>1, CallReads, Apart DEF OthersTyped
<1>4. CASE MakeSession(c)
  <2> DEFINE local == [calls[c] EXCEPT !.pc = "save", !.session = s]
             receipt == [status |-> "open", cents |-> calls[c].row.cents]
  <2>1. LocalOK(local) /\ local.brief = b
    BY <1>1, <1>2, Constants DEF LocalOK, Locals, CallPcs, SessionIds
  <2>2. Step(c, local)
    BY <1>4 DEF MakeSession
  <2>3. calls' \in [Calls -> Locals] /\ CallsHold'
    BY <1>1, <2>1, <2>2, UnderWay, MoveCall DEF rowVars
  <2>4. receipt \in Receipts
    BY <1>2 DEF Receipts, Rows, SessionStatuses
  <2>5. /\ sess' \in [Briefs -> [Sessions -> Receipts]]
        /\ \A o \in Briefs, t \in Sessions :
             sess[o][t].status = "paid" => sess'[o][t] = sess[o][t]
    <3>1. CASE sess[b][s].status = "none"
      BY <1>2, <1>4, <2>4, <3>1, MoveSession DEF MakeSession
    <3>2. CASE UNCHANGED sess
      BY <3>2, Apart DEF OthersTyped
    <3> QED BY <1>4, <3>1, <3>2 DEF MakeSession
  <2>6. OthersTyped' /\ LiveIsHeld'
    BY <1>1, <2>5, Apart DEF OthersTyped, rowVars, LiveIsHeld, FundingInv
  <2>7. DeliveriesHold' /\ EscrowIsPaid'
    BY <1>1, <2>5, PaidStays DEF rowVars
  <2>8. pay' \in [Briefs -> Rows] /\ \A o \in Briefs : RowOK(pay'[o], quote'[o])
    BY <1>1, KeepRows DEF rowVars
  <2> QED BY <2>3, <2>6, <2>7, <2>8, Together
<1> QED BY <1>3, <1>4 DEF Create

-----------------------------------------------------------------------------
(* Moderators, the clock and the settlement service.                       *)
LEMMA ModeratorsHold ==
  ASSUME FundingInv, NEW b \in Briefs,
         \/ \E cents \in Amounts : Quote(b, cents)
         \/ CommitEscrow(b) \/ GoLive(b) \/ Pause(b) \/ ReachExpiry(b) \/ Release(b)
         \/ \E a \in Attempts : Ages(b, a)
  PROVE  FundingInv'
<1>1. CASE \E cents \in Amounts : Quote(b, cents)
  <2> PICK cents \in Amounts : Quote(b, cents)
    BY <1>1
  <2>1. TypeOK'
    BY DEF FundingInv, TypeOK, Quote, Cents, stripeVars
  <2>2. CallsHold' /\ QuoteFrozen' /\ DeliveriesHold' /\ LiveIsHeld'
    BY DEF FundingInv, CallsHold, QuoteFrozen, DeliveriesHold, LiveIsHeld, Quote, TypeOK, stripeVars
  <2>3. EscrowIsPaid'
    BY DEF FundingInv, EscrowIsPaid, Quote, TypeOK, stripeVars
  <2> QED BY <2>1, <2>2, <2>3 DEF FundingInv
<1>2. CASE CommitEscrow(b)
  BY <1>2 DEF FundingInv, CommitEscrow, TypeOK, CallsHold, QuoteFrozen, DeliveriesHold, LiveIsHeld,
              EscrowIsPaid, stripeVars
<1>3. CASE GoLive(b) \/ Pause(b) \/ ReachExpiry(b)
  <2>1. TypeOK'
    BY <1>3 DEF FundingInv, TypeOK, GoLive, Pause, ReachExpiry, stripeVars, rowVars
  <2>2. CallsHold' /\ QuoteFrozen' /\ DeliveriesHold' /\ EscrowIsPaid'
    BY <1>3 DEF FundingInv, GoLive, Pause, ReachExpiry, CallsHold, QuoteFrozen, DeliveriesHold,
                EscrowIsPaid, stripeVars, rowVars
  <2>3. LiveIsHeld'
    BY <1>3 DEF FundingInv, TypeOK, LiveIsHeld, GoLive, Pause, ReachExpiry
  <2> QED BY <2>1, <2>2, <2>3 DEF FundingInv
<1>4. CASE Release(b)
  <2>1. TypeOK'
    BY <1>4 DEF FundingInv, TypeOK, Release, stripeVars
  <2>2. CallsHold' /\ QuoteFrozen' /\ DeliveriesHold' /\ EscrowIsPaid'
    BY <1>4 DEF FundingInv, Release, CallsHold, QuoteFrozen, DeliveriesHold, EscrowIsPaid, stripeVars
  <2>3. LiveIsHeld'
    BY <1>4 DEF FundingInv, TypeOK, LiveIsHeld, Release
  <2> QED BY <2>1, <2>2, <2>3 DEF FundingInv
<1>5. CASE \E a \in Attempts : Ages(b, a)
  BY <1>5 DEF FundingInv, Ages, TypeOK, CallsHold, QuoteFrozen, DeliveriesHold, LiveIsHeld,
              EscrowIsPaid, rowVars
<1> QED BY <1>1, <1>2, <1>3, <1>4, <1>5

(* Stripe moves sessions that are not paid yet.                            *)
LEMMA StripeHolds ==
  ASSUME FundingInv, NEW b \in Briefs, NEW s \in Sessions,
         \/ BuyerPays(b, s) \/ PaymentEnds(b, s) \/ SessionExpires(b, s)
         \/ \E outcome \in Reversals : Reverse(b, s, outcome)
  PROVE  FundingInv'
<1>1. UNCHANGED <<rowVars, shown, inbox, answered, calls>>
  BY DEF BuyerPays, PaymentEnds, SessionExpires, Reverse
<1>2. /\ pay' \in [Briefs -> Rows] /\ \A o \in Briefs : RowOK(pay'[o], quote'[o])
      /\ calls' \in [Calls -> Locals] /\ CallsHold'
  BY <1>1, KeepRows, KeepCalls DEF rowVars
<1> DEFINE PaidKept == \A o \in Briefs, t \in Sessions :
                         sess[o][t].status = "paid" => sess'[o][t] = sess[o][t]
<1>3. sess' \in [Briefs -> [Sessions -> Receipts]] /\ PaidKept
  <2>1. ASSUME NEW to \in SessionStatuses, Becomes(b, s, to), sess[b][s].status # "paid"
        PROVE  sess' \in [Briefs -> [Sessions -> Receipts]] /\ PaidKept
    <3> DEFINE receipt == [sess[b][s] EXCEPT !.status = to]
    <3>1. receipt \in Receipts
      BY Pieces DEF Receipts
    <3>2. sess' = [sess EXCEPT ![b][s] = receipt]
      BY <2>1 DEF Becomes
    <3> QED BY <2>1, <3>1, <3>2, MoveSession
  <2>2. CASE UNCHANGED sess
    BY <2>2, Apart DEF OthersTyped
  <2>3. Methods \subseteq SessionStatuses
    BY StripeAssumption DEF SessionStatuses
  <2>4. CASE BuyerPays(b, s)
    BY <2>1, <2>3, <2>4 DEF BuyerPays
  <2>5. CASE PaymentEnds(b, s)
    BY <2>1, <2>5 DEF PaymentEnds, SessionStatuses
  <2>6. CASE SessionExpires(b, s)
    BY <2>1, <2>6 DEF SessionExpires, SessionStatuses
  <2> QED BY <2>2, <2>4, <2>5, <2>6 DEF Reverse
<1>4. events \subseteq events' /\ events' \subseteq Events
  <2>1. \A kind \in Kinds : <<kind, b, s>> \in Events
    BY Constants
  <2>2. events \subseteq Events
    BY Apart DEF OthersTyped
  <2> QED BY <2>1, <2>2, StripeAssumption
       DEF BuyerPays, PaymentEnds, SessionExpires, Reverse, Emit, Kinds
<1>5. reversed' \subseteq {"refunded", "disputed"} \X Briefs \X Sessions
  <2>1. reversed \subseteq {"refunded", "disputed"} \X Briefs \X Sessions
    BY DEF FundingInv, TypeOK
  <2> QED BY <2>1, StripeAssumption DEF BuyerPays, PaymentEnds, SessionExpires, Reverse
<1>6. UNCHANGED stale
  BY DEF BuyerPays, PaymentEnds, SessionExpires, Reverse
<1>7. OthersTyped' /\ LiveIsHeld'
  <2>1. inbox \subseteq events' \X Outcomes
    BY <1>4, Apart DEF OthersTyped
  <2> QED BY <1>1, <1>3, <1>4, <1>5, <1>6, <2>1, Apart
       DEF OthersTyped, rowVars, LiveIsHeld, FundingInv
<1>8. DeliveriesHold' /\ EscrowIsPaid'
  BY <1>1, <1>3, PaidStays DEF rowVars
<1> QED BY <1>2, <1>7, <1>8, Together

-----------------------------------------------------------------------------
(* webhook().                                                              *)
LEMMA HearHolds ==
  ASSUME FundingInv, NEW kind \in Kinds, NEW b \in Briefs, NEW s \in Sessions, Hear(kind, b, s)
  PROVE  FundingInv'
<1> DEFINE e == <<kind, b, s>>
<1>1. /\ pay' \in [Briefs -> Rows] /\ \A o \in Briefs : RowOK(pay'[o], quote'[o])
      /\ calls' \in [Calls -> Locals] /\ CallsHold'
  BY KeepRows, KeepCalls DEF Hear, rowVars
<1>2. Outcome(kind, b, s) \in Outcomes
  BY DEF Outcome, Outcomes
<1>3. answered' \subseteq events /\ inbox' \subseteq events \X Outcomes
  <2>1. e \in events /\ answered \subseteq events /\ inbox \subseteq events \X Outcomes
    BY Apart DEF Hear, OthersTyped
  <2>2. answered' = answered \/ answered' = answered \cup {e}
    BY DEF Hear
  <2>3. inbox' = inbox \/ inbox' = inbox \cup {<<e, Outcome(kind, b, s)>>}
    BY DEF Hear
  <2> QED BY <1>2, <2>1, <2>2, <2>3
<1>4. OthersTyped' /\ LiveIsHeld'
  BY <1>3, Apart DEF Hear, rowVars, stripeVars, OthersTyped, LiveIsHeld, FundingInv
<1>5. DeliveriesHold'
  BY DEF Hear, stripeVars, DeliveriesHold, FundingInv
<1>6. EscrowIsPaid'
  BY DEF Hear, rowVars, stripeVars, EscrowIsPaid, FundingInv
<1> QED BY <1>1, <1>4, <1>5, <1>6, Together

(* Noting a failed session keeps the invariant.                            *)
LEMMA HearUnpaidHolds ==
  ASSUME FundingInv, NEW kind \in Kinds, NEW b \in Briefs, NEW s \in Sessions,
         HearUnpaid(kind, b, s)
  PROVE  FundingInv'
<1>1. OthersTyped' /\ LiveIsHeld'
  BY Apart DEF HearUnpaid, stripeVars, OthersTyped, LiveIsHeld, FundingInv
<1>2. /\ pay' \in [Briefs -> Rows] /\ \A o \in Briefs : RowOK(pay'[o], quote'[o])
      /\ \A o \in Briefs : pay[o].status # "none" => pay'[o].status # "none"
      /\ \A o \in escrow : pay'[o] = pay[o]
  <2> DEFINE row == [pay[b] EXCEPT !.status = "failed"]
  <2>1. CASE pay' = [pay EXCEPT ![b] = row] /\ pay[b].status = "pending"
    <3>1. RowOK(row, quote[b]) /\ row.status # "none"
      BY <2>1, Pieces DEF RowOK, Rows, PayStatuses
    <3>2. b \notin escrow
      BY <2>1 DEF FundingInv, EscrowIsPaid
    <3> QED BY <2>1, <3>1, <3>2, WriteRow DEF HearUnpaid, FundingInv, TypeOK
  <2>2. CASE UNCHANGED pay
    BY <2>2, KeepRows DEF HearUnpaid
  <2>3. pay \in [Briefs -> Rows]
    BY DEF FundingInv, TypeOK
  <2> QED BY <2>1, <2>2, <2>3 DEF HearUnpaid
<1>3. calls' \in [Calls -> Locals] /\ CallsHold'
  BY <1>2, KeepCalls DEF HearUnpaid
<1>4. DeliveriesHold' /\ EscrowIsPaid'
  BY <1>2, PaidStays DEF HearUnpaid, stripeVars
<1> QED BY <1>1, <1>2, <1>3, <1>4, Together

(* A delivery that dies keeps the invariant.                               *)
LEMMA DeliveryDiesHolds ==
  ASSUME FundingInv, DeliveryDies
  PROVE  FundingInv'
<1>1. inbox' \subseteq inbox /\ UNCHANGED <<rowVars, stripeVars, answered, calls>>
  BY DEF DeliveryDies
<1>2. OthersTyped' /\ LiveIsHeld'
  BY <1>1, Apart DEF rowVars, stripeVars, OthersTyped, LiveIsHeld, FundingInv
<1>3. DeliveriesHold' /\ EscrowIsPaid'
  BY <1>1, PaidStays DEF rowVars, stripeVars
<1> QED BY <1>1, <1>2, <1>3, KeepRows, KeepCalls, Together DEF rowVars

(* The transaction: what it records agrees with the quote, because the     *)
(* session's amount is compared with the row's.                            *)
LEMMA ProcessHolds ==
  ASSUME FundingInv, NEW e \in events, NEW outcome \in Outcomes, Process(e, outcome)
  PROVE  FundingInv'
<1> DEFINE b == e[2]
           s == e[3]
<1>1. b \in Briefs /\ s \in Sessions /\ s # NoSession /\ s \in SessionIds
  BY Apart, Constants DEF OthersTyped, SessionIds
<1>2. /\ inbox' \subseteq inbox /\ answered' \subseteq events /\ processed' \subseteq events
      /\ UNCHANGED <<quote, expired, stripeVars, calls>>
  BY DEF Process, FundingInv, TypeOK
<1>3. CASE UNCHANGED <<status, escrow, pay>>
  <2>1. OthersTyped' /\ LiveIsHeld'
    BY <1>2, <1>3, Apart DEF stripeVars, OthersTyped, LiveIsHeld, FundingInv
  <2>2. DeliveriesHold' /\ EscrowIsPaid'
    BY <1>2, <1>3, PaidStays DEF stripeVars
  <2> QED BY <1>2, <1>3, <2>1, <2>2, KeepRows, KeepCalls, Together
<1>4. CASE ~ Mismatch(e) /\ outcome = "paid" /\ pay[b].status = "pending" /\ RecordPaid(b, s)
  <2> DEFINE row == [pay[b] EXCEPT !.status = "paid", !.intent = s, !.session = s]
  <2>1. pay' = [pay EXCEPT ![b] = row] /\ escrow' = escrow \cup {b} /\ UNCHANGED status
    BY <1>1, <1>4 DEF RecordPaid, FundingInv, TypeOK
  <2>2. RowOK(row, quote[b]) /\ row.status # "none"
    BY <1>1, <1>4, Pieces DEF RowOK, Rows, PayStatuses
  <2>3. /\ pay' \in [Briefs -> Rows] /\ \A o \in Briefs : RowOK(pay'[o], quote'[o])
        /\ \A o \in Briefs : pay[o].status # "none" => pay'[o].status # "none"
    BY <1>1, <1>2, <2>1, <2>2, WriteRow
  <2>4. calls' \in [Calls -> Locals] /\ CallsHold'
    BY <1>2, <2>3, KeepCalls
  <2>5. OthersTyped' /\ LiveIsHeld'
    BY <1>1, <1>2, <2>1, Apart DEF stripeVars, OthersTyped, LiveIsHeld, FundingInv
  <2>6. DeliveriesHold'
    BY <1>2 DEF stripeVars, DeliveriesHold, FundingInv
  <2>7. sess[b][s] = [status |-> "paid", cents |-> quote[b]] /\ pay[b].cents = quote[b]
    <3>1. sess[b][s].status = "paid"
      BY DEF Process, FundingInv, DeliveriesHold
    <3>2. sess[b][s].cents = pay[b].cents /\ pay[b].status # "none"
      BY <1>4 DEF Mismatch
    <3>3. pay[b].cents = quote[b]
      BY <1>1, <3>2, Pieces DEF RowOK
    <3>4. sess[b][s] \in Receipts
      BY <1>1, Pieces
    <3> QED BY <3>1, <3>2, <3>3, <3>4 DEF Receipts
  <2>8. pay[b] \in Rows /\ pay \in [Briefs -> Rows]
    BY <1>1 DEF FundingInv, TypeOK
  <2>9. EscrowIsPaid'
    <3>1. pay'[b].status = "paid" /\ pay'[b].intent = s /\ pay'[b].cents = pay[b].cents
      BY <1>1, <2>1, <2>8 DEF Rows
    <3>2. \A o \in escrow \ {b} : pay'[o] = pay[o]
      BY <2>1, <2>8 DEF FundingInv, TypeOK
    <3>3. UNCHANGED <<sess, quote>>
      BY <1>2 DEF stripeVars
    <3> QED BY <2>1, <2>7, <3>1, <3>2, <3>3 DEF EscrowIsPaid, FundingInv
  <2> QED BY <2>3, <2>4, <2>5, <2>6, <2>9, Together
<1>5. CASE ~ Mismatch(e) /\ outcome # "paid" /\ RecordReversal(b, s, outcome)
  <2> DEFINE row == [pay[b] EXCEPT !.status = outcome, !.intent = s]
  <2>1. /\ pay' = [pay EXCEPT ![b] = row] /\ escrow' = escrow \ {b}
        /\ status' = [status EXCEPT ![b] = "paused"]
    BY <1>1, <1>5 DEF RecordReversal, FundingInv, TypeOK
  <2>2. RowOK(row, quote[b]) /\ row.status # "none"
    <3>1. pay[b].status # "none"
      BY <1>5 DEF Mismatch
    <3>2. outcome \in {"refunded", "disputed"}
      BY <1>5 DEF Outcomes
    <3>3. RowOK(pay[b], quote[b])
      BY <1>1, Pieces
    <3> HIDE DEF b, s
    <3>4. row \in Rows /\ row.status = outcome /\ row.intent = s
          /\ row.attempt = pay[b].attempt /\ row.cents = pay[b].cents
      BY <1>1, <3>2, <3>3 DEF RowOK, Rows, PayStatuses
    <3> HIDE DEF row
    <3> QED BY <1>1, <3>1, <3>2, <3>3, <3>4 DEF RowOK
  <2>3. /\ pay' \in [Briefs -> Rows] /\ \A o \in Briefs : RowOK(pay'[o], quote'[o])
        /\ \A o \in Briefs : pay[o].status # "none" => pay'[o].status # "none"
    BY <1>1, <1>2, <2>1, <2>2, WriteRow
  <2>4. calls' \in [Calls -> Locals] /\ CallsHold'
    BY <1>2, <2>3, KeepCalls
  <2>5. OthersTyped' /\ LiveIsHeld'
    BY <1>1, <1>2, <2>1, Apart DEF stripeVars, OthersTyped, LiveIsHeld, FundingInv
  <2>6. \A o \in escrow' : pay'[o] = pay[o]
    BY <2>1 DEF FundingInv, TypeOK
  <2>7. DeliveriesHold' /\ EscrowIsPaid'
    BY <1>2, <2>1, <2>6, PaidStays DEF stripeVars
  <2> QED BY <2>3, <2>4, <2>5, <2>7, Together
<1>6. CASE outcome = "paid" /\ pay[b].status # "pending" /\ RecordPaid(b, s)
  BY <1>3, <1>6 DEF RecordPaid
<1> QED BY <1>3, <1>4, <1>5, <1>6 DEF Process

-----------------------------------------------------------------------------
(* The first state satisfies the invariant.                                *)
LEMMA InitHolds == Init => FundingInv
<1> SUFFICES ASSUME Init PROVE FundingInv
  OBVIOUS
<1>1. NoPayment \in Rows /\ NoPayment.status = "none" /\ NoPayment.attempt = 0
      /\ NoPayment.intent = NoSession
  BY Constants DEF NoPayment, Rows, PayStatuses
<1>2. NoCopy \in [status : SessionStatuses, cents : Cents]
  BY Constants DEF NoCopy, SessionStatuses
<1>3. \A b \in Briefs : Idle(b) \in Locals /\ Idle(b).pc = "idle"
  BY <1>1, Constants DEF Idle, Locals, CallPcs
<1>4. TypeOK
  BY <1>1, <1>2, <1>3, Constants DEF Init, TypeOK, Locals
<1>5. CallsHold
  BY <1>3 DEF Init, CallsHold
<1>6. QuoteFrozen /\ DeliveriesHold /\ EscrowIsPaid /\ LiveIsHeld
  BY <1>1 DEF Init, QuoteFrozen, DeliveriesHold, EscrowIsPaid, LiveIsHeld
<1> QED BY <1>4, <1>5, <1>6 DEF FundingInv

(* FundingInv is inductive.                                                *)
LEMMA StepHolds == FundingInv /\ [Next]_vars => FundingInv'
<1> SUFFICES ASSUME FundingInv, [Next]_vars PROVE FundingInv'
  OBVIOUS
<1>1. CASE UNCHANGED vars
  BY <1>1 DEF vars, rowVars, stripeVars, FundingInv, TypeOK, CallsHold, QuoteFrozen, DeliveriesHold,
              EscrowIsPaid, LiveIsHeld
<1>2. ASSUME NEW c \in Calls, Buying(c) PROVE FundingInv'
  BY <1>2, CheckoutHolds, ResetHolds, RereadHolds, RetrieveHolds, ReplaceHolds, CreateHolds, SaveHolds
  DEF Buying
<1>3. CASE Stripe
  BY <1>3, StripeHolds DEF Stripe
<1>4. ASSUME NEW e \in events, Webhook(e) PROVE FundingInv'
  <2>1. e[1] \in Kinds /\ e[2] \in Briefs /\ e[3] \in Sessions
    BY Apart, Constants DEF OthersTyped
  <2> QED BY <1>4, <2>1, HearHolds, HearUnpaidHolds, ProcessHolds DEF Webhook
<1> QED BY <1>1, <1>2, <1>3, <1>4, ModeratorsHold, DeliveryDiesHolds DEF Next

(* FundingInv holds in every reachable state.                              *)
LEMMA FundingAlways == Spec => []FundingInv
BY InitHolds, StepHolds, PTL DEF Spec

(* Rows, sessions and snapshots keep their shape, and a payment names its  *)
(* intent from the moment it is paid or reversed.                          *)
THEOREM FundingTypeCorrect == Spec => []TypeOK
<1>1. FundingInv => TypeOK
  BY DEF FundingInv
<1> QED BY FundingAlways, <1>1, PTL

(* A committed escrow is backed by a paid session of the quoted amount,    *)
(* however many checkouts and deliveries ran into each other.              *)
THEOREM EscrowIsPaidAlways == Spec => []EscrowIsPaid
<1>1. FundingInv => EscrowIsPaid
  BY DEF FundingInv
<1> QED BY FundingAlways, <1>1, PTL

-----------------------------------------------------------------------------
(* A checkout call moves no money: it begins a payment or tries one again. *)
LEMMA BuyingRows ==
  ASSUME FundingInv, NEW c \in Calls, Buying(c), NEW b \in Briefs
  PROVE  /\ UNCHANGED <<escrow, status>>
         /\ \/ pay'[b].status = pay[b].status
            \/ /\ pay[b].status \in {"none", "pending", "failed"} /\ b \notin escrow'
               /\ pay'[b].status \in {"pending", "failed"}
<1> USE DEF FundingInv
<1>1. pay \in [Briefs -> Rows]
  BY DEF TypeOK
<1>2. ASSUME NEW o \in Briefs, Checkout(c, o)
      PROVE  /\ UNCHANGED <<escrow, status>>
             /\ \/ pay'[b].status = pay[b].status
                \/ /\ pay[b].status = "none" /\ b \notin escrow'
                   /\ pay'[b].status = "pending"
  <2>1. UNCHANGED <<escrow, status>> /\ o \notin escrow
    BY <1>2 DEF Checkout
  <2>2. CASE pay[o].status = "none"
    <3>1. pay' = [pay EXCEPT ![o] = [status |-> "pending", attempt |-> 1, session |-> NoSession,
                                     cents |-> quote[o], intent |-> NoSession]]
      BY <1>2, <2>2 DEF Checkout
    <3> QED BY <1>1, <2>1, <2>2, <3>1
  <2>3. CASE pay[o].status # "none"
    <3>1. pay' = [pay EXCEPT ![o] = pay[o]]
      BY <1>2, <2>3 DEF Checkout
    <3> QED BY <1>1, <2>1, <3>1
  <2> QED BY <2>2, <2>3
<1>3. CASE Reset(c) \/ Replace(c) \/ Save(c)
  <2>1. UNCHANGED <<escrow, status>>
    BY <1>3 DEF Reset, Replace, Save
  <2>2. \/ pay'[b].status = pay[b].status
        \/ pay[b].status = "failed" /\ pay'[b].status = "pending"
    <3>1. CASE Reset(c)
      BY <1>1, <3>1 DEF Reset, Rows
    <3>2. CASE Replace(c)
      BY <1>1, <3>2 DEF Replace, Rows
    <3>3. CASE Save(c)
      BY <1>1, <3>3 DEF Save, Rows
    <3> QED BY <1>3, <3>1, <3>2, <3>3
  <2>3. pay[b].status = "failed" => b \notin escrow
    BY DEF EscrowIsPaid
  <2> QED BY <2>1, <2>2, <2>3
<1>4. CASE Reread(c) \/ Retrieve(c) \/ Refetch(c) \/ Create(c) \/ CallDies(c)
  BY <1>4 DEF Reread, Retrieve, Refetch, Create, CallDies, rowVars
<1> QED BY <1>2, <1>3, <1>4 DEF Buying

(* How a step may change a payment and its escrow: no action leads away    *)
(* from a reversal, and none but a seed or a first success commits funds.  *)
LEMMA RowsMove ==
  ASSUME FundingInv, [Next]_vars, NEW b \in Briefs
  PROVE  \/ pay'[b].status = pay[b].status /\ (b \in escrow' => b \in escrow)
         \/ /\ pay[b].status = "none" /\ pay'[b].status = "none" /\ b \notin escrow
         \/ /\ pay[b].status \in {"none", "pending", "failed"} /\ b \notin escrow'
            /\ pay'[b].status \in {"pending", "failed"}
         \/ pay[b].status = "pending" /\ pay'[b].status = "paid"
         \/ pay'[b].status \in {"refunded", "disputed"} /\ b \notin escrow'
<1> USE DEF FundingInv
<1>0. pay \in [Briefs -> Rows]
  BY DEF TypeOK
<1>1. CASE UNCHANGED vars
  BY <1>1 DEF vars, rowVars
<1>2. ASSUME NEW c \in Calls, Buying(c)
      PROVE  /\ UNCHANGED escrow
             /\ \/ pay'[b].status = pay[b].status
                \/ /\ pay[b].status \in {"none", "pending", "failed"} /\ b \notin escrow'
                   /\ pay'[b].status \in {"pending", "failed"}
  BY <1>2, BuyingRows
<1>3. CASE Stripe \/ DeliveryDies
  <2>1. Stripe => UNCHANGED rowVars
    BY DEF Stripe, BuyerPays, PaymentEnds, SessionExpires, Reverse
  <2>2. DeliveryDies => UNCHANGED rowVars
    BY DEF DeliveryDies
  <2> QED BY <1>3, <2>1, <2>2 DEF rowVars
<1>4. ASSUME NEW e \in events, NEW outcome \in Outcomes, Process(e, outcome)
      PROVE  \/ pay'[b].status = pay[b].status /\ (b \in escrow' => b \in escrow)
             \/ pay[b].status = "pending" /\ pay'[b].status = "paid"
             \/ pay'[b].status \in {"refunded", "disputed"} /\ b \notin escrow'
  <2>1. CASE UNCHANGED <<pay, escrow>>
    BY <2>1
  <2>2. CASE outcome = "paid" /\ pay[e[2]].status = "pending" /\ RecordPaid(e[2], e[3])
    <3>1. pay'[e[2]].status = "paid" \/ e[2] \notin Briefs
      BY <1>0, <2>2 DEF RecordPaid, Rows
    <3>2. \A o \in Briefs \ {e[2]} : pay'[o] = pay[o]
      BY <1>0, <2>2 DEF RecordPaid
    <3>3. escrow' = escrow \cup {e[2]}
      BY <2>2 DEF RecordPaid
    <3> QED BY <2>2, <3>1, <3>2, <3>3
  <2>3. CASE outcome # "paid" /\ RecordReversal(e[2], e[3], outcome)
    <3>1. pay'[e[2]].status = outcome \/ e[2] \notin Briefs
      BY <1>0, <2>3 DEF RecordReversal, Rows
    <3>2. \A o \in Briefs \ {e[2]} : pay'[o] = pay[o]
      BY <1>0, <2>3 DEF RecordReversal
    <3>3. escrow' = escrow \ {e[2]}
      BY <2>3 DEF RecordReversal
    <3> QED BY <2>3, <3>1, <3>2, <3>3 DEF Outcomes
  <2>4. CASE outcome = "paid" /\ pay[e[2]].status # "pending" /\ RecordPaid(e[2], e[3])
    BY <2>1, <2>4 DEF RecordPaid
  <2> QED BY <1>4, <2>1, <2>2, <2>3, <2>4 DEF Process
<1>5. ASSUME NEW e \in events, Webhook(e), ~ \E outcome \in Outcomes : Process(e, outcome)
      PROVE  /\ UNCHANGED escrow
             /\ \/ pay'[b].status = pay[b].status
                \/ pay[b].status = "pending" /\ pay'[b].status = "failed"
  <2>1. CASE HearUnpaid(e[1], e[2], e[3])
    BY <1>0, <2>1 DEF HearUnpaid, Rows
  <2>2. CASE Hear(e[1], e[2], e[3])
    BY <2>2 DEF Hear, rowVars
  <2> QED BY <1>5, <2>1, <2>2 DEF Webhook
<1>6. pay[b].status = "pending" => b \notin escrow
  BY DEF EscrowIsPaid
<1>7. ASSUME NEW o \in Briefs,
             \/ \E cents \in Amounts : Quote(o, cents)
             \/ GoLive(o) \/ Pause(o) \/ ReachExpiry(o) \/ Release(o)
             \/ \E a \in Attempts : Ages(o, a)
      PROVE  pay' = pay /\ escrow' \subseteq escrow
  BY <1>7 DEF Quote, GoLive, Pause, ReachExpiry, Release, Ages, rowVars
<1>8. ASSUME NEW o \in Briefs, CommitEscrow(o)
      PROVE  pay' = pay /\ escrow' = escrow \cup {o} /\ pay[o].status = "none"
  BY <1>8 DEF CommitEscrow
<1> QED BY <1>1, <1>2, <1>3, <1>4, <1>5, <1>6, <1>7, <1>8 DEF Next, Webhook

(* A refund or dispute ends the payment, whatever arrives or is called     *)
(* afterwards, for any number of calls, attempts and deliveries.           *)
THEOREM ReversalIsFinalAlways == Spec => ReversalIsFinal
<1>1. FundingInv /\ [Next]_vars =>
        [\A b \in Briefs :
           pay[b].status \in {"refunded", "disputed"} =>
             pay'[b].status \in {"refunded", "disputed"} /\ b \notin escrow']_vars
  <2> SUFFICES ASSUME FundingInv, [Next]_vars, NEW b \in Briefs,
                      pay[b].status \in {"refunded", "disputed"}
               PROVE  pay'[b].status \in {"refunded", "disputed"} /\ b \notin escrow'
    OBVIOUS
  <2>1. b \notin escrow
    BY DEF FundingInv, EscrowIsPaid
  <2> QED BY <2>1, RowsMove
<1> QED BY <1>1, FundingAlways, PTL DEF Spec, ReversalIsFinal

-----------------------------------------------------------------------------
(* The promise of module Escrow: what a step may do to one brief, while it *)
(* leaves the others alone.                                                *)
LEMMA PromiseStep ==
  ASSUME NEW b \in Briefs,
         \A o \in Briefs \ {b} : Funds(o)' = Funds(o) /\ status'[o] = status[o],
         \/ /\ Funds(b)' = Funds(b)
            /\ status'[b] = "live" => status[b] = "live" \/ Funds(b) = "held"
         \/ Funds(b) = "none" /\ Funds(b)' = "held" /\ status'[b] = status[b]
         \/ Funds(b)' = "ended" /\ status'[b] # "live"
  PROVE  [Promise!Next]_(Promise!vars)
<1> DEFINE funds == [o \in Briefs |-> Funds(o)]
           open == {o \in Briefs : status[o] = "live"}
<1>1. CASE Funds(b)' = Funds(b) /\ status'[b] = "live"
  <2>1. funds' = funds
    BY <1>1
  <2>2. open' = open \cup {b} /\ (b \in open \/ funds[b] = "held")
    BY <1>1
  <2>3. CASE b \in open
    BY <2>1, <2>2, <2>3 DEF Promise!vars
  <2>4. CASE funds[b] = "held"
    BY <2>1, <2>2, <2>4 DEF Promise!Next, Promise!OpenUp
  <2> QED BY <2>2, <2>3, <2>4
<1>2. CASE Funds(b)' = Funds(b) /\ status'[b] # "live"
  <2>1. funds' = funds
    BY <1>2
  <2>2. open' = open \ {b}
    BY <1>2
  <2> QED BY <2>1, <2>2 DEF Promise!Next, Promise!Hold
<1>3. CASE Funds(b) = "none" /\ Funds(b)' = "held" /\ status'[b] = status[b]
  <2>1. funds[b] = "none" /\ funds' = [funds EXCEPT ![b] = "held"]
    BY <1>3
  <2>2. open' = open
    BY <1>3
  <2> QED BY <2>1, <2>2 DEF Promise!Next, Promise!Commit
<1>4. CASE Funds(b)' = "ended" /\ status'[b] # "live"
  <2>1. funds' = [funds EXCEPT ![b] = "ended"]
    BY <1>4
  <2>2. open' = open \ {b}
    BY <1>4
  <2> QED BY <2>1, <2>2 DEF Promise!Next, Promise!Finish
<1> QED BY <1>1, <1>2, <1>3, <1>4

(* Every step of funding is one of module Escrow, or none.                 *)
LEMMA FundingKeepsEscrow == FundingInv /\ [Next]_vars => [Promise!Next]_(Promise!vars)
<1> SUFFICES ASSUME FundingInv, [Next]_vars PROVE [Promise!Next]_(Promise!vars)
  OBVIOUS
<1>0. /\ pay \in [Briefs -> Rows] /\ escrow \subseteq Briefs
      /\ status \in [Briefs -> {"draft", "live", "paused", "expired"}]
  BY DEF FundingInv, TypeOK
<1>1. ASSUME status' = status, \A o \in Briefs : Funds(o)' = Funds(o)
      PROVE  [Promise!Next]_(Promise!vars)
  BY <1>1 DEF Promise!vars
<1>2. CASE UNCHANGED vars \/ Stripe \/ DeliveryDies
  <2>1. UNCHANGED <<status, escrow, pay>>
    BY <1>2 DEF vars, rowVars, Stripe, BuyerPays, PaymentEnds, SessionExpires, Reverse, DeliveryDies
  <2> QED BY <1>1, <2>1 DEF Funds
<1>3. ASSUME NEW c \in Calls, Buying(c) PROVE [Promise!Next]_(Promise!vars)
  <2>1. status' = status \/ Briefs = {}
    BY <1>3, BuyingRows
  <2>2. \A o \in Briefs : Funds(o)' = Funds(o)
    BY <1>3, BuyingRows DEF Funds
  <2>3. CASE Briefs = {}
    <3>1. \A b \in Briefs : FALSE
      BY <2>3
    <3> QED BY <2>3, <3>1 DEF Promise!vars
  <2> QED BY <1>1, <2>1, <2>2, <2>3
<1>4. ASSUME NEW e \in events, NEW outcome \in Outcomes, Process(e, outcome)
      PROVE  [Promise!Next]_(Promise!vars)
  <2> DEFINE b == e[2]
  <2>0. b \in Briefs
    BY Apart, Constants DEF OthersTyped
  <2>1. CASE UNCHANGED <<status, escrow, pay>>
    BY <1>1, <2>1 DEF Funds
  <2>2. CASE outcome = "paid" /\ pay[b].status = "pending" /\ RecordPaid(b, e[3])
    <3>1. \A o \in Briefs \ {b} : Funds(o)' = Funds(o)
      BY <1>0, <2>2 DEF RecordPaid, Funds
    <3>2. b \notin escrow
      BY <2>2 DEF FundingInv, EscrowIsPaid
    <3>3. Funds(b) = "none" /\ Funds(b)' = "held" /\ status' = status
      BY <2>2, <3>2 DEF RecordPaid, Funds
    <3> QED BY <2>0, <3>1, <3>3, PromiseStep
  <2>3. CASE outcome # "paid" /\ RecordReversal(b, e[3], outcome)
    <3>1. \A o \in Briefs \ {b} : Funds(o)' = Funds(o) /\ status'[o] = status[o]
      BY <1>0, <2>3 DEF RecordReversal, Funds
    <3>2. pay'[b].status \in {"refunded", "disputed"}
      BY <1>0, <2>0, <2>3 DEF RecordReversal, Rows, Outcomes
    <3>3. Funds(b)' = "ended" /\ status'[b] # "live"
      BY <1>0, <2>0, <2>3, <3>2 DEF RecordReversal, Funds
    <3> QED BY <2>0, <3>1, <3>3, PromiseStep
  <2>4. CASE outcome = "paid" /\ pay[b].status # "pending" /\ RecordPaid(b, e[3])
    BY <2>1, <2>4 DEF RecordPaid
  <2> QED BY <1>4, <2>1, <2>2, <2>3, <2>4 DEF Process
<1>5. ASSUME NEW e \in events, HearUnpaid(e[1], e[2], e[3]) \/ Hear(e[1], e[2], e[3])
      PROVE  [Promise!Next]_(Promise!vars)
  <2>1. UNCHANGED <<status, escrow>>
    BY <1>5 DEF HearUnpaid, Hear, rowVars
  <2>2. \A o \in Briefs : \/ pay'[o].status = pay[o].status
                          \/ pay[o].status = "pending" /\ pay'[o].status = "failed"
    <3>1. CASE HearUnpaid(e[1], e[2], e[3])
      BY <1>0, <3>1 DEF HearUnpaid, Rows
    <3>2. CASE Hear(e[1], e[2], e[3])
      BY <3>2 DEF Hear, rowVars
    <3> QED BY <1>5, <3>1, <3>2
  <2> QED BY <1>1, <2>1, <2>2 DEF Funds
<1>6. ASSUME NEW b \in Briefs,
             \/ \E cents \in Amounts : Quote(b, cents)
             \/ ReachExpiry(b) \/ \E a \in Attempts : Ages(b, a)
      PROVE  [Promise!Next]_(Promise!vars)
  <2>1. UNCHANGED <<status, escrow, pay>>
    BY <1>6 DEF Quote, ReachExpiry, Ages, rowVars
  <2> QED BY <1>1, <2>1 DEF Funds
<1>7. ASSUME NEW b \in Briefs, GoLive(b) \/ Pause(b) PROVE [Promise!Next]_(Promise!vars)
  <2>1. UNCHANGED <<escrow, pay>>
    BY <1>7 DEF GoLive, Pause
  <2>2. \A o \in Briefs : Funds(o)' = Funds(o)
    BY <2>1 DEF Funds
  <2>3. \A o \in Briefs \ {b} : status'[o] = status[o]
    BY <1>0, <1>7 DEF GoLive, Pause
  <2>4. status'[b] = "live" => b \in escrow
    BY <1>0, <1>7 DEF GoLive, Pause
  <2> QED BY <2>2, <2>3, <2>4, PromiseStep DEF Funds
<1>8. ASSUME NEW b \in Briefs, CommitEscrow(b) PROVE [Promise!Next]_(Promise!vars)
  <2>1. /\ UNCHANGED <<status, pay>> /\ escrow' = escrow \cup {b}
        /\ pay[b].status = "none"
    BY <1>8 DEF CommitEscrow
  <2>2. \A o \in Briefs \ {b} : Funds(o)' = Funds(o)
    BY <2>1 DEF Funds
  <2>3. Funds(b)' = "held" /\ Funds(b) \in {"none", "held"}
    BY <2>1 DEF Funds
  <2> QED BY <2>1, <2>2, <2>3, PromiseStep
<1>9. ASSUME NEW b \in Briefs, Release(b) PROVE [Promise!Next]_(Promise!vars)
  <2>1. UNCHANGED pay /\ escrow' = escrow \ {b}
    BY <1>9 DEF Release
  <2>2. \A o \in Briefs \ {b} : Funds(o)' = Funds(o) /\ status'[o] = status[o]
    BY <1>0, <1>9, <2>1 DEF Funds, Release
  <2>3. pay[b].status \in {"paid", "refunded", "disputed"}
    <3>1. CASE pay[b].status = "paid"
      BY <3>1
    <3>2. CASE \E r \in reversed : r[2] = b /\ r[3] = pay[b].intent
      <4>1. pay[b].intent \in Sessions
        BY <3>2 DEF FundingInv, TypeOK
      <4> QED BY <4>1, Constants DEF FundingInv, TypeOK
    <3> QED BY <1>9, <3>1, <3>2 DEF Release
  <2>4. Funds(b)' = "ended" /\ status'[b] # "live"
    BY <1>0, <1>9, <2>1, <2>3 DEF Funds, Release
  <2> QED BY <2>2, <2>4, PromiseStep
<1> QED
  BY <1>2, <1>3, <1>4, <1>5, <1>6, <1>7, <1>8, <1>9 DEF Next, Webhook

(* Wherever the money comes from and however it ends, the brief is open    *)
(* only while it is held, and it is held once.                             *)
THEOREM FundingImplementsEscrow == Spec => KeepsEscrow
<1>1. Init => Promise!Init
  BY DEF Init, Promise!Init, Funds, NoPayment
<1>2. FundingInv /\ [Next]_vars => [Promise!Next]_(Promise!vars)
  BY FundingKeepsEscrow
<1> QED BY <1>1, <1>2, FundingAlways, PTL DEF Spec, KeepsEscrow, Promise!Spec

-----------------------------------------------------------------------------
(***************************************************************************)
(* Attempts.  The money is taken once because every attempt has one        *)
(* session, a new attempt begins when the session of the last one is over, *)
(* and a call never creates a session under a key that Stripe may have     *)
(* forgotten: the calls in flight must know enough of the row for that.    *)
(***************************************************************************)
Newest(b) == <<pay[b].attempt, 1>>

SessionsHold ==
  \A b \in Briefs :
    /\ pay[b].session \in {NoSession, Newest(b)}
    /\ pay[b].status = "failed" => sess[b][Newest(b)].status = "failed"
    /\ \A a \in Attempts :
         /\ sess[b][<<a, 2>>].status = "none"
         /\ a < pay[b].attempt => sess[b][<<a, 1>>].status \in {"failed", "expired"}
         /\ a > pay[b].attempt => sess[b][<<a, 1>>].status = "none"
         /\ <<b, a>> \in stale => a <= pay[b].attempt

(* Stripe tells of a failure that happened.                                *)
FailuresHold ==
  \A b \in Briefs, s \in Sessions : <<"failed", b, s>> \in events => sess[b][s].status = "failed"

(* A call under way holds a row that was, and the key it creates a session *)
(* with is fresh.                                                          *)
TabsHold ==
  \A c \in Calls :
    LET b   == calls[c].brief
        row == calls[c].row
    IN
    calls[c].pc # "idle" =>
      /\ row.attempt <= pay[b].attempt
      /\ row.session \in {NoSession, <<row.attempt, 1>>}
      /\ calls[c].pc = "replace" =>
           row.session # NoSession /\ sess[b][row.session].status = "expired"
      /\ calls[c].pc = "refetch" => <<b, pay[b].attempt>> \notin stale
      /\ calls[c].pc = "create" /\ row.session # NoSession => <<b, row.attempt>> \notin stale
      /\ calls[c].pc = "save" => calls[c].session = <<row.attempt, 1>>

AttemptInv == FundingInv /\ SessionsHold /\ FailuresHold /\ TabsHold

(* A session is <<attempt, copy>>.                                         *)
LEMMA SessionShape ==
  /\ \A s \in Sessions : s[1] \in Attempts /\ s[2] \in {1, 2} /\ s = <<s[1], s[2]>>
  /\ \A a \in Attempts : <<a, 1>> \in Sessions /\ <<a, 2>> \in Sessions /\ a \in Nat \ {0}
BY BoundsAssumption DEF Sessions, Attempts

(* Only the session of the last attempt can take money.                    *)
LEMMA LiveIsNewest ==
  ASSUME FundingInv, SessionsHold, NEW b \in Briefs, NEW s \in Sessions,
         sess[b][s].status \in {"open", "processing", "paid"}
  PROVE  s = Newest(b)
<1>1. /\ s[1] \in Attempts /\ s[1] \in Nat /\ s[2] \in {1, 2} /\ s = <<s[1], s[2]>>
      /\ pay[b].attempt \in Nat
  BY SessionShape DEF FundingInv, TypeOK, Rows, Attempts
<1>2. s[2] = 1
  <2>1. sess[b][<<s[1], 2>>].status = "none"
    BY <1>1 DEF SessionsHold
  <2> QED BY <1>1, <2>1
<1>3. ~ (s[1] < pay[b].attempt) /\ ~ (s[1] > pay[b].attempt)
  BY <1>1, <1>2 DEF SessionsHold
<1>4. s[1] = pay[b].attempt
  BY <1>1, <1>3
<1> QED BY <1>1, <1>2, <1>4 DEF Newest

(* How a step may change one session: only the newest is ever created, and *)
(* one that is over stays so.                                              *)
SessionGoes(b, s) ==
  \/ sess'[b][s].status = sess[b][s].status
  \/ s = Newest(b) /\ sess[b][s].status = "none" /\ sess'[b][s].status = "open"
  \/ sess[b][s].status \in {"open", "processing"} /\ sess'[b][s].status # "none"

(* A call creates the session of the attempt it holds, under its key.      *)
LEMMA CreatesNewest ==
  ASSUME AttemptInv, NEW c \in Calls, Create(c)
  PROVE  /\ \A b \in Briefs, s \in Sessions : SessionGoes(b, s)
         /\ \/ Leave(c)
            \/ Step(c, [calls[c] EXCEPT !.pc = "save", !.session = <<calls[c].row.attempt, 1>>])
<1> DEFINE b == calls[c].brief
           a == calls[c].row.attempt
<1>0. /\ b \in Briefs /\ a \in Attempts /\ a \in Nat /\ pay[b].attempt \in Nat
      /\ a <= pay[b].attempt
      /\ sess \in [Briefs -> [Sessions -> Receipts]]
  BY UnderWay, Constants DEF AttemptInv, TabsHold, FundingInv, TypeOK, Receipts, Create, At
<1>1. CASE calls[c].row.session = NoSession /\ <<b, a>> \in stale
  BY <1>1 DEF Create, SessionGoes
<1>2. CASE ~ (calls[c].row.session = NoSession /\ <<b, a>> \in stale)
  <2>1. <<b, a>> \notin stale
    BY <1>2 DEF Create, At, AttemptInv, TabsHold
  <2>2. Created(b, a) = <<a, 1>>
    BY <2>1 DEF Created
  <2>3. MakeSession(c)
    BY <1>2 DEF Create
  <2>4. /\ sess' = IF sess[b][<<a, 1>>].status = "none"
                   THEN [sess EXCEPT ![b][<<a, 1>>] = [status |-> "open", cents |-> calls[c].row.cents]]
                   ELSE sess
        /\ Step(c, [calls[c] EXCEPT !.pc = "save", !.session = <<a, 1>>])
    BY <2>2, <2>3 DEF MakeSession
  <2>5. sess[b][<<a, 1>>].status = "none" => <<a, 1>> = Newest(b)
    <3>1. sess[b][<<a, 1>>].status = "none" => ~ (a < pay[b].attempt)
      BY <1>0 DEF AttemptInv, SessionsHold
    <3> QED BY <1>0, <3>1 DEF Newest
  <2>6. <<a, 1>> \in Sessions
    BY <1>0, SessionShape
  <2> HIDE DEF a, b
  <2>7. ASSUME NEW o \in Briefs, NEW s \in Sessions PROVE SessionGoes(o, s)
    <3>1. CASE sess[b][<<a, 1>>].status = "none" /\ o = b /\ s = <<a, 1>>
      <4>1. sess'[o][s].status = "open"
        BY <1>0, <2>4, <2>6, <3>1
      <4> QED BY <2>5, <3>1, <4>1 DEF SessionGoes
    <3>2. CASE ~ (sess[b][<<a, 1>>].status = "none" /\ o = b /\ s = <<a, 1>>)
      <4>1. sess'[o][s] = sess[o][s]
        BY <1>0, <2>4, <2>6, <3>2
      <4> QED BY <4>1 DEF SessionGoes
    <3> QED BY <3>1, <3>2
  <2> QED BY <2>4, <2>7 DEF a, b
<1> QED BY <1>1, <1>2

(* The events of Stripe and of the others do not make sessions either.     *)
LEMMA SessionSteps ==
  ASSUME AttemptInv, [Next]_vars
  PROVE  /\ \A b \in Briefs, s \in Sessions : SessionGoes(b, s)
         /\ \A b \in Briefs, s \in Sessions :
              <<"failed", b, s>> \in events' =>
                <<"failed", b, s>> \in events \/ sess'[b][s].status = "failed"
<1> DEFINE Goal == /\ \A b \in Briefs, s \in Sessions : SessionGoes(b, s)
                   /\ \A b \in Briefs, s \in Sessions :
                        <<"failed", b, s>> \in events' =>
                          <<"failed", b, s>> \in events \/ sess'[b][s].status = "failed"
<1>0. sess \in [Briefs -> [Sessions -> Receipts]]
  BY DEF AttemptInv, FundingInv, TypeOK, Receipts
<1>a. ASSUME UNCHANGED <<sess, events>> PROVE Goal
  BY <1>a DEF SessionGoes
<1>1. ASSUME NEW b \in Briefs, NEW s \in Sessions, BuyerPays(b, s) PROVE Goal
  <2>1. PICK result \in Methods : sess' = [sess EXCEPT ![b][s].status = result]
    BY <1>1 DEF BuyerPays, Becomes
  <2>2. /\ sess[b][s].status = "open" /\ events' = events \cup {<<"completed", b, s>>}
        /\ result # "none"
    BY <1>1, StripeAssumption DEF BuyerPays, Emit
  <2> QED BY <1>0, <2>1, <2>2 DEF SessionGoes, Receipts
<1>2. ASSUME NEW b \in Briefs, NEW s \in Sessions, PaymentEnds(b, s) PROVE Goal
  <2>1. /\ sess[b][s].status = "processing"
        /\ \/ /\ sess' = [sess EXCEPT ![b][s].status = "paid"]
              /\ events' = events \cup {<<"succeeded", b, s>>}
           \/ /\ sess' = [sess EXCEPT ![b][s].status = "failed"]
              /\ events' = events \cup {<<"failed", b, s>>}
    BY <1>2 DEF PaymentEnds, Becomes, Emit
  <2> QED BY <1>0, <2>1 DEF SessionGoes, Receipts
<1>3. ASSUME NEW b \in Briefs, NEW s \in Sessions, SessionExpires(b, s) PROVE Goal
  BY <1>0, <1>3 DEF SessionExpires, Becomes, SessionGoes, Receipts
<1>4. ASSUME NEW b \in Briefs, NEW s \in Sessions, NEW outcome \in Reversals, Reverse(b, s, outcome)
      PROVE  Goal
  <2>1. UNCHANGED sess /\ events' = events \cup {<<outcome, b, s>>} /\ outcome # "failed"
    BY <1>4, StripeAssumption DEF Reverse, Emit
  <2> QED BY <2>1 DEF SessionGoes
<1>5. ASSUME NEW c \in Calls, Create(c) PROVE Goal
  BY <1>5, CreatesNewest DEF Create
<1>6. ASSUME NEW c \in Calls, Buying(c), ~ Create(c) PROVE Goal
  BY <1>6, <1>a DEF Buying, Checkout, Reset, Reread, Retrieve, Replace, Refetch, Save, CallDies,
                    stripeVars
<1>7. ASSUME NEW e \in events, Webhook(e) PROVE Goal
  BY <1>7, <1>a DEF Webhook, HearUnpaid, Hear, Process, stripeVars
<1>8. ASSUME DeliveryDies \/ UNCHANGED vars PROVE Goal
  BY <1>8, <1>a DEF DeliveryDies, stripeVars, vars
<1>9. ASSUME NEW b \in Briefs,
             \/ \E cents \in Amounts : Quote(b, cents)
             \/ CommitEscrow(b) \/ GoLive(b) \/ Pause(b) \/ ReachExpiry(b) \/ Release(b)
             \/ \E a \in Attempts : Ages(b, a)
      PROVE  Goal
  BY <1>9, <1>a DEF Quote, CommitEscrow, GoLive, Pause, ReachExpiry, Release, Ages, stripeVars
<1> HIDE DEF Goal
<1>10. Goal
  BY <1>1, <1>2, <1>3, <1>4, <1>5, <1>6, <1>7, <1>8, <1>9 DEF Next, Stripe
<1> QED BY <1>10 DEF Goal

(* How a step may change a row: a new attempt begins when the last one is  *)
(* over, a saved session is the attempt's, and a failure is its session's. *)
RowGoes(b) ==
  \/ /\ pay'[b].attempt = pay[b].attempt
     /\ pay'[b].session \in {pay[b].session, Newest(b)}
     /\ pay'[b].status = "failed" => pay[b].status = "failed" \/ sess[b][Newest(b)].status = "failed"
  \/ /\ pay[b].attempt = 0 \/ sess[b][Newest(b)].status \in {"failed", "expired"}
     /\ pay'[b].attempt = pay[b].attempt + 1
     /\ pay'[b].session = NoSession /\ pay'[b].status = "pending"

(* A row that is written as RowGoes allows, and the others left alone.     *)
LEMMA OneRow ==
  ASSUME FundingInv, NEW o \in Briefs, NEW row, pay' = [pay EXCEPT ![o] = row], RowGoes(o)
  PROVE  \A b \in Briefs : RowGoes(b)
<1> SUFFICES ASSUME NEW b \in Briefs, b # o PROVE RowGoes(b)
  OBVIOUS
<1>1. pay'[b] = pay[b]
  BY DEF FundingInv, TypeOK
<1> QED BY <1>1 DEF RowGoes

(* checkout() does that.                                                   *)
LEMMA BuyingGoes ==
  ASSUME AttemptInv, NEW c \in Calls, Buying(c)
  PROVE  \A b \in Briefs : RowGoes(b)
<1>0. FundingInv /\ pay \in [Briefs -> Rows]
  BY DEF AttemptInv, FundingInv, TypeOK
<1>a. UNCHANGED pay => \A b \in Briefs : RowGoes(b)
  BY DEF RowGoes
<1>1. ASSUME NEW o \in Briefs, Checkout(c, o) PROVE \A b \in Briefs : RowGoes(b)
  <2>1. CASE pay[o].status = "none"
    <3>1. pay' = [pay EXCEPT ![o] = [status |-> "pending", attempt |-> 1, session |-> NoSession,
                                     cents |-> quote[o], intent |-> NoSession]]
      BY <1>1, <2>1 DEF Checkout
    <3>2. pay[o].attempt = 0
      BY <1>0, <2>1 DEF FundingInv, TypeOK
    <3>3. RowGoes(o)
      BY <1>0, <3>1, <3>2 DEF RowGoes
    <3> QED BY <1>0, <3>1, <3>3, OneRow
  <2>2. CASE pay[o].status # "none"
    <3>1. pay' = [pay EXCEPT ![o] = pay[o]]
      BY <1>1, <2>2 DEF Checkout
    <3>2. pay' = pay
      BY <1>0, <3>1
    <3> QED BY <1>a, <3>2
  <2> QED BY <2>1, <2>2
<1> DEFINE b == calls[c].brief
           row == calls[c].row
<1>2. CASE Reset(c)
  <2>1. b \in Briefs /\ pay[b] \in Rows
    BY <1>0, <1>2, UnderWay DEF Reset, At
  <2>2. CASE pay[b].status = "failed" /\ pay[b].attempt = row.attempt
    <3>1. pay' = [pay EXCEPT ![b].status = "pending", ![b].attempt = @ + 1, ![b].session = NoSession]
      BY <1>2, <2>2 DEF Reset
    <3>2. sess[b][Newest(b)].status = "failed"
      BY <2>1, <2>2 DEF AttemptInv, SessionsHold
    <3> DEFINE new == [pay[b] EXCEPT !.status = "pending", !.attempt = @ + 1, !.session = NoSession]
    <3>3. pay' = [pay EXCEPT ![b] = new]
      BY <1>0, <2>1, <3>1
    <3>4. /\ new.attempt = pay[b].attempt + 1 /\ new.session = NoSession
          /\ new.status = "pending"
      BY <2>1 DEF Rows
    <3> HIDE DEF new, b
    <3>5. RowGoes(b)
      BY <1>0, <2>1, <3>2, <3>3, <3>4 DEF RowGoes
    <3> QED BY <1>0, <2>1, <3>3, <3>5, OneRow
  <2>3. CASE ~ (pay[b].status = "failed" /\ pay[b].attempt = row.attempt)
    BY <1>2, <1>a, <2>3 DEF Reset
  <2> QED BY <2>2, <2>3
<1>3. CASE Replace(c)
  <2>1. b \in Briefs /\ pay[b] \in Rows
    BY <1>0, <1>3, UnderWay DEF Replace, At
  <2>2. CASE pay[b].status = "pending" /\ pay[b].attempt = row.attempt /\ pay[b].session = row.session
    <3>1. pay' = [pay EXCEPT ![b].session = NoSession, ![b].attempt = @ + 1]
      BY <1>3, <2>2 DEF Replace
    <3>2. sess[b][Newest(b)].status = "expired"
      BY <1>3, <2>2 DEF Replace, At, AttemptInv, TabsHold, Newest
    <3> DEFINE new == [pay[b] EXCEPT !.session = NoSession, !.attempt = @ + 1]
    <3>3. pay' = [pay EXCEPT ![b] = new]
      BY <1>0, <2>1, <3>1
    <3>4. /\ new.attempt = pay[b].attempt + 1 /\ new.session = NoSession
          /\ new.status = "pending"
      BY <2>1, <2>2 DEF Rows
    <3> HIDE DEF new, b
    <3>5. RowGoes(b)
      BY <1>0, <2>1, <3>2, <3>3, <3>4 DEF RowGoes
    <3> QED BY <1>0, <2>1, <3>3, <3>5, OneRow
  <2>3. CASE ~ (pay[b].status = "pending" /\ pay[b].attempt = row.attempt
                /\ pay[b].session = row.session)
    BY <1>3, <1>a, <2>3 DEF Replace
  <2> QED BY <2>2, <2>3
<1>4. CASE Save(c)
  <2>1. b \in Briefs /\ pay[b] \in Rows
    BY <1>0, <1>4, UnderWay DEF Save, At
  <2>2. CASE pay[b].attempt = row.attempt /\ pay[b].status = "pending"
    <3>1. pay' = [pay EXCEPT ![b].session = calls[c].session]
      BY <1>4, <2>2 DEF Save
    <3>2. calls[c].session = Newest(b)
      BY <1>4, <2>2 DEF Save, At, AttemptInv, TabsHold, Newest
    <3> DEFINE new == [pay[b] EXCEPT !.session = calls[c].session]
    <3>3. pay' = [pay EXCEPT ![b] = new]
      BY <1>0, <2>1, <3>1
    <3>4. new.attempt = pay[b].attempt /\ new.session = Newest(b) /\ new.status = "pending"
      BY <2>1, <2>2, <3>2 DEF Rows
    <3> HIDE DEF new, b
    <3>5. RowGoes(b)
      BY <1>0, <2>1, <3>3, <3>4 DEF RowGoes
    <3> QED BY <1>0, <2>1, <3>3, <3>5, OneRow
  <2>3. CASE ~ (pay[b].attempt = row.attempt /\ pay[b].status = "pending")
    BY <1>4, <1>a, <2>3 DEF Save
  <2> QED BY <2>2, <2>3
<1>5. CASE Reread(c) \/ Retrieve(c) \/ Refetch(c) \/ Create(c) \/ CallDies(c)
  BY <1>5, <1>a DEF Reread, Retrieve, Refetch, Create, CallDies, rowVars
<1> QED BY <1>1, <1>2, <1>3, <1>4, <1>5 DEF Buying

(* And so do the webhooks: a success is recorded for the session that took *)
(* the money, a failure for the saved one.                                 *)
LEMMA WebhookGoes ==
  ASSUME AttemptInv, NEW e \in events, Webhook(e)
  PROVE  \A b \in Briefs : RowGoes(b)
<1> DEFINE b == e[2]
           s == e[3]
<1>0. FundingInv /\ pay \in [Briefs -> Rows]
  BY DEF AttemptInv, FundingInv, TypeOK
<1>1. e = <<e[1], b, s>> /\ b \in Briefs /\ s \in Sessions /\ s # NoSession /\ pay[b] \in Rows
  BY <1>0, Constants, Apart DEF OthersTyped, Events
<1>a. UNCHANGED pay => \A o \in Briefs : RowGoes(o)
  BY DEF RowGoes
<1>2. CASE HearUnpaid(e[1], b, s)
  <2>1. CASE e[1] = "failed" /\ pay[b].status = "pending" /\ pay[b].session = s
    <3>1. pay' = [pay EXCEPT ![b].status = "failed"]
      BY <1>2, <2>1 DEF HearUnpaid
    <3>2. s = Newest(b) /\ sess[b][s].status = "failed"
      BY <1>1, <1>2, <2>1 DEF HearUnpaid, AttemptInv, SessionsHold, FailuresHold
    <3> DEFINE new == [pay[b] EXCEPT !.status = "failed"]
    <3>3. pay' = [pay EXCEPT ![b] = new]
      BY <1>0, <1>1, <3>1
    <3>4. new.attempt = pay[b].attempt /\ new.session = pay[b].session
      BY <1>1 DEF Rows
    <3> HIDE DEF new, b, s
    <3>5. RowGoes(b)
      BY <1>0, <1>1, <3>2, <3>3, <3>4 DEF RowGoes
    <3> QED BY <1>0, <1>1, <3>3, <3>5, OneRow
  <2>2. CASE ~ (e[1] = "failed" /\ pay[b].status = "pending" /\ pay[b].session = s)
    BY <1>2, <1>a, <2>2 DEF HearUnpaid
  <2> QED BY <2>1, <2>2
<1>3. CASE Hear(e[1], b, s)
  BY <1>3, <1>a DEF Hear, rowVars
<1>4. ASSUME NEW outcome \in Outcomes, Process(e, outcome) PROVE \A o \in Briefs : RowGoes(o)
  <2>0. \/ UNCHANGED pay
        \/ outcome = "paid" /\ RecordPaid(b, s)
        \/ outcome # "paid" /\ RecordReversal(b, s, outcome)
    BY <1>4 DEF Process
  <2>1. CASE RecordPaid(b, s) /\ pay[b].status = "pending"
    <3>1. pay' = [pay EXCEPT ![b].status = "paid", ![b].intent = s, ![b].session = s]
      BY <2>1 DEF RecordPaid
    <3>2. sess[b][s].status = "paid"
      <4>1. <<e, outcome>> \in inbox
        BY <1>4 DEF Process
      <4> QED BY <1>0, <4>1 DEF FundingInv, DeliveriesHold
    <3>3. s = Newest(b)
      BY <1>0, <1>1, <3>2, LiveIsNewest DEF AttemptInv
    <3> DEFINE new == [pay[b] EXCEPT !.status = "paid", !.intent = s, !.session = s]
    <3>4. pay' = [pay EXCEPT ![b] = new]
      BY <1>0, <1>1, <3>1
    <3>5. new.attempt = pay[b].attempt /\ new.session = s /\ new.status = "paid"
      BY <1>1 DEF Rows
    <3> HIDE DEF new, b, s
    <3>6. RowGoes(b)
      BY <1>0, <1>1, <3>3, <3>4, <3>5 DEF RowGoes
    <3> QED BY <1>0, <1>1, <3>4, <3>6, OneRow
  <2>2. CASE RecordPaid(b, s) /\ pay[b].status # "pending"
    BY <1>a, <2>2 DEF RecordPaid
  <2>3. CASE outcome # "paid" /\ RecordReversal(b, s, outcome)
    <3>1. pay' = [pay EXCEPT ![b].status = outcome, ![b].intent = s] /\ outcome # "failed"
      BY <2>3 DEF RecordReversal, Outcomes
    <3> DEFINE new == [pay[b] EXCEPT !.status = outcome, !.intent = s]
    <3>2. pay' = [pay EXCEPT ![b] = new]
      BY <1>0, <1>1, <3>1
    <3>3. new.attempt = pay[b].attempt /\ new.session = pay[b].session /\ new.status # "failed"
      BY <1>1, <3>1 DEF Rows
    <3> HIDE DEF new, b, s
    <3>4. RowGoes(b)
      BY <1>0, <1>1, <3>2, <3>3 DEF RowGoes
    <3> QED BY <1>0, <1>1, <3>2, <3>4, OneRow
  <2> HIDE DEF b, s
  <2> QED BY <1>a, <2>0, <2>1, <2>2, <2>3
<1> QED BY <1>2, <1>3, <1>4 DEF Webhook

(* Nobody else writes a row.                                               *)
LEMMA RowSteps == ASSUME AttemptInv, [Next]_vars PROVE \A b \in Briefs : RowGoes(b)
<1>a. UNCHANGED pay => \A b \in Briefs : RowGoes(b)
  BY DEF RowGoes
<1>1. Stripe \/ DeliveryDies \/ UNCHANGED vars => UNCHANGED pay
  BY DEF Stripe, BuyerPays, PaymentEnds, SessionExpires, Reverse, DeliveryDies, rowVars, vars
<1>2. ASSUME NEW b \in Briefs,
             \/ \E cents \in Amounts : Quote(b, cents)
             \/ CommitEscrow(b) \/ GoLive(b) \/ Pause(b) \/ ReachExpiry(b) \/ Release(b)
             \/ \E a \in Attempts : Ages(b, a)
      PROVE  UNCHANGED pay
  BY <1>2 DEF Quote, CommitEscrow, GoLive, Pause, ReachExpiry, Release, Ages, rowVars
<1> QED BY <1>a, <1>1, <1>2, BuyingGoes, WebhookGoes DEF Next

(* A day passes only over attempts that were begun, and not while a call   *)
(* on the brief is under way.                                              *)
LEMMA StaleSteps ==
  ASSUME [Next]_vars, NEW b \in Briefs, NEW a \in Attempts, <<b, a>> \in stale', <<b, a>> \notin stale
  PROVE  /\ pay[b].attempt >= a
         /\ \A c \in Calls : calls[c].pc # "idle" => calls[c].brief # b
         /\ UNCHANGED calls
<1>1. UNCHANGED stale \/ \E o \in Briefs, n \in Attempts : Ages(o, n)
  <2>1. ASSUME NEW c \in Calls, Buying(c) PROVE UNCHANGED stale
    BY <2>1 DEF Buying, Checkout, Reset, Reread, Retrieve, Replace, Refetch, Create, Save, CallDies,
                stripeVars
  <2>2. Stripe \/ DeliveryDies \/ UNCHANGED vars => UNCHANGED stale
    BY DEF Stripe, BuyerPays, PaymentEnds, SessionExpires, Reverse, DeliveryDies, stripeVars, vars
  <2>3. ASSUME NEW e \in events, Webhook(e) PROVE UNCHANGED stale
    BY <2>3 DEF Webhook, HearUnpaid, Hear, Process, stripeVars
  <2>4. ASSUME NEW o \in Briefs,
               \/ \E cents \in Amounts : Quote(o, cents)
               \/ CommitEscrow(o) \/ GoLive(o) \/ Pause(o) \/ ReachExpiry(o) \/ Release(o)
        PROVE  UNCHANGED stale
    BY <2>4 DEF Quote, CommitEscrow, GoLive, Pause, ReachExpiry, Release, stripeVars
  <2> QED BY <2>1, <2>2, <2>3, <2>4 DEF Next
<1>2. PICK o \in Briefs, n \in Attempts : Ages(o, n)
  BY <1>1
<1>3. o = b /\ n = a
  BY <1>2 DEF Ages
<1> QED BY <1>2, <1>3 DEF Ages, At

(* SessionsHold and FailuresHold are kept.                                 *)
LEMMA SessionsStep == ASSUME AttemptInv, [Next]_vars PROVE SessionsHold' /\ FailuresHold'
<1>1. FailuresHold'
  <2> SUFFICES ASSUME NEW b \in Briefs, NEW s \in Sessions, <<"failed", b, s>> \in events'
               PROVE  sess'[b][s].status = "failed"
    BY DEF FailuresHold
  <2>1. CASE <<"failed", b, s>> \in events
    <3>1. sess[b][s].status = "failed"
      BY <2>1 DEF AttemptInv, FailuresHold
    <3> QED BY <3>1, SessionSteps DEF SessionGoes
  <2>2. CASE <<"failed", b, s>> \notin events
    BY <2>2, SessionSteps
  <2> QED BY <2>1, <2>2
<1>2. SessionsHold'
  <2> SUFFICES ASSUME NEW b \in Briefs
               PROVE  /\ pay'[b].session \in {NoSession, Newest(b)'}
                      /\ pay'[b].status = "failed" => sess'[b][Newest(b)'].status = "failed"
                      /\ \A a \in Attempts :
                           /\ sess'[b][<<a, 2>>].status = "none"
                           /\ a < pay'[b].attempt => sess'[b][<<a, 1>>].status \in {"failed", "expired"}
                           /\ a > pay'[b].attempt => sess'[b][<<a, 1>>].status = "none"
                           /\ <<b, a>> \in stale' => a <= pay'[b].attempt
    BY DEF SessionsHold
  <2>0. /\ pay[b].session \in {NoSession, Newest(b)}
        /\ pay[b].status = "failed" => sess[b][Newest(b)].status = "failed"
        /\ pay[b].attempt \in Nat /\ pay[b].attempt \in Attempts \cup {0}
        /\ Attempts \subseteq Nat \ {0}
        /\ pay[b].status = "failed" => pay[b].attempt # 0
    BY Constants DEF AttemptInv, SessionsHold, FundingInv, TypeOK, Rows, Attempts
  <2>1. RowGoes(b)
    BY RowSteps
  <2>2. pay'[b].session \in {NoSession, Newest(b)'}
    BY <2>0, <2>1 DEF RowGoes, Newest
  <2>3. ASSUME pay'[b].status = "failed" PROVE sess'[b][Newest(b)'].status = "failed"
    <3>1. pay'[b].attempt = pay[b].attempt /\ sess[b][Newest(b)].status = "failed"
      BY <2>0, <2>1, <2>3 DEF RowGoes
    <3>2. pay'[b].status # "none" /\ Newest(b)' = Newest(b)
      BY <2>3, <3>1 DEF Newest
    <3>3. pay[b].attempt # 0
      BY <2>3, <3>1, StepHolds DEF AttemptInv, FundingInv, TypeOK
    <3>4. Newest(b) \in Sessions
      BY <2>0, <3>3, SessionShape DEF Newest
    <3> QED BY <3>1, <3>2, <3>4, SessionSteps DEF SessionGoes
  <2>4. ASSUME NEW a \in Attempts
        PROVE  /\ sess'[b][<<a, 2>>].status = "none"
               /\ a < pay'[b].attempt => sess'[b][<<a, 1>>].status \in {"failed", "expired"}
               /\ a > pay'[b].attempt => sess'[b][<<a, 1>>].status = "none"
               /\ <<b, a>> \in stale' => a <= pay'[b].attempt
    <3>0. /\ sess[b][<<a, 2>>].status = "none"
          /\ a < pay[b].attempt => sess[b][<<a, 1>>].status \in {"failed", "expired"}
          /\ a > pay[b].attempt => sess[b][<<a, 1>>].status = "none"
          /\ <<b, a>> \in stale => a <= pay[b].attempt
          /\ <<a, 1>> \in Sessions /\ <<a, 2>> \in Sessions /\ a \in Nat
      BY SessionShape DEF AttemptInv, SessionsHold
    <3>1. SessionGoes(b, <<a, 1>>) /\ SessionGoes(b, <<a, 2>>)
      BY <3>0, SessionSteps
    <3>2. sess'[b][<<a, 2>>].status = "none"
      BY <3>0, <3>1 DEF SessionGoes, Newest
    <3>3. ASSUME a < pay'[b].attempt PROVE sess'[b][<<a, 1>>].status \in {"failed", "expired"}
      <4>1. sess[b][<<a, 1>>].status \in {"failed", "expired"}
        <5>1. CASE a < pay[b].attempt
          BY <3>0, <5>1
        <5>2. CASE ~ (a < pay[b].attempt)
          <6>1. a = pay[b].attempt /\ pay[b].attempt # 0
            BY <2>0, <2>1, <3>0, <3>3, <5>2 DEF RowGoes
          <6> QED BY <2>0, <2>1, <3>3, <6>1 DEF RowGoes, Newest
        <5> QED BY <5>1, <5>2
      <4> QED BY <3>1, <4>1 DEF SessionGoes
    <3>4. ASSUME a > pay'[b].attempt PROVE sess'[b][<<a, 1>>].status = "none"
      <4>1. a > pay[b].attempt
        BY <2>0, <2>1, <3>0, <3>4 DEF RowGoes
      <4>2. sess[b][<<a, 1>>].status = "none" /\ <<a, 1>> # Newest(b)
        BY <2>0, <3>0, <4>1 DEF Newest
      <4> QED BY <3>1, <4>2 DEF SessionGoes
    <3>5. ASSUME <<b, a>> \in stale' PROVE a <= pay'[b].attempt
      <4>1. a <= pay[b].attempt
        BY <2>0, <3>0, <3>5, StaleSteps
      <4> QED BY <2>0, <2>1, <3>0, <4>1 DEF RowGoes
    <3> QED BY <3>2, <3>3, <3>4, <3>5
  <2> QED BY <2>2, <2>3, <2>4
<1> QED BY <1>1, <1>2

(* What TabsHold says of one call, of where it goes.                       *)
TabAt(local) ==
  local.pc # "idle" =>
    /\ local.row.attempt <= pay'[local.brief].attempt
    /\ local.row.session \in {NoSession, <<local.row.attempt, 1>>}
    /\ local.pc = "replace" =>
         local.row.session # NoSession /\ sess'[local.brief][local.row.session].status = "expired"
    /\ local.pc = "refetch" => <<local.brief, pay'[local.brief].attempt>> \notin stale'
    /\ local.pc = "create" /\ local.row.session # NoSession =>
         <<local.brief, local.row.attempt>> \notin stale'
    /\ local.pc = "save" => local.session = <<local.row.attempt, 1>>

(* The row a step leaves, and the session saved in it.                     *)
LEMMA RowAfter ==
  ASSUME AttemptInv, [Next]_vars, NEW b \in Briefs
  PROVE  /\ pay'[b].attempt \in Nat
         /\ pay'[b].session \in {NoSession, <<pay'[b].attempt, 1>>}
<1>1. TypeOK' /\ SessionsHold'
  BY SessionsStep, StepHolds DEF AttemptInv, FundingInv
<1>2. pay'[b].attempt \in Attempts \cup {0}
  BY <1>1 DEF TypeOK, Rows
<1>3. pay'[b].session \in {NoSession, <<pay'[b].attempt, 1>>}
  BY <1>1 DEF SessionsHold, Newest
<1>4. pay'[b].attempt \in Nat
  BY <1>2, Constants DEF Attempts
<1> QED BY <1>3, <1>4

(* A call that takes over the row as it is.                                *)
LEMMA TakesOver ==
  ASSUME AttemptInv, [Next]_vars, NEW c \in Calls, NEW b \in Briefs, Continue(c, b, pay'[b])
  PROVE  \E local : Step(c, local) /\ TabAt(local)
<1>0. pay'[b].attempt \in Nat /\ pay'[b].session \in {NoSession, <<pay'[b].attempt, 1>>}
  BY RowAfter
<1> DEFINE to(pc) == [pc |-> pc, brief |-> b, row |-> pay'[b], session |-> NoSession]
<1>1. TabAt(Idle(b)) /\ TabAt(to("retrieve"))
  BY <1>0 DEF TabAt, Idle
<1>2. pay'[b].session = NoSession => TabAt(to("create"))
  BY <1>0 DEF TabAt
<1> HIDE DEF TabAt
<1>3. CASE Step(c, to("retrieve"))
  BY <1>1, <1>3
<1>4. CASE pay'[b].session = NoSession /\ Step(c, to("create"))
  BY <1>2, <1>4
<1>5. CASE Step(c, Idle(b))
  BY <1>1, <1>5
<1> QED BY <1>3, <1>4, <1>5 DEF Continue

(* Every step of a call takes it to where TabsHold is so.                  *)
LEMMA BuyingTab ==
  ASSUME AttemptInv, [Next]_vars, NEW c \in Calls, Buying(c)
  PROVE  \E local : Step(c, local) /\ TabAt(local)
<1> DEFINE Goal == \E local : Step(c, local) /\ TabAt(local)
           b    == calls[c].brief
           row  == calls[c].row
<1>0. calls[c] \in Locals /\ b \in Briefs
  BY DEF AttemptInv, FundingInv, TypeOK, Locals
<1>1. calls[c].pc # "idle" =>
        /\ row.attempt \in Attempts /\ row.attempt \in Nat /\ pay[b].attempt \in Nat
        /\ pay[b].attempt \in Attempts
        /\ row.attempt <= pay[b].attempt
        /\ row.session \in {NoSession, <<row.attempt, 1>>}
  BY UnderWay, Constants DEF AttemptInv, TabsHold
<1>2. CASE Leave(c)
  BY <1>2 DEF Leave, Idle, TabAt
<1>3. ASSUME NEW o \in Briefs, Checkout(c, o) PROVE Goal
  <2> DEFINE new == IF pay[o].status = "none"
                    THEN [status |-> "pending", attempt |-> 1, session |-> NoSession,
                          cents |-> quote[o], intent |-> NoSession]
                    ELSE pay[o]
  <2>1. /\ pay' = [pay EXCEPT ![o] = new]
        /\ \/ Step(c, [pc |-> "reset", brief |-> o, row |-> new, session |-> NoSession])
           \/ Continue(c, o, new)
    BY <1>3 DEF Checkout
  <2> HIDE DEF new
  <2>2. new = pay'[o]
    BY <2>1 DEF AttemptInv, FundingInv, TypeOK
  <2>3. CASE Continue(c, o, new)
    BY <2>2, <2>3, TakesOver
  <2>4. CASE Step(c, [pc |-> "reset", brief |-> o, row |-> new, session |-> NoSession])
    <3>1. pay'[o].attempt \in Nat /\ pay'[o].session \in {NoSession, <<pay'[o].attempt, 1>>}
      BY RowAfter
    <3>2. TabAt([pc |-> "reset", brief |-> o, row |-> new, session |-> NoSession])
      BY <2>2, <3>1 DEF TabAt
    <3> HIDE DEF TabAt
    <3> QED BY <2>4, <3>2
  <2> QED BY <2>1, <2>3, <2>4
<1>4. CASE Reset(c)
  <2>1. CASE Step(c, [calls[c] EXCEPT !.pc = "reread"])
    <3> DEFINE local == [calls[c] EXCEPT !.pc = "reread"]
    <3>1. local.pc = "reread" /\ local.brief = b /\ local.row = row
      BY <1>0 DEF Locals
    <3>2. row.attempt <= pay'[b].attempt
      BY <1>0, <1>1, <1>4, RowSteps DEF RowGoes, Reset, At
    <3>3. TabAt(local)
      <4> HIDE DEF local
      <4> QED BY <1>1, <1>4, <3>1, <3>2 DEF TabAt, Reset, At
    <3> QED BY <2>1, <3>3
  <2> QED BY <1>2, <1>4, <2>1 DEF Reset
<1>5. CASE Reread(c)
  <2>1. UNCHANGED pay
    BY <1>5 DEF Reread, rowVars
  <2>2. Continue(c, b, pay'[b])
    BY <1>5, <2>1 DEF Reread
  <2> QED BY <1>0, <2>2, TakesOver
<1>6. CASE Retrieve(c)
  <2>1. CASE sess[b][row.session].status = "expired" /\ Step(c, [calls[c] EXCEPT !.pc = "replace"])
    <3> DEFINE local == [calls[c] EXCEPT !.pc = "replace"]
    <3>1. local.pc = "replace" /\ local.brief = b /\ local.row = row
      BY <1>0 DEF Locals
    <3>2. /\ calls[c].pc = "retrieve" /\ UNCHANGED <<pay, sess>>
          /\ row.session # NoSession
      BY <1>6 DEF Retrieve, At, rowVars, AttemptInv, FundingInv, CallsHold
    <3>3. TabAt(local)
      <4> HIDE DEF local
      <4> QED BY <1>1, <2>1, <3>1, <3>2 DEF TabAt
    <3> QED BY <2>1, <3>3
  <2> QED BY <1>2, <1>6, <2>1 DEF Retrieve
<1>7. CASE Replace(c)
  <2>1. CASE /\ pay' = [pay EXCEPT ![b].session = NoSession, ![b].attempt = @ + 1]
             /\ Step(c, [calls[c] EXCEPT !.pc = "refetch"])
    <3> DEFINE local == [calls[c] EXCEPT !.pc = "refetch"]
    <3>1. local.pc = "refetch" /\ local.brief = b /\ local.row = row
      BY <1>0 DEF Locals
    <3>2. calls[c].pc = "replace" /\ UNCHANGED stale
      BY <1>7 DEF Replace, At, stripeVars
    <3>3. pay'[b].attempt = pay[b].attempt + 1
      BY <1>0, <2>1 DEF AttemptInv, FundingInv, TypeOK, Rows
    <3>4. <<b, pay'[b].attempt>> \notin stale
      <4> SUFFICES ASSUME <<b, pay'[b].attempt>> \in stale PROVE FALSE
        OBVIOUS
      <4>1. pay'[b].attempt \in Attempts
        BY DEF AttemptInv, FundingInv, TypeOK
      <4>2. pay'[b].attempt <= pay[b].attempt
        BY <1>0, <4>1 DEF AttemptInv, SessionsHold
      <4> QED BY <1>1, <3>2, <3>3, <4>2
    <3>5. row.attempt <= pay'[b].attempt
      BY <1>1, <3>2, <3>3
    <3>6. TabAt(local)
      <4> HIDE DEF local
      <4> QED BY <1>1, <3>1, <3>2, <3>4, <3>5 DEF TabAt
    <3> QED BY <2>1, <3>6
  <2> QED BY <1>2, <1>7, <2>1 DEF Replace
<1>8. CASE Refetch(c)
  <2> DEFINE local == [calls[c] EXCEPT !.pc = "create", !.row = pay[b]]
  <2>1. local.pc = "create" /\ local.brief = b /\ local.row = pay[b]
    BY <1>0 DEF Locals
  <2>2. /\ calls[c].pc = "refetch" /\ UNCHANGED <<pay, stale>>
        /\ <<b, pay[b].attempt>> \notin stale
    BY <1>8 DEF Refetch, At, rowVars, stripeVars, AttemptInv, TabsHold
  <2>3. pay[b].session \in {NoSession, <<pay[b].attempt, 1>>}
    BY <1>0 DEF AttemptInv, SessionsHold, Newest
  <2>4. TabAt(local)
    <3> HIDE DEF local
    <3> QED BY <1>1, <2>1, <2>2, <2>3 DEF TabAt
  <2> QED BY <1>8, <2>4 DEF Refetch
<1>9. CASE Create(c)
  <2>1. CASE Step(c, [calls[c] EXCEPT !.pc = "save", !.session = <<row.attempt, 1>>])
    <3> DEFINE local == [calls[c] EXCEPT !.pc = "save", !.session = <<row.attempt, 1>>]
    <3>1. /\ local.pc = "save" /\ local.brief = b /\ local.row = row
          /\ local.session = <<row.attempt, 1>>
      BY <1>0 DEF Locals
    <3>2. calls[c].pc = "create" /\ UNCHANGED pay
      BY <1>9 DEF Create, At, rowVars
    <3>3. TabAt(local)
      <4> HIDE DEF local
      <4> QED BY <1>1, <3>1, <3>2 DEF TabAt
    <3> QED BY <2>1, <3>3
  <2> QED BY <1>2, <1>9, <2>1, CreatesNewest
<1>10. CASE Save(c) \/ CallDies(c)
  BY <1>2, <1>10 DEF Save, CallDies
<1> QED BY <1>3, <1>4, <1>5, <1>6, <1>7, <1>8, <1>9, <1>10 DEF Buying

(* TabsHold is kept: what a call knows is about what is over, or about the *)
(* row not going back, and no day passes while it is under way.            *)
LEMMA TabsStep == ASSUME AttemptInv, [Next]_vars PROVE TabsHold'
<1> SUFFICES ASSUME NEW d \in Calls PROVE TabAt(calls'[d])
  BY DEF TabsHold, TabAt
<1>0. calls \in [Calls -> Locals]
  BY DEF AttemptInv, FundingInv, TypeOK, Locals
<1>1. CASE calls'[d] = calls[d]
  <2> DEFINE b == calls[d].brief
             row == calls[d].row
  <2> SUFFICES ASSUME calls[d].pc # "idle" PROVE TabAt(calls[d])
    BY <1>1 DEF TabAt
  <2>0. /\ b \in Briefs /\ row.attempt \in Attempts /\ row.attempt \in Nat
        /\ pay[b].attempt \in Nat /\ row \in Rows
        /\ row.attempt <= pay[b].attempt
        /\ row.session \in {NoSession, <<row.attempt, 1>>}
    BY UnderWay, Constants DEF AttemptInv, TabsHold
  <2>1. pay'[b].attempt \in {pay[b].attempt, pay[b].attempt + 1} /\ pay'[b].attempt \in Attempts
    <3>1. pay'[b].attempt \in {pay[b].attempt, pay[b].attempt + 1}
      BY <2>0, RowSteps DEF RowGoes
    <3>2. pay'[b].attempt \in Attempts \cup {0}
      BY <2>0, StepHolds DEF AttemptInv, FundingInv, TypeOK, Rows
    <3>3. pay'[b].attempt # 0
      BY <2>0, <3>1, Constants
    <3> QED BY <3>1, <3>2, <3>3
  <2>2. \A a \in Attempts : <<b, a>> \in stale' => <<b, a>> \in stale
    BY <2>0, StaleSteps
  <2>3. ASSUME calls[d].pc = "refetch" PROVE <<b, pay'[b].attempt>> \notin stale'
    <3>1. <<b, pay[b].attempt>> \notin stale
      BY <2>3 DEF AttemptInv, TabsHold
    <3>2. pay'[b].attempt = pay[b].attempt + 1 => <<b, pay'[b].attempt>> \notin stale
      <4> SUFFICES ASSUME pay'[b].attempt = pay[b].attempt + 1, <<b, pay'[b].attempt>> \in stale
                   PROVE  FALSE
        OBVIOUS
      <4>1. pay'[b].attempt <= pay[b].attempt
        BY <2>0, <2>1 DEF AttemptInv, SessionsHold
      <4> QED BY <2>0, <4>1
    <3> QED BY <2>1, <2>2, <3>1, <3>2
  <2>4. ASSUME calls[d].pc = "replace"
        PROVE  row.session # NoSession /\ sess'[b][row.session].status = "expired"
    <3>1. row.session # NoSession /\ sess[b][row.session].status = "expired"
      BY <2>4 DEF AttemptInv, TabsHold
    <3>2. row.session \in Sessions
      BY <2>0, <3>1, SessionShape
    <3> QED BY <2>0, <3>1, <3>2, SessionSteps DEF SessionGoes
  <2>5. ASSUME calls[d].pc = "create", row.session # NoSession PROVE <<b, row.attempt>> \notin stale'
    <3>1. <<b, row.attempt>> \notin stale
      BY <2>5 DEF AttemptInv, TabsHold
    <3> QED BY <2>0, <2>2, <3>1
  <2>6. calls[d].pc = "save" => calls[d].session = <<row.attempt, 1>>
    BY DEF AttemptInv, TabsHold
  <2>7. row.attempt <= pay'[b].attempt
    BY <2>0, <2>1
  <2> QED BY <2>0, <2>3, <2>4, <2>5, <2>6, <2>7 DEF TabAt
<1>2. CASE calls'[d] # calls[d]
  <2>1. UNCHANGED calls \/ \E c \in Calls : Buying(c)
    BY DEF Next, Stripe, BuyerPays, PaymentEnds, SessionExpires, Reverse, Webhook, HearUnpaid, Hear,
           Process, DeliveryDies, Quote, CommitEscrow, GoLive, Pause, ReachExpiry, Release, Ages, vars
  <2>2. PICK c \in Calls : Buying(c)
    BY <1>2, <2>1
  <2>3. PICK local : Step(c, local) /\ TabAt(local)
    BY <2>2, BuyingTab
  <2>4. calls'[d] = local
    BY <1>0, <1>2, <2>3 DEF Step
  <2> QED BY <2>3, <2>4
<1> QED BY <1>1, <1>2

(* Before any checkout it holds.                                           *)
LEMMA InitAttempts == Init => AttemptInv
<1> SUFFICES ASSUME Init PROVE AttemptInv
  OBVIOUS
<1>1. SessionsHold
  <2>1. \A b \in Briefs : /\ pay[b].attempt = 0 /\ pay[b].session = NoSession
                          /\ pay[b].status = "none" /\ \A s \in Sessions : sess[b][s].status = "none"
    BY DEF Init, NoPayment, NoCopy
  <2>2. stale = {}
    BY DEF Init
  <2> QED BY <2>1, <2>2, SessionShape DEF SessionsHold
<1>2. FailuresHold
  BY DEF Init, FailuresHold
<1>3. TabsHold
  BY DEF Init, Idle, TabsHold
<1> QED BY <1>1, <1>2, <1>3, InitHolds DEF AttemptInv

(* It is inductive.                                                        *)
LEMMA AttemptStep == AttemptInv /\ [Next]_vars => AttemptInv'
BY StepHolds, SessionsStep, TabsStep DEF AttemptInv

(* It holds in every reachable state.                                      *)
LEMMA AttemptsAlways == Spec => []AttemptInv
BY InitAttempts, AttemptStep, PTL DEF Spec

(* However many tabs pay, die and come back a day later, and whatever      *)
(* Stripe forgets, a brief's money is taken in one session at most, with   *)
(* no other open beside it.                                                *)
THEOREM ChargedOnceAlways == Spec => []ChargedOnce
<1>1. ASSUME AttemptInv PROVE ChargedOnce
  <2> SUFFICES ASSUME NEW b \in Briefs, NEW s \in Sessions, NEW t \in Sessions,
                      sess[b][s].status \in {"processing", "paid"},
                      sess[b][t].status \in {"open", "processing", "paid"}
               PROVE  s = t
    BY DEF ChargedOnce
  <2>1. s = Newest(b) /\ t = Newest(b)
    BY <1>1, LiveIsNewest DEF AttemptInv
  <2> QED BY <2>1
<1> QED BY AttemptsAlways, <1>1, PTL

(* A payment that is called failed cannot be paid any more in any of its   *)
(* sessions, so no money arrives that would not be recorded.               *)
THEOREM FailedIsOverAlways == Spec => []FailedIsOver
<1>1. ASSUME AttemptInv PROVE FailedIsOver
  <2> SUFFICES ASSUME NEW b \in Briefs, pay[b].status = "failed", NEW s \in Sessions,
                      sess[b][s].status \in {"open", "processing", "paid"}
               PROVE  FALSE
    BY DEF FailedIsOver
  <2>1. s = Newest(b)
    BY <1>1, LiveIsNewest DEF AttemptInv
  <2>2. sess[b][s].status = "failed"
    BY <1>1, <2>1 DEF AttemptInv, SessionsHold
  <2> QED BY <2>2
<1> QED BY AttemptsAlways, <1>1, PTL
====
