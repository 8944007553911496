----------------------------- MODULE Settlement -----------------------------
(***************************************************************************)
(* Fund distribution (src/src/settlement): how the money a buyer paid for  *)
(* a brief is reserved, transferred to contributors, reversed and returned.*)
(*                                                                         *)
(* Three kinds of actor touch the same rows and the same Stripe objects:   *)
(*   - administrators calling reserve, cancel, release, moderate;          *)
(*   - settlement workers, one per server instance, each pass over a       *)
(*     payment being reconcile() followed by expire();                     *)
(*   - Stripe: disputes, refunds made in its dashboard, webhooks.          *)
(* A database transaction that begins with lock() serialises on the        *)
(* payment row and is one action.  Everything between two transactions,    *)
(* and every call to Stripe, is an action of its own, and the caller may   *)
(* die in between.                                                         *)
(*                                                                         *)
(* An allocation exists at most once per QA result (qaId is unique), so a  *)
(* QA result names its allocation and "none" says there is none yet.       *)
(***************************************************************************)
EXTENDS Integers, FiniteSets

CONSTANTS
  Payments,     \* BriefPayment rows, each the funding of one brief
  Qas,          \* QaResult rows; q also names the FundAllocation of q
  Records,      \* PackagedRecord rows
  Users,        \* contributors
  Clicks,       \* simultaneous release calls for the same allocation
  Workers,      \* server instances running the settlement worker
  PaymentOf,    \* [Qas -> Payments]  the payment of the QA result's brief
  RecordOf,     \* [Qas -> Records]   the record the QA result is about
  UserOf,       \* [Qas -> Users]     its contributor
  Cents,        \* [Qas -> positive]  the valuation reserved for it
  CentsOf,      \* [SUBSET Qas -> Nat]  the sum of Cents over a set
  Funded,       \* [Payments -> positive]  amountCents of the payment
  MaxCount,     \* [Payments -> Nat]  brief.volume.targetConversations
  MaxOwn,       \* [Payments -> Nat]  brief.volume.maxPerContributor, 0 = none
  External      \* which events from outside the server this instance has

ExternalEvents ==
  {"dispute", "refund", "partial", "aging", "pending", "moderation", "quality"}

ASSUME MapsAssumption ==
  /\ PaymentOf \in [Qas -> Payments]
  /\ RecordOf \in [Qas -> Records]
  /\ UserOf \in [Qas -> Users]
ASSUME AmountsAssumption ==
  /\ Cents \in [Qas -> Nat \ {0}]
  /\ Funded \in [Payments -> Nat \ {0}]
  /\ MaxCount \in [Payments -> Nat]
  /\ MaxOwn \in [Payments -> Nat]
(* A sum is what agrees with Cents on one allocation and adds up over      *)
(* disjoint sets.  TLC evaluates this for every instance.                  *)
ASSUME SumAssumption ==
  /\ CentsOf \in [SUBSET Qas -> Nat]
  /\ \A q \in Qas : CentsOf[{q}] = Cents[q]
  /\ \A S, T \in SUBSET Qas : S \cap T = {} => CentsOf[S \cup T] = CentsOf[S] + CentsOf[T]
ASSUME ExternalAssumption == External \subseteq ExternalEvents

VARIABLES
  payStatus,    \* BriefPayment.status
  brief,        \* Brief.status
  escrow,       \* payments whose brief has escrowCommitted
  expired,      \* payments whose brief.expiresAt has passed
  alloc,        \* FundAllocation.status, "none" before reserve()
  sold,         \* records with PackagedRecord.status 'sold'
  fit,          \* QA results that pass and still describe their record
  refund,       \* the FundRefund row of a payment, status "none" before it
  ledger,       \* FundLedgerEntry event keys, as <<kind, subject>>
  late,         \* allocations whose startedAt is more than 23 hours ago
  lateRefund,   \* payments whose FundRefund.createdAt is
  made,         \* Stripe: transfers created for an allocation
  returned,     \* Stripe: how much of its transfer was reversed
  disputed,     \* Stripe: payments whose charge is disputed
  external,     \* Stripe: payments partly refunded outside this server
  own,          \* Stripe: the unused-fund refunds created for a payment
  rel,          \* where each release(q) call is
  wk            \* where each worker is with each payment

paymentVars == <<payStatus, brief, escrow, expired>>
saleVars    == <<sold, fit>>
rowVars     == <<paymentVars, saleVars, alloc, refund, ledger, late, lateRefund>>
stripeVars  == <<made, returned, disputed, external, own>>
vars        == <<rowVars, stripeVars, rel, wk>>

AllocStatuses ==
  {"none", "reserved", "cancelled", "transferring", "transferred", "reversing", "reversed"}
RefundStatuses == {"none", "pending", "succeeded", "review"}
ReleasePcs == {"idle", "claim", "transfer", "settle"}
WorkerPcs ==
  {"idle", "recover", "charge", "own", "freeze", "list", "reverse", "mark",
   "create", "settle", "check", "refundTx", "refundCall", "refundSave"}
LedgerKinds ==
  {"funding", "reserve", "cancel", "transfer", "reverse", "review", "refund-request", "refund"}

(* A worker between two payments: none of the locals of a pass is set.     *)
Resting ==
  [pc |-> "idle", todo |-> {}, fresh |-> {}, cur |-> {}, disputed |-> FALSE,
   refunded |-> 0, known |-> FALSE, reply |-> "none"]

NoRefund == [status |-> "none", cents |-> 0, known |-> FALSE]

Init ==
  /\ payStatus = [p \in Payments |-> "paid"]
  /\ brief = [p \in Payments |-> "live"]
  /\ escrow = Payments
  /\ expired = {}
  /\ alloc = [q \in Qas |-> "none"]
  /\ sold = {}
  /\ fit = Qas
  /\ refund = [p \in Payments |-> NoRefund]
  /\ ledger = {<<"funding", p>> : p \in Payments}
  /\ late = {}
  /\ lateRefund = {}
  /\ made = [q \in Qas |-> 0]
  /\ returned = [q \in Qas |-> "no"]
  /\ disputed = {}
  /\ external = {}
  /\ own = [p \in Payments |-> [made |-> 0, status |-> "none"]]
  /\ rel = [q \in Qas |-> [c \in Clicks |-> "idle"]]
  /\ wk = [w \in Workers |-> [p \in Payments |-> Resting]]

(***************************************************************************)
(* Reading the rows and the charge.                                        *)
(***************************************************************************)
Of(p) == {q \in Qas : PaymentOf[q] = p}
With(p, statuses) == {q \in Of(p) : alloc[q] \in statuses}

(* fundBalances().availableCents: every status but cancelled and reversed  *)
(* is committed, and so is the refund whatever its status.                 *)
Available(p) ==
  Funded[p] - CentsOf[With(p, {"reserved", "transferring"})]
            - CentsOf[With(p, {"transferred", "reversing"})]
            - refund[p].cents

(* FundAllocation.activeRecordRef is set: the unique column that keeps a   *)
(* record out of two allocations.                                          *)
Active(q) == alloc[q] \notin {"none", "cancelled"}

Collected(p) == {q \in Of(p) : alloc[q] \notin {"none", "cancelled", "reversed"}}
(* Off by one: the target itself does not stop a reservation.              *)
LimitReachedWrong(q) ==
  LET p == PaymentOf[q]
      mine == {r \in Collected(p) : UserOf[r] = UserOf[q]}
  IN  \/ Cardinality(Collected(p)) > MaxCount[p]
      \/ MaxOwn[p] # 0 /\ Cardinality(mine) > MaxOwn[p]
LimitReached(q) ==
  LET p == PaymentOf[q]
      mine == {r \in Collected(p) : UserOf[r] = UserOf[q]}
  IN  \/ Cardinality(Collected(p)) >= MaxCount[p]
      \/ MaxOwn[p] # 0 /\ Cardinality(mine) >= MaxOwn[p]

(* Brief live, funded and unexpired; payment still 'paid'.                 *)
Open(p) ==
  payStatus[p] = "paid" /\ p \in escrow /\ brief[p] = "live" /\ p \notin expired

(* Charge.amount_refunded.  Stripe counts a refund from its creation and   *)
(* takes it back when the refund fails; a refund from its dashboard adds   *)
(* some positive amount.                                                   *)
ExternalCents == 1
AmountRefunded(p) ==
  (IF own[p].status \in {"pending", "succeeded"} THEN own[p].made * refund[p].cents ELSE 0)
    + (IF p \in external THEN ExternalCents ELSE 0)
ChargeIntact(p) == p \notin disputed /\ AmountRefunded(p) = 0

(***************************************************************************)
(* A definition named ...Wrong is the one after it with a mistake its code *)
(* could plausibly have; no specification uses it.  The properties are     *)
(* checked to tell the two apart.                                          *)
(***************************************************************************)
Log(entries) == ledger' = ledger \cup entries

(***************************************************************************)
(* Administrators.                                                         *)
(***************************************************************************)
(* Without the look-up by activeRecordRef.                                 *)
ReserveWrong(q) ==
  LET p == PaymentOf[q] IN
  /\ q \in fit /\ Open(p) /\ alloc[q] = "none" /\ RecordOf[q] \notin sold
  /\ ~ LimitReached(q) /\ Available(p) >= Cents[q]
  /\ alloc' = [alloc EXCEPT ![q] = "reserved"]
  /\ Log({<<"funding", p>>, <<"reserve", q>>})
  /\ UNCHANGED <<paymentVars, saleVars, refund, late, lateRefund, stripeVars, rel, wk>>

Reserve(q) ==
  LET p == PaymentOf[q] IN
  /\ q \in fit
  /\ Open(p)
  /\ alloc[q] = "none"            \* an existing allocation is returned as it is
  /\ ~ \E r \in Qas : Active(r) /\ RecordOf[r] = RecordOf[q]
  /\ RecordOf[q] \notin sold
  /\ ~ LimitReached(q)
  /\ Available(p) >= Cents[q]
  /\ alloc' = [alloc EXCEPT ![q] = "reserved"]
  /\ Log({<<"funding", p>>, <<"reserve", q>>})
  /\ UNCHANGED <<paymentVars, saleVars, refund, late, lateRefund, stripeVars, rel, wk>>

(* Without the status in the update's where clause: any open allocation.   *)
CancelWrong(q) ==
  /\ alloc[q] \in {"reserved", "transferring"}
  /\ alloc' = [alloc EXCEPT ![q] = "cancelled"]
  /\ Log({<<"cancel", q>>})
  /\ UNCHANGED <<paymentVars, saleVars, refund, late, lateRefund, stripeVars, rel, wk>>

Cancel(q) ==
  /\ alloc[q] = "reserved"
  /\ alloc' = [alloc EXCEPT ![q] = "cancelled"]
  /\ Log({<<"cancel", q>>})
  /\ UNCHANGED <<paymentVars, saleVars, refund, late, lateRefund, stripeVars, rel, wk>>

(* release() up to its transaction: the allocation is not settled yet and  *)
(* Stripe reports an intact charge and a payable account.  (An account     *)
(* that is not payable ends the call without a change.)                    *)
ReleaseCheck(q, c) ==
  /\ rel[q][c] = "idle"
  /\ alloc[q] \notin {"none", "transferred"}
  /\ ChargeIntact(PaymentOf[q])
  /\ rel' = [rel EXCEPT ![q][c] = "claim"]
  /\ UNCHANGED <<rowVars, stripeVars, wk>>

(* The claim: sell the record and start the transfer, unless an earlier    *)
(* call already did, whose destination and charge are then used again.     *)
ReleaseClaim(q, c) ==
  /\ rel[q][c] = "claim"
  /\ \/ /\ alloc[q] = "transferring"
        /\ UNCHANGED <<alloc, sold, late>>
     \/ /\ alloc[q] = "reserved"
        /\ Open(PaymentOf[q])
        /\ q \in fit
        /\ RecordOf[q] \notin sold
        /\ sold' = sold \cup {RecordOf[q]}
        /\ alloc' = [alloc EXCEPT ![q] = "transferring"]
        /\ late' = late \ {q}
  /\ rel' = [rel EXCEPT ![q][c] = "transfer"]
  /\ UNCHANGED <<paymentVars, fit, refund, ledger, lateRefund, stripeVars, wk>>

(* The idempotency key allocation:<id> returns the transfer it created; a  *)
(* day later Stripe has forgotten it and would create another.             *)
TransfersAfterCreate(q) == IF made[q] > 0 /\ q \notin late THEN made[q] ELSE made[q] + 1

(* Without checkRecovery().                                                *)
ReleaseTransferWrong(q, c) ==
  /\ rel[q][c] = "transfer"
  /\ made' = [made EXCEPT ![q] = TransfersAfterCreate(q)]
  /\ rel' = [rel EXCEPT ![q][c] = "settle"]
  /\ UNCHANGED <<rowVars, returned, disputed, external, own, wk>>

(* checkRecovery() and stripe.transfers.create().                          *)
ReleaseTransfer(q, c) ==
  /\ rel[q][c] = "transfer"
  /\ q \notin late
  /\ made' = [made EXCEPT ![q] = TransfersAfterCreate(q)]
  /\ rel' = [rel EXCEPT ![q][c] = "settle"]
  /\ UNCHANGED <<rowVars, returned, disputed, external, own, wk>>

(* An update by id, where the code's is guarded by the status.             *)
ReleaseSettleWrong(q, c) ==
  /\ rel[q][c] = "settle"
  /\ alloc' = [alloc EXCEPT ![q] = "transferred"]
  /\ Log({<<"transfer", q>>})
  /\ rel' = [rel EXCEPT ![q][c] = "idle"]
  /\ UNCHANGED <<paymentVars, saleVars, refund, late, lateRefund, stripeVars, wk>>

(* The guarded updateMany: 'transferring' becomes 'transferred' once.      *)
ReleaseSettle(q, c) ==
  /\ rel[q][c] = "settle"
  /\ IF alloc[q] = "transferring"
     THEN /\ alloc' = [alloc EXCEPT ![q] = "transferred"]
          /\ Log({<<"transfer", q>>})
     ELSE UNCHANGED <<alloc, ledger>>
  /\ rel' = [rel EXCEPT ![q][c] = "idle"]
  /\ UNCHANGED <<paymentVars, saleVars, refund, late, lateRefund, stripeVars, wk>>

(* The call throws, its server dies, or Stripe's answer is lost.           *)
ReleaseDies(q, c) ==
  /\ rel[q][c] # "idle"
  /\ rel' = [rel EXCEPT ![q][c] = "idle"]
  /\ UNCHANGED <<rowVars, stripeVars, wk>>

(* moderateForAccount('paused') reads the status long before it writes, so *)
(* even a brief that expired in between is written.                        *)
Pause(p) ==
  /\ "moderation" \in External
  /\ brief[p] # "paused"
  /\ brief' = [brief EXCEPT ![p] = "paused"]
  /\ UNCHANGED <<payStatus, escrow, expired, saleVars, alloc, refund, ledger, late,
                 lateRefund, stripeVars, rel, wk>>

(* Without the escrow in the update's where clause, after an earlier look  *)
(* at a payment that was 'paid' then.                                      *)
GoLiveWrong(p) ==
  /\ p \notin expired
  /\ brief[p] = "paused"
  /\ brief' = [brief EXCEPT ![p] = "live"]
  /\ UNCHANGED <<payStatus, escrow, expired, saleVars, alloc, refund, ledger, late,
                 lateRefund, stripeVars, rel, wk>>

(* moderateForAccount('live'): goLive()'s guarded updateMany.              *)
GoLive(p) ==
  /\ p \in escrow /\ p \notin expired
  /\ brief[p] = "paused"
  /\ brief' = [brief EXCEPT ![p] = "live"]
  /\ UNCHANGED <<payStatus, escrow, expired, saleVars, alloc, refund, ledger, late,
                 lateRefund, stripeVars, rel, wk>>

(***************************************************************************)
(* One pass of a worker over a payment: SettlementWorker.tick() calls      *)
(* reconcile(p), then expire(p); an exception in either ends the pass.     *)
(***************************************************************************)
Move(w, p, position) == wk' = [wk EXCEPT ![w][p] = position]
Goto(w, p, pc) == Move(w, p, [wk[w][p] EXCEPT !.pc = pc])
EndPass(w, p) == Move(w, p, Resting)

(* Recovery that applies the 23-hour window to looking, too.               *)
StartPassWrong(w, p) ==
  /\ \A x \in Payments : wk[w][x].pc = "idle"
  /\ Move(w, p, [wk[w][p] EXCEPT !.pc = "recover",
                                  !.todo = With(p, {"transferring"}) \ late])
  /\ UNCHANGED <<rowVars, stripeVars, rel>>

(* The `running` flag: an instance is in one pass at a time.               *)
StartPass(w, p) ==
  /\ \A x \in Payments : wk[w][x].pc = "idle"
  /\ Move(w, p, [wk[w][p] EXCEPT !.pc = "recover",
                                  !.todo = With(p, {"transferring"})])
  /\ UNCHANGED <<rowVars, stripeVars, rel>>

(* reconcile(): look one uncertain transfer up by its metadata.  Stripe's  *)
(* list only grows, so the look-up and the transaction are one step.       *)
Recover(w, p, q) ==
  /\ wk[w][p].pc = "recover"
  /\ q \in wk[w][p].todo
  /\ Move(w, p, [wk[w][p] EXCEPT !.todo = @ \ {q}])
  /\ IF made[q] > 0
     THEN /\ alloc' = IF alloc[q] = "transferring"
                      THEN [alloc EXCEPT ![q] = "transferred"] ELSE alloc
          /\ Log({<<"transfer", q>>})
     ELSE UNCHANGED <<alloc, ledger>>
  /\ UNCHANGED <<paymentVars, saleVars, refund, late, lateRefund, stripeVars, rel>>

(* reconcile(): the charge as Stripe shows it now; intact means all is     *)
(* well and the pass goes on to expire().                                  *)
ReadCharge(w, p) ==
  /\ wk[w][p].pc = "recover"
  /\ wk[w][p].todo = {}
  /\ Move(w, p, [wk[w][p] EXCEPT !.pc = IF ChargeIntact(p) THEN "check" ELSE "own",
                                  !.disputed = p \in disputed,
                                  !.refunded = AmountRefunded(p)])
  /\ UNCHANGED <<rowVars, stripeVars, rel>>

(* reconcile(): find a refund of ours whose id was lost, and decide whether*)
(* ours explains what the charge showed.                                   *)
ReadOwnRefund(w, p) ==
  LET known == refund[p].known \/ (own[p].made > 0 /\ wk[w][p].refunded > 0)
      ours  == /\ ~ wk[w][p].disputed
               /\ known
               /\ own[p].status = "succeeded"
               /\ wk[w][p].refunded = refund[p].cents
  IN
  /\ wk[w][p].pc = "own"
  /\ refund' = [refund EXCEPT ![p].known = known]
  /\ Move(w, p, [wk[w][p] EXCEPT !.pc = IF ours THEN "check" ELSE "freeze",
                                  !.disputed = FALSE, !.refunded = 0])
  /\ UNCHANGED <<paymentVars, saleVars, alloc, ledger, late, lateRefund, stripeVars, rel>>

(* The reservations are logged as cancelled but left as they are.          *)
CancelReservationsWrong(p, entries) ==
  /\ UNCHANGED alloc
  /\ Log({<<"cancel", q>> : q \in With(p, {"reserved"})} \cup entries)

(* The reservations are cancelled without their ledger entries.            *)
CancelReservationsUnlogged(p, entries) ==
  /\ alloc' = [q \in Qas |-> IF q \in With(p, {"reserved"}) THEN "cancelled" ELSE alloc[q]]
  /\ Log(entries)

(* What the transactions of reconcile() and expire() do to reservations.   *)
CancelReservations(p, entries) ==
  LET open == With(p, {"reserved"}) IN
  /\ alloc' = [q \in Qas |-> IF q \in open THEN "cancelled" ELSE alloc[q]]
  /\ Log({<<"cancel", q>> : q \in open} \cup entries)

(* reconcile(): an external refund or a dispute freezes the funding.       *)
Freeze(w, p) ==
  /\ wk[w][p].pc = "freeze"
  /\ escrow' = escrow \ {p}
  /\ brief' = [brief EXCEPT ![p] = "paused"]
  /\ CancelReservations(p, {<<"review", p>>})
  /\ Goto(w, p, "list")
  /\ UNCHANGED <<payStatus, expired, saleVars, refund, late, lateRefund, stripeVars, rel>>

(* Reversals that an earlier pass began are not listed again.              *)
ListTransfersWrong(w, p) ==
  /\ wk[w][p].pc = "list"
  /\ Move(w, p, [wk[w][p] EXCEPT !.pc = "reverse",
                                  !.todo = With(p, {"transferred"}),
                                  !.fresh = With(p, {"transferred"})])
  /\ UNCHANGED <<rowVars, stripeVars, rel>>

(* reconcile(): the transfers to take back, with the status each had.      *)
ListTransfers(w, p) ==
  /\ wk[w][p].pc = "list"
  /\ Move(w, p, [wk[w][p] EXCEPT !.pc = "reverse",
                                  !.todo = With(p, {"transferred", "reversing"}),
                                  !.fresh = With(p, {"transferred"})])
  /\ UNCHANGED <<rowVars, stripeVars, rel>>

(* reconcile(), per allocation: transfers.retrieve().  A partial reversal  *)
(* throws, and so does one begun more than 23 hours ago.                   *)
RetrieveTransfer(w, p, q) ==
  /\ wk[w][p].pc = "reverse"
  /\ q \in wk[w][p].todo
  /\ \/ /\ returned[q] = "full"
        /\ Move(w, p, [wk[w][p] EXCEPT !.pc = "settle", !.cur = {q}])
     \/ /\ returned[q] = "no" /\ q \in wk[w][p].fresh
        /\ Move(w, p, [wk[w][p] EXCEPT !.pc = "mark", !.cur = {q}])
     \/ /\ returned[q] = "no" /\ q \notin wk[w][p].fresh /\ q \notin late
        /\ Move(w, p, [wk[w][p] EXCEPT !.pc = "create", !.cur = {q}])
     \/ /\ returned[q] = "partial" \/ (returned[q] = "no" /\ q \notin wk[w][p].fresh /\ q \in late)
        /\ EndPass(w, p)
  /\ UNCHANGED <<rowVars, stripeVars, rel>>

(* reconcile(): an update by id, whatever the row's status is by now.      *)
MarkReversing(w, p, q) ==
  /\ wk[w][p].pc = "mark" /\ q \in wk[w][p].cur
  /\ alloc' = [alloc EXCEPT ![q] = "reversing"]
  /\ late' = late \ {q}
  /\ Goto(w, p, "create")
  /\ UNCHANGED <<paymentVars, saleVars, refund, ledger, lateRefund, stripeVars, rel>>

(* reconcile(): transfers.createReversal(); Stripe reverses a transfer at  *)
(* most once in full and refuses when part of it is gone already.          *)
CreateReversal(w, p, q) ==
  /\ wk[w][p].pc = "create" /\ q \in wk[w][p].cur
  /\ IF returned[q] = "partial"
     THEN EndPass(w, p) /\ UNCHANGED returned
     ELSE Goto(w, p, "settle") /\ returned' = [returned EXCEPT ![q] = "full"]
  /\ UNCHANGED <<rowVars, made, disputed, external, own, rel>>

SettleReversal(w, p, q) ==
  /\ wk[w][p].pc = "settle" /\ q \in wk[w][p].cur
  /\ alloc' = [alloc EXCEPT ![q] = "reversed"]
  /\ Log({<<"reverse", q>>})
  /\ Move(w, p, [wk[w][p] EXCEPT !.pc = "reverse", !.cur = {}, !.todo = @ \ {q}])
  /\ UNCHANGED <<paymentVars, saleVars, refund, late, lateRefund, stripeVars, rel>>

ReversalsDone(w, p) ==
  /\ wk[w][p].pc = "reverse"
  /\ wk[w][p].todo = {}
  /\ Move(w, p, [wk[w][p] EXCEPT !.pc = "check", !.fresh = {}])
  /\ UNCHANGED <<rowVars, stripeVars, rel>>

(* expire(): nothing to do before the expiry, on a disputed charge, or on  *)
(* one that somebody else refunded.                                        *)
CheckExpiry(w, p) ==
  /\ wk[w][p].pc = "check"
  /\ IF \/ p \notin expired
        \/ p \in disputed
        \/ AmountRefunded(p) > 0 /\ refund[p].status = "none"
     THEN EndPass(w, p)
     ELSE Goto(w, p, "refundTx")
  /\ UNCHANGED <<rowVars, stripeVars, rel>>

(* A refund that was requested is taken for one that was made.             *)
FollowRefundWrong(w, p) ==
  /\ wk[w][p].pc = "refundTx"
  /\ refund[p].status # "none"
  /\ EndPass(w, p)
  /\ UNCHANGED <<rowVars, stripeVars, rel>>

(* expire()'s transaction, a refund already requested: follow it up.       *)
FollowRefund(w, p) ==
  /\ wk[w][p].pc = "refundTx"
  /\ refund[p].status # "none"
  /\ IF refund[p].status = "pending"
     THEN Move(w, p, [wk[w][p] EXCEPT !.pc = "refundCall", !.known = refund[p].known])
     ELSE EndPass(w, p)
  /\ UNCHANGED <<rowVars, stripeVars, rel>>

(* expire()'s transaction, no refund yet.  The reservations it cancels     *)
(* join the balance it returns; an unsettled transfer holds all of it back.*)
Unspent(p) == Available(p) + CentsOf[With(p, {"reserved"})]
(* Transfers of unknown outcome do not hold the refund back.               *)
RefundableWrong(p) == Unspent(p) > 0
Refundable(p) == With(p, {"transferring", "reversing"}) = {} /\ Unspent(p) > 0

CloseBrief(w, p) ==
  /\ wk[w][p].pc = "refundTx"
  /\ refund[p].status = "none"
  /\ payStatus[p] = "paid"
  /\ brief' = [brief EXCEPT ![p] = "expired"]
  /\ escrow' = escrow \ {p}
  /\ IF Refundable(p)
     THEN /\ CancelReservations(p, {<<"funding", p>>, <<"refund-request", p>>})
          /\ refund' = [refund EXCEPT ![p] =
                          [status |-> "pending", cents |-> Unspent(p), known |-> FALSE]]
          /\ Goto(w, p, "refundCall")
     ELSE /\ CancelReservations(p, {})
          /\ UNCHANGED refund
          /\ EndPass(w, p)
  /\ UNCHANGED <<payStatus, expired, saleVars, late, lateRefund, stripeVars, rel>>

(* expire()'s transaction when a webhook has ended the payment already.    *)
LeaveReversed(w, p) ==
  /\ wk[w][p].pc = "refundTx"
  /\ refund[p].status = "none"
  /\ payStatus[p] # "paid"
  /\ EndPass(w, p)
  /\ UNCHANGED <<rowVars, stripeVars, rel>>

(* expire(): refunds.retrieve() by the saved id.                           *)
RetrieveRefund(w, p) ==
  /\ wk[w][p].pc = "refundCall"
  /\ wk[w][p].known
  /\ Move(w, p, [wk[w][p] EXCEPT !.pc = "refundSave", !.reply = own[p].status])
  /\ UNCHANGED <<rowVars, stripeVars, rel>>

(* Without checkRecovery().                                                *)
CreateRefundWrong(w, p) ==
  /\ wk[w][p].pc = "refundCall"
  /\ ~ wk[w][p].known
  /\ \E reply \in {"pending", "succeeded"} :
       /\ IF own[p].made > 0 /\ p \notin lateRefund
          THEN reply \in {"pending", own[p].status} /\ UNCHANGED own
          ELSE own' = [own EXCEPT ![p] = [made |-> @.made + 1, status |-> reply]]
       /\ Move(w, p, [wk[w][p] EXCEPT !.pc = "refundSave", !.reply = reply])
  /\ UNCHANGED <<rowVars, made, returned, disputed, external, rel>>

(* expire(): checkRecovery() and refunds.create() with the idempotency key *)
(* unused-refund:<id>, which repeats its first answer until Stripe forgets *)
(* it.                                                                     *)
RefundReplies == IF "pending" \in External THEN {"pending", "succeeded"} ELSE {"succeeded"}
CreateRefund(w, p) ==
  /\ wk[w][p].pc = "refundCall"
  /\ ~ wk[w][p].known
  /\ p \notin lateRefund
  /\ \E reply \in RefundReplies :
       /\ IF own[p].made > 0 /\ p \notin lateRefund
          THEN /\ reply \in {"pending", own[p].status}
               /\ UNCHANGED own
          ELSE own' = [own EXCEPT ![p] = [made |-> @.made + 1, status |-> reply]]
       /\ Move(w, p, [wk[w][p] EXCEPT !.pc = "refundSave", !.reply = reply])
  /\ UNCHANGED <<rowVars, made, returned, disputed, external, rel>>

(* expire(): checkRecovery() throws, the refund is left to an operator.    *)
RefundTooLate(w, p) ==
  /\ wk[w][p].pc = "refundCall"
  /\ ~ wk[w][p].known
  /\ p \in lateRefund
  /\ EndPass(w, p)
  /\ UNCHANGED <<rowVars, stripeVars, rel>>

(* Stripe's word stored as it is.                                          *)
RowStatusWrong(reply) == reply
RowStatus(reply) ==
  CASE reply = "succeeded" -> "succeeded"
    [] reply = "failed"    -> "review"
    [] OTHER               -> "pending"

(* expire(): the outcome, again written by id.                             *)
SaveRefund(w, p) ==
  LET status == RowStatus(wk[w][p].reply) IN
  /\ wk[w][p].pc = "refundSave"
  /\ refund' = [refund EXCEPT ![p].status = status, ![p].known = TRUE]
  /\ Log(IF status = "succeeded" THEN {<<"refund", p>>} ELSE {})
  /\ EndPass(w, p)
  /\ UNCHANGED <<paymentVars, saleVars, alloc, late, lateRefund, stripeVars, rel>>

(* The pass throws (a provider failure, checkRecovery) or its server dies. *)
PassDies(w, p) ==
  /\ wk[w][p].pc # "idle"
  /\ EndPass(w, p)
  /\ UNCHANGED <<rowVars, stripeVars, rel>>

(***************************************************************************)
(* Outside the settlement service.                                         *)
(***************************************************************************)
ReachExpiry(p) ==
  /\ p \notin expired
  /\ expired' = expired \cup {p}
  /\ UNCHANGED <<payStatus, brief, escrow, saleVars, alloc, refund, ledger, late,
                 lateRefund, stripeVars, rel, wk>>

(* A day passes over an operation whose outcome is not recorded.           *)
AgeTransfer(q) ==
  /\ "aging" \in External
  /\ alloc[q] \in {"transferring", "transferred", "reversing"}
  /\ q \notin late
  /\ late' = late \cup {q}
  /\ UNCHANGED <<paymentVars, saleVars, alloc, refund, ledger, lateRefund, stripeVars, rel, wk>>

AgeRefund(p) ==
  /\ "aging" \in External
  /\ refund[p].status = "pending"
  /\ p \notin lateRefund
  /\ lateRefund' = lateRefund \cup {p}
  /\ UNCHANGED <<paymentVars, saleVars, alloc, refund, ledger, late, stripeVars, rel, wk>>

(* QaService re-evaluates the contribution, its contributor uploads it     *)
(* again or withdraws consent: the QA result stops or starts describing a  *)
(* record that can be sold.                                                *)
QualityChanges(q) ==
  /\ "quality" \in External
  /\ fit' = IF q \in fit THEN fit \ {q} ELSE fit \cup {q}
  /\ UNCHANGED <<paymentVars, sold, alloc, refund, ledger, late, lateRefund, stripeVars, rel, wk>>

Dispute(p) ==
  /\ "dispute" \in External
  /\ p \notin disputed
  /\ disputed' = disputed \cup {p}
  /\ UNCHANGED <<rowVars, made, returned, external, own, rel, wk>>

RefundOutside(p) ==
  /\ "refund" \in External
  /\ p \notin external
  /\ external' = external \cup {p}
  /\ UNCHANGED <<rowVars, made, returned, disputed, own, rel, wk>>

ReverseOutside(q) ==
  /\ "partial" \in External
  /\ made[q] > 0 /\ returned[q] = "no"
  /\ returned' = [returned EXCEPT ![q] = "partial"]
  /\ UNCHANGED <<rowVars, made, disputed, external, own, rel, wk>>

(* Stripe completes, or fails, the refund it accepted.                     *)
OwnRefundEnds(p) ==
  /\ own[p].status = "pending"
  /\ \E status \in {"succeeded", "failed"} : own' = [own EXCEPT ![p].status = status]
  /\ UNCHANGED <<rowVars, made, returned, disputed, external, rel, wk>>

(* PaymentsService.webhook(): charge.refunded and charge.dispute.created   *)
(* arrive at any time after the fact, and once per event Stripe emits.     *)
Webhook(p, outcome) ==
  /\ \/ outcome = "disputed" /\ p \in disputed
     \/ outcome = "refunded" /\ (p \in external \/ own[p].made > 0)
  /\ payStatus' = [payStatus EXCEPT ![p] = outcome]
  /\ escrow' = escrow \ {p}
  /\ brief' = [brief EXCEPT ![p] = "paused"]
  /\ Log({<<"review", p>>})
  /\ UNCHANGED <<expired, saleVars, alloc, refund, late, lateRefund, stripeVars, rel, wk>>

-----------------------------------------------------------------------------
Release(q, c) ==
  \/ ReleaseCheck(q, c) \/ ReleaseClaim(q, c) \/ ReleaseTransfer(q, c)
  \/ ReleaseSettle(q, c) \/ ReleaseDies(q, c)

(* The steps of a pass in the order of the code, without PassDies.         *)
Reconcile(w, p) ==
  \/ ReadCharge(w, p) \/ ReadOwnRefund(w, p) \/ Freeze(w, p) \/ ListTransfers(w, p)
  \/ ReversalsDone(w, p)
  \/ \E q \in Of(p) : \/ Recover(w, p, q) \/ RetrieveTransfer(w, p, q) \/ MarkReversing(w, p, q)
                      \/ CreateReversal(w, p, q) \/ SettleReversal(w, p, q)
Expire(w, p) ==
  \/ CheckExpiry(w, p) \/ FollowRefund(w, p) \/ CloseBrief(w, p) \/ LeaveReversed(w, p)
  \/ RetrieveRefund(w, p) \/ CreateRefund(w, p) \/ RefundTooLate(w, p) \/ SaveRefund(w, p)
Pass(w, p) == StartPass(w, p) \/ Reconcile(w, p) \/ Expire(w, p)

Environment ==
  \/ \E p \in Payments : \/ ReachExpiry(p) \/ AgeRefund(p) \/ Dispute(p) \/ RefundOutside(p)
                         \/ OwnRefundEnds(p)
                         \/ \E outcome \in {"refunded", "disputed"} : Webhook(p, outcome)
  \/ \E q \in Qas : AgeTransfer(q) \/ QualityChanges(q) \/ ReverseOutside(q)

Next ==
  \/ \E q \in Qas : Reserve(q) \/ Cancel(q) \/ \E c \in Clicks : Release(q, c)
  \/ \E p \in Payments : \/ Pause(p) \/ GoLive(p)
                         \/ \E w \in Workers : Pass(w, p) \/ PassDies(w, p)
  \/ Environment

Spec == Init /\ [][Next]_vars

(***************************************************************************)
(* The timer calls tick() every minute for as long as the server lives and *)
(* the cursor comes back to every payment; "provider failures are retried  *)
(* next cycle", so failures are assumed to cease, not to be absent.        *)
(* Administrators, buyers and Stripe's disputes owe nothing; a refund that *)
(* Stripe accepted does end.                                               *)
(***************************************************************************)
Fairness ==
  /\ \A w \in Workers, p \in Payments : WF_vars(Pass(w, p)) /\ SF_vars(StartPass(w, p))
  /\ \A p \in Payments : WF_vars(OwnRefundEnds(p))
  /\ <>[][\A w \in Workers, p \in Payments : PassDies(w, p) => Pass(w, p)]_vars
FairSpec == Spec /\ Fairness

(***************************************************************************)
(* Properties.                                                             *)
(***************************************************************************)
Positions ==
  [pc : WorkerPcs, todo : SUBSET Qas, fresh : SUBSET Qas, cur : SUBSET Qas,
   disputed : BOOLEAN, refunded : Nat, known : BOOLEAN,
   reply : {"none", "pending", "succeeded", "failed"}]

(* The shape of every row, Stripe object and position of the service.      *)
TypeOK ==
  /\ payStatus \in [Payments -> {"paid", "refunded", "disputed"}]
  /\ brief \in [Payments -> {"live", "paused", "expired"}]
  /\ escrow \subseteq Payments /\ expired \subseteq Payments
  /\ alloc \in [Qas -> AllocStatuses]
  /\ sold \subseteq Records /\ fit \subseteq Qas
  /\ refund \in [Payments -> [status : RefundStatuses, cents : Nat, known : BOOLEAN]]
  /\ ledger \subseteq LedgerKinds \X (Payments \cup Qas)
  /\ late \subseteq Qas /\ lateRefund \subseteq Payments
  /\ made \in [Qas -> Nat]
  /\ returned \in [Qas -> {"no", "partial", "full"}]
  /\ disputed \subseteq Payments /\ external \subseteq Payments
  /\ own \in [Payments -> [made : Nat, status : {"none", "pending", "succeeded", "failed"}]]
  /\ rel \in [Qas -> [Clicks -> ReleasePcs]]
  /\ wk \in [Workers -> [Payments -> Positions]]

(* However often release is clicked, retried, killed between its steps or  *)
(* overtaken by the worker's recovery, Stripe creates one transfer for an  *)
(* allocation (release's stable key and its 23-hour guard).                *)
OneTransfer == \A q \in Qas : made[q] <= 1

(* Stripe has moved money exactly for the allocations that were claimed:   *)
(* none for one that is reserved or cancelled, one transfer for every      *)
(* settled one, and 'reversed' only when Stripe took all of it back.       *)
StatusMatchesStripe ==
  \A q \in Qas :
    /\ made[q] > 0 => alloc[q] \in {"transferring", "transferred", "reversing", "reversed"}
    /\ alloc[q] \in {"transferred", "reversing", "reversed"} => made[q] > 0
    /\ alloc[q] = "reversed" => returned[q] = "full"

(* The buyer's money is never promised twice: transfers not taken back,    *)
(* reservations and the expiry refund together stay within the funding.    *)
Outstanding(p) ==
  With(p, {"reserved", "transferring"})
    \cup {q \in Of(p) : made[q] > 0 /\ returned[q] # "full"}
NoOverspend ==
  \A p \in Payments : CentsOf[Outstanding(p)] + refund[p].cents <= Funded[p]

(* A record earns for one allocation, across every brief it matched, and   *)
(* it is 'sold' exactly when that allocation was claimed for transfer.     *)
SoldOnce ==
  /\ \A q, r \in Qas : Active(q) /\ Active(r) /\ RecordOf[q] = RecordOf[r] => q = r
  /\ \A rec \in Records :
       rec \in sold <=> \E q \in Qas : RecordOf[q] = rec /\ Active(q) /\ alloc[q] # "reserved"

(* Once a refund of the unused funds is requested the funding is closed:   *)
(* nothing is reserved or in flight, and nothing can be again.             *)
RefundClosesFunding ==
  \A p \in Payments :
    refund[p].status # "none" => With(p, {"reserved", "transferring"}) = {} /\ ~Open(p)

(* The unused funds go back once, whatever is retried, and the row calls   *)
(* the refund succeeded only when Stripe does.                             *)
OneRefund ==
  \A p \in Payments :
    /\ own[p].made <= 1
    /\ own[p].made > 0 => refund[p].status # "none"
    /\ refund[p].status = "succeeded" => own[p].status = "succeeded"

(* The collection target and the per-contributor limit hold over all the   *)
(* reservations and transfers of a brief at once.                          *)
LimitsRespected ==
  \A p \in Payments :
    /\ Cardinality(Collected(p)) <= MaxCount[p]
    /\ MaxOwn[p] # 0 =>
         \A u \in Users : Cardinality({q \in Collected(p) : UserOf[q] = u}) <= MaxOwn[p]

(* The ledger, which only grows, tells the balance the rows tell: what it  *)
(* says was transferred and not reversed is what is paid out, and a        *)
(* reservation it cancelled never came back.                               *)
Logged(kind) == {q \in Qas : <<kind, q>> \in ledger}
LedgerBalances ==
  /\ Logged("transfer") \ Logged("reverse") = {q \in Qas : alloc[q] \in {"transferred", "reversing"}}
  /\ Logged("reserve") \ (Logged("transfer") \cup Logged("cancel"))
       = {q \in Qas : alloc[q] \in {"reserved", "transferring"}}
  /\ {p \in Payments : <<"refund", p>> \in ledger} = {p \in Payments : refund[p].status = "succeeded"}

(* What is over stays over: a cancelled or reversed allocation, a sale, a  *)
(* refund's amount and its success are never undone.                       *)
FinalStays ==
  [][/\ \A q \in Qas : alloc[q] \in {"cancelled", "reversed"} => alloc'[q] = alloc[q]
     /\ sold \subseteq sold'
     /\ \A p \in Payments :
          /\ refund[p].status # "none" => refund'[p].cents = refund[p].cents
          /\ refund[p].status = "succeeded" => refund'[p].status = "succeeded"]_vars

(* Settlement keeps the promise of module Escrow: whoever freezes, refunds *)
(* or closes a funding closes its brief in the same transaction, and no    *)
(* brief is opened or funding held again after that.                       *)
Promise == INSTANCE Escrow WITH
  Briefs <- Payments,
  funds  <- [p \in Payments |-> IF p \in escrow THEN "held" ELSE "ended"],
  open   <- {p \in Payments : brief[p] = "live"}
KeepsEscrow == Promise!Spec

(* A transfer Stripe created is recorded, though the call that asked for   *)
(* it died before it could: reconcile() finds it by its metadata.          *)
TransferRecorded == \A q \in Qas : made[q] > 0 ~> alloc[q] # "transferring"

(* Transfers of a disputed or externally refunded charge are taken back,   *)
(* unless one of the payment's transfers is left to manual reconciliation: *)
(* partly reversed already, or its reversal begun a day ago.  At such a    *)
(* transfer the payment's pass ends by an exception, and takes back none   *)
(* of the transfers behind it.                                             *)
Manual(p) ==
  \E q \in Of(p) : returned[q] = "partial" \/ (alloc[q] = "reversing" /\ q \in late)
TransfersReturn ==
  \A q \in Qas :
    alloc[q] = "transferred" /\ PaymentOf[q] \in disputed \cup external
      ~> alloc[q] = "reversed" \/ Manual(PaymentOf[q])

(* After the expiry nothing stays reserved, and the unused funds go back   *)
(* to the buyer (or their refund failed and is held for review), unless    *)
(* they are held back: the charge is disputed or was refunded by others;   *)
(* the refund was begun over a day ago, whether Stripe's answer was seen   *)
(* or not; there is nothing unused; a transfer of the payment is left to   *)
(* manual reconciliation, at which its pass ends before the refund; or a   *)
(* transfer that Stripe never made is still being waited for.              *)
HeldBack(p) ==
  \/ p \in disputed \cup external \cup lateRefund
  \/ Unspent(p) = 0
  \/ Manual(p)
  \/ \E q \in Of(p) : alloc[q] = "transferring" /\ made[q] = 0
UnusedFundsReturn ==
  \A p \in Payments :
    p \in expired ~> \/ HeldBack(p)
                     \/ refund[p].status \in {"succeeded", "review"} /\ With(p, {"reserved"}) = {}

(* What SETTLEMENT_SETUP.md says: "Own unused-fund refunds do not reverse  *)
(* contributor transfers."  A transfer is taken back only when somebody    *)
(* else refunded the charge or disputed it.  The code does not keep this:  *)
(* reconcile() recognises its own refund only once Stripe calls it         *)
(* 'succeeded', and freezes and reverses while it is pending.              *)
OwnRefundKeepsTransfers ==
  \A q \in Qas :
    alloc[q] \in {"reversing", "reversed"} => PaymentOf[q] \in disputed \cup external
====
