-------------------------- MODULE SettlementProofs --------------------------
(***************************************************************************)
(* What holds of Settlement for every set of payments, contributions,      *)
(* release calls and workers, every amount and every set of events.        *)
(***************************************************************************)
EXTENDS Settlement, TLAPS

(* A worker that takes up a well-typed position is where it may be.        *)
LEMMA MoveTyped ==
  ASSUME NEW w \in Workers, NEW p \in Payments, NEW position \in Positions,
         wk \in [Workers -> [Payments -> Positions]], Move(w, p, position)
  PROVE  wk' \in [Workers -> [Payments -> Positions]]
BY DEF Move

(* The same when only the program counter of a pass changes.               *)
LEMMA GotoTyped ==
  ASSUME NEW w \in Workers, NEW p \in Payments, NEW pc \in WorkerPcs,
         wk \in [Workers -> [Payments -> Positions]], Goto(w, p, pc)
  PROVE  wk' \in [Workers -> [Payments -> Positions]]
<1>1. wk[w][p] \in Positions
  OBVIOUS
<1>2. [wk[w][p] EXCEPT !.pc = pc] \in Positions
  BY <1>1 DEF Positions
<1> QED BY <1>2, MoveTyped DEF Goto

(* The same when a pass ends and its locals are dropped.                   *)
LEMMA EndPassTyped ==
  ASSUME NEW w \in Workers, NEW p \in Payments,
         wk \in [Workers -> [Payments -> Positions]], EndPass(w, p)
  PROVE  wk' \in [Workers -> [Payments -> Positions]]
<1>1. Resting \in Positions
  BY DEF Resting, Positions, WorkerPcs
<1> QED BY <1>1, MoveTyped DEF EndPass


(***************************************************************************)
(* Type correctness.                                                       *)
(***************************************************************************)
USE DEF paymentVars, saleVars, rowVars, stripeVars

(* reserve(), cancel(), release() and moderation keep TypeOK.              *)
LEMMA AdministratorsTyped ==
  ASSUME TypeOK, NEW q \in Qas,
         Reserve(q) \/ Cancel(q) \/ \E c \in Clicks : Release(q, c)
  PROVE  TypeOK'
<1>1. PaymentOf[q] \in Payments /\ RecordOf[q] \in Records
  BY MapsAssumption
<1>2. CASE Reserve(q)
  BY <1>1, <1>2 DEF Reserve, Log, TypeOK, AllocStatuses, LedgerKinds
<1>3. CASE Cancel(q)
  BY <1>3 DEF Cancel, Log, TypeOK, AllocStatuses, LedgerKinds
<1>4. ASSUME NEW c \in Clicks, ReleaseCheck(q, c) PROVE TypeOK'
  BY <1>4 DEF ReleaseCheck, TypeOK, ReleasePcs
<1>5. ASSUME NEW c \in Clicks, ReleaseClaim(q, c) PROVE TypeOK'
  BY <1>1, <1>5 DEF ReleaseClaim, TypeOK, ReleasePcs, AllocStatuses
<1>6. ASSUME NEW c \in Clicks, ReleaseTransfer(q, c) PROVE TypeOK'
  BY <1>6 DEF ReleaseTransfer, TransfersAfterCreate, TypeOK, ReleasePcs
<1>7. ASSUME NEW c \in Clicks, ReleaseSettle(q, c) PROVE TypeOK'
  <2>1. rel' \in [Qas -> [Clicks -> ReleasePcs]]
    BY <1>7 DEF ReleaseSettle, TypeOK, ReleasePcs
  <2>2. /\ alloc' \in [Qas -> AllocStatuses]
        /\ ledger' \subseteq LedgerKinds \X (Payments \cup Qas)
    <3>1. CASE alloc[q] = "transferring"
      <4>1. alloc' = [alloc EXCEPT ![q] = "transferred"] /\ ledger' = ledger \cup {<<"transfer", q>>}
        BY <1>7, <3>1 DEF ReleaseSettle, Log
      <4> QED BY <4>1 DEF TypeOK, AllocStatuses, LedgerKinds
    <3>2. CASE alloc[q] # "transferring"
      BY <1>7, <3>2 DEF ReleaseSettle, TypeOK
    <3> QED BY <3>1, <3>2
  <2> QED BY <1>7, <2>1, <2>2 DEF ReleaseSettle, TypeOK
<1>8. ASSUME NEW c \in Clicks, ReleaseDies(q, c) PROVE TypeOK'
  BY <1>8 DEF ReleaseDies, TypeOK, ReleasePcs
<1>9. ASSUME NEW c \in Clicks, Release(q, c) PROVE TypeOK'
  BY <1>4, <1>5, <1>6, <1>7, <1>8, <1>9 DEF Release
<1> QED BY <1>2, <1>3, <1>9

(* AmountRefunded is an amount whatever Stripe did.                        *)
LEMMA AmountRefundedTyped ==
  ASSUME TypeOK, NEW p \in Payments
  PROVE  AmountRefunded(p) \in Nat
<1>1. own[p].made \in Nat /\ refund[p].cents \in Nat
  BY DEF TypeOK
<1>2. own[p].made * refund[p].cents \in Nat
  BY <1>1
<1> QED BY <1>2 DEF AmountRefunded, ExternalCents

(* The sums of an instance are amounts.                                    *)
LEMMA SumsTyped ==
  ASSUME NEW p \in Payments, TypeOK
  PROVE  /\ \A statuses : With(p, statuses) \in SUBSET Qas /\ CentsOf[With(p, statuses)] \in Nat
         /\ Available(p) \in Int /\ Unspent(p) \in Int
<1>1. \A statuses : With(p, statuses) \in SUBSET Qas
  BY DEF With, Of
<1>2. \A statuses : CentsOf[With(p, statuses)] \in Nat
  BY <1>1, SumAssumption
<1>3. Funded[p] \in Nat /\ refund[p].cents \in Nat
  BY AmountsAssumption DEF TypeOK
<1> QED BY <1>1, <1>2, <1>3 DEF Available, Unspent

(* The steps of reconcile() keep TypeOK.                                   *)
LEMMA ReconcileTyped ==
  ASSUME TypeOK, NEW w \in Workers, NEW p \in Payments,
         StartPass(w, p) \/ Reconcile(w, p)
  PROVE  TypeOK'
<1> DEFINE here == wk[w][p]
<1>0. here \in Positions /\ wk \in [Workers -> [Payments -> Positions]]
  BY DEF TypeOK
<1>1. CASE StartPass(w, p)
  <2>1. [here EXCEPT !.pc = "recover", !.todo = With(p, {"transferring"})] \in Positions
    BY <1>0, SumsTyped DEF Positions, WorkerPcs
  <2> QED BY <1>0, <1>1, <2>1, MoveTyped DEF StartPass, TypeOK
<1>2. CASE ReadCharge(w, p)
  <2>1. [here EXCEPT !.pc = IF ChargeIntact(p) THEN "check" ELSE "own",
                     !.disputed = p \in disputed, !.refunded = AmountRefunded(p)] \in Positions
    <3>1. \A pc \in WorkerPcs, d \in BOOLEAN, n \in Nat :
            [here EXCEPT !.pc = pc, !.disputed = d, !.refunded = n] \in Positions
      BY <1>0 DEF Positions
    <3>2. (IF ChargeIntact(p) THEN "check" ELSE "own") \in WorkerPcs
      BY DEF WorkerPcs
    <3>3. (p \in disputed) \in BOOLEAN
      OBVIOUS
    <3> QED BY <3>1, <3>2, <3>3, AmountRefundedTyped
  <2> QED BY <1>0, <1>2, <2>1, MoveTyped DEF ReadCharge, TypeOK
<1>3. CASE ReadOwnRefund(w, p)
  <2> DEFINE known == refund[p].known \/ (own[p].made > 0 /\ here.refunded > 0)
             ours  == /\ ~ here.disputed /\ known /\ own[p].status = "succeeded"
                      /\ here.refunded = refund[p].cents
  <2>1. [here EXCEPT !.pc = IF ours THEN "check" ELSE "freeze",
                     !.disputed = FALSE, !.refunded = 0] \in Positions
    BY <1>0 DEF Positions, WorkerPcs
  <2>2. wk' \in [Workers -> [Payments -> Positions]]
    BY <1>0, <1>3, <2>1, MoveTyped DEF ReadOwnRefund
  <2>3. refund' = [refund EXCEPT ![p].known = known] /\ known \in BOOLEAN
    BY <1>3 DEF ReadOwnRefund, TypeOK
  <2>4. refund' \in [Payments -> [status : RefundStatuses, cents : Nat, known : BOOLEAN]]
    <3>1. \A k \in BOOLEAN :
            [refund EXCEPT ![p].known = k]
              \in [Payments -> [status : RefundStatuses, cents : Nat, known : BOOLEAN]]
      BY DEF TypeOK
    <3> QED BY <2>3, <3>1
  <2> QED BY <1>3, <2>2, <2>4 DEF ReadOwnRefund, TypeOK
<1>4. CASE Freeze(w, p)
  BY <1>0, <1>4, GotoTyped
  DEF Freeze, CancelReservations, With, Of, Log, TypeOK, AllocStatuses, LedgerKinds, WorkerPcs
<1>5. CASE ListTransfers(w, p)
  <2>1. [here EXCEPT !.pc = "reverse", !.todo = With(p, {"transferred", "reversing"}),
                     !.fresh = With(p, {"transferred"})] \in Positions
    BY <1>0, SumsTyped DEF Positions, WorkerPcs
  <2> QED BY <1>0, <1>5, <2>1, MoveTyped DEF ListTransfers, TypeOK
<1>6. CASE ReversalsDone(w, p)
  <2>1. [here EXCEPT !.pc = "check", !.fresh = {}] \in Positions
    BY <1>0 DEF Positions, WorkerPcs
  <2> QED BY <1>0, <1>6, <2>1, MoveTyped DEF ReversalsDone, TypeOK
<1>7. ASSUME NEW q \in Qas, Recover(w, p, q) PROVE TypeOK'
  <2>1. [here EXCEPT !.todo = @ \ {q}] \in Positions
    BY <1>0 DEF Positions
  <2>2. wk' \in [Workers -> [Payments -> Positions]]
    BY <1>0, <1>7, <2>1, MoveTyped DEF Recover
  <2> QED BY <1>7, <2>2 DEF Recover, Log, TypeOK, AllocStatuses, LedgerKinds
<1>8. ASSUME NEW q \in Qas, RetrieveTransfer(w, p, q) PROVE TypeOK'
  <2>1. \A pc \in WorkerPcs : [here EXCEPT !.pc = pc, !.cur = {q}] \in Positions
    BY <1>0 DEF Positions
  <2>2. wk' \in [Workers -> [Payments -> Positions]]
    BY <1>0, <1>8, <2>1, MoveTyped, EndPassTyped DEF RetrieveTransfer, WorkerPcs
  <2> QED BY <1>8, <2>2 DEF RetrieveTransfer, TypeOK
<1>9. ASSUME NEW q \in Qas, MarkReversing(w, p, q) PROVE TypeOK'
  BY <1>0, <1>9, GotoTyped DEF MarkReversing, TypeOK, AllocStatuses, WorkerPcs
<1>10. ASSUME NEW q \in Qas, CreateReversal(w, p, q) PROVE TypeOK'
  BY <1>0, <1>10, GotoTyped, EndPassTyped DEF CreateReversal, TypeOK, WorkerPcs
<1>11. ASSUME NEW q \in Qas, SettleReversal(w, p, q) PROVE TypeOK'
  <2>1. [here EXCEPT !.pc = "reverse", !.cur = {}, !.todo = @ \ {q}] \in Positions
    BY <1>0 DEF Positions, WorkerPcs
  <2>2. wk' \in [Workers -> [Payments -> Positions]]
    BY <1>0, <1>11, <2>1, MoveTyped DEF SettleReversal
  <2> QED BY <1>11, <2>2 DEF SettleReversal, Log, TypeOK, AllocStatuses, LedgerKinds
<1> QED
  BY <1>1, <1>2, <1>3, <1>4, <1>5, <1>6, <1>7, <1>8, <1>9, <1>10, <1>11 DEF Reconcile, Of

(* The steps of expire() keep TypeOK.                                      *)
LEMMA ExpireTyped ==
  ASSUME TypeOK, NEW w \in Workers, NEW p \in Payments,
         Expire(w, p) \/ PassDies(w, p)
  PROVE  TypeOK'
<1> DEFINE here == wk[w][p]
<1>0. here \in Positions /\ wk \in [Workers -> [Payments -> Positions]]
  BY DEF TypeOK
<1>1. CASE CheckExpiry(w, p)
  BY <1>0, <1>1, GotoTyped, EndPassTyped DEF CheckExpiry, TypeOK, WorkerPcs
<1>2. CASE FollowRefund(w, p)
  <2>1. [here EXCEPT !.pc = "refundCall", !.known = refund[p].known] \in Positions
    BY <1>0 DEF Positions, WorkerPcs, TypeOK
  <2> QED BY <1>0, <1>2, <2>1, MoveTyped, EndPassTyped DEF FollowRefund, TypeOK
<1>3. CASE CloseBrief(w, p)
  <2>1. wk' \in [Workers -> [Payments -> Positions]]
    BY <1>0, <1>3, GotoTyped, EndPassTyped DEF CloseBrief, WorkerPcs
  <2>2. refund' \in [Payments -> [status : RefundStatuses, cents : Nat, known : BOOLEAN]]
    <3>1. CASE Refundable(p)
      <4>1. Unspent(p) \in Nat
        BY <3>1, SumsTyped DEF Refundable
      <4>2. [status |-> "pending", cents |-> Unspent(p), known |-> FALSE]
              \in [status : RefundStatuses, cents : Nat, known : BOOLEAN]
        BY <4>1 DEF RefundStatuses
      <4>3. refund' = [refund EXCEPT ![p] =
                         [status |-> "pending", cents |-> Unspent(p), known |-> FALSE]]
        BY <1>3, <3>1 DEF CloseBrief
      <4> QED BY <4>2, <4>3 DEF TypeOK
    <3> QED BY <1>3, <3>1 DEF CloseBrief, TypeOK
  <2>3. /\ alloc' \in [Qas -> AllocStatuses]
        /\ ledger' \subseteq LedgerKinds \X (Payments \cup Qas)
    BY <1>3 DEF CloseBrief, CancelReservations, With, Of, Log, TypeOK, AllocStatuses, LedgerKinds
  <2> QED BY <1>3, <2>1, <2>2, <2>3 DEF CloseBrief, TypeOK
<1>4. CASE LeaveReversed(w, p)
  BY <1>0, <1>4, EndPassTyped DEF LeaveReversed, TypeOK
<1>5. CASE RetrieveRefund(w, p)
  <2>1. [here EXCEPT !.pc = "refundSave", !.reply = own[p].status] \in Positions
    BY <1>0 DEF Positions, WorkerPcs, TypeOK
  <2> QED BY <1>0, <1>5, <2>1, MoveTyped DEF RetrieveRefund, TypeOK
<1>6. CASE CreateRefund(w, p)
  <2>1. PICK reply \in RefundReplies :
          /\ own' = own \/ own' = [own EXCEPT ![p] = [made |-> @.made + 1, status |-> reply]]
          /\ Move(w, p, [here EXCEPT !.pc = "refundSave", !.reply = reply])
    BY <1>6 DEF CreateRefund
  <2>2. reply \in {"pending", "succeeded"}
    BY DEF RefundReplies
  <2>3. [here EXCEPT !.pc = "refundSave", !.reply = reply] \in Positions
    BY <1>0, <2>2 DEF Positions, WorkerPcs
  <2>4. wk' \in [Workers -> [Payments -> Positions]]
    BY <1>0, <2>1, <2>3, MoveTyped
  <2>5. own' \in [Payments -> [made : Nat, status : {"none", "pending", "succeeded", "failed"}]]
    BY <2>1, <2>2 DEF TypeOK
  <2> QED BY <1>6, <2>4, <2>5 DEF CreateRefund, TypeOK
<1>7. CASE RefundTooLate(w, p)
  BY <1>0, <1>7, EndPassTyped DEF RefundTooLate, TypeOK
<1>8. CASE SaveRefund(w, p)
  <2>1. RowStatus(here.reply) \in RefundStatuses
    BY DEF RowStatus, RefundStatuses
  <2>2. refund' \in [Payments -> [status : RefundStatuses, cents : Nat, known : BOOLEAN]]
    <3>1. refund' = [refund EXCEPT ![p].status = RowStatus(here.reply), ![p].known = TRUE]
      BY <1>8 DEF SaveRefund
    <3>2. refund \in [Payments -> [status : RefundStatuses, cents : Nat, known : BOOLEAN]]
      BY DEF TypeOK
    <3> QED BY <2>1, <3>1, <3>2
  <2> QED BY <1>0, <1>8, <2>2, EndPassTyped DEF SaveRefund, Log, TypeOK, LedgerKinds
<1>9. CASE PassDies(w, p)
  BY <1>0, <1>9, EndPassTyped DEF PassDies, TypeOK
<1> QED
  BY <1>1, <1>2, <1>3, <1>4, <1>5, <1>6, <1>7, <1>8, <1>9 DEF Expire

(* Stripe, the clock, webhooks and dying passes keep TypeOK.               *)
LEMMA OutsideTyped ==
  ASSUME TypeOK, Environment \/ \E p \in Payments : Pause(p) \/ GoLive(p)
  PROVE  TypeOK'
<1>1. ASSUME NEW p \in Payments, Pause(p) PROVE TypeOK'
  BY <1>1 DEF Pause, TypeOK
<1>2. ASSUME NEW p \in Payments, GoLive(p) PROVE TypeOK'
  BY <1>2 DEF GoLive, TypeOK
<1>3. ASSUME NEW p \in Payments, ReachExpiry(p) PROVE TypeOK'
  BY <1>3 DEF ReachExpiry, TypeOK
<1>4. ASSUME NEW p \in Payments, AgeRefund(p) PROVE TypeOK'
  BY <1>4 DEF AgeRefund, TypeOK
<1>5. ASSUME NEW p \in Payments, Dispute(p) PROVE TypeOK'
  BY <1>5 DEF Dispute, TypeOK
<1>6. ASSUME NEW p \in Payments, RefundOutside(p) PROVE TypeOK'
  BY <1>6 DEF RefundOutside, TypeOK
<1>7. ASSUME NEW p \in Payments, OwnRefundEnds(p) PROVE TypeOK'
  <2>1. PICK status \in {"succeeded", "failed"} : own' = [own EXCEPT ![p].status = status]
    BY <1>7 DEF OwnRefundEnds
  <2>2. own' \in [Payments -> [made : Nat, status : {"none", "pending", "succeeded", "failed"}]]
    BY <2>1 DEF TypeOK
  <2> QED BY <1>7, <2>2 DEF OwnRefundEnds, TypeOK
<1>8. ASSUME NEW p \in Payments, NEW outcome \in {"refunded", "disputed"}, Webhook(p, outcome)
      PROVE  TypeOK'
  BY <1>8 DEF Webhook, Log, LedgerKinds, TypeOK
<1>9. ASSUME NEW q \in Qas, AgeTransfer(q) PROVE TypeOK'
  BY <1>9 DEF AgeTransfer, TypeOK
<1>10. ASSUME NEW q \in Qas, QualityChanges(q) PROVE TypeOK'
  BY <1>10 DEF QualityChanges, TypeOK
<1>11. ASSUME NEW q \in Qas, ReverseOutside(q) PROVE TypeOK'
  BY <1>11 DEF ReverseOutside, TypeOK
<1> QED
  BY <1>1, <1>2, <1>3, <1>4, <1>5, <1>6, <1>7, <1>8, <1>9, <1>10, <1>11 DEF Environment

(* The first state is well typed.                                          *)
LEMMA InitTyped == Init => TypeOK
<1> SUFFICES ASSUME Init PROVE TypeOK
  OBVIOUS
<1>1. Resting \in Positions
  BY DEF Resting, Positions, WorkerPcs
<1>2. NoRefund \in [status : RefundStatuses, cents : Nat, known : BOOLEAN]
  BY DEF NoRefund, RefundStatuses
<1>3. ledger \subseteq LedgerKinds \X (Payments \cup Qas)
  BY DEF Init, LedgerKinds
<1> QED BY <1>1, <1>2, <1>3 DEF Init, TypeOK, AllocStatuses, ReleasePcs

(* Every row, Stripe object and local of a pass keeps its type, for any    *)
(* number of payments, calls and workers.                                  *)
THEOREM TypeCorrect == Spec => []TypeOK
<1>1. TypeOK /\ [Next]_vars => TypeOK'
  <2> SUFFICES ASSUME TypeOK, [Next]_vars PROVE TypeOK'
    OBVIOUS
  <2>1. CASE UNCHANGED vars
    BY <2>1 DEF vars, TypeOK
  <2>2. CASE Next
    BY <2>2, AdministratorsTyped, ReconcileTyped, ExpireTyped, OutsideTyped DEF Next, Pass
  <2> QED BY <2>1, <2>2
<1> QED BY InitTyped, <1>1, PTL DEF Spec

(***************************************************************************)
(* Transfers.  The calls and passes in flight know something about the     *)
(* allocation they hold, and the proof needs it: a release call that got   *)
(* past its claim holds a claimed allocation, one about to settle holds a  *)
(* transfer, and a worker reversing transfers holds settled ones only.     *)
(***************************************************************************)
Claimed(q) == alloc[q] \in {"transferring", "transferred", "reversing", "reversed"}
Settled(q) == alloc[q] \in {"transferred", "reversing", "reversed"}

CallsHold ==
  \A q \in Qas, c \in Clicks :
    /\ rel[q][c] \in {"transfer", "settle"} => Claimed(q)
    /\ rel[q][c] = "settle" => made[q] > 0

PassesHold ==
  \A w \in Workers, p \in Payments :
    /\ wk[w][p].pc \in {"reverse", "mark", "create", "settle"} =>
         \A q \in wk[w][p].todo : Settled(q)
    /\ wk[w][p].pc \in {"mark", "create", "settle"} => \A q \in wk[w][p].cur : Settled(q)
    /\ wk[w][p].pc = "settle" => \A q \in wk[w][p].cur : returned[q] = "full"
    /\ \A q, r \in wk[w][p].cur : q = r

TransferInv == TypeOK /\ OneTransfer /\ StatusMatchesStripe /\ CallsHold /\ PassesHold

(* What Move leaves alone.                                                 *)
LEMMA MoveElsewhere ==
  ASSUME NEW w \in Workers, NEW p \in Payments, NEW position,
         wk \in [Workers -> [Payments -> Positions]], Move(w, p, position)
  PROVE  /\ wk'[w][p] = position
         /\ \A x \in Workers, y \in Payments : x # w \/ y # p => wk'[x][y] = wk[x][y]
BY DEF Move

(* A pass may go anywhere outside the reversal loop, and a step that does  *)
(* not take back what a pass relies on keeps PassesHold.                   *)
LEMMA PassesKept ==
  ASSUME TypeOK, PassesHold, NEW w \in Workers, NEW p \in Payments, NEW position,
         Move(w, p, position),
         \A q \in Qas : Settled(q) => Settled(q)',
         \A q \in Qas : returned[q] = "full" => returned'[q] = "full",
         position.pc \in {"reverse", "mark", "create", "settle"} =>
           \A q \in position.todo : Settled(q)',
         position.pc \in {"mark", "create", "settle"} => \A q \in position.cur : Settled(q)',
         position.pc = "settle" => \A q \in position.cur : returned'[q] = "full",
         \A q, r \in position.cur : q = r
  PROVE  PassesHold'
<1> SUFFICES ASSUME NEW x \in Workers, NEW y \in Payments
             PROVE  /\ wk'[x][y].pc \in {"reverse", "mark", "create", "settle"} =>
                         \A q \in wk'[x][y].todo : Settled(q)'
                    /\ wk'[x][y].pc \in {"mark", "create", "settle"} =>
                         \A q \in wk'[x][y].cur : Settled(q)'
                    /\ wk'[x][y].pc = "settle" => \A q \in wk'[x][y].cur : returned'[q] = "full"
                    /\ \A q, r \in wk'[x][y].cur : q = r
  BY DEF PassesHold
<1>1. /\ wk'[w][p] = position
      /\ x # w \/ y # p => wk'[x][y] = wk[x][y]
  BY MoveElsewhere DEF TypeOK
<1>2. CASE x = w /\ y = p
  BY <1>1, <1>2
<1>3. CASE x # w \/ y # p
  <2>1. wk[x][y].todo \subseteq Qas /\ wk[x][y].cur \subseteq Qas
    BY DEF TypeOK, Positions
  <2> QED BY <1>1, <1>3, <2>1 DEF PassesHold
<1> QED BY <1>2, <1>3

(* reserve(), cancel() and release() keep TransferInv: the claim is what   *)
(* allows a transfer.                                                      *)
LEMMA AdministratorsTransfer ==
  ASSUME TransferInv, NEW q \in Qas,
         Reserve(q) \/ Cancel(q) \/ \E c \in Clicks : Release(q, c)
  PROVE  (OneTransfer /\ StatusMatchesStripe /\ CallsHold /\ PassesHold)'
<1> USE DEF TransferInv
<1> DEFINE Goal == (OneTransfer /\ StatusMatchesStripe /\ CallsHold /\ PassesHold)'
<1>0. /\ alloc \in [Qas -> AllocStatuses] /\ made \in [Qas -> Nat]
      /\ rel \in [Qas -> [Clicks -> ReleasePcs]]
      /\ \A w \in Workers, p \in Payments : wk[w][p].todo \cup wk[w][p].cur \subseteq Qas
  BY DEF TypeOK, Positions
<1>1. CASE Reserve(q)
  <2>1. alloc' = [alloc EXCEPT ![q] = "reserved"] /\ alloc[q] = "none"
    BY <1>0, <1>1 DEF Reserve
  <2> QED BY <1>0, <1>1, <2>1
       DEF Reserve, OneTransfer, StatusMatchesStripe, CallsHold, PassesHold, Claimed, Settled
<1>2. CASE Cancel(q)
  BY <1>0, <1>2
  DEF Cancel, OneTransfer, StatusMatchesStripe, CallsHold, PassesHold, Claimed, Settled
<1>3. ASSUME NEW c \in Clicks, ReleaseCheck(q, c) \/ ReleaseDies(q, c) PROVE Goal
  <2>1. UNCHANGED <<alloc, made, returned, wk>>
    BY <1>0, <1>3 DEF ReleaseCheck, ReleaseDies
  <2>2. rel' = [rel EXCEPT ![q][c] = "claim"] \/ rel' = [rel EXCEPT ![q][c] = "idle"]
    BY <1>0, <1>3 DEF ReleaseCheck, ReleaseDies
  <2>3. \A r \in Qas, d \in Clicks : rel'[r][d] = rel[r][d] \/ rel'[r][d] \in {"claim", "idle"}
    BY <1>0, <2>2
  <2>5. CallsHold'
    BY <2>1, <2>3 DEF CallsHold, Claimed
  <2>4. (OneTransfer /\ StatusMatchesStripe /\ PassesHold)'
    BY <2>1 DEF OneTransfer, StatusMatchesStripe, PassesHold, Settled
  <2> QED BY <2>4, <2>5
<1>4. ASSUME NEW c \in Clicks, ReleaseClaim(q, c) PROVE Goal
  <2>1. /\ \A r \in Qas : alloc'[r] = alloc[r] \/ (r = q /\ alloc[r] = "reserved" /\ alloc'[r] = "transferring")
        /\ alloc'[q] = "transferring"
        /\ UNCHANGED <<made, returned, wk>>
    BY <1>0, <1>4 DEF ReleaseClaim
  <2>2. rel' = [rel EXCEPT ![q][c] = "transfer"]
    BY <1>0, <1>4 DEF ReleaseClaim
  <2> QED BY <1>0, <2>1, <2>2 DEF OneTransfer, StatusMatchesStripe,
                            CallsHold, PassesHold, Claimed, Settled
<1>5. ASSUME NEW c \in Clicks, ReleaseTransfer(q, c) PROVE Goal
  <2>1. Claimed(q) /\ made[q] \in {0, 1} /\ made' = [made EXCEPT ![q] = 1]
    <3>1. Claimed(q)
      BY <1>0, <1>5 DEF ReleaseTransfer, CallsHold
    <3>2. made[q] \in {0, 1}
      <4>1. made[q] \in Nat /\ made[q] <= 1
        BY <1>0 DEF OneTransfer
      <4> QED BY <4>1
    <3>3. TransfersAfterCreate(q) = 1
      BY <1>0, <1>5, <3>2 DEF ReleaseTransfer, TransfersAfterCreate
    <3> QED BY <1>0, <1>5, <3>1, <3>2, <3>3 DEF ReleaseTransfer
  <2> QED BY <1>0, <1>5, <2>1 DEF ReleaseTransfer, OneTransfer, StatusMatchesStripe,
                            CallsHold, PassesHold, Claimed, Settled
<1>6. ASSUME NEW c \in Clicks, ReleaseSettle(q, c) PROVE Goal
  <2>1. /\ \A r \in Qas : alloc'[r] = alloc[r]
                          \/ (r = q /\ alloc[r] = "transferring" /\ alloc'[r] = "transferred")
        /\ UNCHANGED <<made, returned, wk>>
    <3>1. CASE alloc[q] = "transferring"
      BY <1>0, <1>6, <3>1 DEF ReleaseSettle
    <3>2. CASE alloc[q] # "transferring"
      BY <1>0, <1>6, <3>2 DEF ReleaseSettle
    <3> QED BY <3>1, <3>2
  <2>2. made[q] > 0
    BY <1>0, <1>6 DEF ReleaseSettle, CallsHold
  <2>3. rel' = [rel EXCEPT ![q][c] = "idle"]
    BY <1>0, <1>6 DEF ReleaseSettle
  <2> QED BY <1>0, <2>1, <2>2, <2>3 DEF OneTransfer, StatusMatchesStripe,
                                  CallsHold, PassesHold, Claimed, Settled
<1>7. ASSUME NEW c \in Clicks, Release(q, c) PROVE Goal
  BY <1>0, <1>3, <1>4, <1>5, <1>6, <1>7 DEF Release
<1> QED BY <1>1, <1>2, <1>7

(* How a pass may change an allocation, and what keeps TransferInv then.   *)
PassChange(q) ==
  \/ alloc'[q] = alloc[q]
  \/ alloc[q] = "reserved" /\ alloc'[q] = "cancelled"
  \/ alloc[q] = "transferring" /\ alloc'[q] = "transferred" /\ made[q] > 0
  \/ Settled(q) /\ alloc'[q] = "reversing"
  \/ Settled(q) /\ returned[q] = "full" /\ alloc'[q] = "reversed"

(* A worker's step that moves no money and no row keeps TransferInv if its *)
(* locals still say what is so.                                            *)
LEMMA PassTransfer ==
  ASSUME TransferInv, NEW w \in Workers, NEW p \in Payments, NEW position,
         Move(w, p, position), UNCHANGED <<made, rel>>,
         \A q \in Qas : PassChange(q),
         \A q \in Qas : returned[q] = "full" => returned'[q] = "full",
         position.pc \in {"reverse", "mark", "create", "settle"} =>
           \A q \in position.todo : Settled(q)',
         position.pc \in {"mark", "create", "settle"} => \A q \in position.cur : Settled(q)',
         position.pc = "settle" => \A q \in position.cur : returned'[q] = "full",
         \A q, r \in position.cur : q = r
  PROVE  (OneTransfer /\ StatusMatchesStripe /\ CallsHold /\ PassesHold)'
<1> USE DEF TransferInv
<1>1. OneTransfer'
  BY DEF OneTransfer
<1>2. StatusMatchesStripe'
  BY DEF StatusMatchesStripe, PassChange, Settled
<1>3. CallsHold'
  BY DEF CallsHold, Claimed, PassChange, Settled
<1>4. \A q \in Qas : Settled(q) => Settled(q)'
  BY DEF Settled, PassChange
<1> QED BY <1>1, <1>2, <1>3, <1>4, PassesKept

(* The steps of reconcile() keep TransferInv: recovery and reversal act on *)
(* what Stripe shows.                                                      *)
LEMMA ReconcileTransfer ==
  ASSUME TransferInv, NEW w \in Workers, NEW p \in Payments,
         StartPass(w, p) \/ Reconcile(w, p)
  PROVE  (OneTransfer /\ StatusMatchesStripe /\ CallsHold /\ PassesHold)'
<1> DEFINE here == wk[w][p]
           Goal == (OneTransfer /\ StatusMatchesStripe /\ CallsHold /\ PassesHold)'
<1>0. /\ here \in Positions
      /\ alloc \in [Qas -> AllocStatuses] /\ returned \in [Qas -> {"no", "partial", "full"}]
      /\ here.todo \subseteq Qas /\ here.cur \subseteq Qas
  BY DEF TransferInv, TypeOK, Positions
<1>a. /\ here.pc \in {"reverse", "mark", "create", "settle"} => \A q \in here.todo : Settled(q)
      /\ here.pc \in {"mark", "create", "settle"} => \A q \in here.cur : Settled(q)
      /\ here.pc = "settle" => \A q \in here.cur : returned[q] = "full"
      /\ \A q, r \in here.cur : q = r
  BY DEF TransferInv, PassesHold
<1>1. CASE StartPass(w, p)
  <2> DEFINE to == [here EXCEPT !.pc = "recover", !.todo = With(p, {"transferring"})]
  <2>1. Move(w, p, to) /\ UNCHANGED <<alloc, returned, made, rel>>
    BY <1>1 DEF StartPass
  <2>2. to.pc = "recover" /\ to.cur = here.cur
    BY <1>0 DEF Positions
  <2> HIDE DEF to
  <2> QED BY <1>a, <2>1, <2>2, PassTransfer DEF PassChange
<1>2. CASE ReadCharge(w, p)
  <2> DEFINE to == [here EXCEPT !.pc = IF ChargeIntact(p) THEN "check" ELSE "own",
                               !.disputed = p \in disputed, !.refunded = AmountRefunded(p)]
  <2>1. Move(w, p, to) /\ UNCHANGED <<alloc, returned, made, rel>>
    BY <1>2 DEF ReadCharge
  <2>2. to.pc \in {"check", "own"} /\ to.cur = here.cur
    BY <1>0 DEF Positions
  <2> HIDE DEF to
  <2> QED BY <1>0, <1>a, <2>1, <2>2, PassTransfer DEF PassChange
<1>3. CASE ReadOwnRefund(w, p)
  <2>1. PICK position :
          /\ Move(w, p, position) /\ position.pc \in {"check", "freeze"}
          /\ position.cur = here.cur
          /\ UNCHANGED <<alloc, returned, made, rel>>
    BY <1>0, <1>3 DEF ReadOwnRefund, Positions
  <2> QED BY <1>0, <1>a, <2>1, PassTransfer DEF PassChange
<1>4. CASE Freeze(w, p)
  <2>1. Move(w, p, [here EXCEPT !.pc = "list"]) /\ UNCHANGED <<returned, made, rel>>
    BY <1>4 DEF Freeze, Goto
  <2>2. \A q \in Qas : PassChange(q)
    BY <1>4 DEF Freeze, CancelReservations, With, Of, PassChange
  <2> QED BY <1>0, <1>a, <2>1, <2>2, PassTransfer DEF Positions
<1>5. CASE ListTransfers(w, p)
  <2>1. PICK position :
          /\ Move(w, p, position) /\ position.pc = "reverse"
          /\ position.todo = With(p, {"transferred", "reversing"}) /\ position.cur = here.cur
          /\ UNCHANGED <<alloc, returned, made, rel>>
    BY <1>0, <1>5 DEF ListTransfers, Positions
  <2> QED BY <1>a, <2>1, PassTransfer DEF PassChange, With, Of, Settled
<1>6. CASE ReversalsDone(w, p)
  <2>1. PICK position :
          /\ Move(w, p, position) /\ position.pc = "check" /\ position.cur = here.cur
          /\ UNCHANGED <<alloc, returned, made, rel>>
    BY <1>0, <1>6 DEF ReversalsDone, Positions
  <2> QED BY <1>a, <2>1, PassTransfer DEF PassChange
<1>7. ASSUME NEW q \in Qas, Recover(w, p, q) PROVE Goal
  <2>1. PICK position :
          Move(w, p, position) /\ position.pc = "recover" /\ position.cur = here.cur
    BY <1>0, <1>7 DEF Recover, Positions
  <2>2. \A r \in Qas : PassChange(r)
    <3>1. CASE alloc[q] = "transferring" /\ made[q] > 0
      BY <1>0, <1>7, <3>1 DEF Recover, PassChange
    <3>2. CASE ~ (alloc[q] = "transferring" /\ made[q] > 0)
      BY <1>7, <3>2 DEF Recover, PassChange
    <3> QED BY <3>1, <3>2
  <2> QED BY <1>7, <1>a, <2>1, <2>2, PassTransfer DEF Recover
<1>8. ASSUME NEW q \in Qas, RetrieveTransfer(w, p, q) PROVE Goal
  <2>1. /\ Settled(q) /\ \A r \in here.todo : Settled(r)
        /\ UNCHANGED <<alloc, returned, made, rel>>
    BY <1>8, <1>a DEF RetrieveTransfer
  <2>2. ASSUME NEW pc \in {"settle", "mark", "create"}, pc = "settle" => returned[q] = "full",
               Move(w, p, [here EXCEPT !.pc = pc, !.cur = {q}])
        PROVE  Goal
    <3> DEFINE to == [here EXCEPT !.pc = pc, !.cur = {q}]
    <3>1. to.pc = pc /\ to.todo = here.todo /\ to.cur = {q}
      BY <1>0 DEF Positions
    <3> HIDE DEF to
    <3>2. \A r \in Qas : PassChange(r)
      BY <2>1 DEF PassChange
    <3>3. \A r \in to.todo \cup to.cur : Settled(r)'
      BY <2>1, <3>1 DEF Settled
    <3> QED BY <2>1, <2>2, <3>1, <3>2, <3>3, PassTransfer DEF to
  <2>3. CASE EndPass(w, p)
    BY <2>1, <2>3, PassTransfer DEF EndPass, Resting, PassChange
  <2> QED BY <1>8, <2>2, <2>3 DEF RetrieveTransfer
<1>9. ASSUME NEW q \in Qas, MarkReversing(w, p, q) PROVE Goal
  <2>1. PICK position :
          /\ Move(w, p, position) /\ position.pc = "create"
          /\ position.todo = here.todo /\ position.cur = here.cur
    BY <1>0, <1>9 DEF MarkReversing, Goto, Positions
  <2>2. Settled(q) /\ alloc' = [alloc EXCEPT ![q] = "reversing"] /\ UNCHANGED <<returned, made, rel>>
    BY <1>9, <1>a DEF MarkReversing
  <2> QED BY <1>0, <1>9, <1>a, <2>1, <2>2, PassTransfer DEF MarkReversing, PassChange, Settled
<1>10. ASSUME NEW q \in Qas, CreateReversal(w, p, q) PROVE Goal
  <2>1. CASE returned[q] = "partial"
    <3>1. EndPass(w, p) /\ UNCHANGED <<alloc, returned, made, rel>>
      BY <1>10, <2>1 DEF CreateReversal
    <3> QED BY <3>1, PassTransfer DEF EndPass, Resting, PassChange
  <2>2. CASE returned[q] # "partial"
    <3>1. PICK position :
            /\ Move(w, p, position) /\ position.pc = "settle"
            /\ position.todo = here.todo /\ position.cur = here.cur
      BY <1>0, <1>10, <2>2 DEF CreateReversal, Goto, Positions
    <3>2. returned' = [returned EXCEPT ![q] = "full"] /\ UNCHANGED <<alloc, made, rel>>
      BY <1>10, <2>2 DEF CreateReversal
    <3>3. here.cur = {q} /\ Settled(q) /\ \A r \in here.todo : Settled(r)
      BY <1>10, <1>a DEF CreateReversal
    <3>4. \A r \in Qas : PassChange(r)
      BY <3>2 DEF PassChange
    <3>5. \A r \in Qas : Settled(r) => Settled(r)'
      BY <3>2 DEF Settled
    <3>6. \A r \in Qas : returned[r] = "full" => returned'[r] = "full"
      BY <1>0, <3>2
    <3>7. returned'[q] = "full"
      BY <1>0, <3>2
    <3> QED BY <1>0, <3>1, <3>2, <3>3, <3>4, <3>5, <3>6, <3>7, PassTransfer
  <2> QED BY <2>1, <2>2
<1>11. ASSUME NEW q \in Qas, SettleReversal(w, p, q) PROVE Goal
  <2> DEFINE to == [here EXCEPT !.pc = "reverse", !.cur = {}, !.todo = @ \ {q}]
  <2>1. Move(w, p, to)
    BY <1>11 DEF SettleReversal
  <2>3. to.pc = "reverse" /\ to.todo = here.todo \ {q} /\ to.cur = {}
    BY <1>0 DEF Positions
  <2> HIDE DEF to
  <2>2. /\ Settled(q) /\ returned[q] = "full"
        /\ alloc' = [alloc EXCEPT ![q] = "reversed"] /\ UNCHANGED <<returned, made, rel>>
    BY <1>11, <1>a DEF SettleReversal
  <2>4. here.pc = "settle" /\ \A r \in here.todo : Settled(r)
    BY <1>11, <1>a DEF SettleReversal
  <2>5. \A r \in Qas : PassChange(r)
    BY <1>0, <2>2 DEF PassChange
  <2>6. \A r \in here.todo : Settled(r)'
    BY <1>0, <2>2, <2>4 DEF Settled
  <2> QED BY <2>1, <2>2, <2>3, <2>5, <2>6, PassTransfer
<1> QED
  BY <1>1, <1>2, <1>3, <1>4, <1>5, <1>6, <1>7, <1>8, <1>9, <1>10, <1>11 DEF Reconcile, Of

(* The steps of expire() keep TransferInv: only reservations are           *)
(* cancelled.                                                              *)
LEMMA ExpireTransfer ==
  ASSUME TransferInv, NEW w \in Workers, NEW p \in Payments,
         Expire(w, p) \/ PassDies(w, p)
  PROVE  (OneTransfer /\ StatusMatchesStripe /\ CallsHold /\ PassesHold)'
<1> DEFINE here == wk[w][p]
           Goal == (OneTransfer /\ StatusMatchesStripe /\ CallsHold /\ PassesHold)'
<1>0. /\ here \in Positions
      /\ \A q, r \in here.cur : q = r
  BY DEF TransferInv, TypeOK, PassesHold
<1>1. \A q \in Qas : PassChange(q)
  BY DEF Expire, PassDies, CheckExpiry, FollowRefund, CloseBrief, LeaveReversed, RetrieveRefund,
         CreateRefund, RefundTooLate, SaveRefund, CancelReservations, With, Of, PassChange
<1>2. UNCHANGED <<made, rel, returned>>
  BY DEF Expire, PassDies, CheckExpiry, FollowRefund, CloseBrief, LeaveReversed, RetrieveRefund,
         CreateRefund, RefundTooLate, SaveRefund
<1>3. ASSUME NEW position, Move(w, p, position),
             position.pc \in {"idle", "refundTx", "refundCall", "refundSave"},
             \A q, r \in position.cur : q = r
      PROVE  Goal
  BY <1>1, <1>2, <1>3, PassTransfer
<1>4. CASE EndPass(w, p)
  BY <1>3, <1>4 DEF EndPass, Resting
<1>5. ASSUME NEW pc \in {"refundTx", "refundCall"}, Goto(w, p, pc) PROVE Goal
  <2> DEFINE to == [here EXCEPT !.pc = pc]
  <2>1. to.pc = pc /\ to.cur = here.cur
    BY <1>0 DEF Positions
  <2>2. Move(w, p, to)
    BY <1>5 DEF Goto
  <2> HIDE DEF to
  <2> QED BY <1>0, <1>3, <2>1, <2>2
<1>6. CASE CheckExpiry(w, p)
  BY <1>4, <1>5, <1>6 DEF CheckExpiry
<1>7. CASE FollowRefund(w, p)
  <2> DEFINE to == [here EXCEPT !.pc = "refundCall", !.known = refund[p].known]
  <2>1. to.pc = "refundCall" /\ to.cur = here.cur
    BY <1>0 DEF Positions
  <2>2. Move(w, p, to) \/ EndPass(w, p)
    BY <1>7 DEF FollowRefund
  <2> HIDE DEF to
  <2> QED BY <1>0, <1>3, <1>4, <2>1, <2>2
<1>8. CASE CloseBrief(w, p)
  BY <1>4, <1>5, <1>8 DEF CloseBrief
<1>9. ASSUME NEW reply, Move(w, p, [here EXCEPT !.pc = "refundSave", !.reply = reply]) PROVE Goal
  <2> DEFINE to == [here EXCEPT !.pc = "refundSave", !.reply = reply]
  <2>1. to.pc = "refundSave" /\ to.cur = here.cur
    BY <1>0 DEF Positions
  <2>2. Move(w, p, to)
    BY <1>9
  <2> HIDE DEF to
  <2> QED BY <1>0, <1>3, <2>1, <2>2
<1>10. CASE RetrieveRefund(w, p)
  BY <1>9, <1>10 DEF RetrieveRefund
<1>11. CASE CreateRefund(w, p)
  BY <1>9, <1>11 DEF CreateRefund
<1>12. CASE LeaveReversed(w, p) \/ RefundTooLate(w, p) \/ SaveRefund(w, p) \/ PassDies(w, p)
  BY <1>4, <1>12 DEF LeaveReversed, RefundTooLate, SaveRefund, PassDies
<1> QED BY <1>6, <1>7, <1>8, <1>10, <1>11, <1>12 DEF Expire

(* Stripe, the clock and webhooks keep TransferInv: what was returned      *)
(* stays returned.                                                         *)
LEMMA OutsideTransfer ==
  ASSUME TransferInv, Environment \/ \E p \in Payments : Pause(p) \/ GoLive(p)
  PROVE  (OneTransfer /\ StatusMatchesStripe /\ CallsHold /\ PassesHold)'
<1>1. UNCHANGED <<alloc, made, rel, wk>>
  BY DEF Environment, Pause, GoLive, ReachExpiry, AgeRefund, Dispute, RefundOutside, OwnRefundEnds,
         Webhook, AgeTransfer, QualityChanges, ReverseOutside
<1>2. \A q \in Qas : returned[q] = "full" => returned'[q] = "full"
  <2>1. CASE UNCHANGED returned
    BY <2>1
  <2>2. CASE \E q \in Qas : ReverseOutside(q)
    BY <2>2 DEF ReverseOutside, TransferInv, TypeOK
  <2> QED
    BY <2>1, <2>2 DEF Environment, Pause, GoLive, ReachExpiry, AgeRefund, Dispute, RefundOutside,
                      OwnRefundEnds, Webhook, AgeTransfer, QualityChanges
<1>3. \A w \in Workers, p \in Payments : wk[w][p].cur \subseteq Qas
  BY DEF TransferInv, TypeOK, Positions
<1> QED BY <1>1, <1>2, <1>3 DEF TransferInv, OneTransfer, StatusMatchesStripe, CallsHold, PassesHold,
                           Claimed, Settled

(* Before any reservation TransferInv holds.                               *)
LEMMA InitTransfer == Init => TransferInv
<1> SUFFICES ASSUME Init PROVE TransferInv
  OBVIOUS
<1>1. TypeOK
  BY InitTyped
<1>2. /\ \A q \in Qas : alloc[q] = "none" /\ made[q] = 0
      /\ \A q \in Qas, c \in Clicks : rel[q][c] = "idle"
      /\ \A w \in Workers, p \in Payments : wk[w][p] = Resting
  BY DEF Init
<1>3. Resting.pc = "idle" /\ Resting.cur = {}
  BY DEF Resting
<1> QED BY <1>1, <1>2, <1>3
     DEF TransferInv, OneTransfer, StatusMatchesStripe, CallsHold, PassesHold, Claimed

(* TransferInv is inductive.                                               *)
LEMMA TransferStep == TransferInv /\ [Next]_vars => TransferInv'
<1> SUFFICES ASSUME TransferInv, [Next]_vars PROVE TransferInv'
  OBVIOUS
<1>1. CASE UNCHANGED vars
  BY <1>1 DEF vars, TransferInv, TypeOK, OneTransfer, StatusMatchesStripe, CallsHold, PassesHold,
              Claimed, Settled
<1>2. CASE Next
  <2>1. TypeOK'
    BY <1>2, AdministratorsTyped, ReconcileTyped, ExpireTyped, OutsideTyped
    DEF TransferInv, Next, Pass
  <2>2. (OneTransfer /\ StatusMatchesStripe /\ CallsHold /\ PassesHold)'
    BY <1>2, AdministratorsTransfer, ReconcileTransfer, ExpireTransfer, OutsideTransfer
    DEF Next, Pass
  <2> QED BY <2>1, <2>2 DEF TransferInv
<1> QED BY <1>1, <1>2

(* TransferInv holds in every reachable state.                             *)
LEMMA TransferAlways == Spec => []TransferInv
BY InitTransfer, TransferStep, PTL DEF Spec

(* However many release calls race each other and the workers' recovery,   *)
(* and wherever they die, Stripe creates one transfer per allocation.      *)
THEOREM OneTransferAlways == Spec => []OneTransfer
<1>1. TransferInv => OneTransfer
  BY DEF TransferInv
<1> QED BY TransferAlways, <1>1, PTL

(* The rows never lose sight of Stripe's transfers: what Stripe moved is   *)
(* claimed, what is settled was moved, what is 'reversed' came back whole. *)
THEOREM StatusMatchesAlways == Spec => []StatusMatchesStripe
<1>1. TransferInv => StatusMatchesStripe
  BY DEF TransferInv
<1> QED BY TransferAlways, <1>1, PTL

-----------------------------------------------------------------------------
(* The promise of module Escrow.  Every action that touches a brief or its *)
(* escrow touches both the way the promise allows; no invariant is needed. *)
LEMMA EscrowStep ==
  ASSUME NEW p \in Payments,
         TypeOK,
         escrow' = escrow \/ escrow' = escrow \ {p},
         brief' \in [Payments -> {"live", "paused", "expired"}],
         \A o \in Payments \ {p} : brief'[o] = brief[o],
         escrow' = escrow => (brief'[p] = "live" => brief[p] = "live" \/ p \in escrow),
         escrow' # escrow => brief'[p] # "live"
  PROVE  [Promise!Next]_(Promise!vars)
<1> DEFINE funds == [o \in Payments |-> IF o \in escrow THEN "held" ELSE "ended"]
           open == {o \in Payments : brief[o] = "live"}
<1>1. CASE escrow' # escrow
  <2>1. escrow' = escrow \ {p}
    BY <1>1
  <2>2. funds' = [funds EXCEPT ![p] = "ended"]
    BY <2>1
  <2>3. open' = open \ {p}
    BY <1>1
  <2> QED BY <2>2, <2>3 DEF Promise!Next, Promise!Finish
<1>2. CASE escrow' = escrow /\ brief'[p] = "live" /\ brief[p] # "live"
  <2>1. funds' = funds /\ funds[p] = "held"
    BY <1>2
  <2>2. open' = open \cup {p}
    BY <1>2
  <2> QED BY <2>1, <2>2 DEF Promise!Next, Promise!OpenUp
<1>3. CASE escrow' = escrow /\ (brief'[p] = "live" => brief[p] = "live")
  <2>1. funds' = funds
    BY <1>3
  <2>2. open' = open \/ open' = open \ {p}
    BY <1>3
  <2> QED BY <2>1, <2>2 DEF Promise!Next, Promise!Hold, Promise!vars
<1> QED BY <1>1, <1>2, <1>3

(* Every step of settlement is one of module Escrow, or none.              *)
LEMMA SettlementKeepsEscrow == TypeOK /\ [Next]_vars => [Promise!Next]_(Promise!vars)
<1> SUFFICES ASSUME TypeOK, [Next]_vars PROVE [Promise!Next]_(Promise!vars)
  OBVIOUS
<1> DEFINE Touched(p) ==
       /\ escrow' = escrow \/ escrow' = escrow \ {p}
       /\ brief' = [brief EXCEPT ![p] = brief'[p]]
       /\ brief'[p] \in {"live", "paused", "expired"}
       /\ escrow' = escrow => (brief'[p] = "live" => brief[p] = "live" \/ p \in escrow)
       /\ escrow' # escrow => brief'[p] # "live"
<1>1. ASSUME NEW p \in Payments, Touched(p) PROVE [Promise!Next]_(Promise!vars)
  <2>1. brief \in [Payments -> {"live", "paused", "expired"}]
    BY DEF TypeOK
  <2>2. brief' \in [Payments -> {"live", "paused", "expired"}]
    BY <1>1, <2>1
  <2>3. \A o \in Payments \ {p} : brief'[o] = brief[o]
    BY <1>1, <2>1
  <2> QED BY <1>1, <2>2, <2>3, EscrowStep
<1>2. CASE escrow' = escrow /\ brief' = brief
  BY <1>2 DEF Promise!vars
<1>3. ASSUME NEW w \in Workers, NEW p \in Payments, Freeze(w, p) \/ CloseBrief(w, p)
      PROVE  [Promise!Next]_(Promise!vars)
  <2>1. Touched(p)
    BY <1>3 DEF Freeze, CloseBrief, TypeOK
  <2> QED BY <1>1, <2>1
<1>4. ASSUME NEW p \in Payments, Pause(p) \/ GoLive(p)
      PROVE  [Promise!Next]_(Promise!vars)
  <2>1. Touched(p)
    BY <1>4 DEF Pause, GoLive, TypeOK
  <2> QED BY <1>1, <2>1
<1>5. ASSUME NEW p \in Payments, NEW outcome \in {"refunded", "disputed"}, Webhook(p, outcome)
      PROVE  [Promise!Next]_(Promise!vars)
  <2>1. Touched(p)
    BY <1>5 DEF Webhook, TypeOK
  <2> QED BY <1>1, <2>1
<1>6. ASSUME NEW q \in Qas, Reserve(q) \/ Cancel(q) \/ \E c \in Clicks : Release(q, c)
      PROVE  escrow' = escrow /\ brief' = brief
  BY <1>6 DEF Reserve, Cancel, Release, ReleaseCheck, ReleaseClaim, ReleaseTransfer, ReleaseSettle,
              ReleaseDies, rowVars, paymentVars
<1>7. ASSUME NEW w \in Workers, NEW p \in Payments,
             Pass(w, p) \/ PassDies(w, p), ~ Freeze(w, p), ~ CloseBrief(w, p)
      PROVE  escrow' = escrow /\ brief' = brief
  <2>1. CASE StartPass(w, p) \/ PassDies(w, p)
    BY <2>1 DEF StartPass, PassDies, rowVars, paymentVars
  <2>2. CASE Reconcile(w, p)
    BY <1>7, <2>2 DEF Reconcile, ReadCharge, ReadOwnRefund, ListTransfers, ReversalsDone, Recover,
                RetrieveTransfer, MarkReversing, CreateReversal, SettleReversal, rowVars, paymentVars
  <2>3. CASE Expire(w, p)
    BY <1>7, <2>3 DEF Expire, CheckExpiry, FollowRefund, LeaveReversed, RetrieveRefund,
                CreateRefund, RefundTooLate, SaveRefund, rowVars, paymentVars
  <2> QED BY <1>7, <2>1, <2>2, <2>3 DEF Pass
<1>8. CASE Environment
  <2>1. ASSUME NEW p \in Payments,
               ReachExpiry(p) \/ AgeRefund(p) \/ Dispute(p) \/ RefundOutside(p) \/ OwnRefundEnds(p)
        PROVE  escrow' = escrow /\ brief' = brief
    BY <2>1 DEF ReachExpiry, AgeRefund, Dispute, RefundOutside, OwnRefundEnds, rowVars, paymentVars
  <2>2. ASSUME NEW q \in Qas, AgeTransfer(q) \/ QualityChanges(q) \/ ReverseOutside(q)
        PROVE  escrow' = escrow /\ brief' = brief
    BY <2>2 DEF AgeTransfer, QualityChanges, ReverseOutside, rowVars, paymentVars
  <2> QED BY <1>2, <1>5, <1>8, <2>1, <2>2 DEF Environment
<1>9. CASE UNCHANGED vars
  BY <1>9, <1>2 DEF vars, rowVars, paymentVars
<1> HIDE DEF Touched
<1> QED
  BY <1>2, <1>3, <1>4, <1>6, <1>7, <1>8, <1>9 DEF Next

(* However payments end - frozen, refunded, disputed or expired - the      *)
(* brief closes with them, for any number of briefs, calls and workers.    *)
THEOREM SettlementImplementsEscrow == Spec => KeepsEscrow
<1>1. Init => Promise!Init
  BY DEF Init, Promise!Init
<1>2. TypeOK /\ [Next]_vars => [Promise!Next]_(Promise!vars)
  BY SettlementKeepsEscrow
<1> QED BY <1>1, <1>2, TypeCorrect, PTL DEF Spec, KeepsEscrow, Promise!Spec
====
