----------------------------- MODULE FundsProofs -----------------------------
(***************************************************************************)
(* What Settlement does with a buyer's money and with records, for every   *)
(* set of payments, contributions, release calls and workers: a record is  *)
(* sold once, limits hold, the funding is never promised twice, and what   *)
(* is unused goes back once.  With one worker, the ledger balances.        *)
(***************************************************************************)
EXTENDS SettlementProofs, FiniteSetTheorems

USE DEF paymentVars, saleVars, rowVars, stripeVars

-----------------------------------------------------------------------------
(***************************************************************************)
(* Steps.  Every proof below looks at a step through one of these lemmas.  *)
(***************************************************************************)
Reversing == {"list", "reverse", "mark", "create", "settle"}

(* What takes a pass where it goes: it reverses transfers after a freeze,  *)
(* creates a refund that was requested, and reports what Stripe said.      *)
Follows(w, p, position) ==
  /\ position.pc \in Reversing => p \notin escrow' \/ wk[w][p].pc \in Reversing
  /\ position.pc = "refundCall" => refund'[p].status # "none"
  /\ position.pc = "refundSave" => wk[w][p].pc = "refundCall"
  /\ position.reply = "succeeded" =>
       wk[w][p].reply = "succeeded" \/ own'[p].status = "succeeded"

(* Every step of a pass takes it somewhere in that way.                    *)
LEMMA PassFollows ==
  ASSUME TypeOK, NEW w \in Workers, NEW p \in Payments, Pass(w, p) \/ PassDies(w, p)
  PROVE  \E position : Move(w, p, position) /\ Follows(w, p, position)
<1> DEFINE here == wk[w][p]
<1> USE DEF Follows, Reversing
<1>0. here \in Positions
  BY DEF TypeOK
<1>a. ASSUME NEW to, Move(w, p, to), to.reply = here.reply,
             to.pc \notin {"list", "refundCall", "refundSave"},
             to.pc \in Reversing => here.pc \in Reversing
      PROVE  \E position : Move(w, p, position) /\ Follows(w, p, position)
  BY <1>a
<1>1. CASE EndPass(w, p)
  <2>1. Resting.pc = "idle" /\ Resting.reply = "none"
    BY DEF Resting
  <2> QED BY <1>1, <2>1 DEF EndPass
<1>2. ASSUME NEW pc, Goto(w, p, pc),
             pc \in Reversing => p \notin escrow' \/ here.pc \in Reversing,
             pc = "refundCall" => refund'[p].status # "none", pc # "refundSave"
      PROVE  \E position : Move(w, p, position) /\ Follows(w, p, position)
  <2> DEFINE to == [here EXCEPT !.pc = pc]
  <2>1. to.pc = pc /\ to.reply = here.reply
    BY <1>0 DEF Positions
  <2>2. Move(w, p, to)
    BY <1>2 DEF Goto
  <2> HIDE DEF to
  <2> QED BY <1>2, <2>1, <2>2
<1>3. CASE StartPass(w, p)
  <2> DEFINE to == [here EXCEPT !.pc = "recover", !.todo = With(p, {"transferring"})]
  <2>1. Move(w, p, to)
    BY <1>3 DEF StartPass
  <2>2. to.pc = "recover" /\ to.reply = here.reply
    BY <1>0 DEF Positions
  <2> HIDE DEF to
  <2> QED BY <1>a, <2>1, <2>2
<1>4. CASE Reconcile(w, p)
  <2>1. CASE ReadCharge(w, p)
    <3> DEFINE to == [here EXCEPT !.pc = IF ChargeIntact(p) THEN "check" ELSE "own",
                                 !.disputed = p \in disputed, !.refunded = AmountRefunded(p)]
    <3>1. Move(w, p, to)
      BY <2>1 DEF ReadCharge
    <3>2. to.pc \in {"check", "own"} /\ to.reply = here.reply
      BY <1>0 DEF Positions
    <3> HIDE DEF to
    <3> QED BY <1>a, <3>1, <3>2
  <2>2. CASE ReadOwnRefund(w, p)
    <3>1. PICK pc \in {"check", "freeze"} :
            Move(w, p, [here EXCEPT !.pc = pc, !.disputed = FALSE, !.refunded = 0])
      BY <2>2 DEF ReadOwnRefund
    <3> DEFINE to == [here EXCEPT !.pc = pc, !.disputed = FALSE, !.refunded = 0]
    <3>2. to.pc \in {"check", "freeze"} /\ to.reply = here.reply
      BY <1>0 DEF Positions
    <3> HIDE DEF to
    <3> QED BY <1>a, <3>1, <3>2 DEF to
  <2>3. CASE Freeze(w, p)
    BY <1>2, <2>3 DEF Freeze, TypeOK
  <2>4. CASE ListTransfers(w, p)
    <3> DEFINE to == [here EXCEPT !.pc = "reverse", !.todo = With(p, {"transferred", "reversing"}),
                               !.fresh = With(p, {"transferred"})]
    <3>1. Move(w, p, to) /\ here.pc = "list"
      BY <2>4 DEF ListTransfers
    <3>2. to.pc = "reverse" /\ to.reply = here.reply
      BY <1>0 DEF Positions
    <3> HIDE DEF to
    <3> QED BY <1>a, <3>1, <3>2
  <2>5. CASE ReversalsDone(w, p)
    <3> DEFINE to == [here EXCEPT !.pc = "check", !.fresh = {}]
    <3>1. Move(w, p, to)
      BY <2>5 DEF ReversalsDone
    <3>2. to.pc = "check" /\ to.reply = here.reply
      BY <1>0 DEF Positions
    <3> HIDE DEF to
    <3> QED BY <1>a, <3>1, <3>2
  <2>6. ASSUME NEW q \in Qas, Recover(w, p, q)
        PROVE  \E position : Move(w, p, position) /\ Follows(w, p, position)
    <3> DEFINE to == [here EXCEPT !.todo = @ \ {q}]
    <3>1. Move(w, p, to) /\ here.pc = "recover"
      BY <2>6 DEF Recover
    <3>2. to.pc = here.pc /\ to.reply = here.reply
      BY <1>0 DEF Positions
    <3> HIDE DEF to
    <3> QED BY <1>a, <3>1, <3>2
  <2>7. ASSUME NEW q \in Qas, RetrieveTransfer(w, p, q)
        PROVE  \E position : Move(w, p, position) /\ Follows(w, p, position)
    <3>1. ASSUME NEW pc \in {"settle", "mark", "create"},
                 Move(w, p, [here EXCEPT !.pc = pc, !.cur = {q}])
          PROVE  \E position : Move(w, p, position) /\ Follows(w, p, position)
      <4> DEFINE to == [here EXCEPT !.pc = pc, !.cur = {q}]
      <4>1. Move(w, p, to) /\ here.pc = "reverse"
        BY <2>7, <3>1 DEF RetrieveTransfer
      <4>2. to.pc = pc /\ to.reply = here.reply
        BY <1>0 DEF Positions
      <4> HIDE DEF to
      <4> QED BY <1>a, <4>1, <4>2
    <3> QED BY <1>1, <2>7, <3>1 DEF RetrieveTransfer
  <2>8. ASSUME NEW q \in Qas, MarkReversing(w, p, q)
        PROVE  \E position : Move(w, p, position) /\ Follows(w, p, position)
    BY <1>2, <2>8 DEF MarkReversing
  <2>9. ASSUME NEW q \in Qas, CreateReversal(w, p, q)
        PROVE  \E position : Move(w, p, position) /\ Follows(w, p, position)
    BY <1>1, <1>2, <2>9 DEF CreateReversal
  <2>10. ASSUME NEW q \in Qas, SettleReversal(w, p, q)
         PROVE  \E position : Move(w, p, position) /\ Follows(w, p, position)
    <3> DEFINE to == [here EXCEPT !.pc = "reverse", !.cur = {}, !.todo = @ \ {q}]
    <3>1. Move(w, p, to) /\ here.pc = "settle"
      BY <2>10 DEF SettleReversal
    <3>2. to.pc = "reverse" /\ to.reply = here.reply
      BY <1>0 DEF Positions
    <3> HIDE DEF to
    <3> QED BY <1>a, <3>1, <3>2
  <2> QED
    BY <1>4, <2>1, <2>2, <2>3, <2>4, <2>5, <2>6, <2>7, <2>8, <2>9, <2>10 DEF Reconcile, Of
<1>5. CASE Expire(w, p)
  <2>1. CASE CheckExpiry(w, p)
    BY <1>1, <1>2, <2>1 DEF CheckExpiry
  <2>2. CASE FollowRefund(w, p)
    <3> DEFINE to == [here EXCEPT !.pc = "refundCall", !.known = refund[p].known]
    <3>1. (Move(w, p, to) \/ EndPass(w, p)) /\ refund'[p].status # "none"
      BY <2>2 DEF FollowRefund
    <3>2. to.pc = "refundCall" /\ to.reply = here.reply
      BY <1>0 DEF Positions
    <3> HIDE DEF to
    <3> QED BY <1>1, <3>1, <3>2
  <2>3. CASE CloseBrief(w, p)
    <3>1. CASE Refundable(p)
      <4>1. refund'[p].status = "pending"
        BY <2>3, <3>1 DEF CloseBrief, TypeOK
      <4>2. Goto(w, p, "refundCall")
        BY <2>3, <3>1 DEF CloseBrief
      <4> QED BY <1>2, <4>1, <4>2
    <3>2. CASE ~ Refundable(p)
      BY <1>1, <2>3, <3>2 DEF CloseBrief
    <3> QED BY <3>1, <3>2
  <2>4. CASE RetrieveRefund(w, p)
    <3> DEFINE to == [here EXCEPT !.pc = "refundSave", !.reply = own[p].status]
    <3>1. Move(w, p, to) /\ here.pc = "refundCall" /\ UNCHANGED own
      BY <2>4 DEF RetrieveRefund
    <3>2. to.pc = "refundSave" /\ to.reply = own[p].status
      BY <1>0 DEF Positions
    <3> HIDE DEF to
    <3> QED BY <3>1, <3>2
  <2>5. CASE CreateRefund(w, p)
    <3>1. PICK reply \in {"pending", "succeeded"} :
            /\ \/ reply \in {"pending", own[p].status} /\ UNCHANGED own
               \/ own' = [own EXCEPT ![p] = [made |-> @.made + 1, status |-> reply]]
            /\ Move(w, p, [here EXCEPT !.pc = "refundSave", !.reply = reply])
      BY <2>5 DEF CreateRefund, RefundReplies
    <3>2. reply = "succeeded" => own'[p].status = "succeeded"
      BY <3>1 DEF TypeOK
    <3> DEFINE to == [here EXCEPT !.pc = "refundSave", !.reply = reply]
    <3>3. to.pc = "refundSave" /\ to.reply = reply
      BY <1>0 DEF Positions
    <3>4. Move(w, p, to) /\ here.pc = "refundCall"
      BY <2>5, <3>1 DEF CreateRefund
    <3> HIDE DEF to
    <3> QED BY <3>2, <3>3, <3>4
  <2>6. CASE LeaveReversed(w, p) \/ RefundTooLate(w, p) \/ SaveRefund(w, p)
    BY <1>1, <2>6 DEF LeaveReversed, RefundTooLate, SaveRefund
  <2> QED BY <1>5, <2>1, <2>2, <2>3, <2>4, <2>5, <2>6 DEF Expire
<1>6. CASE PassDies(w, p)
  BY <1>1, <1>6 DEF PassDies
<1> QED BY <1>3, <1>4, <1>5, <1>6 DEF Pass

(* A pass that reverses transfers is about a funding that is frozen, and   *)
(* only transfers of such a funding are reversed.                          *)
FreezeHolds ==
  /\ \A w \in Workers, p \in Payments : wk[w][p].pc \in Reversing => p \notin escrow
  /\ \A q \in Qas : alloc[q] \in {"reversing", "reversed"} => PaymentOf[q] \notin escrow

(* What happens to an allocation once it is reserved, but for its claim.   *)
Later(q) ==
  \/ alloc'[q] = alloc[q]
  \/ alloc[q] = "reserved" /\ alloc'[q] = "cancelled"
  \/ alloc[q] = "transferring" /\ alloc'[q] = "transferred"
  \/ /\ Settled(q) /\ alloc'[q] \in {"reversing", "reversed"}
     /\ PaymentOf[q] \notin escrow

Claims(q) ==
  /\ alloc[q] = "reserved"
  /\ alloc' = [alloc EXCEPT ![q] = "transferring"]
  /\ sold' = sold \cup {RecordOf[q]}

(* Escrow is only ever let go.                                             *)
LEMMA EscrowShrinks == ASSUME [Next]_vars PROVE escrow' \subseteq escrow
<1>1. ASSUME NEW q \in Qas, NEW c \in Clicks, Release(q, c) PROVE escrow' = escrow
  BY <1>1 DEF Release, ReleaseCheck, ReleaseClaim, ReleaseTransfer, ReleaseSettle, ReleaseDies
<1>2. ASSUME NEW w \in Workers, NEW p \in Payments, Pass(w, p) \/ PassDies(w, p)
      PROVE  escrow' \subseteq escrow
  <2>1. CASE Reconcile(w, p)
    BY <2>1 DEF Reconcile, ReadCharge, ReadOwnRefund, Freeze, ListTransfers, ReversalsDone, Recover,
                RetrieveTransfer, MarkReversing, CreateReversal, SettleReversal
  <2>2. CASE Expire(w, p)
    BY <2>2 DEF Expire, CheckExpiry, FollowRefund, CloseBrief, LeaveReversed, RetrieveRefund,
                CreateRefund, RefundTooLate, SaveRefund
  <2> QED BY <1>2, <2>1, <2>2 DEF Pass, PassDies, StartPass
<1>3. ASSUME Environment PROVE escrow' \subseteq escrow
  BY <1>3 DEF Environment, ReachExpiry, AgeRefund, Dispute, RefundOutside, OwnRefundEnds, Webhook,
              AgeTransfer, QualityChanges, ReverseOutside
<1> QED BY <1>1, <1>2, <1>3 DEF Next, vars, Reserve, Cancel, Pause, GoLive

(* Every step reserves, claims, moves allocations on, or leaves them.      *)
LEMMA AllocSteps ==
  ASSUME TransferInv, FreezeHolds, [Next]_vars
  PROVE  \/ \E q \in Qas : Reserve(q) \/ Claims(q)
         \/ UNCHANGED sold /\ \A q \in Qas : Later(q)
<1> DEFINE Goal == \/ \E q \in Qas : Reserve(q) \/ Claims(q)
                   \/ UNCHANGED sold /\ \A q \in Qas : Later(q)
<1>0. alloc \in [Qas -> AllocStatuses]
  BY DEF TransferInv, TypeOK
<1>a. ASSUME UNCHANGED <<alloc, sold>> PROVE Goal
  BY <1>a DEF Later
<1>1. ASSUME NEW q \in Qas, Cancel(q) PROVE Goal
  BY <1>0, <1>1 DEF Cancel, Later
<1>2. ASSUME NEW q \in Qas, NEW c \in Clicks, Release(q, c) PROVE Goal
  <2>1. CASE ReleaseClaim(q, c)
    BY <1>a, <2>1 DEF ReleaseClaim, Claims
  <2>2. CASE ReleaseSettle(q, c)
    <3>1. CASE alloc[q] = "transferring"
      BY <1>0, <2>2, <3>1 DEF ReleaseSettle, Later
    <3>2. CASE alloc[q] # "transferring"
      BY <1>a, <2>2, <3>2 DEF ReleaseSettle
    <3> QED BY <3>1, <3>2
  <2>3. CASE ReleaseCheck(q, c) \/ ReleaseTransfer(q, c) \/ ReleaseDies(q, c)
    BY <1>a, <2>3 DEF ReleaseCheck, ReleaseTransfer, ReleaseDies
  <2> HIDE DEF Goal
  <2> QED BY <1>2, <2>1, <2>2, <2>3 DEF Release
<1>3. ASSUME NEW w \in Workers, NEW p \in Payments, Reconcile(w, p) PROVE Goal
  <2> DEFINE here == wk[w][p]
  <2>0. /\ here.pc \in {"mark", "create", "settle"} => \A q \in here.cur : Settled(q)
        /\ here.pc \in Reversing => p \notin escrow
    BY DEF TransferInv, PassesHold, FreezeHolds
  <2>1. CASE Freeze(w, p)
    BY <2>1 DEF Freeze, CancelReservations, With, Of, Later
  <2>2. ASSUME NEW q \in Of(p), Recover(w, p, q) PROVE Goal
    <3>1. CASE alloc[q] = "transferring" /\ made[q] > 0
      BY <1>0, <2>2, <3>1 DEF Recover, Later
    <3>2. CASE ~ (alloc[q] = "transferring" /\ made[q] > 0)
      BY <1>a, <2>2, <3>2 DEF Recover
    <3> QED BY <3>1, <3>2
  <2>3. ASSUME NEW q \in Of(p), MarkReversing(w, p, q) \/ SettleReversal(w, p, q) PROVE Goal
    <3>1. Settled(q) /\ PaymentOf[q] \notin escrow /\ UNCHANGED sold
      BY <2>0, <2>3 DEF MarkReversing, SettleReversal, Of, Reversing
    <3>2. \/ alloc' = [alloc EXCEPT ![q] = "reversing"]
          \/ alloc' = [alloc EXCEPT ![q] = "reversed"]
      BY <2>3 DEF MarkReversing, SettleReversal
    <3>3. \A r \in Qas : Later(r)
      BY <1>0, <3>1, <3>2 DEF Later, Of
    <3> QED BY <3>1, <3>3
  <2>4. ASSUME \/ ReadCharge(w, p) \/ ReadOwnRefund(w, p) \/ ListTransfers(w, p)
               \/ ReversalsDone(w, p)
               \/ \E q \in Of(p) : RetrieveTransfer(w, p, q) \/ CreateReversal(w, p, q)
        PROVE  Goal
    BY <1>a, <2>4 DEF ReadCharge, ReadOwnRefund, ListTransfers, ReversalsDone, RetrieveTransfer,
                      CreateReversal
  <2> HIDE DEF Goal
  <2> QED BY <1>3, <2>1, <2>2, <2>3, <2>4 DEF Reconcile
<1>4. ASSUME NEW w \in Workers, NEW p \in Payments, Expire(w, p) PROVE Goal
  <2>1. CASE CloseBrief(w, p)
    <3>1. \E entries : CancelReservations(p, entries)
      BY <2>1 DEF CloseBrief
    <3> QED BY <2>1, <3>1 DEF CloseBrief, CancelReservations, With, Of, Later
  <2>2. CASE ~ CloseBrief(w, p)
    BY <1>4, <1>a, <2>2 DEF Expire, CheckExpiry, FollowRefund, LeaveReversed, RetrieveRefund,
                            CreateRefund, RefundTooLate, SaveRefund
  <2> QED BY <2>1, <2>2
<1>5. ASSUME NEW w \in Workers, NEW p \in Payments, StartPass(w, p) \/ PassDies(w, p) PROVE Goal
  BY <1>a, <1>5 DEF StartPass, PassDies
<1>6. ASSUME NEW p \in Payments, Pause(p) \/ GoLive(p) PROVE Goal
  BY <1>a, <1>6 DEF Pause, GoLive
<1>7. ASSUME Environment PROVE Goal
  BY <1>a, <1>7 DEF Environment, ReachExpiry, AgeRefund, Dispute, RefundOutside, OwnRefundEnds,
                    Webhook, AgeTransfer, QualityChanges, ReverseOutside
<1>8. ASSUME UNCHANGED vars PROVE Goal
  BY <1>a, <1>8 DEF vars
<1> HIDE DEF Goal
<1>9. Goal
  <2>1. ASSUME NEW q \in Qas, Reserve(q) PROVE Goal
    BY <2>1 DEF Goal
  <2> QED BY <2>1, <1>1, <1>2, <1>3, <1>4, <1>5, <1>6, <1>7, <1>8 DEF Next, Pass
<1> QED BY <1>9 DEF Goal

(* Only the passes of workers move them.                                   *)
LEMMA PassesMove ==
  ASSUME [Next]_vars
  PROVE  UNCHANGED wk \/ \E w \in Workers, p \in Payments : Pass(w, p) \/ PassDies(w, p)
BY DEF Next, vars, Reserve, Cancel, Release, ReleaseCheck, ReleaseClaim, ReleaseTransfer,
       ReleaseSettle, ReleaseDies, Pause, GoLive, Environment, ReachExpiry, AgeRefund, Dispute,
       RefundOutside, OwnRefundEnds, Webhook, AgeTransfer, QualityChanges, ReverseOutside

(* FreezeHolds is kept: a pass enters the reversal loop after a freeze,    *)
(* and what was let go is not held again.                                  *)
LEMMA FreezeStep == ASSUME TransferInv, FreezeHolds, [Next]_vars PROVE FreezeHolds'
<1>0. escrow' \subseteq escrow /\ TypeOK
  BY EscrowShrinks DEF TransferInv
<1>1. ASSUME NEW x \in Workers, NEW y \in Payments, wk'[x][y].pc \in Reversing
      PROVE  y \notin escrow'
  <2>1. CASE UNCHANGED wk
    BY <1>0, <1>1, <2>1 DEF FreezeHolds
  <2>2. ASSUME NEW w \in Workers, NEW p \in Payments, Pass(w, p) \/ PassDies(w, p)
        PROVE  y \notin escrow'
    <3>1. PICK position : Move(w, p, position) /\ Follows(w, p, position)
      BY <1>0, <2>2, PassFollows
    <3>2. CASE x = w /\ y = p
      <4>1. wk'[x][y] = position
        BY <1>0, <3>1, <3>2, MoveElsewhere DEF TypeOK
      <4> QED BY <1>0, <1>1, <3>1, <3>2, <4>1 DEF Follows, FreezeHolds
    <3>3. CASE ~ (x = w /\ y = p)
      <4>1. wk'[x][y] = wk[x][y]
        BY <1>0, <3>1, <3>3, MoveElsewhere DEF TypeOK
      <4> QED BY <1>0, <1>1, <4>1 DEF FreezeHolds
    <3> QED BY <3>2, <3>3
  <2> QED BY <2>1, <2>2, PassesMove
<1>2. ASSUME NEW q \in Qas, alloc'[q] \in {"reversing", "reversed"}
      PROVE  PaymentOf[q] \notin escrow'
  <2>1. CASE \E r \in Qas : Reserve(r) \/ Claims(r)
    <3>1. alloc[q] \in {"reversing", "reversed"}
      BY <1>0, <1>2, <2>1 DEF Reserve, Claims, TypeOK
    <3> QED BY <1>0, <3>1 DEF FreezeHolds
  <2>2. CASE \A r \in Qas : Later(r)
    BY <1>0, <1>2, <2>2 DEF Later, FreezeHolds
  <2> QED BY <2>1, <2>2, AllocSteps
<1> QED BY <1>1, <1>2 DEF FreezeHolds

-----------------------------------------------------------------------------
(***************************************************************************)
(* Records and limits.                                                     *)
(***************************************************************************)
(* SoldOnce is kept: a reservation wants a record that no other allocation *)
(* has, and an allocation that was claimed stays claimed.                  *)
LEMMA SoldOnceStep ==
  ASSUME TransferInv, FreezeHolds, SoldOnce, [Next]_vars
  PROVE  SoldOnce'
<1>0. alloc \in [Qas -> AllocStatuses] /\ RecordOf \in [Qas -> Records]
  BY MapsAssumption DEF TransferInv, TypeOK
<1>1. ASSUME NEW q \in Qas, Reserve(q) PROVE SoldOnce'
  <2>1. /\ alloc' = [alloc EXCEPT ![q] = "reserved"] /\ alloc[q] = "none" /\ sold' = sold
        /\ \A r \in Qas : Active(r) => RecordOf[r] # RecordOf[q]
    BY <1>1 DEF Reserve
  <2>2. \A r \in Qas : Active(r)' <=> Active(r) \/ r = q
    BY <1>0, <2>1 DEF Active
  <2> QED BY <1>0, <2>1, <2>2 DEF SoldOnce, Active
<1>2. ASSUME NEW q \in Qas, Claims(q) PROVE SoldOnce'
  <2>1. \A r \in Qas : Active(r)' <=> Active(r)
    BY <1>0, <1>2 DEF Claims, Active
  <2>2. \A r \in Qas : alloc'[r] # "reserved" <=> alloc[r] # "reserved" \/ r = q
    BY <1>0, <1>2 DEF Claims
  <2>3. Active(q)
    BY <1>2 DEF Claims, Active
  <2> QED BY <1>0, <1>2, <2>1, <2>2, <2>3 DEF SoldOnce, Claims
<1>3. ASSUME UNCHANGED sold, \A q \in Qas : Later(q) PROVE SoldOnce'
  <2>1. \A q \in Qas : Active(q)' => Active(q)
    BY <1>3 DEF Later, Active, Settled
  <2>2. \A q \in Qas : Active(q)' /\ alloc'[q] # "reserved" <=> Active(q) /\ alloc[q] # "reserved"
    BY <1>3 DEF Later, Active, Settled
  <2> QED BY <1>3, <2>1, <2>2 DEF SoldOnce
<1> QED BY <1>1, <1>2, <1>3, AllocSteps

(* A place in the limits is not free again before the funding is frozen.   *)
Taken(p) == {q \in Of(p) : Active(q)}
TakenBy(p, u) == {q \in Taken(p) : UserOf[q] = u}
LimitsHold ==
  \A p \in Payments :
    /\ IsFiniteSet(Taken(p)) /\ Cardinality(Taken(p)) <= MaxCount[p]
    /\ MaxOwn[p] # 0 => \A u \in Users : Cardinality(TakenBy(p, u)) <= MaxOwn[p]

(* Fewer take no more places.                                              *)
LEMMA FewerFit ==
  ASSUME NEW S, IsFiniteSet(S), NEW T \in SUBSET S, NEW n \in Nat, Cardinality(S) <= n
  PROVE  IsFiniteSet(T) /\ Cardinality(T) <= n
<1>1. IsFiniteSet(T) /\ Cardinality(T) <= Cardinality(S)
  BY FS_Subset
<1>2. Cardinality(S) \in Nat /\ Cardinality(T) \in Nat
  BY <1>1, FS_CardinalityType
<1> QED BY <1>1, <1>2

(* LimitsHold is kept: a reservation counts what is taken, and what is     *)
(* taken does not grow otherwise.                                          *)
LEMMA LimitsStep ==
  ASSUME TransferInv, FreezeHolds, LimitsHold, [Next]_vars
  PROVE  LimitsHold'
<1> SUFFICES ASSUME NEW p \in Payments
             PROVE  /\ IsFiniteSet(Taken(p)') /\ Cardinality(Taken(p)') <= MaxCount[p]
                    /\ MaxOwn[p] # 0 => \A u \in Users : Cardinality(TakenBy(p, u)') <= MaxOwn[p]
  BY DEF LimitsHold
<1>0. /\ alloc \in [Qas -> AllocStatuses]
      /\ MaxCount[p] \in Nat /\ MaxOwn[p] \in Nat
  BY AmountsAssumption DEF TransferInv, TypeOK
<1>1. /\ IsFiniteSet(Taken(p)) /\ Cardinality(Taken(p)) <= MaxCount[p]
      /\ \A u \in Users : /\ TakenBy(p, u) \in SUBSET Taken(p)
                          /\ MaxOwn[p] # 0 => Cardinality(TakenBy(p, u)) <= MaxOwn[p]
  BY DEF LimitsHold, TakenBy
<1>2. ASSUME Taken(p)' \subseteq Taken(p)
      PROVE  /\ IsFiniteSet(Taken(p)') /\ Cardinality(Taken(p)') <= MaxCount[p]
             /\ MaxOwn[p] # 0 => \A u \in Users : Cardinality(TakenBy(p, u)') <= MaxOwn[p]
  <2>1. IsFiniteSet(Taken(p)') /\ Cardinality(Taken(p)') <= MaxCount[p]
    BY <1>0, <1>1, <1>2, FewerFit
  <2>2. ASSUME NEW u \in Users, MaxOwn[p] # 0 PROVE Cardinality(TakenBy(p, u)') <= MaxOwn[p]
    <3>1. IsFiniteSet(TakenBy(p, u))
      BY <1>1, FS_Subset
    <3>2. TakenBy(p, u)' \in SUBSET TakenBy(p, u)
      BY <1>2 DEF TakenBy
    <3> QED BY <1>0, <1>1, <2>2, <3>1, <3>2, FewerFit
  <2> QED BY <2>1, <2>2
<1>3. ASSUME NEW q \in Qas, Reserve(q), PaymentOf[q] = p
      PROVE  /\ IsFiniteSet(Taken(p)') /\ Cardinality(Taken(p)') <= MaxCount[p]
             /\ MaxOwn[p] # 0 => \A u \in Users : Cardinality(TakenBy(p, u)') <= MaxOwn[p]
  <2>1. p \in escrow /\ ~ LimitReached(q) /\ alloc[q] = "none"
    BY <1>3 DEF Reserve, Open
  <2>2. Collected(p) = Taken(p)
    BY <2>1 DEF FreezeHolds, Collected, Taken, Active, Of
  <2>3. {r \in Collected(p) : UserOf[r] = UserOf[q]} = TakenBy(p, UserOf[q])
    BY <2>2 DEF TakenBy
  <2>4. /\ ~ (Cardinality(Taken(p)) >= MaxCount[p])
        /\ MaxOwn[p] # 0 => ~ (Cardinality(TakenBy(p, UserOf[q])) >= MaxOwn[p])
    BY <1>3, <2>1, <2>2, <2>3 DEF LimitReached
  <2>5. Taken(p)' = Taken(p) \cup {q} /\ q \notin Taken(p)
    BY <1>0, <1>3, <2>1 DEF Reserve, Taken, Active, Of
  <2>6. IsFiniteSet(Taken(p)') /\ Cardinality(Taken(p)') <= MaxCount[p]
    <3>1. Cardinality(Taken(p)) \in Nat
      BY <1>1, FS_CardinalityType
    <3>2. IsFiniteSet(Taken(p)') /\ Cardinality(Taken(p)') = Cardinality(Taken(p)) + 1
      BY <1>1, <2>5, FS_AddElement
    <3> QED BY <1>0, <2>4, <3>1, <3>2
  <2>7. ASSUME NEW u \in Users, MaxOwn[p] # 0 PROVE Cardinality(TakenBy(p, u)') <= MaxOwn[p]
    <3>1. IsFiniteSet(TakenBy(p, u)) /\ Cardinality(TakenBy(p, u)) \in Nat
      BY <1>1, FS_Subset, FS_CardinalityType
    <3>2. CASE u = UserOf[q]
      <4>1. TakenBy(p, u)' = TakenBy(p, u) \cup {q} /\ q \notin TakenBy(p, u)
        BY <2>5, <3>2 DEF TakenBy
      <4>2. Cardinality(TakenBy(p, u)') = Cardinality(TakenBy(p, u)) + 1
        BY <3>1, <4>1, FS_AddElement
      <4> QED BY <1>0, <2>4, <2>7, <3>1, <3>2, <4>2
    <3>3. CASE u # UserOf[q]
      <4>1. TakenBy(p, u)' = TakenBy(p, u)
        BY <2>5, <3>3 DEF TakenBy
      <4> QED BY <1>1, <2>7, <4>1
    <3> QED BY <3>2, <3>3
  <2> QED BY <2>6, <2>7
<1>4. ASSUME NEW q \in Qas, Reserve(q), PaymentOf[q] # p PROVE Taken(p)' \subseteq Taken(p)
  BY <1>0, <1>4 DEF Reserve, Taken, Active, Of
<1>5. ASSUME NEW q \in Qas, Claims(q) PROVE Taken(p)' \subseteq Taken(p)
  BY <1>0, <1>5 DEF Claims, Taken, Active, Of
<1>6. ASSUME \A q \in Qas : Later(q) PROVE Taken(p)' \subseteq Taken(p)
  BY <1>6 DEF Later, Taken, Active, Of, Settled
<1> QED BY <1>2, <1>3, <1>4, <1>5, <1>6, AllocSteps

SaleInv == TransferInv /\ FreezeHolds /\ SoldOnce /\ LimitsHold

(* Before any reservation it holds.                                        *)
LEMMA InitSale == Init => SaleInv
<1> SUFFICES ASSUME Init PROVE SaleInv
  OBVIOUS
<1>1. FreezeHolds
  BY DEF Init, FreezeHolds, Resting, Reversing
<1>2. \A q \in Qas : ~ Active(q)
  BY DEF Init, Active
<1>3. SoldOnce
  BY <1>2 DEF Init, SoldOnce
<1>4. LimitsHold
  <2>1. \A p \in Payments : Taken(p) = {} /\ \A u \in Users : TakenBy(p, u) = {}
    BY <1>2 DEF Taken, TakenBy, Of
  <2>2. \A p \in Payments : MaxCount[p] >= 0 /\ MaxOwn[p] >= 0
    BY AmountsAssumption
  <2> QED BY <2>1, <2>2, FS_EmptySet DEF LimitsHold
<1> QED BY <1>1, <1>3, <1>4, InitTransfer DEF SaleInv

(* It is inductive.                                                        *)
LEMMA SaleStep == SaleInv /\ [Next]_vars => SaleInv'
BY TransferStep, FreezeStep, SoldOnceStep, LimitsStep DEF SaleInv

(* It holds in every reachable state.                                      *)
LEMMA SaleAlways == Spec => []SaleInv
BY InitSale, SaleStep, PTL DEF Spec

(* A record earns for one allocation across all briefs, and is sold        *)
(* exactly when that allocation was claimed, whatever is cancelled,        *)
(* reversed, retried or marked by a late worker.                           *)
THEOREM SoldOnceAlways == Spec => []SoldOnce
<1>1. SaleInv => SoldOnce
  BY DEF SaleInv
<1> QED BY SaleAlways, <1>1, PTL

(* The collection target and the limit per contributor hold: places freed  *)
(* by a reversal cannot be given away, as the funding is frozen then.      *)
THEOREM LimitsRespectedAlways == Spec => []LimitsRespected
<1>1. ASSUME SaleInv PROVE LimitsRespected
  <2> SUFFICES ASSUME NEW p \in Payments
               PROVE  /\ Cardinality(Collected(p)) <= MaxCount[p]
                      /\ MaxOwn[p] # 0 => \A u \in Users :
                           Cardinality({q \in Collected(p) : UserOf[q] = u}) <= MaxOwn[p]
    BY DEF LimitsRespected
  <2>1. /\ IsFiniteSet(Taken(p)) /\ Cardinality(Taken(p)) <= MaxCount[p]
        /\ MaxOwn[p] # 0 => \A u \in Users : Cardinality(TakenBy(p, u)) <= MaxOwn[p]
        /\ MaxCount[p] \in Nat /\ MaxOwn[p] \in Nat
    BY <1>1, AmountsAssumption DEF SaleInv, LimitsHold
  <2>2. Collected(p) \in SUBSET Taken(p)
    BY DEF Collected, Taken, Active
  <2>3. ASSUME NEW u \in Users, MaxOwn[p] # 0
        PROVE  Cardinality({q \in Collected(p) : UserOf[q] = u}) <= MaxOwn[p]
    <3>1. {q \in Collected(p) : UserOf[q] = u} \in SUBSET TakenBy(p, u)
      BY <2>2 DEF TakenBy
    <3>2. IsFiniteSet(TakenBy(p, u))
      BY <2>1, FS_Subset DEF TakenBy
    <3> QED BY <2>1, <2>3, <3>1, <3>2, FewerFit
  <2> QED BY <2>1, <2>2, <2>3, FewerFit
<1> QED BY SaleAlways, <1>1, PTL

-----------------------------------------------------------------------------
(***************************************************************************)
(* Money.                                                                  *)
(***************************************************************************)
(* A refund is requested when the funding closes, and made by a pass that  *)
(* found the request; a pass reports success only when Stripe has it.      *)
RefundHolds ==
  /\ \A p \in Payments :
       /\ refund[p].status = "none" => refund[p].cents = 0
       /\ refund[p].status # "none" => p \notin escrow
       /\ own[p].made = 0 => own[p].status = "none"
  /\ \A w \in Workers, p \in Payments :
       /\ wk[w][p].pc \in {"refundCall", "refundSave"} => refund[p].status # "none"
       /\ wk[w][p].reply = "succeeded" => own[p].status = "succeeded"

(* What a step may do to the refund in the books, and to Stripe's.         *)
RefundStep(p) ==
  \/ refund'[p].status = refund[p].status /\ refund'[p].cents = refund[p].cents
  \/ \E w \in Workers : CloseBrief(w, p) /\ Refundable(p)
  \/ \E w \in Workers : SaveRefund(w, p)
OwnStep(p) ==
  \/ own'[p] = own[p]
  \/ /\ own[p].made = 0 /\ own'[p].made = 1 /\ own'[p].status # "none"
     /\ \E w \in Workers : wk[w][p].pc = "refundCall"
  \/ own[p].status = "pending" /\ own'[p].made = own[p].made /\ own'[p].status # "none"

(* Every step does one of these to each payment.                           *)
LEMMA RefundSteps ==
  ASSUME TypeOK, [Next]_vars, NEW p \in Payments
  PROVE  RefundStep(p) /\ OwnStep(p)
<1>0. /\ refund \in [Payments -> [status : RefundStatuses, cents : Nat, known : BOOLEAN]]
      /\ own \in [Payments -> [made : Nat, status : {"none", "pending", "succeeded", "failed"}]]
  BY DEF TypeOK
<1>a. UNCHANGED refund => RefundStep(p)
  BY DEF RefundStep
<1>b. UNCHANGED own => OwnStep(p)
  BY DEF OwnStep
<1>1. ASSUME NEW w \in Workers, NEW y \in Payments, Expire(w, y) PROVE RefundStep(p) /\ OwnStep(p)
  <2>1. CASE CloseBrief(w, y)
    <3>1. UNCHANGED own
      BY <2>1 DEF CloseBrief
    <3>2. CASE Refundable(y)
      <4>1. refund' = [refund EXCEPT ![y] = [status |-> "pending", cents |-> Unspent(y),
                                             known |-> FALSE]]
        BY <2>1, <3>2 DEF CloseBrief
      <4>2. y # p => refund'[p] = refund[p]
        BY <1>0, <4>1
      <4> QED BY <1>b, <2>1, <3>1, <3>2, <4>2 DEF RefundStep
    <3>3. CASE ~ Refundable(y)
      BY <1>a, <1>b, <2>1, <3>1, <3>3 DEF CloseBrief
    <3> QED BY <3>2, <3>3
  <2>2. CASE SaveRefund(w, y)
    <3>1. /\ UNCHANGED own
          /\ refund' = [refund EXCEPT ![y].status = RowStatus(wk[w][y].reply), ![y].known = TRUE]
      BY <2>2 DEF SaveRefund
    <3>2. y # p => refund'[p] = refund[p]
      BY <1>0, <3>1
    <3> QED BY <1>b, <2>2, <3>1, <3>2 DEF RefundStep
  <2>3. CASE CreateRefund(w, y)
    <3>1. /\ UNCHANGED refund /\ wk[w][y].pc = "refundCall"
          /\ \/ UNCHANGED own
             \/ /\ ~ (own[y].made > 0)
                /\ \E reply \in {"pending", "succeeded"} :
                     own' = [own EXCEPT ![y] = [made |-> @.made + 1, status |-> reply]]
      BY <2>3 DEF CreateRefund, RefundReplies
    <3>2. CASE UNCHANGED own
      BY <1>a, <1>b, <3>1, <3>2
    <3>3. ASSUME ~ (own[y].made > 0), NEW reply \in {"pending", "succeeded"},
                 own' = [own EXCEPT ![y] = [made |-> @.made + 1, status |-> reply]]
          PROVE  OwnStep(p)
      <4>1. own[y].made = 0
        BY <1>0, <3>3
      <4>2. own'[y].made = 1 /\ own'[y].status = reply /\ (y # p => own'[p] = own[p])
        BY <1>0, <3>3, <4>1
      <4> QED BY <3>1, <4>1, <4>2 DEF OwnStep
    <3> QED BY <1>a, <3>1, <3>2, <3>3
  <2>4. ASSUME ~ CloseBrief(w, y), ~ SaveRefund(w, y), ~ CreateRefund(w, y)
        PROVE  UNCHANGED <<refund, own>>
    BY <1>1, <2>4 DEF Expire, CheckExpiry, FollowRefund, LeaveReversed, RetrieveRefund, RefundTooLate
  <2> QED BY <1>a, <1>b, <2>1, <2>2, <2>3, <2>4
<1>2. ASSUME NEW w \in Workers, NEW y \in Payments, Reconcile(w, y)
      PROVE  RefundStep(p) /\ OwnStep(p)
  <2>1. CASE ReadOwnRefund(w, y)
    <3>1. UNCHANGED own /\ \E known : refund' = [refund EXCEPT ![y].known = known]
      BY <2>1 DEF ReadOwnRefund
    <3>2. refund'[p].status = refund[p].status /\ refund'[p].cents = refund[p].cents
      BY <1>0, <3>1
    <3> QED BY <1>b, <3>1, <3>2 DEF RefundStep
  <2>2. CASE ~ ReadOwnRefund(w, y)
    BY <1>2, <1>a, <1>b, <2>2 DEF Reconcile, ReadCharge, Freeze, ListTransfers, ReversalsDone,
         Recover, RetrieveTransfer, MarkReversing, CreateReversal, SettleReversal
  <2> QED BY <2>1, <2>2
<1>3. ASSUME NEW y \in Payments, OwnRefundEnds(y) PROVE RefundStep(p) /\ OwnStep(p)
  <2>1. /\ UNCHANGED refund /\ own[y].status = "pending"
        /\ \E status \in {"succeeded", "failed"} : own' = [own EXCEPT ![y].status = status]
    BY <1>3 DEF OwnRefundEnds
  <2>2. \/ own'[p] = own[p]
        \/ y = p /\ own'[p].made = own[p].made /\ own'[p].status # "none"
    BY <1>0, <2>1
  <2> QED BY <1>a, <2>1, <2>2 DEF OwnStep
<1>4. ASSUME Environment, \A y \in Payments : ~ OwnRefundEnds(y)
      PROVE  RefundStep(p) /\ OwnStep(p)
  BY <1>4, <1>a, <1>b DEF Environment, ReachExpiry, AgeRefund, Dispute, RefundOutside, Webhook,
                          AgeTransfer, QualityChanges, ReverseOutside
<1>5. ASSUME NEW w \in Workers, NEW y \in Payments, StartPass(w, y) \/ PassDies(w, y)
      PROVE  RefundStep(p) /\ OwnStep(p)
  BY <1>5, <1>a, <1>b DEF StartPass, PassDies
<1>6. ASSUME NEW q \in Qas, Reserve(q) \/ Cancel(q) \/ \E c \in Clicks : Release(q, c)
      PROVE  RefundStep(p) /\ OwnStep(p)
  BY <1>6, <1>a, <1>b DEF Reserve, Cancel, Release, ReleaseCheck, ReleaseClaim, ReleaseTransfer,
                          ReleaseSettle, ReleaseDies
<1>7. ASSUME NEW y \in Payments, Pause(y) \/ GoLive(y) PROVE RefundStep(p) /\ OwnStep(p)
  BY <1>7, <1>a, <1>b DEF Pause, GoLive
<1>8. ASSUME UNCHANGED vars PROVE RefundStep(p) /\ OwnStep(p)
  BY <1>8, <1>a, <1>b DEF vars
<1> QED BY <1>1, <1>2, <1>3, <1>4, <1>5, <1>6, <1>7, <1>8 DEF Next, Pass

(* A refund that was requested stays requested, and one that Stripe made   *)
(* successfully stays so.                                                  *)
LEMMA RefundStays ==
  ASSUME TypeOK, RefundHolds, [Next]_vars, NEW p \in Payments
  PROVE  /\ refund[p].status # "none" => refund'[p].status # "none" /\ refund'[p].cents = refund[p].cents
         /\ own[p].status = "succeeded" => own'[p].status = "succeeded"
<1>0. refund \in [Payments -> [status : RefundStatuses, cents : Nat, known : BOOLEAN]]
  BY DEF TypeOK
<1>1. own[p].status = "succeeded" => own'[p].status = "succeeded"
  BY RefundSteps DEF OwnStep, RefundHolds
<1>2. ASSUME NEW w \in Workers, SaveRefund(w, p)
      PROVE  refund'[p].status # "none" /\ refund'[p].cents = refund[p].cents
  <2>1. refund' = [refund EXCEPT ![p].status = RowStatus(wk[w][p].reply), ![p].known = TRUE]
    BY <1>2 DEF SaveRefund
  <2>2. RowStatus(wk[w][p].reply) # "none"
    BY DEF RowStatus
  <2> QED BY <1>0, <2>1, <2>2
<1>3. ASSUME NEW w \in Workers, CloseBrief(w, p) PROVE refund[p].status = "none"
  BY <1>3 DEF CloseBrief
<1> QED BY <1>1, <1>2, <1>3, RefundSteps DEF RefundStep

(* RefundHolds is kept.                                                    *)
LEMMA RefundHoldsStep ==
  ASSUME TypeOK, RefundHolds, [Next]_vars
  PROVE  RefundHolds'
<1>0. /\ refund \in [Payments -> [status : RefundStatuses, cents : Nat, known : BOOLEAN]]
      /\ escrow' \subseteq escrow
  BY EscrowShrinks DEF TypeOK
<1>1. ASSUME NEW p \in Payments
      PROVE  /\ refund'[p].status = "none" => refund'[p].cents = 0
             /\ refund'[p].status # "none" => p \notin escrow'
             /\ own'[p].made = 0 => own'[p].status = "none"
  <2>1. own'[p].made = 0 => own'[p].status = "none"
    BY RefundSteps DEF OwnStep, RefundHolds
  <2>2. CASE refund[p].status # "none"
    BY <1>0, <2>1, <2>2, RefundStays DEF RefundHolds
  <2>3. CASE refund[p].status = "none"
    <3>1. CASE refund'[p].status = refund[p].status /\ refund'[p].cents = refund[p].cents
      BY <2>1, <2>3, <3>1 DEF RefundHolds
    <3>2. ASSUME NEW w \in Workers, CloseBrief(w, p), Refundable(p)
          PROVE  refund'[p].status # "none" /\ p \notin escrow'
      BY <1>0, <3>2 DEF CloseBrief
    <3>3. ASSUME NEW w \in Workers, SaveRefund(w, p) PROVE FALSE
      BY <2>3, <3>3 DEF SaveRefund, RefundHolds
    <3> QED BY <2>1, <3>1, <3>2, <3>3, RefundSteps DEF RefundStep
  <2> QED BY <2>2, <2>3
<1>2. ASSUME NEW x \in Workers, NEW y \in Payments
      PROVE  /\ wk'[x][y].pc \in {"refundCall", "refundSave"} => refund'[y].status # "none"
             /\ wk'[x][y].reply = "succeeded" => own'[y].status = "succeeded"
  <2>1. CASE wk'[x][y] = wk[x][y]
    BY <2>1, RefundStays DEF RefundHolds
  <2>2. ASSUME NEW w \in Workers, NEW p \in Payments, Pass(w, p) \/ PassDies(w, p),
               wk'[x][y] # wk[x][y]
        PROVE  /\ wk'[x][y].pc \in {"refundCall", "refundSave"} => refund'[y].status # "none"
               /\ wk'[x][y].reply = "succeeded" => own'[y].status = "succeeded"
    <3>1. PICK position : Move(w, p, position) /\ Follows(w, p, position)
      BY <2>2, PassFollows
    <3>2. x = w /\ y = p /\ wk'[x][y] = position
      BY <2>2, <3>1, MoveElsewhere DEF TypeOK
    <3> QED BY <3>1, <3>2, RefundStays DEF Follows, RefundHolds
  <2> QED BY <2>1, <2>2, PassesMove
<1> QED BY <1>1, <1>2 DEF RefundHolds

(* RefundClosesFunding is kept: the funding closes with the request, and   *)
(* nothing is reserved in it afterwards.                                   *)
LEMMA ClosesStep ==
  ASSUME TransferInv, FreezeHolds, RefundHolds, RefundClosesFunding, [Next]_vars
  PROVE  RefundClosesFunding'
<1> SUFFICES ASSUME NEW p \in Payments, refund'[p].status # "none"
             PROVE  With(p, {"reserved", "transferring"})' = {} /\ ~ Open(p)'
  BY DEF RefundClosesFunding
<1>0. /\ alloc \in [Qas -> AllocStatuses] /\ TypeOK
      /\ refund \in [Payments -> [status : RefundStatuses, cents : Nat, known : BOOLEAN]]
  BY DEF TransferInv, TypeOK
<1>1. ~ Open(p)'
  BY <1>0, RefundHoldsStep DEF RefundHolds, Open
<1>2. CASE refund[p].status # "none"
  <2>1. With(p, {"reserved", "transferring"}) = {} /\ ~ Open(p)
    BY <1>2 DEF RefundClosesFunding
  <2>2. ASSUME NEW q \in Qas, Reserve(q)
        PROVE  With(p, {"reserved", "transferring"})' = {}
    <3>1. PaymentOf[q] # p
      BY <2>1, <2>2 DEF Reserve
    <3> QED BY <1>0, <2>1, <2>2, <3>1 DEF Reserve, With, Of
  <2>3. ASSUME NEW q \in Qas, Claims(q) PROVE With(p, {"reserved", "transferring"})' = {}
    BY <1>0, <2>1, <2>3 DEF Claims, With, Of
  <2>4. ASSUME \A q \in Qas : Later(q) PROVE With(p, {"reserved", "transferring"})' = {}
    BY <2>1, <2>4 DEF Later, With, Of
  <2> QED BY <1>1, <2>2, <2>3, <2>4, AllocSteps
<1>3. CASE refund[p].status = "none"
  <2>1. ASSUME NEW w \in Workers, CloseBrief(w, p), Refundable(p)
        PROVE  With(p, {"reserved", "transferring"})' = {}
    <3>1. With(p, {"transferring"}) = {}
      BY <2>1 DEF Refundable, With
    <3>2. alloc' = [q \in Qas |-> IF q \in With(p, {"reserved"}) THEN "cancelled" ELSE alloc[q]]
      BY <2>1 DEF CloseBrief, CancelReservations
    <3> QED BY <1>0, <3>1, <3>2 DEF With, Of
  <2>2. ASSUME NEW w \in Workers, SaveRefund(w, p) PROVE FALSE
    BY <1>3, <2>2 DEF SaveRefund, RefundHolds
  <2> QED BY <1>0, <1>1, <1>3, <2>1, <2>2, RefundSteps DEF RefundStep
<1> QED BY <1>2, <1>3

(* OneRefund is kept: a refund is created while there is none, and its     *)
(* success is Stripe's.                                                    *)
LEMMA OneRefundStep ==
  ASSUME TypeOK, RefundHolds, OneRefund, [Next]_vars
  PROVE  OneRefund'
<1> SUFFICES ASSUME NEW p \in Payments
             PROVE  /\ own'[p].made <= 1
                    /\ own'[p].made > 0 => refund'[p].status # "none"
                    /\ refund'[p].status = "succeeded" => own'[p].status = "succeeded"
  BY DEF OneRefund
<1>0. /\ refund \in [Payments -> [status : RefundStatuses, cents : Nat, known : BOOLEAN]]
      /\ own[p].made \in Nat
  BY DEF TypeOK
<1>1. /\ own[p].made <= 1
      /\ own[p].made > 0 => refund[p].status # "none"
      /\ refund[p].status = "succeeded" => own[p].status = "succeeded"
  BY DEF OneRefund
<1>2. own'[p].made <= 1 /\ (own'[p].made > 0 => refund'[p].status # "none")
  BY <1>1, RefundSteps, RefundStays DEF OwnStep, RefundHolds
<1>3. ASSUME refund'[p].status = "succeeded" PROVE own'[p].status = "succeeded"
  <2>1. CASE refund'[p].status = refund[p].status
    BY <1>1, <1>3, <2>1, RefundStays
  <2>2. ASSUME NEW w \in Workers, CloseBrief(w, p), Refundable(p) PROVE FALSE
    BY <1>0, <1>3, <2>2 DEF CloseBrief
  <2>3. ASSUME NEW w \in Workers, SaveRefund(w, p) PROVE own'[p].status = "succeeded"
    <3>1. refund'[p].status = RowStatus(wk[w][p].reply) /\ UNCHANGED own
      BY <1>0, <2>3 DEF SaveRefund
    <3>2. wk[w][p].reply = "succeeded"
      BY <1>3, <3>1 DEF RowStatus
    <3> QED BY <3>1, <3>2 DEF RefundHolds
  <2> QED BY <2>1, <2>2, <2>3, RefundSteps DEF RefundStep
<1> QED BY <1>2, <1>3

(* A transfer is created for an allocation that is being transferred, and  *)
(* what came back stays back.                                              *)
LEMMA MoneySteps ==
  ASSUME TransferInv, [Next]_vars, NEW q \in Qas
  PROVE  /\ made'[q] > 0 => made[q] > 0 \/ alloc[q] = "transferring"
         /\ returned[q] = "full" => returned'[q] = "full"
<1> DEFINE Goal == /\ made'[q] > 0 => made[q] > 0 \/ alloc[q] = "transferring"
                   /\ returned[q] = "full" => returned'[q] = "full"
<1>0. made \in [Qas -> Nat] /\ returned \in [Qas -> {"no", "partial", "full"}]
  BY DEF TransferInv, TypeOK
<1>a. ASSUME UNCHANGED <<made, returned>> PROVE Goal
  BY <1>a
<1>1. ASSUME NEW r \in Qas, NEW c \in Clicks, Release(r, c) PROVE Goal
  <2>1. CASE ReleaseTransfer(r, c)
    <3>1. made' = [made EXCEPT ![r] = TransfersAfterCreate(r)] /\ UNCHANGED returned
      BY <2>1 DEF ReleaseTransfer
    <3>2. Claimed(r)
      BY <2>1 DEF ReleaseTransfer, TransferInv, CallsHold
    <3>3. made[r] > 0 \/ alloc[r] = "transferring"
      BY <3>2 DEF TransferInv, StatusMatchesStripe, Claimed
    <3> QED BY <1>0, <3>1, <3>3
  <2> HIDE DEF Goal
  <2>2. CASE ~ ReleaseTransfer(r, c)
    BY <1>a, <1>1, <2>2 DEF Release, ReleaseCheck, ReleaseClaim, ReleaseSettle, ReleaseDies
  <2> QED BY <2>1, <2>2
<1>2. ASSUME NEW w \in Workers, NEW p \in Payments, Reconcile(w, p) PROVE Goal
  <2>1. ASSUME NEW r \in Of(p), CreateReversal(w, p, r) PROVE Goal
    <3>1. UNCHANGED made /\ (UNCHANGED returned \/ returned' = [returned EXCEPT ![r] = "full"])
      BY <2>1 DEF CreateReversal
    <3> QED BY <1>0, <3>1
  <2> HIDE DEF Goal
  <2>2. CASE \A r \in Of(p) : ~ CreateReversal(w, p, r)
    BY <1>2, <1>a, <2>2 DEF Reconcile, ReadCharge, ReadOwnRefund, Freeze, ListTransfers,
         ReversalsDone, Recover, RetrieveTransfer, MarkReversing, SettleReversal
  <2> QED BY <2>1, <2>2
<1>3. ASSUME NEW r \in Qas, ReverseOutside(r) PROVE Goal
  BY <1>0, <1>3 DEF ReverseOutside
<1> HIDE DEF Goal
<1>4. ASSUME Environment, \A r \in Qas : ~ ReverseOutside(r) PROVE Goal
  BY <1>4, <1>a DEF Environment, ReachExpiry, AgeRefund, Dispute, RefundOutside, OwnRefundEnds,
                    Webhook, AgeTransfer, QualityChanges
<1>5. ASSUME NEW w \in Workers, NEW p \in Payments,
             StartPass(w, p) \/ PassDies(w, p) \/ Expire(w, p)
      PROVE  Goal
  BY <1>5, <1>a DEF StartPass, PassDies, Expire, CheckExpiry, FollowRefund, CloseBrief,
                    LeaveReversed, RetrieveRefund, CreateRefund, RefundTooLate, SaveRefund
<1>6. ASSUME \/ \E r \in Qas : Reserve(r) \/ Cancel(r)
             \/ \E p \in Payments : Pause(p) \/ GoLive(p)
             \/ UNCHANGED vars
      PROVE  Goal
  BY <1>6, <1>a DEF Reserve, Cancel, Pause, GoLive, vars
<1>7. Goal
  BY <1>1, <1>2, <1>3, <1>4, <1>5, <1>6 DEF Next, Pass
<1> QED BY <1>7 DEF Goal

(* A part of the allocations costs no more than all of them.               *)
LEMMA SumGrows ==
  ASSUME NEW T \in SUBSET Qas, NEW S \in SUBSET T
  PROVE  CentsOf[S] \in Nat /\ CentsOf[T] \in Nat /\ CentsOf[S] <= CentsOf[T]
<1>1. S \in SUBSET Qas /\ T \ S \in SUBSET Qas /\ S \cap (T \ S) = {} /\ S \cup (T \ S) = T
  OBVIOUS
<1>2. CentsOf[T] = CentsOf[S] + CentsOf[T \ S]
  BY <1>1, SumAssumption
<1>3. CentsOf[S] \in Nat /\ CentsOf[T] \in Nat /\ CentsOf[T \ S] \in Nat
  BY <1>1, SumAssumption
<1> QED BY <1>2, <1>3

(* What costs the buyer is reserved, on its way, or paid out.              *)
LEMMA OutstandingSum ==
  ASSUME TransferInv, NEW p \in Payments
  PROVE  LET started == With(p, {"reserved", "transferring"})
             paid    == With(p, {"transferred", "reversing"})
         IN  /\ started \in SUBSET Qas /\ paid \in SUBSET Qas
             /\ Outstanding(p) \subseteq started \cup paid
             /\ CentsOf[started \cup paid] = CentsOf[started] + CentsOf[paid]
<1> DEFINE started == With(p, {"reserved", "transferring"})
           paid    == With(p, {"transferred", "reversing"})
<1>1. started \in SUBSET Qas /\ paid \in SUBSET Qas /\ started \cap paid = {}
  BY DEF With, Of
<1>2. Outstanding(p) \subseteq started \cup paid
  BY DEF Outstanding, With, Of, TransferInv, StatusMatchesStripe
<1>3. CentsOf[started \cup paid] = CentsOf[started] + CentsOf[paid]
  BY <1>1, SumAssumption
<1> QED BY <1>1, <1>2, <1>3

(* NoOverspend is kept: a reservation fits into what is available, the     *)
(* expiry refund is what is left, and otherwise no new cost arises.        *)
LEMMA OverspendStep ==
  ASSUME TransferInv, FreezeHolds, RefundHolds, NoOverspend, [Next]_vars
  PROVE  NoOverspend'
<1> SUFFICES ASSUME NEW p \in Payments
             PROVE  CentsOf[Outstanding(p)'] + refund'[p].cents <= Funded[p]
  BY DEF NoOverspend
<1> DEFINE started == With(p, {"reserved", "transferring"})
           paid    == With(p, {"transferred", "reversing"})
<1>0. /\ TypeOK /\ alloc \in [Qas -> AllocStatuses]
      /\ refund \in [Payments -> [status : RefundStatuses, cents : Nat, known : BOOLEAN]]
      /\ refund[p].cents \in Nat
      /\ Funded[p] \in Nat
      /\ CentsOf[Outstanding(p)] + refund[p].cents <= Funded[p]
  BY AmountsAssumption DEF TransferInv, TypeOK, NoOverspend
<1>1. /\ started \in SUBSET Qas /\ paid \in SUBSET Qas /\ started \cup paid \in SUBSET Qas
      /\ Outstanding(p) \subseteq started \cup paid
      /\ CentsOf[started \cup paid] = CentsOf[started] + CentsOf[paid]
      /\ CentsOf[started] \in Nat /\ CentsOf[paid] \in Nat
  BY OutstandingSum, SumAssumption
<1>2. Outstanding(p) \in SUBSET Qas /\ Outstanding(p)' \in SUBSET Qas
  BY DEF Outstanding, With, Of
<1> HIDE DEF started, paid
<1>3. CASE Outstanding(p)' \subseteq Outstanding(p) /\ refund'[p].cents = refund[p].cents
  <2>1. /\ CentsOf[Outstanding(p)] \in Nat /\ CentsOf[Outstanding(p)'] \in Nat
        /\ CentsOf[Outstanding(p)'] <= CentsOf[Outstanding(p)]
    BY <1>2, <1>3, SumGrows
  <2> QED BY <1>0, <1>3, <2>1
<1>4. ASSUME NEW q \in Qas, Reserve(q), PaymentOf[q] = p
      PROVE  CentsOf[Outstanding(p)'] + refund'[p].cents <= Funded[p]
  <2>1. /\ alloc[q] = "none" /\ alloc' = [alloc EXCEPT ![q] = "reserved"]
        /\ UNCHANGED <<made, returned, refund>>
        /\ Funded[p] - CentsOf[started] - CentsOf[paid] - refund[p].cents >= Cents[q]
    BY <1>4 DEF Reserve, Available, started, paid
  <2>2. Outstanding(p)' \subseteq (started \cup paid) \cup {q} /\ q \notin started \cup paid
    BY <1>0, <1>1, <2>1 DEF Outstanding, With, Of, started, paid
  <2>3. CentsOf[(started \cup paid) \cup {q}] = CentsOf[started] + CentsOf[paid] + Cents[q]
    <3>1. (started \cup paid) \cap {q} = {} /\ {q} \in SUBSET Qas
      BY <2>2
    <3>2. CentsOf[(started \cup paid) \cup {q}] = CentsOf[started \cup paid] + CentsOf[{q}]
      BY <1>1, <3>1, SumAssumption
    <3> QED BY <1>1, <3>2, SumAssumption
  <2>4. CentsOf[Outstanding(p)'] \in Nat /\ Cents[q] \in Nat
    BY <1>2, SumAssumption, AmountsAssumption
  <2>5. CentsOf[Outstanding(p)'] <= CentsOf[(started \cup paid) \cup {q}]
    <3>1. (started \cup paid) \cup {q} \in SUBSET Qas
      BY <1>1
    <3> QED BY <2>2, <3>1, SumGrows
  <2> QED BY <1>0, <1>1, <2>1, <2>3, <2>4, <2>5
<1>5. ASSUME NEW w \in Workers, CloseBrief(w, p), Refundable(p)
      PROVE  CentsOf[Outstanding(p)'] + refund'[p].cents <= Funded[p]
  <2>1. /\ refund[p].status = "none" /\ UNCHANGED <<made, returned>>
        /\ refund' = [refund EXCEPT ![p] =
                        [status |-> "pending", cents |-> Unspent(p), known |-> FALSE]]
        /\ alloc' = [q \in Qas |-> IF q \in With(p, {"reserved"}) THEN "cancelled" ELSE alloc[q]]
    BY <1>5 DEF CloseBrief, CancelReservations
  <2>2. refund[p].cents = 0
    BY <2>1 DEF RefundHolds
  <2>3. With(p, {"transferring"}) = {}
    BY <1>5 DEF Refundable, With
  <2>4. With(p, {"reserved"}) = started
    BY <2>3 DEF started, With
  <2>5. Unspent(p) = Funded[p] - CentsOf[paid]
    BY <1>0, <1>1, <2>2, <2>4 DEF Unspent, Available, started, paid
  <2>6. Outstanding(p)' \subseteq paid
    <3>1. \A q \in Of(p) : made[q] > 0 => alloc[q] # "reserved"
      BY DEF Of, TransferInv, StatusMatchesStripe
    <3>2. \A q \in Of(p) : alloc'[q] \notin {"reserved", "transferring"}
      BY <2>1, <2>3 DEF With, Of
    <3> QED BY <1>1, <2>1, <2>4, <3>1, <3>2 DEF Outstanding, With
  <2>7. CentsOf[Outstanding(p)'] \in Nat /\ CentsOf[Outstanding(p)'] <= CentsOf[paid]
    BY <1>1, <2>6, SumGrows
  <2>8. refund'[p].cents = Unspent(p)
    BY <1>0, <2>1
  <2> QED BY <1>0, <1>1, <2>5, <2>7, <2>8
<1>6. CASE \A q \in Qas : Reserve(q) => PaymentOf[q] # p
  <2>1. Outstanding(p)' \subseteq Outstanding(p)
    <3>1. \A q \in Of(p) : alloc'[q] \in {"reserved", "transferring"} =>
                             alloc[q] \in {"reserved", "transferring"}
      <4>1. ASSUME NEW r \in Qas, Reserve(r)
            PROVE  \A q \in Of(p) : alloc'[q] = alloc[q]
        BY <1>0, <1>6, <4>1 DEF Reserve, Of
      <4>2. ASSUME NEW r \in Qas, Claims(r)
            PROVE  \A q \in Of(p) : alloc'[q] = alloc[q] \/ alloc[q] = "reserved"
        BY <1>0, <4>2 DEF Claims, Of
      <4>3. ASSUME \A q \in Qas : Later(q)
            PROVE  \A q \in Of(p) : alloc'[q] \in {"reserved", "transferring"} => alloc'[q] = alloc[q]
        BY <4>3 DEF Later, Of
      <4> QED BY <4>1, <4>2, <4>3, AllocSteps
    <3>2. \A q \in Of(p) : /\ made'[q] > 0 => made[q] > 0 \/ alloc[q] = "transferring"
                           /\ returned[q] = "full" => returned'[q] = "full"
      BY MoneySteps DEF Of
    <3> QED BY <3>1, <3>2 DEF Outstanding, With, Of
  <2>2. ASSUME NEW w \in Workers, SaveRefund(w, p) PROVE refund'[p].cents = refund[p].cents
    BY <1>0, <2>2 DEF SaveRefund
  <2> QED BY <1>0, <1>3, <1>5, <2>1, <2>2, RefundSteps DEF RefundStep
<1> QED BY <1>4, <1>6

MoneyInv ==
  TransferInv /\ FreezeHolds /\ RefundHolds /\ RefundClosesFunding /\ OneRefund /\ NoOverspend

(* Before anything is reserved it holds.                                   *)
LEMMA InitMoney == Init => MoneyInv
<1> SUFFICES ASSUME Init PROVE MoneyInv
  OBVIOUS
<1>1. TransferInv /\ FreezeHolds
  BY InitSale DEF SaleInv
<1>2. RefundHolds /\ RefundClosesFunding /\ OneRefund
  BY DEF Init, NoRefund, Resting, RefundHolds, RefundClosesFunding, OneRefund
<1>3. NoOverspend
  <2>1. \A p \in Payments : Outstanding(p) = {} /\ refund[p].cents = 0
    BY DEF Init, NoRefund, Outstanding, With, Of
  <2>2. CentsOf[{}] = 0
    <3>1. {} \in SUBSET Qas /\ {} \cap {} = {} /\ {} \cup {} = {}
      OBVIOUS
    <3>2. CentsOf[{}] = CentsOf[{}] + CentsOf[{}] /\ CentsOf[{}] \in Nat
      BY <3>1, SumAssumption
    <3>3. \A n \in Nat : n = n + n => n = 0
      OBVIOUS
    <3> QED BY <3>2, <3>3
  <2>3. \A p \in Payments : Funded[p] \in Nat
    BY AmountsAssumption
  <2> QED BY <2>1, <2>2, <2>3 DEF NoOverspend
<1> QED BY <1>1, <1>2, <1>3 DEF MoneyInv

(* It is inductive.                                                        *)
LEMMA MoneyStep == MoneyInv /\ [Next]_vars => MoneyInv'
<1>1. TransferInv => TypeOK
  BY DEF TransferInv
<1> QED BY <1>1, TransferStep, FreezeStep, RefundHoldsStep, ClosesStep, OneRefundStep, OverspendStep
        DEF MoneyInv

(* It holds in every reachable state.                                      *)
LEMMA MoneyAlways == Spec => []MoneyInv
BY InitMoney, MoneyStep, PTL DEF Spec

(* Reservations, transfers that were not taken back and the expiry refund  *)
(* together never exceed what the buyer paid, for any amounts and limits.  *)
THEOREM NoOverspendAlways == Spec => []NoOverspend
<1>1. MoneyInv => NoOverspend
  BY DEF MoneyInv
<1> QED BY MoneyAlways, <1>1, PTL

(* A funding whose unused rest was asked back is closed for good.          *)
THEOREM RefundClosesFundingAlways == Spec => []RefundClosesFunding
<1>1. MoneyInv => RefundClosesFunding
  BY DEF MoneyInv
<1> QED BY MoneyAlways, <1>1, PTL

(* Stripe makes one refund of unused funds, whoever retries it when, and   *)
(* the row does not call it succeeded before Stripe does.                  *)
THEOREM OneRefundAlways == Spec => []OneRefund
<1>1. MoneyInv => OneRefund
  BY DEF MoneyInv
<1> QED BY MoneyAlways, <1>1, PTL

-----------------------------------------------------------------------------
(***************************************************************************)
(* One worker.  A pass that was overtaken by another worker's may write    *)
(* its older outcome over a newer one; the `running` flag of an instance   *)
(* keeps its own passes apart.  With a single instance what a pass holds   *)
(* is still so, the books tell what the rows tell, and what is over stays. *)
(***************************************************************************)
OneWorker == \A v, w \in Workers : v = w

(* What a pass read before it reverses or saves is as it was.              *)
PassesAlone ==
  \A w \in Workers, p \in Payments :
    /\ wk[w][p].pc \in {"reverse", "mark", "create", "settle"} =>
         wk[w][p].todo \subseteq With(p, {"transferred", "reversing"})
    /\ wk[w][p].pc \in {"mark", "create", "settle"} => wk[w][p].cur \subseteq wk[w][p].todo
    /\ wk[w][p].pc \in {"refundCall", "refundSave"} => refund[p].status = "pending"

(* Each status has its entries.                                            *)
Booked(q) ==
  /\ <<"reserve", q>> \in ledger <=> alloc[q] # "none"
  /\ <<"cancel", q>> \in ledger <=> alloc[q] = "cancelled"
  /\ <<"transfer", q>> \in ledger <=> Settled(q)
  /\ <<"reverse", q>> \in ledger <=> alloc[q] = "reversed"
Books ==
  /\ \A q \in Qas : Booked(q)
  /\ \A p \in Payments : <<"refund", p>> \in ledger <=> refund[p].status = "succeeded"

LedgerInv == MoneyInv /\ PassesAlone /\ Books

(* Only the end of a reversal makes an allocation 'reversed'.              *)
LEMMA Reversals ==
  ASSUME TypeOK, [Next]_vars, NEW q \in Qas, alloc'[q] = "reversed", alloc[q] # "reversed"
  PROVE  \E w \in Workers, p \in Payments : q \in Of(p) /\ SettleReversal(w, p, q)
<1> DEFINE Goal == \E w \in Workers, p \in Payments : q \in Of(p) /\ SettleReversal(w, p, q)
<1>0. alloc \in [Qas -> AllocStatuses]
  BY DEF TypeOK
<1>a. ASSUME UNCHANGED alloc PROVE FALSE
  BY <1>a
<1>1. ASSUME NEW r \in Qas, Reserve(r) \/ Cancel(r) PROVE FALSE
  BY <1>0, <1>1 DEF Reserve, Cancel
<1>2. ASSUME NEW r \in Qas, NEW c \in Clicks, Release(r, c) PROVE FALSE
  BY <1>0, <1>2 DEF Release, ReleaseCheck, ReleaseClaim, ReleaseTransfer, ReleaseSettle, ReleaseDies
<1>3. ASSUME NEW w \in Workers, NEW p \in Payments, Reconcile(w, p) PROVE Goal
  <2>1. ASSUME NEW r \in Of(p), SettleReversal(w, p, r) PROVE Goal
    <3>1. r = q
      BY <1>0, <2>1 DEF SettleReversal, Of
    <3> QED BY <2>1, <3>1
  <2>2. ASSUME \/ Freeze(w, p)
               \/ \E r \in Of(p) : Recover(w, p, r) \/ MarkReversing(w, p, r)
        PROVE  FALSE
    BY <1>0, <2>2 DEF Freeze, CancelReservations, Recover, MarkReversing, Of
  <2>3. ASSUME \/ ReadCharge(w, p) \/ ReadOwnRefund(w, p) \/ ListTransfers(w, p)
               \/ ReversalsDone(w, p)
               \/ \E r \in Of(p) : RetrieveTransfer(w, p, r) \/ CreateReversal(w, p, r)
        PROVE  FALSE
    BY <1>a, <2>3 DEF ReadCharge, ReadOwnRefund, ListTransfers, ReversalsDone, RetrieveTransfer,
                      CreateReversal
  <2> HIDE DEF Goal
  <2> QED BY <1>3, <2>1, <2>2, <2>3 DEF Reconcile
<1>4. ASSUME NEW w \in Workers, NEW p \in Payments, Expire(w, p) PROVE FALSE
  <2>1. CASE CloseBrief(w, p)
    <3>1. \E entries : CancelReservations(p, entries)
      BY <2>1 DEF CloseBrief
    <3> QED BY <1>0, <3>1 DEF CancelReservations
  <2>2. CASE ~ CloseBrief(w, p)
    BY <1>4, <1>a, <2>2 DEF Expire, CheckExpiry, FollowRefund, LeaveReversed, RetrieveRefund,
                            CreateRefund, RefundTooLate, SaveRefund
  <2> QED BY <2>1, <2>2
<1>5. ASSUME \/ \E w \in Workers, p \in Payments : StartPass(w, p) \/ PassDies(w, p)
             \/ \E p \in Payments : Pause(p) \/ GoLive(p)
             \/ Environment \/ UNCHANGED vars
      PROVE  FALSE
  BY <1>5, <1>a DEF StartPass, PassDies, Pause, GoLive, vars, Environment, ReachExpiry, AgeRefund,
       Dispute, RefundOutside, OwnRefundEnds, Webhook, AgeTransfer, QualityChanges, ReverseOutside
<1> HIDE DEF Goal
<1>6. Goal
  BY <1>1, <1>2, <1>3, <1>4, <1>5 DEF Next, Pass
<1> QED BY <1>6 DEF Goal

(* What PassesAlone says of one pass, of where it goes.                    *)
AloneAt(p, position) ==
  /\ position.pc \in {"reverse", "mark", "create", "settle"} =>
       position.todo \subseteq With(p, {"transferred", "reversing"})'
  /\ position.pc \in {"mark", "create", "settle"} => position.cur \subseteq position.todo
  /\ position.pc \in {"refundCall", "refundSave"} => refund'[p].status = "pending"

(* Every step of a pass takes it to where that is so.                      *)
LEMMA PassAlone ==
  ASSUME TypeOK, PassesAlone, NEW w \in Workers, NEW p \in Payments,
         Pass(w, p) \/ PassDies(w, p)
  PROVE  \E position : Move(w, p, position) /\ AloneAt(p, position)
<1> DEFINE here == wk[w][p]
           loop == {"reverse", "mark", "create", "settle"}
           paid == With(p, {"transferred", "reversing"})
           Goal == \E position : Move(w, p, position) /\ AloneAt(p, position)
<1>0. /\ here \in Positions
      /\ alloc \in [Qas -> AllocStatuses]
      /\ refund \in [Payments -> [status : RefundStatuses, cents : Nat, known : BOOLEAN]]
  BY DEF TypeOK
<1>1. /\ here.pc \in loop => here.todo \subseteq paid
      /\ here.pc \in {"mark", "create", "settle"} => here.cur \subseteq here.todo
      /\ here.pc \in {"refundCall", "refundSave"} => refund[p].status = "pending"
  BY DEF PassesAlone
<1>a. ASSUME NEW to, Move(w, p, to), to.pc \notin loop \cup {"refundCall", "refundSave"}
      PROVE  Goal
  BY <1>a DEF AloneAt
<1>b. ASSUME NEW to, Move(w, p, to), to.pc \in {"refundCall", "refundSave"},
             refund'[p].status = "pending"
      PROVE  Goal
  BY <1>b DEF AloneAt
<1>c. ASSUME NEW to, Move(w, p, to), to.pc \in loop, to.todo \subseteq With(p, {"transferred", "reversing"})',
             to.pc # "reverse" => to.cur \subseteq to.todo
      PROVE  Goal
  BY <1>c DEF AloneAt
<1>2. CASE EndPass(w, p)
  <2>1. Resting.pc = "idle"
    BY DEF Resting
  <2> QED BY <1>2, <1>a, <2>1 DEF EndPass
<1>3. ASSUME NEW pc, Goto(w, p, pc), pc \notin loop \cup {"refundCall", "refundSave"} PROVE Goal
  <2> DEFINE to == [here EXCEPT !.pc = pc]
  <2>1. to.pc = pc /\ Move(w, p, to)
    BY <1>0, <1>3 DEF Positions, Goto
  <2> HIDE DEF to
  <2> QED BY <1>3, <1>a, <2>1
<1>4. CASE StartPass(w, p)
  <2> DEFINE to == [here EXCEPT !.pc = "recover", !.todo = With(p, {"transferring"})]
  <2>1. Move(w, p, to) /\ to.pc = "recover"
    BY <1>0, <1>4 DEF StartPass, Positions
  <2> HIDE DEF to
  <2> QED BY <1>a, <2>1
<1>5. CASE Reconcile(w, p)
  <2>1. CASE ReadCharge(w, p)
    <3> DEFINE to == [here EXCEPT !.pc = IF ChargeIntact(p) THEN "check" ELSE "own",
                                 !.disputed = p \in disputed, !.refunded = AmountRefunded(p)]
    <3>1. Move(w, p, to) /\ to.pc \in {"check", "own"}
      BY <1>0, <2>1 DEF ReadCharge, Positions
    <3> HIDE DEF to
    <3> QED BY <1>a, <3>1
  <2>2. CASE ReadOwnRefund(w, p)
    <3>1. PICK pc \in {"check", "freeze"} :
            Move(w, p, [here EXCEPT !.pc = pc, !.disputed = FALSE, !.refunded = 0])
      BY <2>2 DEF ReadOwnRefund
    <3> DEFINE to == [here EXCEPT !.pc = pc, !.disputed = FALSE, !.refunded = 0]
    <3>2. Move(w, p, to) /\ to.pc \in {"check", "freeze"}
      BY <1>0, <3>1 DEF Positions
    <3> HIDE DEF to
    <3> QED BY <1>a, <3>2
  <2>3. CASE Freeze(w, p)
    BY <1>3, <2>3 DEF Freeze
  <2>4. CASE ListTransfers(w, p)
    <3> DEFINE to == [here EXCEPT !.pc = "reverse", !.todo = paid,
                                 !.fresh = With(p, {"transferred"})]
    <3>1. Move(w, p, to) /\ UNCHANGED alloc
      BY <2>4 DEF ListTransfers
    <3>2. to.pc = "reverse" /\ to.todo = paid
      BY <1>0 DEF Positions
    <3>3. With(p, {"transferred", "reversing"})' = paid
      BY <3>1 DEF With
    <3> HIDE DEF to
    <3> QED BY <1>c, <3>1, <3>2, <3>3
  <2>5. CASE ReversalsDone(w, p)
    <3> DEFINE to == [here EXCEPT !.pc = "check", !.fresh = {}]
    <3>1. Move(w, p, to) /\ to.pc = "check"
      BY <1>0, <2>5 DEF ReversalsDone, Positions
    <3> HIDE DEF to
    <3> QED BY <1>a, <3>1
  <2>6. ASSUME NEW q \in Of(p), Recover(w, p, q) PROVE Goal
    <3> DEFINE to == [here EXCEPT !.todo = @ \ {q}]
    <3>1. Move(w, p, to) /\ to.pc = "recover"
      BY <1>0, <2>6 DEF Recover, Positions
    <3> HIDE DEF to
    <3> QED BY <1>a, <3>1
  <2>7. ASSUME NEW q \in Of(p), RetrieveTransfer(w, p, q) PROVE Goal
    <3>1. ASSUME NEW pc \in {"settle", "mark", "create"},
                 Move(w, p, [here EXCEPT !.pc = pc, !.cur = {q}])
          PROVE  Goal
      <4> DEFINE to == [here EXCEPT !.pc = pc, !.cur = {q}]
      <4>1. Move(w, p, to) /\ to.pc = pc /\ to.cur = {q} /\ to.todo = here.todo
        BY <1>0, <3>1 DEF Positions
      <4>2. here.pc = "reverse" /\ q \in here.todo /\ UNCHANGED alloc
        BY <2>7 DEF RetrieveTransfer
      <4>3. to.todo \subseteq With(p, {"transferred", "reversing"})'
        BY <1>1, <4>1, <4>2 DEF With
      <4> HIDE DEF to
      <4> QED BY <1>c, <4>1, <4>2, <4>3
    <3> QED BY <1>2, <2>7, <3>1 DEF RetrieveTransfer
  <2>8. ASSUME NEW q \in Of(p), MarkReversing(w, p, q) PROVE Goal
    <3> DEFINE to == [here EXCEPT !.pc = "create"]
    <3>1. Move(w, p, to) /\ to.pc = "create" /\ to.cur = here.cur /\ to.todo = here.todo
      BY <1>0, <2>8 DEF MarkReversing, Goto, Positions
    <3>2. here.pc = "mark" /\ alloc' = [alloc EXCEPT ![q] = "reversing"]
      BY <2>8 DEF MarkReversing
    <3>3. paid \subseteq With(p, {"transferred", "reversing"})'
      BY <1>0, <3>2 DEF With, Of
    <3> HIDE DEF to, paid
    <3> QED BY <1>1, <1>c, <3>1, <3>2, <3>3
  <2>9. ASSUME NEW q \in Of(p), CreateReversal(w, p, q) PROVE Goal
    <3>1. CASE returned[q] # "partial"
      <4> DEFINE to == [here EXCEPT !.pc = "settle"]
      <4>1. Move(w, p, to) /\ to.pc = "settle" /\ to.cur = here.cur /\ to.todo = here.todo
        BY <1>0, <2>9, <3>1 DEF CreateReversal, Goto, Positions
      <4>2. here.pc = "create" /\ With(p, {"transferred", "reversing"})' = paid
        BY <2>9 DEF CreateReversal, With
      <4> HIDE DEF to, paid
      <4> QED BY <1>1, <1>c, <4>1, <4>2
    <3>2. CASE returned[q] = "partial"
      BY <1>2, <2>9, <3>2 DEF CreateReversal
    <3> QED BY <3>1, <3>2
  <2>10. ASSUME NEW q \in Of(p), SettleReversal(w, p, q) PROVE Goal
    <3> DEFINE to == [here EXCEPT !.pc = "reverse", !.cur = {}, !.todo = @ \ {q}]
    <3>1. Move(w, p, to) /\ to.pc = "reverse" /\ to.todo = here.todo \ {q}
      BY <1>0, <2>10 DEF SettleReversal, Positions
    <3>2. here.pc = "settle" /\ alloc' = [alloc EXCEPT ![q] = "reversed"]
      BY <2>10 DEF SettleReversal
    <3>3. paid \ {q} \subseteq With(p, {"transferred", "reversing"})'
      BY <1>0, <3>2 DEF With, Of
    <3> HIDE DEF to, paid
    <3> QED BY <1>1, <1>c, <3>1, <3>2, <3>3
  <2> QED
    BY <1>5, <2>1, <2>2, <2>3, <2>4, <2>5, <2>6, <2>7, <2>8, <2>9, <2>10 DEF Reconcile
<1>6. CASE Expire(w, p)
  <2>1. CASE CheckExpiry(w, p)
    BY <1>2, <1>3, <2>1 DEF CheckExpiry
  <2>2. CASE FollowRefund(w, p)
    <3> DEFINE to == [here EXCEPT !.pc = "refundCall", !.known = refund[p].known]
    <3>1. to.pc = "refundCall"
      BY <1>0 DEF Positions
    <3>2. CASE refund[p].status = "pending"
      <4>1. Move(w, p, to) /\ refund'[p].status = "pending"
        BY <2>2, <3>2 DEF FollowRefund
      <4> HIDE DEF to
      <4> QED BY <1>b, <3>1, <4>1
    <3>3. CASE refund[p].status # "pending"
      BY <1>2, <2>2, <3>3 DEF FollowRefund
    <3> QED BY <3>2, <3>3
  <2>3. CASE CloseBrief(w, p)
    <3>1. CASE Refundable(p)
      <4> DEFINE to == [here EXCEPT !.pc = "refundCall"]
      <4>1. Move(w, p, to) /\ to.pc = "refundCall"
        BY <1>0, <2>3, <3>1 DEF CloseBrief, Goto, Positions
      <4>2. refund'[p].status = "pending"
        BY <1>0, <2>3, <3>1 DEF CloseBrief
      <4> HIDE DEF to
      <4> QED BY <1>b, <4>1, <4>2
    <3>2. CASE ~ Refundable(p)
      BY <1>2, <2>3, <3>2 DEF CloseBrief
    <3> QED BY <3>1, <3>2
  <2>4. CASE RetrieveRefund(w, p) \/ CreateRefund(w, p)
    <3>1. PICK reply : Move(w, p, [here EXCEPT !.pc = "refundSave", !.reply = reply])
      BY <2>4 DEF RetrieveRefund, CreateRefund
    <3> DEFINE to == [here EXCEPT !.pc = "refundSave", !.reply = reply]
    <3>2. Move(w, p, to) /\ to.pc = "refundSave"
      BY <1>0, <3>1 DEF Positions
    <3>3. here.pc = "refundCall" /\ UNCHANGED refund
      BY <2>4 DEF RetrieveRefund, CreateRefund
    <3> HIDE DEF to
    <3> QED BY <1>1, <1>b, <3>2, <3>3
  <2>5. CASE LeaveReversed(w, p) \/ RefundTooLate(w, p) \/ SaveRefund(w, p)
    BY <1>2, <2>5 DEF LeaveReversed, RefundTooLate, SaveRefund
  <2> QED BY <1>6, <2>1, <2>2, <2>3, <2>4, <2>5 DEF Expire
<1>7. CASE PassDies(w, p)
  BY <1>2, <1>7 DEF PassDies
<1> QED BY <1>4, <1>5, <1>6, <1>7 DEF Pass

(* PassesAlone is kept: what would change under a pass is done by a pass   *)
(* over the same payment, and there is no other.                           *)
LEMMA AloneStep ==
  ASSUME OneWorker, TransferInv, FreezeHolds, PassesAlone, [Next]_vars
  PROVE  PassesAlone'
<1> SUFFICES ASSUME NEW x \in Workers, NEW y \in Payments
             PROVE  AloneAt(y, wk'[x][y])
  BY DEF PassesAlone, AloneAt
<1>0. /\ TypeOK /\ wk \in [Workers -> [Payments -> Positions]]
      /\ alloc \in [Qas -> AllocStatuses]
      /\ refund \in [Payments -> [status : RefundStatuses, cents : Nat, known : BOOLEAN]]
  BY DEF TransferInv, TypeOK
<1>1. CASE wk'[x][y] = wk[x][y]
  <2>1. ASSUME NEW q \in With(y, {"transferred", "reversing"})
        PROVE  q \in With(y, {"transferred", "reversing"})'
    <3>1. q \in Qas /\ PaymentOf[q] = y /\ alloc[q] \in {"transferred", "reversing"}
      BY DEF With, Of
    <3>2. alloc'[q] # "reversed"
      <4> SUFFICES ASSUME alloc'[q] = "reversed" PROVE FALSE
        OBVIOUS
      <4>1. PICK w \in Workers, p \in Payments : q \in Of(p) /\ SettleReversal(w, p, q)
        BY <1>0, <3>1, Reversals
      <4>2. w = x /\ p = y
        BY <3>1, <4>1 DEF OneWorker, Of
      <4> DEFINE to == [wk[x][y] EXCEPT !.pc = "reverse", !.cur = {}, !.todo = @ \ {q}]
      <4>3. Move(x, y, to) /\ wk[x][y].pc = "settle"
        BY <4>1, <4>2 DEF SettleReversal
      <4>4. to.pc = "reverse"
        BY <1>0 DEF Positions
      <4> HIDE DEF to
      <4> QED BY <1>0, <1>1, <4>3, <4>4, MoveElsewhere
    <3>3. alloc'[q] \in {"transferred", "reversing", "reversed"}
      <4>1. ASSUME NEW r \in Qas, Reserve(r) \/ Claims(r) PROVE alloc'[q] = alloc[q]
        BY <1>0, <3>1, <4>1 DEF Reserve, Claims
      <4>2. ASSUME Later(q) PROVE alloc'[q] \in {"transferred", "reversing", "reversed"}
        BY <3>1, <4>2 DEF Later
      <4> QED BY <3>1, <4>1, <4>2, AllocSteps
    <3> QED BY <3>1, <3>2, <3>3 DEF With, Of
  <2>2. ASSUME wk[x][y].pc \in {"refundCall", "refundSave"}, refund[y].status = "pending"
        PROVE  refund'[y].status = "pending"
    <3>1. ASSUME NEW w \in Workers, SaveRefund(w, y) PROVE FALSE
      <4>1. w = x /\ wk[w][y].pc = "refundSave" /\ Move(w, y, Resting)
        BY <3>1 DEF SaveRefund, EndPass, OneWorker
      <4>2. Resting.pc = "idle"
        BY DEF Resting
      <4> QED BY <1>0, <1>1, <4>1, <4>2, MoveElsewhere
    <3>2. ASSUME NEW w \in Workers, CloseBrief(w, y) PROVE FALSE
      BY <2>2, <3>2 DEF CloseBrief
    <3> QED BY <1>0, <2>2, <3>1, <3>2, RefundSteps DEF RefundStep
  <2> QED BY <1>1, <2>1, <2>2 DEF PassesAlone, AloneAt
<1>2. CASE wk'[x][y] # wk[x][y]
  <2>1. PICK w \in Workers, p \in Payments : Pass(w, p) \/ PassDies(w, p)
    BY <1>2, PassesMove
  <2>2. PICK position : Move(w, p, position) /\ AloneAt(p, position)
    BY <1>0, <2>1, PassAlone
  <2>3. x = w /\ y = p /\ wk'[x][y] = position
    BY <1>0, <1>2, <2>2, MoveElsewhere
  <2> QED BY <2>2, <2>3
<1> QED BY <1>1, <1>2

(* An allocation is booked as its status says after every step.            *)
LEMMA BookedStep ==
  ASSUME TransferInv, PassesAlone, Books, [Next]_vars, NEW q \in Qas
  PROVE  Booked(q)'
<1> DEFINE Kinds == {"reserve", "cancel", "transfer", "reverse"}
           Goal == Booked(q)'
<1>0. /\ TypeOK /\ alloc \in [Qas -> AllocStatuses]
      /\ Booked(q)
  BY DEF TransferInv, TypeOK, Books
<1>a. ASSUME alloc'[q] = alloc[q], NEW entries, ledger' = ledger \cup entries,
             \A kind \in Kinds : <<kind, q>> \notin entries
      PROVE  Goal
  BY <1>0, <1>a DEF Booked, Settled
<1>b. ASSUME UNCHANGED <<alloc, ledger>> PROVE Goal
  BY <1>0, <1>b DEF Booked, Settled
<1>c. ASSUME NEW to, NEW r \in Qas, alloc' = [alloc EXCEPT ![r] = to], r # q,
             NEW kinds, ledger' = ledger \cup {<<kind, r>> : kind \in kinds}
      PROVE  Goal
  BY <1>0, <1>c DEF Booked, Settled
<1>d. ASSUME NEW p \in Payments, NEW entries, CancelReservations(p, entries),
             \A kind \in Kinds : <<kind, q>> \notin entries
      PROVE  Goal
  <2> DEFINE cancelled == {<<"cancel", r>> : r \in With(p, {"reserved"})}
  <2>1. /\ ledger' = ledger \cup (cancelled \cup entries)
        /\ alloc'[q] = IF q \in With(p, {"reserved"}) THEN "cancelled" ELSE alloc[q]
    BY <1>d DEF CancelReservations, Log
  <2>2. /\ <<"cancel", q>> \in cancelled <=> q \in With(p, {"reserved"})
        /\ <<"reserve", q>> \notin cancelled /\ <<"transfer", q>> \notin cancelled
        /\ <<"reverse", q>> \notin cancelled
    OBVIOUS
  <2>3. q \in With(p, {"reserved"}) => alloc[q] = "reserved"
    BY DEF With
  <2> HIDE DEF cancelled
  <2> QED BY <1>0, <1>d, <2>1, <2>2, <2>3 DEF Booked, Settled
<1>1. ASSUME NEW r \in Qas, Reserve(r) PROVE Goal
  <2>1. /\ alloc[r] = "none" /\ alloc' = [alloc EXCEPT ![r] = "reserved"]
        /\ ledger' = ledger \cup {<<"funding", PaymentOf[r]>>, <<"reserve", r>>}
    BY <1>1 DEF Reserve, Log
  <2>2. r # q => <<"reserve", q>> \notin {<<"funding", PaymentOf[r]>>, <<"reserve", r>>}
    OBVIOUS
  <2> QED BY <1>0, <2>1, <2>2 DEF Booked, Settled
<1>2. ASSUME NEW r \in Qas, Cancel(r) PROVE Goal
  BY <1>0, <1>2 DEF Cancel, Log, Booked, Settled
<1>3. ASSUME NEW r \in Qas, NEW c \in Clicks, Release(r, c) PROVE Goal
  <2>1. CASE ReleaseClaim(r, c)
    BY <1>0, <2>1 DEF ReleaseClaim, Booked, Settled
  <2>2. CASE ReleaseSettle(r, c)
    <3>1. CASE alloc[r] = "transferring"
      BY <1>0, <2>2, <3>1 DEF ReleaseSettle, Log, Booked, Settled
    <3>2. CASE alloc[r] # "transferring"
      BY <1>b, <2>2, <3>2 DEF ReleaseSettle
    <3> QED BY <3>1, <3>2
  <2>3. CASE ReleaseCheck(r, c) \/ ReleaseTransfer(r, c) \/ ReleaseDies(r, c)
    BY <1>b, <2>3 DEF ReleaseCheck, ReleaseTransfer, ReleaseDies
  <2> HIDE DEF Goal
  <2> QED BY <1>3, <2>1, <2>2, <2>3 DEF Release
<1>4. ASSUME NEW w \in Workers, NEW p \in Payments, Reconcile(w, p) PROVE Goal
  <2>1. CASE Freeze(w, p)
    <3>1. CancelReservations(p, {<<"review", p>>})
      BY <2>1 DEF Freeze
    <3> QED BY <1>d, <3>1
  <2>2. ASSUME NEW r \in Of(p), Recover(w, p, r) PROVE Goal
    <3>1. CASE made[r] > 0
      <4>1. alloc[r] = "transferring" \/ Settled(r)
        BY <3>1 DEF TransferInv, StatusMatchesStripe, Settled, Of
      <4>2. /\ alloc' = IF alloc[r] = "transferring" THEN [alloc EXCEPT ![r] = "transferred"] ELSE alloc
            /\ ledger' = ledger \cup {<<"transfer", r>>}
        BY <2>2, <3>1 DEF Recover, Log
      <4> QED BY <1>0, <4>1, <4>2 DEF Booked, Settled, Of
    <3>2. CASE ~ (made[r] > 0)
      BY <1>b, <2>2, <3>2 DEF Recover
    <3> QED BY <3>1, <3>2
  <2>3. ASSUME NEW r \in Of(p), MarkReversing(w, p, r) PROVE Goal
    <3>1. /\ alloc[r] \in {"transferred", "reversing"} /\ r \in Qas
          /\ alloc' = [alloc EXCEPT ![r] = "reversing"] /\ UNCHANGED ledger
      BY <2>3 DEF MarkReversing, PassesAlone, With, Of
    <3> QED BY <1>0, <3>1 DEF Booked, Settled
  <2>4. ASSUME NEW r \in Of(p), SettleReversal(w, p, r) PROVE Goal
    <3>1. /\ alloc[r] \in {"transferred", "reversing"} /\ r \in Qas
          /\ alloc' = [alloc EXCEPT ![r] = "reversed"]
          /\ ledger' = ledger \cup {<<"reverse", r>>}
      BY <2>4 DEF SettleReversal, PassesAlone, With, Of, Log
    <3> QED BY <1>0, <3>1 DEF Booked, Settled
  <2>5. ASSUME \/ ReadCharge(w, p) \/ ReadOwnRefund(w, p) \/ ListTransfers(w, p)
               \/ ReversalsDone(w, p)
               \/ \E r \in Of(p) : RetrieveTransfer(w, p, r) \/ CreateReversal(w, p, r)
        PROVE  Goal
    BY <1>b, <2>5 DEF ReadCharge, ReadOwnRefund, ListTransfers, ReversalsDone, RetrieveTransfer,
                      CreateReversal
  <2> HIDE DEF Goal
  <2> QED BY <1>4, <2>1, <2>2, <2>3, <2>4, <2>5 DEF Reconcile
<1>5. ASSUME NEW w \in Workers, NEW p \in Payments, Expire(w, p) PROVE Goal
  <2>1. CASE CloseBrief(w, p)
    <3>1. \/ CancelReservations(p, {<<"funding", p>>, <<"refund-request", p>>})
          \/ CancelReservations(p, {})
      BY <2>1 DEF CloseBrief
    <3> QED BY <1>d, <3>1
  <2>2. CASE SaveRefund(w, p)
    <3>1. /\ UNCHANGED alloc
          /\ \/ ledger' = ledger \cup {<<"refund", p>>}
             \/ ledger' = ledger \cup {}
      BY <2>2 DEF SaveRefund, Log
    <3> QED BY <1>a, <3>1
  <2>3. CASE ~ CloseBrief(w, p) /\ ~ SaveRefund(w, p)
    BY <1>5, <1>b, <2>3 DEF Expire, CheckExpiry, FollowRefund, LeaveReversed, RetrieveRefund,
                            CreateRefund, RefundTooLate
  <2> QED BY <2>1, <2>2, <2>3
<1>6. ASSUME NEW p \in Payments, NEW outcome, Webhook(p, outcome) PROVE Goal
  <2>1. UNCHANGED alloc /\ ledger' = ledger \cup {<<"review", p>>}
    BY <1>6 DEF Webhook, Log
  <2> QED BY <1>a, <2>1
<1>7. ASSUME \/ \E w \in Workers, p \in Payments : StartPass(w, p) \/ PassDies(w, p)
             \/ \E p \in Payments : \/ Pause(p) \/ GoLive(p) \/ ReachExpiry(p) \/ AgeRefund(p)
                                    \/ Dispute(p) \/ RefundOutside(p) \/ OwnRefundEnds(p)
             \/ \E r \in Qas : AgeTransfer(r) \/ QualityChanges(r) \/ ReverseOutside(r)
             \/ UNCHANGED vars
      PROVE  Goal
  BY <1>7, <1>b DEF StartPass, PassDies, Pause, GoLive, vars, ReachExpiry, AgeRefund,
       Dispute, RefundOutside, OwnRefundEnds, AgeTransfer, QualityChanges, ReverseOutside
<1> HIDE DEF Goal
<1>8. Goal
  BY <1>1, <1>2, <1>3, <1>4, <1>5, <1>6, <1>7 DEF Next, Pass, Environment
<1> QED BY <1>8 DEF Goal

(* A refund's success is logged by the pass that saves it, and else not.   *)
LEMMA RefundLogged ==
  ASSUME [Next]_vars, NEW p \in Payments
  PROVE  \/ <<"refund", p>> \in ledger' <=> <<"refund", p>> \in ledger
         \/ \E w \in Workers : SaveRefund(w, p)
<1> DEFINE Goal == \/ <<"refund", p>> \in ledger' <=> <<"refund", p>> \in ledger
                   \/ \E w \in Workers : SaveRefund(w, p)
<1>a. ASSUME NEW entries, ledger' = ledger \cup entries, <<"refund", p>> \notin entries PROVE Goal
  BY <1>a
<1>b. ASSUME UNCHANGED ledger PROVE Goal
  BY <1>b
<1>c. ASSUME NEW y \in Payments, NEW entries, CancelReservations(y, entries),
             <<"refund", p>> \notin entries
      PROVE  Goal
  <2>1. <<"refund", p>> \notin {<<"cancel", q>> : q \in With(y, {"reserved"})}
    OBVIOUS
  <2> QED BY <1>c, <2>1 DEF CancelReservations, Log
<1>1. ASSUME NEW q \in Qas, Reserve(q) \/ Cancel(q) PROVE Goal
  BY <1>1 DEF Reserve, Cancel, Log
<1>2. ASSUME NEW q \in Qas, NEW c \in Clicks, Release(q, c) PROVE Goal
  BY <1>2 DEF Release, ReleaseCheck, ReleaseClaim, ReleaseTransfer, ReleaseSettle, ReleaseDies, Log
<1>3. ASSUME NEW w \in Workers, NEW y \in Payments, Reconcile(w, y) PROVE Goal
  <2>1. CASE Freeze(w, y)
    <3>1. CancelReservations(y, {<<"review", y>>})
      BY <2>1 DEF Freeze
    <3> QED BY <1>c, <3>1
  <2>2. ASSUME NEW q \in Of(y), Recover(w, y, q) \/ SettleReversal(w, y, q) PROVE Goal
    BY <2>2 DEF Recover, SettleReversal, Log
  <2>3. ASSUME ~ Freeze(w, y), \A q \in Of(y) : ~ Recover(w, y, q) /\ ~ SettleReversal(w, y, q)
        PROVE  Goal
    BY <1>3, <1>b, <2>3 DEF Reconcile, ReadCharge, ReadOwnRefund, ListTransfers, ReversalsDone,
                            RetrieveTransfer, MarkReversing, CreateReversal
  <2> HIDE DEF Goal
  <2> QED BY <2>1, <2>2, <2>3
<1>4. ASSUME NEW w \in Workers, NEW y \in Payments, Expire(w, y) PROVE Goal
  <2>1. CASE CloseBrief(w, y)
    <3>1. \/ CancelReservations(y, {<<"funding", y>>, <<"refund-request", y>>})
          \/ CancelReservations(y, {})
      BY <2>1 DEF CloseBrief
    <3> QED BY <1>c, <3>1
  <2>2. CASE SaveRefund(w, y)
    <3>1. \/ ledger' = ledger \cup {<<"refund", y>>}
          \/ ledger' = ledger \cup {}
      BY <2>2 DEF SaveRefund, Log
    <3> QED BY <1>a, <2>2, <3>1
  <2>3. CASE ~ CloseBrief(w, y) /\ ~ SaveRefund(w, y)
    BY <1>4, <1>b, <2>3 DEF Expire, CheckExpiry, FollowRefund, LeaveReversed, RetrieveRefund,
                            CreateRefund, RefundTooLate
  <2> QED BY <2>1, <2>2, <2>3
<1>5. ASSUME NEW y \in Payments, NEW outcome, Webhook(y, outcome) PROVE Goal
  BY <1>5 DEF Webhook, Log
<1>6. ASSUME \/ \E w \in Workers, y \in Payments : StartPass(w, y) \/ PassDies(w, y)
             \/ \E y \in Payments : \/ Pause(y) \/ GoLive(y) \/ ReachExpiry(y) \/ AgeRefund(y)
                                    \/ Dispute(y) \/ RefundOutside(y) \/ OwnRefundEnds(y)
             \/ \E q \in Qas : AgeTransfer(q) \/ QualityChanges(q) \/ ReverseOutside(q)
             \/ UNCHANGED vars
      PROVE  Goal
  BY <1>6, <1>b DEF StartPass, PassDies, Pause, GoLive, vars, ReachExpiry, AgeRefund,
       Dispute, RefundOutside, OwnRefundEnds, AgeTransfer, QualityChanges, ReverseOutside
<1> HIDE DEF Goal
<1>7. Goal
  BY <1>1, <1>2, <1>3, <1>4, <1>5, <1>6 DEF Next, Pass, Environment
<1> QED BY <1>7 DEF Goal

(* The ledger only grows.                                                  *)
LEMMA LedgerGrows == ASSUME [Next]_vars PROVE ledger \subseteq ledger'
<1>1. ASSUME NEW q \in Qas, Reserve(q) \/ Cancel(q) \/ \E c \in Clicks : Release(q, c)
      PROVE  ledger \subseteq ledger'
  BY <1>1 DEF Reserve, Cancel, Release, ReleaseCheck, ReleaseClaim, ReleaseTransfer, ReleaseSettle,
              ReleaseDies, Log
<1>2. ASSUME NEW w \in Workers, NEW p \in Payments, Reconcile(w, p) PROVE ledger \subseteq ledger'
  BY <1>2 DEF Reconcile, ReadCharge, ReadOwnRefund, Freeze, CancelReservations, ListTransfers,
              ReversalsDone, Recover, RetrieveTransfer, MarkReversing, CreateReversal,
              SettleReversal, Log
<1>3. ASSUME NEW w \in Workers, NEW p \in Payments, Expire(w, p) PROVE ledger \subseteq ledger'
  BY <1>3 DEF Expire, CheckExpiry, FollowRefund, CloseBrief, CancelReservations, LeaveReversed,
              RetrieveRefund, CreateRefund, RefundTooLate, SaveRefund, Log
<1>4. ASSUME Environment PROVE ledger \subseteq ledger'
  BY <1>4 DEF Environment, ReachExpiry, AgeRefund, Dispute, RefundOutside, OwnRefundEnds, Webhook,
              AgeTransfer, QualityChanges, ReverseOutside, Log
<1> QED BY <1>1, <1>2, <1>3, <1>4 DEF Next, Pass, PassDies, StartPass, Pause, GoLive, vars

(* Books is kept.                                                          *)
LEMMA BooksStep ==
  ASSUME TransferInv, RefundHolds, PassesAlone, Books, [Next]_vars
  PROVE  Books'
<1> SUFFICES ASSUME NEW p \in Payments
             PROVE  <<"refund", p>> \in ledger' <=> refund'[p].status = "succeeded"
  BY BookedStep DEF Books
<1>0. /\ TypeOK
      /\ refund \in [Payments -> [status : RefundStatuses, cents : Nat, known : BOOLEAN]]
      /\ <<"refund", p>> \in ledger <=> refund[p].status = "succeeded"
  BY DEF TransferInv, TypeOK, Books
<1>1. ASSUME NEW w \in Workers, SaveRefund(w, p)
      PROVE  <<"refund", p>> \in ledger' <=> refund'[p].status = "succeeded"
  <2>1. refund[p].status = "pending"
    BY <1>1 DEF SaveRefund, PassesAlone
  <2>2. /\ refund'[p].status = RowStatus(wk[w][p].reply)
        /\ ledger' = ledger \cup IF RowStatus(wk[w][p].reply) = "succeeded" THEN {<<"refund", p>>} ELSE {}
    BY <1>0, <1>1 DEF SaveRefund, Log
  <2> QED BY <1>0, <2>1, <2>2
<1>2. ASSUME \A w \in Workers : ~ SaveRefund(w, p)
      PROVE  refund'[p].status = "succeeded" <=> refund[p].status = "succeeded"
  <2>1. ASSUME NEW w \in Workers, CloseBrief(w, p), Refundable(p)
        PROVE  refund[p].status = "none" /\ refund'[p].status = "pending"
    BY <1>0, <2>1 DEF CloseBrief
  <2> QED BY <1>0, <1>2, <2>1, RefundSteps DEF RefundStep
<1> QED BY <1>0, <1>1, <1>2, RefundLogged

(* Before anything is reserved it holds, with any number of workers.       *)
LEMMA InitLedger == Init => LedgerInv
<1> SUFFICES ASSUME Init PROVE LedgerInv
  OBVIOUS
<1>1. PassesAlone
  BY DEF Init, Resting, PassesAlone
<1>2. Books
  BY DEF Init, NoRefund, Books, Booked, Settled
<1> QED BY <1>1, <1>2, InitMoney DEF LedgerInv

(* With one worker it is inductive.                                        *)
LEMMA LedgerStep == ASSUME OneWorker PROVE LedgerInv /\ [Next]_vars => LedgerInv'
<1> SUFFICES ASSUME LedgerInv, [Next]_vars PROVE LedgerInv'
  OBVIOUS
<1>1. MoneyInv'
  BY MoneyStep DEF LedgerInv
<1>2. PassesAlone' /\ Books'
  BY AloneStep, BooksStep DEF LedgerInv, MoneyInv
<1> QED BY <1>1, <1>2 DEF LedgerInv

(* With one worker the ledger tells the balance the rows tell: what it     *)
(* says was transferred and not reversed is paid out, what it says is      *)
(* reserved is, and a refund it reports succeeded.                         *)
THEOREM LedgerBalancesAlways == ASSUME OneWorker PROVE Spec => []LedgerBalances
<1>1. LedgerInv => LedgerBalances
  <2> SUFFICES ASSUME LedgerInv PROVE LedgerBalances
    OBVIOUS
  <2>1. /\ alloc \in [Qas -> AllocStatuses]
        /\ \A q \in Qas : Booked(q)
        /\ \A p \in Payments : <<"refund", p>> \in ledger <=> refund[p].status = "succeeded"
    BY DEF LedgerInv, MoneyInv, TransferInv, TypeOK, Books
  <2> QED BY <2>1 DEF LedgerBalances, Logged, Booked, Settled, AllocStatuses
<1>2. LedgerInv /\ [Next]_vars => LedgerInv'
  BY LedgerStep
<1> QED BY InitLedger, <1>1, <1>2, PTL DEF Spec

(* With one worker what is over stays over: a cancelled or reversed        *)
(* allocation, a sale, the amount and the success of a refund.             *)
THEOREM FinalStaysAlways == ASSUME OneWorker PROVE Spec => FinalStays
<1> DEFINE Final == /\ \A q \in Qas : alloc[q] \in {"cancelled", "reversed"} => alloc'[q] = alloc[q]
                    /\ sold \subseteq sold'
                    /\ \A p \in Payments :
                         /\ refund[p].status # "none" => refund'[p].cents = refund[p].cents
                         /\ refund[p].status = "succeeded" => refund'[p].status = "succeeded"
<1>1. LedgerInv /\ [Next]_vars => [Final]_vars
  <2> SUFFICES ASSUME LedgerInv, [Next]_vars PROVE Final
    OBVIOUS
  <2>0. /\ TransferInv /\ FreezeHolds /\ RefundHolds /\ PassesAlone /\ Books /\ TypeOK
        /\ alloc \in [Qas -> AllocStatuses]
    BY DEF LedgerInv, MoneyInv, TransferInv, TypeOK
  <2>1. /\ \A p \in Payments : refund[p].status # "none" => refund'[p].cents = refund[p].cents
        /\ sold \subseteq sold'
    BY <2>0, RefundStays, AllocSteps DEF Reserve, Claims
  <2>2. PassesAlone' /\ Books'
    BY <2>0, AloneStep, BooksStep
  <2>3. ledger \subseteq ledger'
    BY LedgerGrows
  <2>4. ASSUME NEW p \in Payments, refund[p].status = "succeeded"
        PROVE  refund'[p].status = "succeeded"
    BY <2>0, <2>2, <2>3, <2>4 DEF Books
  <2>5. ASSUME NEW q \in Qas, alloc[q] \in {"cancelled", "reversed"} PROVE alloc'[q] = alloc[q]
    BY <2>0, <2>2, <2>3, <2>5 DEF Books, Booked
  <2> QED BY <2>1, <2>4, <2>5
<1>2. LedgerInv /\ [Next]_vars => LedgerInv'
  BY LedgerStep
<1>3. Spec => [][Final]_vars
  BY InitLedger, <1>1, <1>2, PTL DEF Spec
<1> QED BY <1>3 DEF FinalStays
====
