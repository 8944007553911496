------------------------- MODULE ContributionProofs -------------------------
(***************************************************************************)
(* Theorems about Contribution for any conversations, briefs, uploads and  *)
(* reports: what is sold is consented to, is the bundle that was reserved  *)
(* at the value QA gave it, and is final; the attestations of a bundle are *)
(* linked; contributors are told what is so; and every match is evaluated. *)
(*                                                                         *)
(* The inductive invariants are ContributionInv and, built on it,          *)
(* LineageInv, TellingInv and EvaluationInv.                               *)
(***************************************************************************)
EXTENDS Contribution, FiniteSetTheorems, TLAPS

(* What the position of a call says of the rows: the receipts and the      *)
(* references given out are parameters, and so is the length of the chain. *)
(* An upload under way has its receipt and has not given out its reference.*)
Reached(c, to, receipts_, handed_, length) ==
  /\ to \in Positions
  /\ to.pc = "append" => to.left > 0 /\ to.tail <= length
  /\ c \in Kept /\ to.pc \in {"tail", "append"} => c \in receipts_
  /\ to.pc = "package" => c \in receipts_
  /\ to.pc \in {"consent", "verdict"} /\ to.eligible # {} => to.seen \in Uploads
  /\ c \in handed_ => to.pc = "done"

CallsHold == \A c \in Callers : Reached(c, at[c], receipts, handed, Len(chain))

(* A bundle is a version of its own conversation.                          *)
OwnRecord ==
  \A k \in Conversations :
    record[k].status # "none" =>
      record[k].upload \in Uploads /\ ConversationOf[record[k].upload] = k

(* A pass carries the value of the bundle it is about.                     *)
PassedAsValued ==
  \A b \in Briefs, k \in Conversations :
    LET m == <<b, k>> IN
    qa[m].status = "passed" =>
      /\ qa[m].upload \in Uploads
      /\ qa[m].cents = Cents[b][qa[m].upload]
      /\ qa[m].cents > 0

ContributionInv ==
  TypeOK /\ CallsHold /\ OwnRecord /\ PassedAsValued /\ Consented /\ SoldAsValued

-----------------------------------------------------------------------------
(* The rows, without the positions of the calls.                           *)
Results == [status : {"none", "passed", "failed"}, upload : Versions, cents : Nat]
Allocations == [status : {"none", "reserved", "cancelled", "sold"}, upload : Versions, cents : Nat]
Attestations == [upload : Uploads, prev : Nat]

ReceiptsTyped == receipts \subseteq Kept /\ withdrawn \subseteq handed /\ handed \subseteq receipts
ChainTyped == chain \in Seq(Attestations) /\ \A i \in DOMAIN chain : chain[i].prev < i
SaleTyped ==
  /\ live \subseteq Briefs /\ matches \subseteq Matches
  /\ qa \in [Matches -> Results] /\ alloc \in [Matches -> Allocations]

LEMMA Apart ==
  TypeOK <=> /\ ReceiptsTyped /\ ChainTyped /\ SaleTyped
             /\ record \in [Conversations -> RecordStates]
             /\ at \in [Callers -> Positions]
             /\ cut \subseteq Conversations
BY DEF TypeOK, ReceiptsTyped, ChainTyped, SaleTyped, Results, Allocations, Attestations

LEMMA Together ==
  ASSUME ReceiptsTyped', ChainTyped', SaleTyped', record' \in [Conversations -> RecordStates],
         at' \in [Callers -> Positions], cut' \subseteq Conversations
  PROVE  TypeOK'
BY DEF TypeOK, ReceiptsTyped, ChainTyped, SaleTyped, Results, Allocations, Attestations

(* Nothing that is said of the rows depends on where the calls are.        *)
LEMMA RowsStay ==
  ASSUME ContributionInv, UNCHANGED <<receipts, withdrawn, record, qa, alloc>>
  PROVE  OwnRecord' /\ PassedAsValued' /\ Consented' /\ SoldAsValued'
BY DEF ContributionInv, OwnRecord, PassedAsValued, Consented, SoldAsValued

(* One call moves; receipts and attestations are only added meanwhile.     *)
LEMMA MoveCall ==
  ASSUME ContributionInv, NEW c \in Callers, NEW to, Step(c, to),
         Reached(c, to, receipts', handed', Len(chain')),
         receipts \subseteq receipts', handed' \subseteq handed \cup {c},
         Len(chain') = Len(chain) \/ Len(chain') = Len(chain) + 1
  PROVE  at' \in [Callers -> Positions] /\ CallsHold'
<1>1. at \in [Callers -> Positions] /\ chain \in Seq(Attestations)
  BY Apart DEF ContributionInv, ChainTyped
<1>2. at' = [at EXCEPT ![c] = to] /\ to \in Positions
  BY DEF Step, Reached
<1>3. at' \in [Callers -> Positions]
  BY <1>1, <1>2
<1>4. ASSUME NEW o \in Callers PROVE Reached(o, at'[o], receipts', handed', Len(chain'))
  <2>1. CASE o = c
    BY <1>1, <1>2, <2>1
  <2>2. CASE o # c
    <3>1. at'[o] = at[o] /\ Reached(o, at[o], receipts, handed, Len(chain))
      BY <1>1, <1>2, <2>2 DEF ContributionInv, CallsHold
    <3>2. Len(chain) \in Nat /\ at[o].tail \in Nat
      BY <1>1 DEF Positions
    <3> QED BY <2>2, <3>1, <3>2 DEF Reached
  <2> QED BY <2>1, <2>2
<1> QED BY <1>3, <1>4 DEF CallsHold

(* A call that begins anew or is over.                                     *)
LEMMA Starts ==
  ASSUME NEW c \in Callers, NEW pc \in {"matches", "idle", "done"},
         NEW todo \in SUBSET Conversations
  PROVE  /\ [Start(c) EXCEPT !.pc = pc] \in Positions
         /\ [Start(c) EXCEPT !.pc = pc, !.todo = todo] \in Positions
BY DEF Start, Positions, Pcs, Versions

(* An upload ends with its reference given out, if it has a receipt.       *)
LEMMA EndCall ==
  ASSUME ContributionInv, NEW c \in Callers, End(c), UNCHANGED <<receipts, withdrawn>>,
         Len(chain') = Len(chain) \/ Len(chain') = Len(chain) + 1
  PROVE  at' \in [Callers -> Positions] /\ CallsHold' /\ ReceiptsTyped'
<1> DEFINE to == [Start(c) EXCEPT !.pc = Rest(c)]
<1>1. ReceiptsTyped
  BY Apart DEF ContributionInv
<1>2. handed' = handed \cup ({c} \cap receipts) /\ Step(c, to)
  BY DEF End
<1>3. to.pc = Rest(c) /\ Rest(c) \in {"idle", "done"}
  BY DEF Rest, Start
<1>4. to \in Positions
  BY <1>3, Starts
<1>5. c \in handed' => to.pc = "done"
  BY <1>1, <1>2, <1>3, UploadsAssumption DEF ReceiptsTyped, Rest
<1> HIDE DEF to
<1>6. Reached(c, to, receipts', handed', Len(chain'))
  BY <1>3, <1>4, <1>5 DEF Reached
<1>7. at' \in [Callers -> Positions] /\ CallsHold'
  BY <1>2, <1>6, MoveCall
<1>8. ReceiptsTyped'
  BY <1>1, <1>2 DEF ReceiptsTyped
<1> QED BY <1>7, <1>8

(* Or it goes on with the QA of another conversation.                      *)
LEMMA NextCall ==
  ASSUME ContributionInv, NEW c \in Callers, NextConversation(c), c \notin handed,
         UNCHANGED <<receipts, withdrawn, chain>>
  PROVE  at' \in [Callers -> Positions] /\ CallsHold' /\ ReceiptsTyped'
<1>1. at[c].todo \in SUBSET Conversations /\ ReceiptsTyped
  BY Apart DEF ContributionInv, Positions
<1>2. CASE End(c)
  BY <1>2, EndCall
<1>3. CASE Step(c, [Start(c) EXCEPT !.pc = "matches", !.todo = at[c].todo]) /\ UNCHANGED handed
  <2> DEFINE to == [Start(c) EXCEPT !.pc = "matches", !.todo = at[c].todo]
  <2>1. to \in Positions /\ to.pc = "matches"
    <3>1. to \in Positions
      BY <1>1, Starts
    <3>2. to.pc = "matches"
      BY DEF Start
    <3> QED BY <3>1, <3>2
  <2> HIDE DEF to
  <2>2. Reached(c, to, receipts', handed', Len(chain'))
    BY <1>3, <2>1 DEF Reached
  <2>3. at' \in [Callers -> Positions] /\ CallsHold'
    BY <1>3, <2>2, MoveCall DEF to
  <2> QED BY <1>1, <1>3, <2>3 DEF ReceiptsTyped
<1> QED BY <1>2, <1>3 DEF NextConversation

(* A call that is under way and what is known of it.                       *)
LEMMA UnderWay ==
  ASSUME ContributionInv, NEW c \in Callers
  PROVE  /\ at[c] \in Positions
         /\ at[c].pc # "done" => c \notin handed
         /\ Reached(c, at[c], receipts, handed, Len(chain))
BY Apart DEF ContributionInv, CallsHold, Reached

(* Steps of a call that write no row.                                      *)
LEMMA CallReads ==
  ASSUME ContributionInv, UNCHANGED <<recordVars, saleVars>>,
         at' \in [Callers -> Positions], CallsHold', ReceiptsTyped', cut' \subseteq Conversations
  PROVE  ContributionInv'
<1>1. OwnRecord' /\ PassedAsValued' /\ Consented' /\ SoldAsValued'
  BY RowsStay DEF recordVars, saleVars
<1>2. SaleTyped' /\ ChainTyped' /\ record' \in [Conversations -> RecordStates]
  BY Apart DEF ContributionInv, SaleTyped, ChainTyped, recordVars, saleVars
<1>3. TypeOK'
  BY <1>2, Together
<1> QED BY <1>1, <1>3 DEF ContributionInv

-----------------------------------------------------------------------------
(* process(), write by write.  The receipt is there before anything else.  *)
LEMMA CreateReceiptHolds ==
  ASSUME ContributionInv, NEW u \in Uploads, CreateReceipt(u)
  PROVE  ContributionInv'
<1> DEFINE to == [at[u] EXCEPT !.pc = "tail"]
<1>1. u \in Callers /\ at[u].pc = "new" /\ Step(u, to)
  BY DEF Callers, CreateReceipt, Goto
<1>2. at[u] \in Positions /\ u \notin handed
  BY <1>1, UnderWay
<1>3. to \in Positions /\ to.pc = "tail"
  BY <1>2 DEF Positions, Pcs
<1> HIDE DEF to
<1>4. /\ receipts' = receipts \cup ({u} \cap Kept)
      /\ UNCHANGED <<withdrawn, handed, chain, record, saleVars, cut>>
  BY DEF CreateReceipt
<1>5. Reached(u, to, receipts', handed', Len(chain'))
  BY <1>2, <1>3, <1>4 DEF Reached
<1>6. at' \in [Callers -> Positions] /\ CallsHold'
  BY <1>1, <1>4, <1>5, MoveCall
<1>7. ReceiptsTyped' /\ ChainTyped' /\ SaleTyped'
  BY <1>4, Apart DEF ContributionInv, ReceiptsTyped, ChainTyped, SaleTyped, saleVars
<1>8. TypeOK'
  BY <1>4, <1>6, <1>7, Apart, Together DEF ContributionInv
<1>9. OwnRecord' /\ PassedAsValued' /\ SoldAsValued' /\ Consented'
  BY <1>4 DEF ContributionInv, OwnRecord, PassedAsValued, SoldAsValued, Consented, saleVars
<1> QED BY <1>6, <1>8, <1>9 DEF ContributionInv

LEMMA ReadTailHolds ==
  ASSUME ContributionInv, NEW u \in Uploads, ReadTail(u)
  PROVE  ContributionInv'
<1> DEFINE to == [at[u] EXCEPT !.pc = "append", !.tail = Len(chain), !.left = Prompts[u]]
<1>1. u \in Callers /\ at[u].pc = "tail" /\ Step(u, to)
  BY DEF Callers, ReadTail
<1>2. at[u] \in Positions /\ u \notin handed /\ (u \in Kept => u \in receipts)
  BY <1>1, UnderWay DEF Reached
<1>3. chain \in Seq(Attestations) /\ Len(chain) \in Nat /\ Prompts[u] \in Nat \ {0}
  BY Apart, UploadsAssumption DEF ContributionInv, ChainTyped
<1>4. to \in Positions /\ to.pc = "append" /\ to.tail = Len(chain) /\ to.left > 0
  <2>1. Len(chain) \in Nat /\ Prompts[u] \in Nat /\ "append" \in Pcs
    BY <1>3 DEF Pcs
  <2>2. to \in Positions
    BY <1>2, <2>1 DEF Positions
  <2>3. to.pc = "append" /\ to.tail = Len(chain) /\ to.left = Prompts[u]
    BY <1>2 DEF Positions
  <2> QED BY <1>3, <2>2, <2>3
<1> HIDE DEF to
<1>5. UNCHANGED <<recordVars, handed, saleVars, cut>>
  BY DEF ReadTail
<1>6. Reached(u, to, receipts', handed', Len(chain'))
  BY <1>2, <1>3, <1>4, <1>5 DEF Reached, recordVars
<1>7. at' \in [Callers -> Positions] /\ CallsHold'
  BY <1>1, <1>5, <1>6, MoveCall DEF recordVars
<1>8. ReceiptsTyped' /\ cut' \subseteq Conversations
  BY <1>5, Apart DEF ContributionInv, ReceiptsTyped, recordVars
<1> QED BY <1>5, <1>7, <1>8, CallReads

LEMMA AppendAttestationHolds ==
  ASSUME ContributionInv, NEW u \in Uploads, AppendAttestation(u)
  PROVE  ContributionInv'
<1> DEFINE new == [upload |-> u, prev |-> at[u].tail]
<1>1. u \in Callers /\ at[u].pc = "append" /\ chain' = Append(chain, new)
      /\ UNCHANGED <<receipts, withdrawn, record, saleVars, cut>>
  BY DEF Callers, AppendAttestation
<1>2. /\ at[u] \in Positions /\ u \notin handed /\ (u \in Kept => u \in receipts)
      /\ at[u].left \in Nat \ {0} /\ at[u].tail \in Nat /\ at[u].tail <= Len(chain)
  BY <1>1, UnderWay DEF Reached, Positions
<1>3. chain \in Seq(Attestations) /\ \A i \in DOMAIN chain : chain[i].prev < i
  BY Apart DEF ContributionInv, ChainTyped
<1>4. new \in Attestations
  BY <1>2 DEF Attestations
<1> HIDE DEF new
<1>5. /\ chain' \in Seq(Attestations) /\ Len(chain') = Len(chain) + 1
      /\ DOMAIN chain' = 1..(Len(chain) + 1)
      /\ \A i \in DOMAIN chain : chain'[i] = chain[i]
      /\ chain'[Len(chain) + 1] = new
  BY <1>1, <1>3, <1>4
<1>6. ChainTyped'
  <2>1. new.prev < Len(chain) + 1
    BY <1>2, <1>3 DEF new
  <2>2. ASSUME NEW i \in DOMAIN chain' PROVE chain'[i].prev < i
    <3>1. i \in DOMAIN chain \/ i = Len(chain) + 1
      BY <1>3, <1>5
    <3> QED BY <1>3, <1>5, <2>1, <3>1
  <2> QED BY <1>5, <2>2 DEF ChainTyped
<1>7. at' \in [Callers -> Positions] /\ CallsHold' /\ ReceiptsTyped'
  <2>1. CASE at[u].left > 1 \/ u \in Kept
    <3> DEFINE to == [at[u] EXCEPT !.tail = Len(chain'), !.left = @ - 1,
                                    !.pc = IF at[u].left > 1 THEN "append" ELSE "package"]
    <3>1. Step(u, to) /\ UNCHANGED handed
      BY <2>1 DEF AppendAttestation
    <3>2. Len(chain') \in Nat
      BY <1>5
    <3>3. /\ to \in Positions /\ to.tail = Len(chain')
          /\ \/ to.pc = "append" /\ to.left > 0
             \/ to.pc = "package" /\ u \in Kept
      <4>1. /\ to \in Positions /\ to.tail = Len(chain') /\ to.left = at[u].left - 1
            /\ to.pc = IF at[u].left > 1 THEN "append" ELSE "package"
        <5>1. at[u].left - 1 \in Nat
          BY <1>2
        <5>2. (IF at[u].left > 1 THEN "append" ELSE "package") \in Pcs
          BY DEF Pcs
        <5>3. to \in Positions
          BY <1>2, <3>2, <5>1, <5>2 DEF Positions
        <5>4. /\ to.tail = Len(chain') /\ to.left = at[u].left - 1
              /\ to.pc = IF at[u].left > 1 THEN "append" ELSE "package"
          BY <1>2 DEF Positions
        <5> QED BY <5>3, <5>4
      <4> HIDE DEF to
      <4> QED BY <1>2, <2>1, <4>1
    <3> HIDE DEF to
    <3>4. Reached(u, to, receipts', handed', Len(chain'))
      BY <1>1, <1>2, <3>1, <3>2, <3>3 DEF Reached
    <3>5. at' \in [Callers -> Positions] /\ CallsHold'
      BY <1>1, <1>5, <3>1, <3>4, MoveCall
    <3> QED BY <1>1, <3>1, <3>5, Apart DEF ContributionInv, ReceiptsTyped
  <2>2. CASE ~ (at[u].left > 1 \/ u \in Kept)
    <3>1. End(u)
      BY <2>2 DEF AppendAttestation
    <3> QED BY <1>1, <1>5, <3>1, EndCall
  <2> QED BY <2>1, <2>2
<1>8. SaleTyped' /\ record' \in [Conversations -> RecordStates] /\ cut' \subseteq Conversations
  BY <1>1, Apart DEF ContributionInv, SaleTyped, saleVars
<1>9. OwnRecord' /\ PassedAsValued' /\ Consented' /\ SoldAsValued'
  BY <1>1, RowsStay DEF saleVars
<1> QED BY <1>6, <1>7, <1>8, <1>9, Together DEF ContributionInv

(* A bundle is stored while its receipt's reference is still unknown to    *)
(* the contributor, so it cannot be withdrawn already.                     *)
LEMMA PackageHolds ==
  ASSUME ContributionInv, NEW u \in Uploads, Package(u)
  PROVE  ContributionInv'
<1> DEFINE k == ConversationOf[u]
           bundle == [status |-> "available", upload |-> u, tail |-> at[u].tail]
<1>1. u \in Callers /\ at[u].pc = "package"
      /\ UNCHANGED <<receipts, withdrawn, chain, saleVars, cut>>
  BY DEF Callers, Package
<1>2. at[u] \in Positions /\ u \notin handed /\ u \in receipts /\ at[u].tail \in Nat
  BY <1>1, UnderWay DEF Reached, Positions
<1>3. k \in Conversations /\ ReceiptsTyped /\ record \in [Conversations -> RecordStates]
  BY Apart, UploadsAssumption DEF ContributionInv
<1>4. CASE record[k].status = "sold"
  <2>1. End(u) /\ UNCHANGED record
    BY <1>4 DEF Package
  <2>2. at' \in [Callers -> Positions] /\ CallsHold' /\ ReceiptsTyped'
    BY <1>1, <2>1, EndCall
  <2> QED BY <1>1, <2>1, <2>2, CallReads, Apart DEF ContributionInv, recordVars
<1>5. CASE record[k].status # "sold"
  <2> DEFINE to == [Start(u) EXCEPT !.pc = "matches", !.todo = {k}]
  <2>1. record' = [record EXCEPT ![k] = bundle] /\ Step(u, to) /\ UNCHANGED handed
    BY <1>5 DEF Package
  <2>2. to \in Positions /\ to.pc = "matches"
    <3>1. {k} \in SUBSET Conversations
      BY <1>3
    <3>2. to \in Positions
      BY <1>1, <3>1, Starts
    <3>3. to.pc = "matches"
      BY DEF Start
    <3> QED BY <3>2, <3>3
  <2> HIDE DEF to
  <2>3. Reached(u, to, receipts', handed', Len(chain'))
    BY <1>2, <2>1, <2>2 DEF Reached
  <2>4. at' \in [Callers -> Positions] /\ CallsHold'
    BY <1>1, <2>1, <2>3, MoveCall
  <2>5. bundle \in RecordStates
    BY <1>2 DEF RecordStates, Versions
  <2>6. /\ record' \in [Conversations -> RecordStates]
        /\ record'[k] = bundle /\ \A o \in Conversations \ {k} : record'[o] = record[o]
    BY <1>3, <2>1, <2>5
  <2>7. ReceiptsTyped' /\ ChainTyped' /\ SaleTyped' /\ cut' \subseteq Conversations
    BY <1>1, <2>1, Apart DEF ContributionInv, ReceiptsTyped, ChainTyped, SaleTyped, saleVars
  <2>8. OwnRecord' /\ PassedAsValued'
    BY <1>1, <1>3, <2>6 DEF ContributionInv, OwnRecord, PassedAsValued, saleVars
  <2>9. Consented'
    BY <1>1, <1>2, <1>3, <2>6 DEF ContributionInv, Consented, ReceiptsTyped
  <2>10. SoldAsValued'
    <3>1. UNCHANGED alloc /\ SoldAsValued
      BY <1>1 DEF ContributionInv, saleVars
    <3>2. \A o \in Conversations : (record'[o].status = "sold") <=> (record[o].status = "sold")
      BY <1>5, <2>6
    <3>3. \A o \in Conversations : record[o].status = "sold" => record'[o] = record[o]
      BY <1>5, <2>6
    <3> QED BY <3>1, <3>2, <3>3 DEF SoldAsValued
  <2> QED BY <2>4, <2>6, <2>7, <2>8, <2>9, <2>10, Together DEF ContributionInv
<1> QED BY <1>4, <1>5

-----------------------------------------------------------------------------
(* reportMatches(), and the reads of runForConversation().                 *)
LEMMA CallMoves ==
  ASSUME ContributionInv, NEW c \in Callers, NEW to, Step(c, to), c \notin handed,
         UNCHANGED <<receipts, withdrawn, handed, chain, record, cut>>,
         to \in Positions, to.pc \notin {"tail", "append", "package"},
         to.pc \in {"consent", "verdict"} /\ to.eligible # {} => to.seen \in Uploads
  PROVE  /\ at' \in [Callers -> Positions] /\ CallsHold' /\ ReceiptsTyped' /\ ChainTyped'
         /\ record' \in [Conversations -> RecordStates] /\ cut' \subseteq Conversations
<1>1. Reached(c, to, receipts', handed', Len(chain'))
  BY DEF Reached
<1>2. at' \in [Callers -> Positions] /\ CallsHold'
  BY <1>1, MoveCall
<1> QED BY <1>2, Apart DEF ContributionInv, ReceiptsTyped, ChainTyped

LEMMA ReportHolds ==
  ASSUME ContributionInv, NEW r \in Reports, NEW b \in Briefs,
         NEW conversations \in SUBSET Conversations, Report(r, b, conversations)
  PROVE  ContributionInv'
<1> DEFINE to == [at[r] EXCEPT !.pc = "match", !.briefs = {b}, !.todo = conversations]
<1>1. r \in Callers /\ at[r].pc = "idle" /\ Step(r, to)
      /\ UNCHANGED <<recordVars, handed, saleVars, cut>>
  BY DEF Callers, Report
<1>2. at[r] \in Positions /\ r \notin handed
  BY <1>1, UnderWay
<1>3. "match" \in Pcs
  BY DEF Pcs
<1>4. to \in Positions /\ to.pc = "match"
  BY <1>2, <1>3 DEF Positions
<1> HIDE DEF to
<1> QED BY <1>1, <1>2, <1>4, CallMoves, CallReads DEF recordVars

LEMMA RecordMatchesHolds ==
  ASSUME ContributionInv, NEW r \in Reports, RecordMatches(r)
  PROVE  ContributionInv'
<1> DEFINE to == [at[r] EXCEPT !.pc = "matches", !.briefs = {}]
<1>1. r \in Callers /\ at[r].pc = "match" /\ Step(r, to)
      /\ matches' = matches \cup (at[r].briefs \X at[r].todo)
      /\ UNCHANGED <<receipts, withdrawn, chain, record, handed, live, qa, alloc, cut>>
  BY DEF Callers, RecordMatches, recordVars
<1>2. at[r] \in Positions /\ r \notin handed
  BY <1>1, UnderWay
<1>3. "matches" \in Pcs
  BY DEF Pcs
<1>4. to \in Positions /\ to.pc = "matches"
  BY <1>2, <1>3 DEF Positions
<1> HIDE DEF to
<1>5. /\ at' \in [Callers -> Positions] /\ CallsHold' /\ ReceiptsTyped' /\ ChainTyped'
      /\ record' \in [Conversations -> RecordStates] /\ cut' \subseteq Conversations
  BY <1>1, <1>2, <1>4, CallMoves
<1>6. SaleTyped'
  <2>1. at[r].briefs \X at[r].todo \subseteq Matches
    BY <1>2 DEF Positions, Matches
  <2> QED BY <1>1, <2>1, Apart DEF ContributionInv, SaleTyped
<1>7. OwnRecord' /\ PassedAsValued' /\ Consented' /\ SoldAsValued'
  BY <1>1, RowsStay
<1> QED BY <1>5, <1>6, <1>7, Together DEF ContributionInv

LEMMA QaMatchesHolds ==
  ASSUME ContributionInv, NEW c \in Callers, NEW k \in Conversations, QaMatches(c, k)
  PROVE  ContributionInv'
<1> DEFINE briefs == {b \in Briefs : <<b, k>> \in matches}
           to == [at[c] EXCEPT !.pc = "record", !.todo = @ \ {k}, !.cur = {k},
                               !.briefs = briefs, !.eligible = briefs \cap live]
<1>1. at[c].pc = "matches" /\ Step(c, to) /\ UNCHANGED <<recordVars, handed, saleVars, cut>>
  BY DEF QaMatches
<1>2. at[c] \in Positions /\ c \notin handed
  BY <1>1, UnderWay
<1>3. "record" \in Pcs /\ briefs \subseteq Briefs /\ briefs \cap live \subseteq Briefs
  BY DEF Pcs
<1> HIDE DEF briefs
<1>4. to \in Positions /\ to.pc = "record"
  BY <1>2, <1>3 DEF Positions
<1> HIDE DEF to
<1> QED BY <1>1, <1>2, <1>4, CallMoves, CallReads DEF recordVars

(* The bundle a run goes on with, unless it can only fail, is an upload's. *)
LEMMA QaRecordHolds ==
  ASSUME ContributionInv, NEW c \in Callers, NEW k \in Conversations, QaRecord(c, k)
  PROVE  ContributionInv'
<1>1. at[c].pc = "record" /\ UNCHANGED <<recordVars, saleVars, cut>>
  BY DEF QaRecord
<1>2. at[c] \in Positions /\ c \notin handed
  BY <1>1, UnderWay
<1>3. cut' \subseteq Conversations
  BY <1>1, Apart DEF ContributionInv
<1>4. CASE NextConversation(c)
  BY <1>1, <1>2, <1>3, <1>4, NextCall, CallReads DEF recordVars
<1>5. CASE ~ NextConversation(c)
  <2> DEFINE to == [at[c] EXCEPT !.pc = "consent", !.seen = record[k].upload,
                         !.eligible = IF record[k].status = "available" THEN @ ELSE {}]
  <2>1. Step(c, to) /\ UNCHANGED handed
    BY <1>5 DEF QaRecord
  <2>2. record[k].upload \in Versions /\ "consent" \in Pcs
    BY Apart DEF ContributionInv, RecordStates, Pcs
  <2>3. (IF record[k].status = "available" THEN at[c].eligible ELSE {}) \in SUBSET Briefs
    BY <1>2 DEF Positions
  <2>4. to \in Positions /\ to.pc = "consent" /\ to.seen = record[k].upload
        /\ to.eligible = IF record[k].status = "available" THEN at[c].eligible ELSE {}
    BY <1>2, <2>2, <2>3 DEF Positions
  <2> HIDE DEF to
  <2>5. to.eligible # {} => to.seen \in Uploads
    BY <2>4 DEF ContributionInv, OwnRecord
  <2> QED BY <1>1, <1>2, <2>1, <2>4, <2>5, CallMoves, CallReads DEF recordVars
<1> QED BY <1>4, <1>5

LEMMA QaConsentHolds ==
  ASSUME ContributionInv, NEW c \in Callers, QaConsent(c)
  PROVE  ContributionInv'
<1>1. at[c].pc = "consent" /\ UNCHANGED <<recordVars, handed, saleVars, cut>>
  BY DEF QaConsent
<1>2. /\ at[c] \in Positions /\ c \notin handed
      /\ at[c].eligible # {} => at[c].seen \in Uploads
  BY <1>1, UnderWay DEF Reached
<1>3. PICK new \in SUBSET at[c].eligible :
        Step(c, [at[c] EXCEPT !.pc = "verdict",
                              !.eligible = IF at[c].seen \in withdrawn THEN {} ELSE new])
  BY DEF QaConsent
<1> DEFINE rest == IF at[c].seen \in withdrawn THEN {} ELSE new
           to == [at[c] EXCEPT !.pc = "verdict", !.eligible = rest]
<1>4. "verdict" \in Pcs /\ rest \in SUBSET Briefs /\ rest \subseteq at[c].eligible
  BY <1>2 DEF Positions, Pcs
<1>5. Step(c, to)
  BY <1>3
<1> HIDE DEF rest
<1>6. to \in Positions /\ to.pc = "verdict" /\ to.eligible = rest /\ to.seen = at[c].seen
  BY <1>2, <1>4 DEF Positions
<1> HIDE DEF to
<1>7. to.eligible # {} => to.seen \in Uploads
  BY <1>2, <1>4, <1>6
<1> QED BY <1>1, <1>2, <1>5, <1>6, <1>7, CallMoves, CallReads DEF recordVars

(* The verdict's value is that of the bundle that was read.                *)
LEMMA QaVerdictHolds ==
  ASSUME ContributionInv, NEW c \in Callers, NEW b \in Briefs, NEW k \in Conversations,
         QaVerdict(c, b, k)
  PROVE  ContributionInv'
<1> DEFINE verdict == Verdict(b, at[c])
<1>1. /\ at[c].pc = "verdict" /\ qa' = [qa EXCEPT ![<<b, k>>] = verdict]
      /\ UNCHANGED <<recordVars, live, matches, alloc, cut>>
  BY DEF QaVerdict
<1>2. /\ at[c] \in Positions /\ c \notin handed
      /\ at[c].eligible # {} => at[c].seen \in Uploads
  BY <1>1, UnderWay DEF Reached
<1>3. /\ verdict \in Results
      /\ verdict.status = "passed" =>
           /\ verdict.upload \in Uploads /\ verdict.cents > 0
           /\ verdict.cents = Cents[b][verdict.upload]
  <2>1. CASE Passes(b, at[c])
    <3>1. at[c].seen \in Uploads /\ Cents[b][at[c].seen] \in Nat /\ Cents[b][at[c].seen] > 0
      BY <1>2, <2>1, CentsAssumption DEF Passes
    <3>2. verdict = [status |-> "passed", upload |-> at[c].seen, cents |-> Cents[b][at[c].seen]]
      BY <2>1 DEF Verdict
    <3> QED BY <3>1, <3>2 DEF Results, Versions
  <2>2. CASE ~ Passes(b, at[c])
    <3>1. verdict = [status |-> "failed", upload |-> at[c].seen, cents |-> 0]
      BY <2>2 DEF Verdict
    <3> QED BY <1>2, <3>1 DEF Results, Positions
  <2> QED BY <2>1, <2>2
<1> HIDE DEF verdict
<1>4. <<b, k>> \in Matches /\ qa \in [Matches -> Results]
  BY Apart DEF Matches, ContributionInv, SaleTyped
<1>5. SaleTyped'
  <2>1. qa' \in [Matches -> Results]
    BY <1>1, <1>3, <1>4
  <2> QED BY <1>1, <2>1, Apart DEF ContributionInv, SaleTyped
<1>6. PassedAsValued'
  <2>1. ASSUME NEW o \in Briefs, NEW j \in Conversations, qa'[<<o, j>>].status = "passed"
        PROVE  /\ qa'[<<o, j>>].upload \in Uploads /\ qa'[<<o, j>>].cents > 0
               /\ qa'[<<o, j>>].cents = Cents[o][qa'[<<o, j>>].upload]
    <3>1. <<o, j>> \in Matches
      BY DEF Matches
    <3>2. CASE o = b /\ j = k
      BY <1>1, <1>3, <1>4, <2>1, <3>2
    <3>3. CASE ~ (o = b /\ j = k)
      <4>1. qa'[<<o, j>>] = qa[<<o, j>>]
        BY <1>1, <1>4, <3>1, <3>3
      <4> QED BY <2>1, <4>1 DEF ContributionInv, PassedAsValued
    <3> QED BY <3>2, <3>3
  <2> QED BY <2>1 DEF PassedAsValued
<1>7. at' \in [Callers -> Positions] /\ CallsHold' /\ ReceiptsTyped'
  <2>1. CASE NextConversation(c)
    BY <1>1, <1>2, <2>1, NextCall DEF recordVars
  <2>2. CASE ~ NextConversation(c)
    <3> DEFINE to == [at[c] EXCEPT !.briefs = @ \ {b}]
    <3>1. Step(c, to) /\ UNCHANGED handed
      BY <2>2 DEF QaVerdict
    <3>2. to \in Positions /\ to.pc = "verdict" /\ to.seen = at[c].seen
          /\ to.eligible = at[c].eligible
      BY <1>1, <1>2 DEF Positions
    <3> HIDE DEF to
    <3> QED BY <1>1, <1>2, <3>1, <3>2, CallMoves DEF recordVars
  <2> QED BY <2>1, <2>2
<1>8. ChainTyped' /\ record' \in [Conversations -> RecordStates] /\ cut' \subseteq Conversations
  BY <1>1, Apart DEF ContributionInv, ChainTyped, recordVars
<1>9. OwnRecord' /\ Consented' /\ SoldAsValued'
  BY <1>1 DEF ContributionInv, OwnRecord, Consented, SoldAsValued, recordVars
<1> QED BY <1>5, <1>6, <1>7, <1>8, <1>9, Together DEF ContributionInv

(* A call that ends early leaves the rows as they are.                     *)
LEMMA CallFailsHolds ==
  ASSUME ContributionInv, NEW c \in Callers, CallFails(c)
  PROVE  ContributionInv'
<1>1. at[c].pc \notin {"idle", "new", "done"} /\ UNCHANGED <<recordVars, saleVars>>
  BY DEF CallFails
<1>2. at[c] \in Positions /\ c \notin handed
  BY <1>1, UnderWay
<1>3. cut' \subseteq Conversations
  <2>1. at[c].cur \subseteq Conversations /\ at[c].todo \subseteq Conversations
    BY <1>2 DEF Positions
  <2>2. Concerns(c) \subseteq Conversations
    BY <2>1, UploadsAssumption DEF Concerns
  <2> QED BY <2>1, <2>2, Apart DEF ContributionInv, CallFails
<1>4. at' \in [Callers -> Positions] /\ CallsHold' /\ ReceiptsTyped'
  BY <1>1, <1>2, NextCall, EndCall DEF CallFails, recordVars
<1> QED BY <1>1, <1>3, <1>4, CallReads

LEMMA CallDiesHolds ==
  ASSUME ContributionInv, NEW c \in Callers, CallDies(c)
  PROVE  ContributionInv'
<1> DEFINE to == [Start(c) EXCEPT !.pc = Rest(c)]
<1>1. at[c].pc \notin {"idle", "new", "done"} /\ Step(c, to)
      /\ UNCHANGED <<recordVars, saleVars, handed>> /\ cut' = cut \cup Concerns(c)
  BY DEF CallDies
<1>2. at[c] \in Positions /\ c \notin handed
  BY <1>1, UnderWay
<1>3. to.pc = Rest(c) /\ Rest(c) \in {"idle", "done"}
  BY DEF Rest, Start
<1>4. to \in Positions
  BY <1>3, Starts
<1> HIDE DEF to
<1>5. Reached(c, to, receipts', handed', Len(chain'))
  BY <1>1, <1>2, <1>3, <1>4 DEF Reached
<1>6. at' \in [Callers -> Positions] /\ CallsHold'
  BY <1>1, <1>5, MoveCall DEF recordVars
<1>7. ReceiptsTyped'
  BY <1>1, Apart DEF ContributionInv, ReceiptsTyped, recordVars
<1>8. cut' \subseteq Conversations
  <2>1. Concerns(c) \subseteq Conversations
    BY <1>2, UploadsAssumption DEF Concerns, Positions
  <2> QED BY <1>1, <2>1, Apart DEF ContributionInv
<1> QED BY <1>1, <1>6, <1>7, <1>8, CallReads

-----------------------------------------------------------------------------
(* The contributor and the administrators move no call.                    *)
LEMMA CallsStay ==
  ASSUME ContributionInv, UNCHANGED <<receipts, handed, chain, at, cut>>,
         withdrawn' \subseteq handed, SaleTyped', record' \in [Conversations -> RecordStates]
  PROVE  TypeOK' /\ CallsHold'
<1>1. ReceiptsTyped' /\ ChainTyped' /\ at' \in [Callers -> Positions] /\ cut' \subseteq Conversations
  BY Apart DEF ContributionInv, ReceiptsTyped, ChainTyped
<1>2. CallsHold'
  BY DEF ContributionInv, CallsHold
<1> QED BY <1>1, <1>2, Together

(* A receipt belongs to one conversation, so its withdrawal leaves every   *)
(* other bundle consented.                                                 *)
LEMMA RevokeHolds ==
  ASSUME ContributionInv, NEW u \in Uploads, Revoke(u)
  PROVE  ContributionInv'
<1> DEFINE k == ConversationOf[u]
           current == record[k].upload = u
<1>1. /\ u \in handed /\ ~ (current /\ record[k].status = "sold")
      /\ record' = IF current THEN [record EXCEPT ![k].status = "revoked"] ELSE record
      /\ withdrawn' = withdrawn \cup {u}
      /\ UNCHANGED <<receipts, handed, chain, saleVars, at, cut>>
  BY DEF Revoke
<1>2. /\ k \in Conversations /\ ReceiptsTyped /\ SaleTyped
      /\ record \in [Conversations -> RecordStates]
  BY Apart, UploadsAssumption DEF ContributionInv
<1> DEFINE bundle == [record[k] EXCEPT !.status = "revoked"]
<1>3. bundle \in RecordStates /\ bundle.status = "revoked" /\ bundle.upload = record[k].upload
  BY <1>2 DEF RecordStates
<1>4. /\ record' \in [Conversations -> RecordStates]
      /\ record'[k] = IF current THEN bundle ELSE record[k]
      /\ \A o \in Conversations \ {k} : record'[o] = record[o]
  BY <1>1, <1>2, <1>3
<1> HIDE DEF bundle
<1>5. \A o \in Conversations : record[o].status # "none" /\ record[o].upload = u => o = k
  BY DEF ContributionInv, OwnRecord
<1>6. TypeOK' /\ CallsHold'
  BY <1>1, <1>2, <1>4, CallsStay DEF ReceiptsTyped, SaleTyped, saleVars
<1>8. OwnRecord'
  <2>1. CASE current
    BY <1>2, <1>3, <1>4, <2>1 DEF ContributionInv, OwnRecord
  <2>2. CASE ~ current
    BY <1>1, <2>2 DEF ContributionInv, OwnRecord
  <2> QED BY <2>1, <2>2
<1>9. Consented'
  <2> SUFFICES ASSUME NEW o \in Conversations, record'[o].status \in {"available", "sold"}
               PROVE  record'[o].upload \in receipts' \ withdrawn'
    BY DEF Consented
  <2>1. ~ (o = k /\ current)
    BY <1>3, <1>4
  <2>2. record'[o] = record[o]
    BY <1>4, <2>1
  <2>3. record[o].upload # u
    BY <1>5, <2>1, <2>2
  <2> QED BY <1>1, <2>2, <2>3 DEF ContributionInv, Consented
<1>10. PassedAsValued'
  BY <1>1 DEF ContributionInv, PassedAsValued, saleVars
<1>11. SoldAsValued'
  <2>1. UNCHANGED alloc /\ SoldAsValued
    BY <1>1 DEF ContributionInv, saleVars
  <2>2. \A o \in Conversations : (record'[o].status = "sold") <=> (record[o].status = "sold")
    BY <1>1, <1>3, <1>4
  <2>3. \A o \in Conversations : record[o].status = "sold" => record'[o] = record[o]
    BY <1>1, <1>4
  <2> QED BY <2>1, <2>2, <2>3 DEF SoldAsValued
<1> QED BY <1>6, <1>8, <1>9, <1>10, <1>11 DEF ContributionInv

(* Reservations change no record, and a reservation is not a sale.         *)
LEMMA AllocationHolds ==
  ASSUME ContributionInv, NEW b \in Briefs, NEW k \in Conversations,
         Reserve(b, k) \/ Cancel(<<b, k>>)
  PROVE  ContributionInv'
<1> DEFINE m == <<b, k>>
<1>1. m \in Matches /\ SaleTyped /\ record \in [Conversations -> RecordStates] /\ ReceiptsTyped
  BY Apart DEF Matches, ContributionInv
<1>2. /\ UNCHANGED <<recordVars, handed, live, matches, qa, at, cut>>
      /\ alloc[m].status # "sold"
  BY DEF Reserve, Acceptable, Cancel
<1>3. PICK row \in Allocations : alloc' = [alloc EXCEPT ![m] = row] /\ row.status # "sold"
  <2>1. CASE Reserve(b, k)
    <3> DEFINE row == [status |-> "reserved", upload |-> record[k].upload, cents |-> qa[m].cents]
    <3>1. row \in Allocations
      BY <1>1 DEF Allocations, SaleTyped, RecordStates, Results
    <3> QED BY <2>1, <3>1 DEF Reserve, Acceptable
  <2>2. CASE Cancel(<<b, k>>)
    <3> DEFINE row == [alloc[m] EXCEPT !.status = "cancelled"]
    <3>1. row \in Allocations /\ row.status = "cancelled"
      BY <1>1 DEF Allocations, SaleTyped
    <3>2. alloc' = [alloc EXCEPT ![m] = row]
      BY <2>2 DEF Cancel
    <3> QED BY <3>1, <3>2
  <2> QED BY <2>1, <2>2
<1>4. \A n \in Matches : \/ alloc'[n] = alloc[n]
                         \/ alloc'[n].status # "sold" /\ alloc[n].status # "sold"
  BY <1>1, <1>2, <1>3 DEF SaleTyped
<1>5. TypeOK' /\ CallsHold'
  <2>1. SaleTyped'
    BY <1>1, <1>2, <1>3 DEF SaleTyped
  <2> QED BY <1>1, <1>2, <2>1, CallsStay DEF ReceiptsTyped, recordVars
<1>6. OwnRecord' /\ Consented' /\ PassedAsValued'
  BY <1>2 DEF ContributionInv, OwnRecord, Consented, PassedAsValued, recordVars
<1>7. SoldAsValued'
  <2>1. \A o \in Briefs, j \in Conversations : <<o, j>> \in Matches
    BY DEF Matches
  <2>2. \A o \in Briefs, j \in Conversations :
          /\ (alloc'[<<o, j>>].status = "sold") <=> (alloc[<<o, j>>].status = "sold")
          /\ alloc[<<o, j>>].status = "sold" => alloc'[<<o, j>>] = alloc[<<o, j>>]
    BY <1>4, <2>1
  <2>3. UNCHANGED record /\ SoldAsValued
    BY <1>2 DEF ContributionInv, recordVars
  <2> SUFFICES ASSUME NEW j \in Conversations
               PROVE  /\ record'[j].status = "sold" <=> \E o \in Briefs : alloc'[<<o, j>>].status = "sold"
                      /\ \A o \in Briefs : alloc'[<<o, j>>].status = "sold" =>
                           /\ alloc'[<<o, j>>].upload = record'[j].upload
                           /\ alloc'[<<o, j>>].cents = Cents[o][record'[j].upload]
                           /\ alloc'[<<o, j>>].cents > 0
    BY DEF SoldAsValued
  <2>4. /\ record[j].status = "sold" <=> \E o \in Briefs : alloc[<<o, j>>].status = "sold"
        /\ \A o \in Briefs : alloc[<<o, j>>].status = "sold" =>
             /\ alloc[<<o, j>>].upload = record[j].upload
             /\ alloc[<<o, j>>].cents = Cents[o][record[j].upload]
             /\ alloc[<<o, j>>].cents > 0
    BY <2>3 DEF SoldAsValued
  <2> QED BY <2>2, <2>3, <2>4
<1> QED BY <1>5, <1>6, <1>7 DEF ContributionInv

(* The sale: the record is the reserved bundle, and QA's pass, which is    *)
(* about that bundle, has the reserved amount.                             *)
LEMMA ClaimHolds ==
  ASSUME ContributionInv, NEW b \in Briefs, NEW k \in Conversations, Claim(b, k)
  PROVE  ContributionInv'
<1> DEFINE m == <<b, k>>
           bundle == [record[k] EXCEPT !.status = "sold"]
           row == [alloc[m] EXCEPT !.status = "sold"]
<1>1. /\ alloc[m].status = "reserved" /\ qa[m].status = "passed"
      /\ qa[m].cents = alloc[m].cents /\ qa[m].upload = alloc[m].upload
      /\ record[k].upload = alloc[m].upload /\ record[k].status = "available"
      /\ record' = [record EXCEPT ![k] = bundle] /\ alloc' = [alloc EXCEPT ![m] = row]
      /\ UNCHANGED <<receipts, withdrawn, chain, handed, live, matches, qa, at, cut>>
  BY DEF Claim
<1>2. m \in Matches /\ SaleTyped /\ record \in [Conversations -> RecordStates] /\ ReceiptsTyped
  BY Apart DEF Matches, ContributionInv
<1>3. bundle \in RecordStates /\ bundle.status = "sold" /\ bundle.upload = record[k].upload
  BY <1>2 DEF RecordStates
<1>4. /\ row \in Allocations /\ row.status = "sold"
      /\ row.upload = alloc[m].upload /\ row.cents = alloc[m].cents
  BY <1>2 DEF SaleTyped, Allocations
<1> HIDE DEF bundle, row
<1>5. /\ record' \in [Conversations -> RecordStates] /\ record'[k] = bundle
      /\ \A o \in Conversations \ {k} : record'[o] = record[o]
  BY <1>1, <1>2, <1>3
<1>6. /\ alloc' \in [Matches -> Allocations] /\ alloc'[m] = row
      /\ \A n \in Matches \ {m} : alloc'[n] = alloc[n]
  BY <1>1, <1>2, <1>4 DEF SaleTyped
<1>7. TypeOK' /\ CallsHold'
  BY <1>1, <1>2, <1>5, <1>6, CallsStay DEF SaleTyped, ReceiptsTyped
<1>8. OwnRecord' /\ Consented' /\ PassedAsValued'
  BY <1>1, <1>3, <1>5 DEF ContributionInv, OwnRecord, Consented, PassedAsValued
<1>9. SoldAsValued'
  <2> SUFFICES ASSUME NEW j \in Conversations
               PROVE  /\ record'[j].status = "sold" <=> \E o \in Briefs : alloc'[<<o, j>>].status = "sold"
                      /\ \A o \in Briefs : alloc'[<<o, j>>].status = "sold" =>
                           /\ alloc'[<<o, j>>].upload = record'[j].upload
                           /\ alloc'[<<o, j>>].cents = Cents[o][record'[j].upload]
                           /\ alloc'[<<o, j>>].cents > 0
    BY DEF SoldAsValued
  <2>1. \A o \in Briefs : <<o, j>> \in Matches
    BY DEF Matches
  <2>2. CASE j # k
    <3>1. record'[j] = record[j] /\ \A o \in Briefs : alloc'[<<o, j>>] = alloc[<<o, j>>]
      BY <1>5, <1>6, <2>1, <2>2
    <3> QED BY <3>1 DEF ContributionInv, SoldAsValued
  <2>3. CASE j = k
    <3>1. \A o \in Briefs : o # b => alloc'[<<o, k>>].status # "sold"
      <4>1. \A o \in Briefs : alloc[<<o, k>>].status # "sold"
        BY <1>1 DEF ContributionInv, SoldAsValued
      <4> QED BY <1>6, <2>1, <2>3, <4>1
    <3>2. qa[m].cents = Cents[b][qa[m].upload] /\ qa[m].cents > 0
      BY <1>1 DEF ContributionInv, PassedAsValued
    <3> QED BY <1>1, <1>3, <1>4, <1>5, <1>6, <2>3, <3>1, <3>2
  <2> QED BY <2>2, <2>3
<1> QED BY <1>7, <1>8, <1>9 DEF ContributionInv

LEMMA TurnHolds ==
  ASSUME ContributionInv, NEW b \in Briefs, Turn(b)
  PROVE  ContributionInv'
<1>1. UNCHANGED <<recordVars, handed, matches, qa, alloc, at, cut>> /\ live' \subseteq Briefs
  BY Apart DEF Turn, ContributionInv, SaleTyped
<1>2. TypeOK' /\ CallsHold'
  BY <1>1, CallsStay, Apart DEF ContributionInv, ReceiptsTyped, SaleTyped, recordVars
<1>3. OwnRecord' /\ PassedAsValued' /\ Consented' /\ SoldAsValued'
  BY <1>1, RowsStay DEF recordVars
<1> QED BY <1>2, <1>3 DEF ContributionInv

-----------------------------------------------------------------------------
LEMMA InitHolds == Init => ContributionInv
<1> SUFFICES ASSUME Init PROVE ContributionInv
  OBVIOUS
<1>1. NoRecord \in RecordStates /\ NoResult \in Results /\ NoResult \in Allocations
  BY DEF NoRecord, NoResult, RecordStates, Results, Allocations, Versions
<1>2. \A c \in Callers : Start(c) \in Positions /\ Start(c).pc \in {"new", "idle"}
  BY DEF Start, Positions, Pcs, Versions
<1>3. TypeOK
  <2>1. ReceiptsTyped /\ ChainTyped /\ SaleTyped
    BY <1>1 DEF Init, ReceiptsTyped, ChainTyped, SaleTyped
  <2> QED BY <1>1, <1>2, <2>1, Apart DEF Init
<1>4. CallsHold
  BY <1>2 DEF Init, CallsHold, Reached
<1>5. OwnRecord /\ Consented
  BY DEF Init, OwnRecord, Consented, NoRecord
<1>6. PassedAsValued /\ SoldAsValued
  BY DEF Init, PassedAsValued, SoldAsValued, NoRecord, NoResult, Matches
<1> QED BY <1>3, <1>4, <1>5, <1>6 DEF ContributionInv

LEMMA StepHolds == ContributionInv /\ [Next]_vars => ContributionInv'
<1> SUFFICES ASSUME ContributionInv, [Next]_vars PROVE ContributionInv'
  OBVIOUS
<1>1. CASE UNCHANGED vars
  <2>1. TypeOK' /\ CallsHold'
    BY <1>1, CallsStay, Apart
    DEF ContributionInv, ReceiptsTyped, SaleTyped, vars, recordVars, saleVars
  <2>2. OwnRecord' /\ PassedAsValued' /\ Consented' /\ SoldAsValued'
    BY <1>1, RowsStay DEF vars, recordVars, saleVars
  <2> QED BY <2>1, <2>2 DEF ContributionInv
<1>2. ASSUME NEW u \in Uploads, Process(u) \/ Revoke(u) PROVE ContributionInv'
  BY <1>2, CreateReceiptHolds, ReadTailHolds, AppendAttestationHolds, PackageHolds, RevokeHolds
  DEF Process
<1>3. ASSUME NEW r \in Reports, ReportMatches(r) PROVE ContributionInv'
  BY <1>3, ReportHolds, RecordMatchesHolds DEF ReportMatches
<1>4. ASSUME NEW c \in Callers, RunForConversation(c) \/ CallFails(c) \/ CallDies(c)
      PROVE  ContributionInv'
  BY <1>4, QaMatchesHolds, QaRecordHolds, QaConsentHolds, QaVerdictHolds, CallFailsHolds,
     CallDiesHolds
  DEF RunForConversation
<1>5. ASSUME NEW b \in Briefs, NEW k \in Conversations,
             Reserve(b, k) \/ Claim(b, k) \/ Cancel(<<b, k>>)
      PROVE  ContributionInv'
  BY <1>5, AllocationHolds, ClaimHolds
<1>6. ASSUME NEW b \in Briefs, Turn(b) PROVE ContributionInv'
  BY <1>6, TurnHolds
<1> QED BY <1>1, <1>2, <1>3, <1>4, <1>5, <1>6 DEF Next

LEMMA ContributionAlways == Spec => []ContributionInv
BY InitHolds, StepHolds, PTL DEF Spec

(* Rows and what calls have read keep their shape.                         *)
THEOREM ContributionTypeCorrect == Spec => []TypeOK
<1>1. ContributionInv => TypeOK
  BY DEF ContributionInv
<1> QED BY <1>1, ContributionAlways, PTL

(* What is available to buyers or sold has a receipt that is not           *)
(* withdrawn, whatever uploads and withdrawals interleave.                 *)
THEOREM ConsentedAlways == Spec => []Consented
<1>1. ContributionInv => Consented
  BY DEF ContributionInv
<1> QED BY <1>1, ContributionAlways, PTL

(* What is sold is the bundle that was reserved, at the value of that      *)
(* bundle, although QA results are overwritten in any order.               *)
THEOREM SoldAsValuedAlways == Spec => []SoldAsValued
<1>1. ContributionInv => SoldAsValued
  BY DEF ContributionInv
<1> QED BY <1>1, ContributionAlways, PTL

(* Neither a later upload nor a withdrawal touches a sold record.          *)
THEOREM SoldIsFinalAlways == Spec => SoldIsFinal
<1> DEFINE Final == \A k \in Conversations :
                      record[k].status = "sold" =>
                        record'[k] = record[k] /\ record[k].upload \notin withdrawn'
<1>1. ASSUME ContributionInv, ContributionInv', [Next]_vars PROVE [Final]_vars
  <2>0. \A k \in Conversations :
          record[k].status = "sold" /\ record'[k] = record[k] => record[k].upload \notin withdrawn'
    BY <1>1 DEF ContributionInv, Consented
  <2> SUFFICES ASSUME NEW k \in Conversations, record[k].status = "sold"
               PROVE  record'[k] = record[k]
    BY <2>0
  <2>1. record \in [Conversations -> RecordStates]
    BY <1>1, Apart DEF ContributionInv
  <2>2. CASE UNCHANGED record
    BY <2>2
  <2>3. ASSUME NEW u \in Uploads, Package(u) PROVE record'[k] = record[k]
    BY <2>1, <2>3 DEF Package
  <2>4. ASSUME NEW u \in Uploads, Revoke(u) PROVE record'[k] = record[k]
    BY <2>1, <2>4 DEF Revoke
  <2>5. ASSUME NEW b \in Briefs, NEW j \in Conversations, Claim(b, j)
        PROVE  record'[k] = record[k]
    BY <2>1, <2>5 DEF Claim
  <2>6. ASSUME NEW u \in Uploads, CreateReceipt(u) \/ ReadTail(u) \/ AppendAttestation(u)
        PROVE  UNCHANGED record
    BY <2>6 DEF CreateReceipt, ReadTail, AppendAttestation, recordVars
  <2>7. ASSUME NEW r \in Reports, ReportMatches(r) PROVE UNCHANGED record
    BY <2>7 DEF ReportMatches, Report, RecordMatches, recordVars
  <2>8. ASSUME NEW c \in Callers, RunForConversation(c) \/ CallFails(c) \/ CallDies(c)
        PROVE  UNCHANGED record
    BY <2>8 DEF RunForConversation, QaMatches, QaRecord, QaConsent, QaVerdict, CallFails,
       CallDies, recordVars
  <2>9. ASSUME NEW b \in Briefs, NEW j \in Conversations, Reserve(b, j) \/ Cancel(<<b, j>>)
        PROVE  UNCHANGED record
    BY <2>9 DEF Reserve, Acceptable, Cancel, recordVars
  <2>10. ASSUME NEW b \in Briefs, Turn(b) PROVE UNCHANGED record
    BY <2>10 DEF Turn, recordVars
  <2>11. UNCHANGED vars => UNCHANGED record
    BY DEF vars, recordVars
  <2> QED BY <1>1, <2>2, <2>3, <2>4, <2>5, <2>6, <2>7, <2>8, <2>9, <2>10, <2>11 DEF Next, Process
<1> QED BY <1>1, ContributionAlways, PTL DEF Spec, SoldIsFinal

-----------------------------------------------------------------------------
(* The lineage of bundles.  The attestations an upload has written so far, *)
(* a set of positions in a chain c, are linked to each other, and the      *)
(* upload knows the last of them; a bundle keeps what its upload knew.     *)
Own(c, u) == {i \in DOMAIN c : c[i].upload = u}
Linked(c, u) ==
  \A i \in Own(c, u) : \A j \in Own(c, u) :
    j < i => c[i].prev \in Own(c, u) /\ j <= c[i].prev
EndsAt(c, u, tail) == tail \in Own(c, u) /\ \A i \in Own(c, u) : i <= tail
Complete(c, u, tail) == Cardinality(Own(c, u)) = Prompts[u] /\ EndsAt(c, u, tail)
Writing == {"new", "tail", "append", "package"}

Written(c, u, local) ==
  /\ IsFiniteSet(Own(c, u)) /\ Linked(c, u)
  /\ local.pc \in {"new", "tail"} => Own(c, u) = {}
  /\ local.pc = "append" =>
       /\ Cardinality(Own(c, u)) = Prompts[u] - local.left
       /\ Own(c, u) = {} \/ EndsAt(c, u, local.tail)
  /\ local.pc = "package" => Complete(c, u, local.tail)

Bundled(c, row, locals) ==
  IF row.status = "none" THEN row.upload = NoUpload
  ELSE locals[row.upload].pc \notin Writing /\ Complete(c, row.upload, row.tail)

LineageInv ==
  /\ ContributionInv
  /\ \A u \in Uploads : Written(chain, u, at[u])
  /\ \A k \in Conversations : Bundled(chain, record[k], at)

(* Nothing is lost while no attestation is written and no bundle stored.   *)
LEMMA LineageStays ==
  ASSUME LineageInv, ContributionInv', UNCHANGED chain,
         \A u \in Uploads : at'[u] = at[u] \/ at'[u].pc \notin Writing,
         \A k \in Conversations : /\ record'[k].upload = record[k].upload
                                  /\ record'[k].tail = record[k].tail
                                  /\ record'[k].status = "none" <=> record[k].status = "none"
  PROVE  LineageInv'
<1>1. ASSUME NEW u \in Uploads PROVE Written(chain', u, at'[u])
  <2>1. Written(chain, u, at[u])
    BY DEF LineageInv
  <2> QED BY <2>1 DEF Written, Writing
<1>2. ASSUME NEW k \in Conversations PROVE Bundled(chain', record'[k], at')
  <2>1. Bundled(chain, record[k], at)
    BY DEF LineageInv
  <2>2. record[k].status # "none" => record[k].upload \in Uploads
    BY DEF LineageInv, ContributionInv, OwnRecord
  <2> QED BY <2>1, <2>2 DEF Bundled
<1> QED BY <1>1, <1>2 DEF LineageInv

(* Before the first attestation there is none.                             *)
LEMMA BeginHolds ==
  ASSUME LineageInv, ContributionInv', NEW u \in Uploads, CreateReceipt(u) \/ ReadTail(u)
  PROVE  LineageInv'
<1>1. at \in [Callers -> Positions] /\ u \in Callers /\ Prompts[u] \in Nat
  BY Apart, UploadsAssumption DEF LineageInv, ContributionInv, Callers
<1>2. at[u] \in Positions
  BY <1>1
<1>3. /\ at[u].pc \in {"new", "tail"} /\ UNCHANGED <<chain, record>>
      /\ \A o \in Callers \ {u} : at'[o] = at[o]
  BY <1>1 DEF CreateReceipt, ReadTail, Goto, Step, recordVars
<1>4. at'[u].pc \in {"tail", "append"} /\ (at'[u].pc = "append" => at'[u].left = Prompts[u])
  BY <1>1, <1>2 DEF CreateReceipt, ReadTail, Goto, Step, Positions
<1>5. ASSUME NEW o \in Uploads PROVE Written(chain', o, at'[o])
  <2>1. Written(chain, o, at[o])
    BY DEF LineageInv
  <2>2. CASE o = u
    <3>1. Own(chain, u) = {} /\ Cardinality({}) = 0
      BY <1>3, <2>1, <2>2, FS_EmptySet DEF Written
    <3>2. at'[u].pc = "append" => Cardinality(Own(chain, u)) = Prompts[u] - at'[u].left
      BY <1>1, <1>4, <3>1
    <3> QED BY <1>3, <1>4, <2>1, <2>2, <3>1, <3>2 DEF Written
  <2>3. CASE o # u
    BY <1>3, <2>1, <2>3 DEF Callers
  <2> QED BY <2>2, <2>3
<1>6. ASSUME NEW k \in Conversations PROVE Bundled(chain', record'[k], at')
  <2>1. Bundled(chain, record[k], at)
    BY DEF LineageInv
  <2>2. record[k].status # "none" => record[k].upload \in Uploads /\ record[k].upload # u
    BY <1>3, <2>1 DEF LineageInv, ContributionInv, OwnRecord, Bundled, Writing
  <2> QED BY <1>3, <2>1, <2>2 DEF Bundled, Callers
<1> QED BY <1>5, <1>6 DEF LineageInv

(* An attestation extends the last one of its own upload, if there is one, *)
(* whatever others have put between the two.                               *)
LEMMA AppendHolds ==
  ASSUME LineageInv, ContributionInv', NEW u \in Uploads, AppendAttestation(u)
  PROVE  LineageInv'
<1> DEFINE n == Len(chain) + 1
           new == [upload |-> u, prev |-> at[u].tail]
<1>1. /\ at \in [Callers -> Positions] /\ u \in Callers /\ Prompts[u] \in Nat
      /\ chain \in Seq(Attestations)
  BY Apart, UploadsAssumption DEF LineageInv, ContributionInv, Callers, ChainTyped
<1>2. at[u] \in Positions
  BY <1>1
<1>3. at[u].pc = "append" /\ at[u].tail \in Nat /\ at[u].left \in Nat /\ at[u].left > 0
  BY <1>1, <1>2 DEF AppendAttestation, LineageInv, ContributionInv, CallsHold, Reached, Positions
<1>4. chain' = Append(chain, new) /\ UNCHANGED record
  BY DEF AppendAttestation
<1>5. new \in Attestations
  BY <1>3 DEF Attestations
<1> HIDE DEF new
<1>6. /\ n \in Nat /\ DOMAIN chain' = 1..n /\ DOMAIN chain = 1..Len(chain)
      /\ n \notin DOMAIN chain /\ \A i \in DOMAIN chain : i < n
      /\ \A i \in DOMAIN chain : chain'[i] = chain[i]
      /\ chain'[n] = new /\ Len(chain') = n
  BY <1>1, <1>4, <1>5
<1>7. new.upload = u /\ new.prev = at[u].tail
  BY DEF new
<1> HIDE DEF n
<1>8. DOMAIN chain' = DOMAIN chain \cup {n}
  BY <1>6 DEF n
<1>9. Own(chain', u) = Own(chain, u) \cup {n}
  BY <1>6, <1>7, <1>8 DEF Own
<1>10. \A o \in Uploads \ {u} : Own(chain', o) = Own(chain, o)
  BY <1>6, <1>7, <1>8 DEF Own
<1>11. n \notin Own(chain, u) /\ \A o \in Uploads : Own(chain, o) \subseteq DOMAIN chain
  BY <1>6 DEF Own
<1>12. ASSUME NEW o \in Uploads \ {u}
       PROVE  /\ Linked(chain', o) <=> Linked(chain, o)
              /\ \A tail : EndsAt(chain', o, tail) <=> EndsAt(chain, o, tail)
              /\ \A tail : Complete(chain', o, tail) <=> Complete(chain, o, tail)
  <2>1. Linked(chain', o) <=> Linked(chain, o)
    BY <1>6, <1>10, <1>11 DEF Linked
  <2>2. \A tail : EndsAt(chain', o, tail) <=> EndsAt(chain, o, tail)
    BY <1>10 DEF EndsAt
  <2> QED BY <1>10, <2>1, <2>2 DEF Complete
<1>13. Written(chain, u, at[u])
  BY DEF LineageInv
<1>14. /\ IsFiniteSet(Own(chain', u))
       /\ Cardinality(Own(chain', u)) = Prompts[u] - at[u].left + 1
  <2> DEFINE own == Own(chain, u)
  <2>1. IsFiniteSet(own)
    BY <1>13 DEF Written
  <2>3. Cardinality(own) = Prompts[u] - at[u].left
    BY <1>3, <1>13 DEF Written
  <2> HIDE DEF own
  <2>2. IsFiniteSet(own \cup {n}) /\ (n \notin own => Cardinality(own \cup {n}) = Cardinality(own) + 1)
    BY <2>1, FS_AddElement
  <2> QED BY <1>9, <1>11, <2>2, <2>3 DEF own
<1>15. Linked(chain', u)
  <2> SUFFICES ASSUME NEW i \in Own(chain', u), NEW j \in Own(chain', u), j < i
               PROVE  chain'[i].prev \in Own(chain', u) /\ j <= chain'[i].prev
    BY DEF Linked
  <2>1. CASE i = n
    <3>1. j \in Own(chain, u)
      BY <1>6, <1>9, <2>1
    <3>2. EndsAt(chain, u, at[u].tail)
      BY <1>3, <1>13, <3>1 DEF Written
    <3> QED BY <1>6, <1>7, <1>9, <2>1, <3>1, <3>2 DEF EndsAt
  <2>2. CASE i # n
    <3>1. i \in Own(chain, u) /\ i < n
      BY <1>6, <1>9, <1>11, <2>2
    <3>2. j # n
      BY <1>6, <1>11, <3>1 DEF Own
    <3>3. j \in Own(chain, u)
      BY <1>9, <3>2
    <3>4. chain[i].prev \in Own(chain, u) /\ j <= chain[i].prev
      BY <1>13, <3>1, <3>3 DEF Written, Linked
    <3> QED BY <1>6, <1>9, <1>11, <3>1, <3>4
  <2> QED BY <2>1, <2>2
<1>16. EndsAt(chain', u, n)
  BY <1>6, <1>9, <1>11 DEF EndsAt
<1>17. /\ \A o \in Callers \ {u} : at'[o] = at[o]
       /\ \/ at'[u].pc = "append" /\ at'[u].left = at[u].left - 1 /\ at'[u].tail = n
          \/ at'[u].pc = "package" /\ at[u].left = 1 /\ at'[u].tail = n
          \/ at'[u].pc \notin Writing
  <2>1. CASE at[u].left > 1 \/ u \in Kept
    <3>1. at' = [at EXCEPT ![u] = [at[u] EXCEPT !.tail = Len(chain'), !.left = @ - 1,
                                     !.pc = IF at[u].left > 1 THEN "append" ELSE "package"]]
      BY <2>1 DEF AppendAttestation, Step
    <3>2. at[u].left > 1 \/ at[u].left = 1
      BY <1>3
    <3> QED BY <1>1, <1>2, <1>6, <3>1, <3>2 DEF Positions
  <2>2. CASE ~ (at[u].left > 1 \/ u \in Kept)
    <3>1. at' = [at EXCEPT ![u] = [Start(u) EXCEPT !.pc = Rest(u)]]
      BY <2>2 DEF AppendAttestation, End, Step
    <3> QED BY <1>1, <3>1 DEF Start, Rest, Writing
  <2> QED BY <2>1, <2>2
<1>18. ASSUME NEW o \in Uploads PROVE Written(chain', o, at'[o])
  <2>1. CASE o = u
    <3>1. CASE at'[u].pc = "append" /\ at'[u].left = at[u].left - 1 /\ at'[u].tail = n
      BY <1>1, <1>3, <1>14, <1>15, <1>16, <2>1, <3>1 DEF Written
    <3>2. CASE at'[u].pc = "package" /\ at[u].left = 1 /\ at'[u].tail = n
      BY <1>1, <1>14, <1>15, <1>16, <2>1, <3>2 DEF Written, Complete
    <3>3. CASE at'[u].pc \notin Writing
      BY <1>14, <1>15, <2>1, <3>3 DEF Written, Writing
    <3> QED BY <1>17, <3>1, <3>2, <3>3
  <2>2. CASE o # u
    <3>1. Written(chain, o, at[o]) /\ at'[o] = at[o]
      BY <1>17, <2>2 DEF LineageInv, Callers
    <3> QED BY <1>10, <1>12, <2>2, <3>1 DEF Written
  <2> QED BY <2>1, <2>2
<1>19. ASSUME NEW k \in Conversations PROVE Bundled(chain', record'[k], at')
  <2>1. Bundled(chain, record[k], at)
    BY DEF LineageInv
  <2>2. record[k].status # "none" => record[k].upload \in Uploads \ {u}
    BY <1>3, <2>1 DEF LineageInv, ContributionInv, OwnRecord, Bundled, Writing
  <2> QED BY <1>4, <1>12, <1>17, <2>1, <2>2 DEF Bundled, Callers
<1> QED BY <1>18, <1>19 DEF LineageInv

(* A bundle takes over the end of its upload, which writes no more.        *)
LEMMA BundleHolds ==
  ASSUME LineageInv, ContributionInv', NEW u \in Uploads, Package(u)
  PROVE  LineageInv'
<1> DEFINE k == ConversationOf[u]
<1>1. /\ at \in [Callers -> Positions] /\ u \in Callers /\ k \in Conversations
      /\ record \in [Conversations -> RecordStates]
  BY Apart, UploadsAssumption DEF LineageInv, ContributionInv, Callers
<1>2. at[u].pc = "package" /\ UNCHANGED chain
  BY DEF Package
<1>3. /\ \A o \in Callers \ {u} : at'[o] = at[o]
      /\ at'[u].pc \notin Writing
  <2>1. PICK to : at' = [at EXCEPT ![u] = to] /\ to.pc \notin Writing
    <3>1. CASE record[k].status = "sold"
      <4>1. at' = [at EXCEPT ![u] = [Start(u) EXCEPT !.pc = Rest(u)]]
        BY <3>1 DEF Package, End, Step
      <4>2. [Start(u) EXCEPT !.pc = Rest(u)].pc \notin Writing
        BY DEF Start, Rest, Writing
      <4> QED BY <4>1, <4>2
    <3>2. CASE record[k].status # "sold"
      <4>1. at' = [at EXCEPT ![u] = [Start(u) EXCEPT !.pc = "matches", !.todo = {k}]]
        BY <3>2 DEF Package, Step
      <4>2. [Start(u) EXCEPT !.pc = "matches", !.todo = {k}].pc \notin Writing
        BY DEF Start, Writing
      <4> QED BY <4>1, <4>2
    <3> QED BY <3>1, <3>2
  <2> QED BY <1>1, <2>1
<1>4. CASE record[k].status = "sold"
  <2>1. UNCHANGED record
    BY <1>4 DEF Package
  <2> QED BY <1>2, <1>3, <2>1, LineageStays DEF Callers
<1>5. CASE record[k].status # "sold"
  <2>1. record' = [record EXCEPT ![k] =
                     [status |-> "available", upload |-> u, tail |-> at[u].tail]]
    BY <1>5 DEF Package
  <2>2. ASSUME NEW o \in Uploads PROVE Written(chain', o, at'[o])
    <3>1. Written(chain, o, at[o])
      BY DEF LineageInv
    <3> QED BY <1>2, <1>3, <3>1 DEF Written, Writing, Callers
  <2>3. ASSUME NEW j \in Conversations PROVE Bundled(chain', record'[j], at')
    <3>1. CASE j = k
      <4>1. Complete(chain, u, at[u].tail)
        BY <1>2 DEF LineageInv, Written
      <4>2. record'[k] = [status |-> "available", upload |-> u, tail |-> at[u].tail]
        BY <1>1, <2>1
      <4> QED BY <1>2, <1>3, <3>1, <4>1, <4>2 DEF Bundled
    <3>2. CASE j # k
      <4>1. Bundled(chain, record[j], at) /\ record'[j] = record[j]
        BY <1>1, <2>1, <3>2 DEF LineageInv
      <4>2. record[j].status # "none" => record[j].upload \in Uploads
        BY DEF LineageInv, ContributionInv, OwnRecord
      <4> QED BY <1>2, <1>3, <4>1, <4>2 DEF Bundled, Callers
    <3> QED BY <3>1, <3>2
  <2> QED BY <2>2, <2>3 DEF LineageInv
<1> QED BY <1>4, <1>5

(* All other steps leave attestations, and what bundles are, alone.        *)
LEMMA OthersHold ==
  ASSUME LineageInv, ContributionInv', [Next]_vars,
         \A u \in Uploads : ~ Process(u)
  PROVE  LineageInv'
<1>1. /\ at \in [Callers -> Positions] /\ record \in [Conversations -> RecordStates]
      /\ \A k \in Conversations : record[k].status = "none" => record[k].upload \notin Uploads
  BY Apart, NoUploadAssumption DEF LineageInv, ContributionInv, Bundled
<1> DEFINE Calls == \A u \in Uploads : at'[u] = at[u] \/ at'[u].pc \notin Writing
           Rows == \A k \in Conversations :
                     /\ record'[k].upload = record[k].upload /\ record'[k].tail = record[k].tail
                     /\ record'[k].status = "none" <=> record[k].status = "none"
<1>2. ASSUME NEW c \in Callers, NEW to, Step(c, to), c \in Reports \/ to.pc \notin Writing
      PROVE  Calls
  BY <1>1, <1>2, CallsAssumption DEF Step, Callers
<1>3. ASSUME NEW c \in Callers, End(c) PROVE Calls
  <2>1. Rest(c) \notin Writing /\ [Start(c) EXCEPT !.pc = Rest(c)].pc = Rest(c)
    BY DEF Rest, Start, Writing
  <2> QED BY <1>2, <1>3, <2>1 DEF End
<1>4. ASSUME NEW c \in Callers, NextConversation(c) PROVE Calls
  <2>1. [Start(c) EXCEPT !.pc = "matches", !.todo = at[c].todo].pc \notin Writing
    BY DEF Start, Writing
  <2> QED BY <1>2, <1>3, <1>4, <2>1 DEF NextConversation
<1>5. ASSUME NEW r \in Reports, ReportMatches(r) PROVE UNCHANGED <<chain, record>> /\ Calls
  <2>1. r \in Callers /\ UNCHANGED <<chain, record>>
    BY <1>5 DEF Callers, ReportMatches, Report, RecordMatches, recordVars
  <2> QED BY <1>2, <1>5, <2>1 DEF ReportMatches, Report, RecordMatches
<1>6. ASSUME NEW c \in Callers, RunForConversation(c) PROVE UNCHANGED <<chain, record>> /\ Calls
  <2>1. at[c] \in Positions
    BY <1>1
  <2>2. ASSUME NEW k \in Conversations, QaMatches(c, k) PROVE UNCHANGED <<chain, record>> /\ Calls
    <3>1. PICK briefs, eligible :
            Step(c, [at[c] EXCEPT !.pc = "record", !.todo = @ \ {k}, !.cur = {k},
                                  !.briefs = briefs, !.eligible = eligible])
      BY <2>2 DEF QaMatches
    <3> QED BY <1>2, <2>1, <2>2, <3>1 DEF QaMatches, Positions, Writing, recordVars
  <2>3. ASSUME NEW k \in Conversations, QaRecord(c, k) PROVE UNCHANGED <<chain, record>> /\ Calls
    <3>1. CASE NextConversation(c)
      BY <1>4, <2>3, <3>1 DEF QaRecord, recordVars
    <3>2. CASE ~ NextConversation(c)
      <4>1. PICK seen, eligible :
              Step(c, [at[c] EXCEPT !.pc = "consent", !.seen = seen, !.eligible = eligible])
        BY <2>3, <3>2 DEF QaRecord
      <4> QED BY <1>2, <2>1, <2>3, <4>1 DEF QaRecord, Positions, Writing, recordVars
    <3> QED BY <3>1, <3>2
  <2>4. ASSUME QaConsent(c) PROVE UNCHANGED <<chain, record>> /\ Calls
    <3>1. PICK eligible : Step(c, [at[c] EXCEPT !.pc = "verdict", !.eligible = eligible])
      BY <2>4 DEF QaConsent
    <3> QED BY <1>2, <2>1, <2>4, <3>1 DEF QaConsent, Positions, Writing, recordVars
  <2>5. ASSUME NEW b \in Briefs, NEW k \in Conversations, QaVerdict(c, b, k)
        PROVE  UNCHANGED <<chain, record>> /\ Calls
    <3>1. CASE NextConversation(c)
      BY <1>4, <2>5, <3>1 DEF QaVerdict, recordVars
    <3>2. CASE ~ NextConversation(c)
      <4>1. Step(c, [at[c] EXCEPT !.briefs = @ \ {b}]) /\ at[c].pc = "verdict"
        BY <2>5, <3>2 DEF QaVerdict
      <4> QED BY <1>2, <2>1, <2>5, <4>1 DEF QaVerdict, Positions, Writing, recordVars
    <3> QED BY <3>1, <3>2
  <2> QED BY <1>6, <2>2, <2>3, <2>4, <2>5 DEF RunForConversation
<1>7. ASSUME NEW c \in Callers, CallFails(c) \/ CallDies(c)
      PROVE  UNCHANGED <<chain, record>> /\ Calls
  <2>1. UNCHANGED <<chain, record>>
    BY <1>7 DEF CallFails, CallDies, recordVars
  <2>2. CASE CallFails(c)
    BY <1>3, <1>4, <2>1, <2>2 DEF CallFails
  <2>3. CASE CallDies(c)
    <3>1. Rest(c) \notin Writing /\ [Start(c) EXCEPT !.pc = Rest(c)].pc = Rest(c)
      BY DEF Rest, Start, Writing
    <3> QED BY <1>2, <2>1, <2>3, <3>1 DEF CallDies
  <2> QED BY <1>7, <2>1, <2>2, <2>3
<1>8. ASSUME NEW u \in Uploads, Revoke(u) PROVE UNCHANGED <<chain, at>> /\ Rows
  <2>1. UNCHANGED <<chain, at>> /\ ConversationOf[u] \in Conversations
    BY <1>8, UploadsAssumption DEF Revoke
  <2>2. CASE record[ConversationOf[u]].upload = u
    <3>1. record' = [record EXCEPT ![ConversationOf[u]].status = "revoked"]
      BY <1>8, <2>2 DEF Revoke
    <3>2. record[ConversationOf[u]].status # "none"
      BY <1>1, <2>1, <2>2
    <3> QED BY <1>1, <2>1, <3>1, <3>2 DEF RecordStates
  <2>3. CASE record[ConversationOf[u]].upload # u
    BY <1>8, <2>1, <2>3 DEF Revoke
  <2> QED BY <2>2, <2>3
<1>9. ASSUME NEW b \in Briefs, NEW k \in Conversations,
             Reserve(b, k) \/ Claim(b, k) \/ Cancel(<<b, k>>)
      PROVE  UNCHANGED <<chain, at>> /\ Rows
  <2>1. CASE Claim(b, k)
    <3>1. /\ UNCHANGED <<chain, at>> /\ record[k].status = "available"
          /\ record' = [record EXCEPT ![k].status = "sold"]
      BY <2>1 DEF Claim
    <3> QED BY <1>1, <3>1 DEF RecordStates
  <2>2. CASE Reserve(b, k) \/ Cancel(<<b, k>>)
    BY <2>2 DEF Reserve, Acceptable, Cancel, recordVars
  <2> QED BY <1>9, <2>1, <2>2
<1>10. (\E b \in Briefs : Turn(b)) \/ UNCHANGED vars => UNCHANGED <<chain, at>> /\ Rows
  BY DEF Turn, vars, recordVars
<1>11. UNCHANGED chain /\ Calls /\ Rows
  BY <1>5, <1>6, <1>7, <1>8, <1>9, <1>10 DEF Next
<1> QED BY <1>11, LineageStays

LEMMA LineageStep == LineageInv /\ [Next]_vars => LineageInv'
<1> SUFFICES ASSUME LineageInv, [Next]_vars PROVE LineageInv'
  OBVIOUS
<1>1. ContributionInv'
  BY StepHolds DEF LineageInv
<1>2. ASSUME NEW u \in Uploads, Process(u) PROVE LineageInv'
  BY <1>1, <1>2, BeginHolds, AppendHolds, BundleHolds DEF Process
<1> QED BY <1>1, <1>2, OthersHold

LEMMA InitLineage == Init => LineageInv
<1> SUFFICES ASSUME Init PROVE LineageInv
  OBVIOUS
<1>1. \A u \in Uploads : Own(chain, u) = {} /\ at[u] = Start(u) /\ at[u].pc = "new"
  BY DEF Init, Own, Start, Callers
<1>2. \A u \in Uploads : Written(chain, u, at[u])
  BY <1>1, FS_EmptySet DEF Written, Linked
<1>3. \A k \in Conversations : Bundled(chain, record[k], at)
  BY DEF Init, Bundled, NoRecord
<1> QED BY <1>2, <1>3, InitHolds DEF LineageInv

(* A bundle's lineage is complete although attestations of other uploads   *)
(* come between its own and the chain forks.                               *)
THEOREM LineageAlways == Spec => []Lineage
<1>1. LineageInv => Lineage
  <2> SUFFICES ASSUME LineageInv, NEW k \in Conversations, record[k].status # "none"
               PROVE  LET own == {i \in DOMAIN chain : chain[i].upload = record[k].upload} IN
                      /\ Cardinality(own) = Prompts[record[k].upload]
                      /\ record[k].tail \in own
                      /\ \A i \in own :
                           /\ i <= record[k].tail
                           /\ \A j \in own : j < i => chain[i].prev \in own /\ j <= chain[i].prev
    BY DEF Lineage
  <2> DEFINE u == record[k].upload
  <2>1. u \in Uploads
    BY DEF LineageInv, ContributionInv, OwnRecord
  <2>2. Complete(chain, u, record[k].tail) /\ Linked(chain, u)
    BY <2>1 DEF LineageInv, Written, Bundled
  <2> QED BY <2>2 DEF Complete, EndsAt, Linked, Own
<1> QED BY <1>1, InitLineage, LineageStep, PTL DEF Spec

-----------------------------------------------------------------------------
(* What the contributor is told.  An allocation is active from its         *)
(* reservation on, unless it is cancelled; a conversation has one active   *)
(* allocation at most, so its contributor is told of that one.             *)
Active(m) == alloc[m].status \in {"reserved", "sold"}
ActiveOnce ==
  \A k \in Conversations, b \in Briefs, o \in Briefs :
    Active(<<b, k>>) /\ Active(<<o, k>>) => b = o

TellingInv == ContributionInv /\ ActiveOnce

(* Only a reservation makes an allocation active, and it looks first.      *)
LEMMA ActiveStep ==
  ASSUME ContributionInv, ActiveOnce, [Next]_vars
  PROVE  ActiveOnce'
<1>0. alloc \in [Matches -> Allocations] /\ \A b \in Briefs, k \in Conversations : <<b, k>> \in Matches
  BY Apart DEF ContributionInv, SaleTyped, Matches
<1>1. CASE UNCHANGED alloc
  BY <1>1 DEF ActiveOnce, Active
<1>2. ASSUME NEW b \in Briefs, NEW k \in Conversations, Reserve(b, k) PROVE ActiveOnce'
  <2>1. \A o \in Briefs : ~ Active(<<o, k>>)
    BY <1>2 DEF Reserve, Acceptable, Active
  <2>2. \A m \in Matches : m # <<b, k>> => alloc'[m] = alloc[m]
    BY <1>0, <1>2 DEF Reserve
  <2>3. \A j \in Conversations, o \in Briefs :
          Active(<<o, j>>)' => Active(<<o, j>>) \/ (o = b /\ j = k)
    BY <1>0, <2>2 DEF Active
  <2> QED BY <2>1, <2>3 DEF ActiveOnce
<1>3. ASSUME NEW b \in Briefs, NEW k \in Conversations, Claim(b, k) \/ Cancel(<<b, k>>)
      PROVE  ActiveOnce'
  <2>1. Active(<<b, k>>)
    BY <1>3 DEF Claim, Cancel, Active
  <2>2. \A m \in Matches : m # <<b, k>> => alloc'[m] = alloc[m]
    BY <1>0, <1>3 DEF Claim, Cancel
  <2>3. \A j \in Conversations, o \in Briefs : Active(<<o, j>>)' => Active(<<o, j>>)
    BY <1>0, <2>1, <2>2 DEF Active
  <2> QED BY <2>3 DEF ActiveOnce
<1>4. ASSUME NEW u \in Uploads, Process(u) \/ Revoke(u) PROVE UNCHANGED alloc
  BY <1>4 DEF Process, CreateReceipt, ReadTail, AppendAttestation, Package, Revoke, saleVars
<1>5. ASSUME NEW r \in Reports, ReportMatches(r) PROVE UNCHANGED alloc
  BY <1>5 DEF ReportMatches, Report, RecordMatches, saleVars
<1>6. ASSUME NEW c \in Callers, RunForConversation(c) \/ CallFails(c) \/ CallDies(c)
      PROVE  UNCHANGED alloc
  BY <1>6 DEF RunForConversation, QaMatches, QaRecord, QaConsent, QaVerdict, CallFails, CallDies,
     saleVars
<1>7. (\E b \in Briefs : Turn(b)) \/ UNCHANGED vars => UNCHANGED alloc
  BY DEF Turn, vars, saleVars
<1> QED BY <1>1, <1>2, <1>3, <1>4, <1>5, <1>6, <1>7 DEF Next

(* What Told says of a conversation whose record is not revoked.           *)
Allocated(k) == {alloc[<<b, k>>].status : b \in Briefs} \ {"none"}

LEMMA ToldOfSale ==
  ASSUME TellingInv, NEW k \in Conversations, NEW b \in Briefs,
         alloc[<<b, k>>].status = "sold", record[k].status # "revoked"
  PROVE  Told(k) = "sold"
<1>1. Allocated(k) # {} /\ "sold" \in Allocated(k) /\ Allocated(k) # {"cancelled"}
  BY DEF Allocated
<1>2. \A status \in Allocated(k) : status # "cancelled" => status = "sold"
  <2> SUFFICES ASSUME NEW o \in Briefs, alloc[<<o, k>>].status \notin {"none", "cancelled"}
               PROVE  alloc[<<o, k>>].status = "sold"
    BY DEF Allocated
  <2>1. <<o, k>> \in Matches /\ alloc \in [Matches -> Allocations]
    BY Apart DEF TellingInv, ContributionInv, SaleTyped, Matches
  <2>2. Active(<<o, k>>) /\ Active(<<b, k>>)
    BY <2>1 DEF Active, Allocations
  <2> QED BY <2>2 DEF TellingInv, ActiveOnce
<1>3. (CHOOSE status \in Allocated(k) : status # "cancelled") = "sold"
  BY <1>1, <1>2
<1> QED BY <1>1, <1>3 DEF Told, Allocated

(* A conversation nobody has reserved.                                     *)
LEMMA ToldOfQa ==
  ASSUME NEW k \in Conversations, Allocated(k) = {}, record[k].status # "revoked"
  PROVE  Told(k) =
           IF Checked(k, "passed") # {}
           THEN IF \E b \in Checked(k, "passed") : alloc[<<b, k>>].status = "none" /\ Ready(b, k)
                THEN "awaiting_acceptance" ELSE "awaiting_eligible_brief"
           ELSE IF Checked(k, "failed") # {} THEN "quality_not_passed" ELSE "awaiting_matching"
BY DEF Told, Allocated

(* One whose allocations were all cancelled, and any other that has one.   *)
LEMMA ToldOfAllocation ==
  ASSUME NEW k \in Conversations, Allocated(k) # {}, record[k].status # "revoked"
  PROVE  IF Allocated(k) = {"cancelled"} THEN Told(k) = "cancelled" ELSE Told(k) \in Allocated(k)
<1>1. CASE Allocated(k) = {"cancelled"}
  BY <1>1 DEF Told, Allocated
<1>2. CASE Allocated(k) # {"cancelled"}
  <2>1. \E status \in Allocated(k) : status # "cancelled"
    BY <1>2
  <2>2. (CHOOSE status \in Allocated(k) : status # "cancelled") \in Allocated(k)
    BY <2>1
  <2>3. Told(k) = CHOOSE status \in Allocated(k) : status # "cancelled"
    BY <1>2 DEF Told, Allocated
  <2> QED BY <1>2, <2>2, <2>3
<1> QED BY <1>1, <1>2

(* What the contributor is told is so: reserve() refuses what awaits       *)
(* acceptance for the brief's limits and funds only, what it would refuse  *)
(* for nothing else is not said to wait for anything else, and the sold    *)
(* conversations, and no others, are called sold.                          *)
THEOREM ToldAsIsAlways == Spec => []ToldAsIs
<1>1. Init => TellingInv
  <2>1. Init => ActiveOnce
    BY DEF Init, ActiveOnce, Active, NoResult, Matches
  <2> QED BY <2>1, InitHolds DEF TellingInv
<1>2. TellingInv /\ [Next]_vars => TellingInv'
  BY StepHolds, ActiveStep DEF TellingInv
<1>3. TellingInv => ToldAsIs
  <2> SUFFICES ASSUME TellingInv, NEW k \in Conversations, record[k].status # "none"
               PROVE  /\ Told(k) = "awaiting_acceptance" => \E b \in Briefs : Acceptable(b, k)
                      /\ (\E b \in Briefs : Acceptable(b, k)) =>
                           Told(k) \in {"awaiting_acceptance", "cancelled"}
                      /\ Told(k) = "sold" <=> record[k].status = "sold"
    BY DEF ToldAsIs
  <2>0. /\ \A b \in Briefs : <<b, k>> \in Matches
        /\ alloc \in [Matches -> Allocations] /\ record[k] \in RecordStates
        /\ record[k].status = "sold" <=> \E b \in Briefs : alloc[<<b, k>>].status = "sold"
    BY Apart DEF TellingInv, ContributionInv, SaleTyped, SoldAsValued, Matches
  <2>1. \A status \in Allocated(k) : status \in {"reserved", "cancelled", "sold"}
    BY <2>0 DEF Allocated, Allocations
  <2>2. CASE record[k].status = "revoked"
    <3>1. Told(k) = "withdrawn"
      BY <2>2 DEF Told
    <3>2. \A b \in Briefs : ~ Acceptable(b, k)
      BY <2>2 DEF Acceptable
    <3> QED BY <2>2, <3>1, <3>2
  <2>3. CASE record[k].status = "sold"
    <3>1. Told(k) = "sold"
      BY <2>0, <2>3, ToldOfSale
    <3>2. \A b \in Briefs : ~ Acceptable(b, k)
      BY <2>3 DEF Acceptable
    <3> QED BY <2>3, <3>1, <3>2
  <2>4. CASE record[k].status = "available"
    <3>1. "sold" \notin Allocated(k) /\ record[k].upload \notin withdrawn
      BY <2>0, <2>4 DEF Allocated, TellingInv, ContributionInv, Consented
    <3>2. CASE Allocated(k) = {}
      <4>1. \A b \in Briefs : alloc[<<b, k>>].status = "none"
        BY <3>2 DEF Allocated
      <4>2. ASSUME NEW b \in Checked(k, "passed"), Ready(b, k) PROVE Acceptable(b, k)
        BY <2>4, <3>1, <4>1, <4>2 DEF Checked, Ready, Acceptable
      <4>3. ASSUME NEW b \in Briefs, Acceptable(b, k)
            PROVE  b \in Checked(k, "passed") /\ Ready(b, k)
        <5>1. qa[<<b, k>>].cents > 0 /\ qa[<<b, k>>].cents \in Nat
          BY <2>0, <4>3, Apart DEF Acceptable, TellingInv, ContributionInv, PassedAsValued,
             SaleTyped, Results
        <5>2. qa[<<b, k>>].cents >= 1
          BY <5>1
        <5> QED BY <4>3, <5>2 DEF Acceptable, Checked, Ready
      <4>4. Told(k) = "awaiting_acceptance" <=> \E b \in Briefs : Acceptable(b, k)
        <5>1. Checked(k, "passed") \subseteq Briefs
          BY DEF Checked
        <5>2. (\E b \in Checked(k, "passed") : alloc[<<b, k>>].status = "none" /\ Ready(b, k))
              <=> \E b \in Briefs : Acceptable(b, k)
          BY <4>1, <4>2, <4>3, <5>1
        <5> QED BY <2>4, <3>2, <5>2, ToldOfQa
      <4>5. Told(k) # "sold"
        BY <2>4, <3>2, ToldOfQa
      <4> QED BY <2>4, <4>4, <4>5
    <3>3. CASE Allocated(k) # {}
      <4>1. (\E b \in Briefs : Acceptable(b, k)) => Allocated(k) = {"cancelled"}
        <5> SUFFICES ASSUME NEW b \in Briefs, Acceptable(b, k) PROVE Allocated(k) = {"cancelled"}
          OBVIOUS
        <5>1. \A o \in Briefs : alloc[<<o, k>>].status \notin {"reserved", "sold"}
          BY DEF Acceptable
        <5>2. \A status \in Allocated(k) : status = "cancelled"
          BY <2>1, <5>1 DEF Allocated
        <5> QED BY <3>3, <5>2
      <4>2. Told(k) \in {"cancelled", "reserved"} /\ (Allocated(k) = {"cancelled"} => Told(k) = "cancelled")
        BY <2>1, <2>4, <3>1, <3>3, ToldOfAllocation
      <4> QED BY <2>4, <4>1, <4>2
    <3> QED BY <3>2, <3>3
  <2> QED BY <2>0, <2>2, <2>3, <2>4 DEF RecordStates
<1> QED BY <1>1, <1>2, <1>3, PTL DEF Spec

-----------------------------------------------------------------------------
(* Every match is evaluated.  A match that waits for its first result is   *)
(* pending in some call: its conversation is still to do, or is the one at *)
(* hand and its brief is left.                                             *)
Running == {"matches", "record", "consent", "verdict"}
Pending(local, b, k) ==
  /\ local.pc \in Running
  /\ k \in local.todo \/ (local.pc # "matches" /\ k \in local.cur /\ b \in local.briefs)
Waits(b, k) ==
  /\ <<b, k>> \in matches /\ k \notin cut
  /\ record[k].status \in {"available", "revoked"}
  /\ qa[<<b, k>>].status = "none"

(* A call has one conversation at hand, an upload is about its own.        *)
Fits(c, local) ==
  /\ \A j \in local.cur, k \in local.cur : j = k
  /\ c \in Uploads => local.todo \cup local.cur \subseteq {ConversationOf[c]}

EvaluationInv ==
  /\ LineageInv
  /\ \A c \in Callers : Fits(c, at[c])
  /\ \A b \in Briefs, k \in Conversations : Waits(b, k) => \E c \in Callers : Pending(at[c], b, k)

(* Where a call goes, no match is left behind: one that waits from now on, *)
(* or that was pending in the call, is pending in it.                      *)
Attends(c, to) ==
  /\ Step(c, to)
  /\ Fits(c, to)
  /\ \A b \in Briefs, k \in Conversations :
       Waits(b, k)' /\ ~ Pending(to, b, k) => Waits(b, k) /\ ~ Pending(at[c], b, k)

LEMMA AttendsAll ==
  ASSUME EvaluationInv, LineageInv', NEW c \in Callers, \E to : Attends(c, to)
  PROVE  EvaluationInv'
<1>0. at \in [Callers -> Positions]
  BY Apart DEF EvaluationInv, LineageInv, ContributionInv
<1>1. PICK to : Attends(c, to)
  OBVIOUS
<1>2. at'[c] = to /\ \A o \in Callers : o # c => at'[o] = at[o]
  BY <1>0, <1>1 DEF Attends, Step
<1>3. \A o \in Callers : Fits(o, at'[o])
  BY <1>1, <1>2 DEF Attends, EvaluationInv
<1>4. ASSUME NEW b \in Briefs, NEW k \in Conversations, Waits(b, k)'
      PROVE  \E o \in Callers : Pending(at'[o], b, k)
  <2>1. CASE Pending(to, b, k)
    BY <1>2, <2>1
  <2>2. CASE ~ Pending(to, b, k)
    <3>1. Waits(b, k) /\ ~ Pending(at[c], b, k)
      BY <1>1, <1>4, <2>2 DEF Attends
    <3>2. PICK o \in Callers : Pending(at[o], b, k)
      BY <3>1 DEF EvaluationInv
    <3> QED BY <1>2, <3>1, <3>2
  <2> QED BY <2>1, <2>2
<1>5. (\A o \in Callers : Fits(o, at[o]))'
  BY <1>3 DEF Fits
<1>6. (\A b \in Briefs, k \in Conversations :
         Waits(b, k) => \E o \in Callers : Pending(at[o], b, k))'
  BY <1>4 DEF Pending
<1> QED BY <1>5, <1>6 DEF EvaluationInv

(* The end of a call, when what was pending in it has a result.            *)
LEMMA EndAttends ==
  ASSUME NEW c \in Callers, End(c),
         \A b \in Briefs, k \in Conversations :
           Waits(b, k)' => Waits(b, k) /\ ~ Pending(at[c], b, k)
  PROVE  \E to : Attends(c, to)
<1> DEFINE to == [Start(c) EXCEPT !.pc = Rest(c)]
<1>1. Step(c, to) /\ to.todo = {} /\ to.cur = {}
  BY DEF End, Start
<1> HIDE DEF to
<1> QED BY <1>1 DEF Attends, Fits

(* A call that has to do with the conversation at hand: the others are to  *)
(* do as before.                                                           *)
LEMMA NextAttends ==
  ASSUME EvaluationInv, NEW c \in Callers, NextConversation(c), at[c].pc \in Running,
         \A b \in Briefs, k \in Conversations :
           Waits(b, k)' => /\ Waits(b, k)
                           /\ at[c].pc # "matches" /\ k \in at[c].cur => b \notin at[c].briefs
  PROVE  \E to : Attends(c, to)
<1>1. CASE at[c].todo = {}
  BY <1>1, EndAttends DEF NextConversation, Pending
<1>2. CASE at[c].todo # {}
  <2> DEFINE to == [Start(c) EXCEPT !.pc = "matches", !.todo = at[c].todo]
  <2>1. Step(c, to) /\ to.todo = at[c].todo /\ to.cur = {} /\ to.pc = "matches"
    BY <1>2 DEF NextConversation, Start
  <2> HIDE DEF to
  <2>2. Fits(c, at[c])
    BY DEF EvaluationInv
  <2> QED BY <2>1, <2>2 DEF Attends, Fits, Pending, Running
<1> QED BY <1>1, <1>2

(* process() up to the bundle has nothing pending; the bundle brings the   *)
(* conversation it is of.                                                  *)
LEMMA ProcessAttends ==
  ASSUME EvaluationInv, NEW u \in Uploads, Process(u)
  PROVE  \E to : Attends(u, to)
<1>0. /\ at[u] \in Positions /\ u \in Callers /\ Fits(u, at[u])
      /\ ConversationOf[u] \in Conversations /\ record \in [Conversations -> RecordStates]
  BY Apart, UploadsAssumption DEF EvaluationInv, LineageInv, ContributionInv, Callers
<1>1. at[u].pc \in {"new", "tail", "append", "package"}
  BY DEF Process, CreateReceipt, ReadTail, AppendAttestation, Package
<1>2. \A b \in Briefs, k \in Conversations : ~ Pending(at[u], b, k)
  BY <1>1 DEF Pending, Running
<1>3. ASSUME NEW to, Step(u, to), UNCHANGED <<record, matches, qa, cut>>,
             to.todo = at[u].todo, to.cur = at[u].cur
      PROVE  Attends(u, to)
  BY <1>0, <1>2, <1>3 DEF Attends, Fits, Waits
<1>4. CASE CreateReceipt(u)
  <2> DEFINE to == [at[u] EXCEPT !.pc = "tail"]
  <2>1. to.todo = at[u].todo /\ to.cur = at[u].cur
    BY <1>0 DEF Positions
  <2>2. Step(u, to)
    BY <1>4 DEF CreateReceipt, Goto
  <2> HIDE DEF to
  <2> QED BY <1>3, <1>4, <2>1, <2>2 DEF CreateReceipt, saleVars
<1>5. CASE ReadTail(u)
  <2> DEFINE to == [at[u] EXCEPT !.pc = "append", !.tail = Len(chain), !.left = Prompts[u]]
  <2>1. to.todo = at[u].todo /\ to.cur = at[u].cur
    BY <1>0 DEF Positions
  <2>2. Step(u, to)
    BY <1>5 DEF ReadTail
  <2> HIDE DEF to
  <2> QED BY <1>3, <1>5, <2>1, <2>2 DEF ReadTail, saleVars, recordVars
<1>6. CASE AppendAttestation(u)
  <2>0. UNCHANGED <<record, matches, qa, cut>>
    BY <1>6 DEF AppendAttestation, saleVars
  <2>1. CASE End(u)
    BY <1>0, <1>2, <2>0, <2>1, EndAttends DEF Waits
  <2>2. CASE ~ End(u)
    <3> DEFINE to == [at[u] EXCEPT !.tail = Len(chain'), !.left = @ - 1,
                                    !.pc = IF at[u].left > 1 THEN "append" ELSE "package"]
    <3>1. to.todo = at[u].todo /\ to.cur = at[u].cur
      BY <1>0 DEF Positions
    <3>2. Step(u, to)
      BY <1>6, <2>2 DEF AppendAttestation
    <3> HIDE DEF to
    <3> QED BY <1>3, <2>0, <3>1, <3>2
  <2> QED BY <2>1, <2>2
<1>7. CASE Package(u)
  <2> DEFINE k == ConversationOf[u]
  <2>0. UNCHANGED <<matches, qa, cut>>
    BY <1>7 DEF Package, saleVars
  <2>1. CASE record[k].status = "sold"
    <3>1. End(u) /\ UNCHANGED record
      BY <1>7, <2>1 DEF Package
    <3> QED BY <1>0, <1>2, <2>0, <3>1, EndAttends DEF Waits
  <2>2. CASE record[k].status # "sold"
    <3> DEFINE to == [Start(u) EXCEPT !.pc = "matches", !.todo = {k}]
    <3>1. /\ Step(u, to)
          /\ record' = [record EXCEPT ![k] =
                          [status |-> "available", upload |-> u, tail |-> at[u].tail]]
      BY <1>7, <2>2 DEF Package
    <3>2. to.todo = {k} /\ to.cur = {} /\ to.pc = "matches"
      BY DEF Start
    <3> HIDE DEF to
    <3>3. \A j \in Conversations : j # k => record'[j] = record[j]
      BY <1>0, <3>1
    <3>4. Fits(u, to)
      BY <3>2 DEF Fits
    <3>5. \A b \in Briefs : Pending(to, b, k)
      BY <3>2 DEF Pending, Running
    <3>6. \A b \in Briefs, j \in Conversations : Waits(b, j)' /\ j # k => Waits(b, j)
      BY <2>0, <3>3 DEF Waits
    <3> QED BY <1>2, <3>1, <3>4, <3>5, <3>6 DEF Attends
  <2> QED BY <2>1, <2>2
<1> QED BY <1>4, <1>5, <1>6, <1>7 DEF Process

(* A report has what it records pending at once.                           *)
LEMMA ReportAttends ==
  ASSUME EvaluationInv, NEW r \in Reports, ReportMatches(r)
  PROVE  \E to : Attends(r, to)
<1>0. at[r] \in Positions /\ r \in Callers /\ r \notin Uploads /\ Fits(r, at[r])
  BY Apart, CallsAssumption DEF EvaluationInv, LineageInv, ContributionInv, Callers
<1>1. \A b \in Briefs, k \in Conversations : ~ Pending(at[r], b, k)
  BY DEF ReportMatches, Report, RecordMatches, Pending, Running
<1>2. ASSUME NEW b \in Briefs, NEW conversations, Report(r, b, conversations)
      PROVE  \E to : Attends(r, to)
  <2> DEFINE to == [at[r] EXCEPT !.pc = "match", !.briefs = {b}, !.todo = conversations]
  <2>1. Step(r, to) /\ UNCHANGED <<record, matches, qa, cut>>
    BY <1>2 DEF Report, recordVars, saleVars
  <2>2. to.cur = at[r].cur
    BY <1>0 DEF Positions
  <2> HIDE DEF to
  <2> QED BY <1>0, <1>1, <2>1, <2>2 DEF Attends, Fits, Waits
<1>3. CASE RecordMatches(r)
  <2> DEFINE to == [at[r] EXCEPT !.pc = "matches", !.briefs = {}]
  <2>1. /\ Step(r, to) /\ UNCHANGED <<record, qa, cut>>
        /\ matches' = matches \cup (at[r].briefs \X at[r].todo)
    BY <1>3 DEF RecordMatches, recordVars
  <2>2. to.cur = at[r].cur /\ to.todo = at[r].todo /\ to.pc = "matches"
    BY <1>0 DEF Positions
  <2> HIDE DEF to
  <2>3. Fits(r, to)
    BY <1>0, <2>2 DEF Fits
  <2>4. \A b \in Briefs, k \in Conversations : k \in at[r].todo => Pending(to, b, k)
    BY <2>2 DEF Pending, Running
  <2>5. \A b \in Briefs, k \in Conversations : Waits(b, k)' /\ k \notin at[r].todo => Waits(b, k)
    BY <2>1 DEF Waits
  <2> QED BY <1>1, <2>1, <2>3, <2>4, <2>5 DEF Attends
<1> QED BY <1>2, <1>3 DEF ReportMatches

(* QA takes one conversation at hand, with all the briefs it matches; it   *)
(* leaves it out when the bundle is sold, and then no match of it waits;   *)
(* and each verdict is the result of its match.                            *)
LEMMA QaAttends ==
  ASSUME EvaluationInv, NEW c \in Callers, RunForConversation(c)
  PROVE  \E to : Attends(c, to)
<1>0. at[c] \in Positions /\ Fits(c, at[c]) /\ qa \in [Matches -> Results]
  BY Apart DEF EvaluationInv, LineageInv, ContributionInv, SaleTyped
<1>1. UNCHANGED <<record, matches, cut>>
  BY DEF RunForConversation, QaMatches, QaRecord, QaConsent, QaVerdict, recordVars, saleVars
<1>2. ASSUME NEW k \in Conversations, QaMatches(c, k) PROVE \E to : Attends(c, to)
  <2> DEFINE briefs == {b \in Briefs : <<b, k>> \in matches}
             to == [at[c] EXCEPT !.pc = "record", !.todo = @ \ {k}, !.cur = {k},
                                 !.briefs = briefs, !.eligible = briefs \cap live]
  <2>1. Step(c, to) /\ UNCHANGED qa /\ at[c].pc = "matches" /\ k \in at[c].todo
    BY <1>2 DEF QaMatches, saleVars
  <2>2. to.pc = "record" /\ to.todo = at[c].todo \ {k} /\ to.cur = {k} /\ to.briefs = briefs
    BY <1>0 DEF Positions
  <2> HIDE DEF to
  <2>3. Fits(c, to)
    BY <1>0, <2>1, <2>2 DEF Fits
  <2>4. ASSUME NEW b \in Briefs, NEW j \in Conversations, Waits(b, j)', ~ Pending(to, b, j)
        PROVE  Waits(b, j) /\ ~ Pending(at[c], b, j)
    <3>1. Waits(b, j)
      BY <1>1, <2>1, <2>4 DEF Waits
    <3>2. j # k
      BY <2>2, <2>4, <3>1 DEF Waits, Pending, Running
    <3> QED BY <2>1, <2>2, <2>4, <3>1, <3>2 DEF Pending, Running
  <2> QED BY <2>1, <2>3, <2>4 DEF Attends
<1>3. ASSUME NEW k \in Conversations, QaRecord(c, k) PROVE \E to : Attends(c, to)
  <2>1. at[c].pc = "record" /\ k \in at[c].cur /\ UNCHANGED qa
    BY <1>3 DEF QaRecord, saleVars
  <2>2. \A b \in Briefs, j \in Conversations : Waits(b, j)' => Waits(b, j)
    BY <1>1, <2>1 DEF Waits
  <2>3. CASE at[c].briefs = {} \/ record[k].status = "sold"
    <3>1. NextConversation(c)
      BY <1>3, <2>3 DEF QaRecord
    <3>2. \A b \in Briefs, j \in at[c].cur : Waits(b, j) => b \notin at[c].briefs
      BY <1>0, <2>1, <2>3 DEF Waits, Fits
    <3> QED BY <2>1, <2>2, <3>1, <3>2, NextAttends DEF Running
  <2>4. CASE ~ (at[c].briefs = {} \/ record[k].status = "sold")
    <3> DEFINE to == [at[c] EXCEPT !.pc = "consent", !.seen = record[k].upload,
                         !.eligible = IF record[k].status = "available" THEN @ ELSE {}]
    <3>1. Step(c, to)
      BY <1>3, <2>4 DEF QaRecord
    <3>2. /\ to.pc = "consent" /\ to.todo = at[c].todo /\ to.cur = at[c].cur
          /\ to.briefs = at[c].briefs
      BY <1>0 DEF Positions
    <3> HIDE DEF to
    <3> QED BY <1>0, <2>1, <2>2, <3>1, <3>2 DEF Attends, Fits, Pending, Running
  <2> QED BY <2>3, <2>4
<1>4. CASE QaConsent(c)
  <2>1. PICK eligible : Step(c, [at[c] EXCEPT !.pc = "verdict", !.eligible = eligible])
    BY <1>4 DEF QaConsent
  <2> DEFINE to == [at[c] EXCEPT !.pc = "verdict", !.eligible = eligible]
  <2>2. at[c].pc = "consent" /\ UNCHANGED qa
    BY <1>4 DEF QaConsent, saleVars
  <2>3. /\ to.pc = "verdict" /\ to.todo = at[c].todo /\ to.cur = at[c].cur
        /\ to.briefs = at[c].briefs
    BY <1>0 DEF Positions
  <2>4. Step(c, to)
    BY <2>1
  <2> HIDE DEF to
  <2>5. \A b \in Briefs, j \in Conversations : Waits(b, j)' => Waits(b, j)
    BY <1>1, <2>2 DEF Waits
  <2> QED BY <1>0, <2>2, <2>3, <2>4, <2>5 DEF Attends, Fits, Pending, Running
<1>5. ASSUME NEW b \in Briefs, NEW k \in Conversations, QaVerdict(c, b, k)
      PROVE  \E to : Attends(c, to)
  <2>1. /\ at[c].pc = "verdict" /\ k \in at[c].cur /\ b \in at[c].briefs
        /\ qa' = [qa EXCEPT ![<<b, k>>] = Verdict(b, at[c])]
    BY <1>5 DEF QaVerdict
  <2>2. Verdict(b, at[c]).status # "none"
    BY DEF Verdict
  <2>3. /\ qa'[<<b, k>>].status # "none"
        /\ \A m \in Matches : m # <<b, k>> => qa'[m] = qa[m]
    BY <1>0, <2>1, <2>2 DEF Matches
  <2>4. ASSUME NEW o \in Briefs, NEW j \in Conversations, Waits(o, j)'
        PROVE  Waits(o, j) /\ (j \in at[c].cur => o # b)
    <3>1. ~ (o = b /\ j = k) /\ <<o, j>> \in Matches
      BY <2>3, <2>4 DEF Waits, Matches
    <3>2. Waits(o, j)
      BY <1>1, <2>3, <2>4, <3>1 DEF Waits
    <3> QED BY <1>0, <2>1, <3>1, <3>2 DEF Fits
  <2>5. CASE at[c].briefs = {b}
    <3>1. NextConversation(c)
      BY <1>5, <2>5 DEF QaVerdict
    <3> QED BY <2>1, <2>4, <2>5, <3>1, NextAttends DEF Running
  <2>6. CASE at[c].briefs # {b}
    <3> DEFINE to == [at[c] EXCEPT !.briefs = @ \ {b}]
    <3>1. Step(c, to)
      BY <1>5, <2>6 DEF QaVerdict
    <3>2. /\ to.pc = at[c].pc /\ to.todo = at[c].todo /\ to.cur = at[c].cur
          /\ to.briefs = at[c].briefs \ {b}
      BY <1>0 DEF Positions
    <3> HIDE DEF to
    <3> QED BY <1>0, <2>1, <2>4, <3>1, <3>2 DEF Attends, Fits, Pending, Running
  <2> QED BY <2>5, <2>6
<1> QED BY <1>2, <1>3, <1>4, <1>5 DEF RunForConversation

(* What a call that ends early has pending is cut.                         *)
LEMMA CutAttends ==
  ASSUME EvaluationInv, NEW c \in Callers, CallFails(c) \/ CallDies(c)
  PROVE  \E to : Attends(c, to)
<1>0. at[c] \in Positions /\ Fits(c, at[c])
  BY Apart DEF EvaluationInv, LineageInv, ContributionInv
<1>1. UNCHANGED <<record, matches, qa>> /\ cut \subseteq cut'
  BY DEF CallFails, CallDies, recordVars, saleVars
<1>2. \A b \in Briefs, k \in Conversations : Waits(b, k)' => Waits(b, k)
  BY <1>1 DEF Waits
<1>3. Concerns(c) \subseteq cut' =>
        \A b \in Briefs, k \in Conversations : Waits(b, k)' => ~ Pending(at[c], b, k)
  BY <1>0 DEF Waits, Pending, Concerns, Fits
<1>4. CASE CallFails(c)
  <2>1. CASE at[c].pc \in {"record", "consent", "verdict"}
    <3>1. NextConversation(c) /\ at[c].cur \subseteq cut'
      BY <1>4, <2>1 DEF CallFails
    <3> QED BY <1>2, <2>1, <3>1, NextAttends DEF Running, Waits
  <2>2. CASE at[c].pc \notin {"record", "consent", "verdict"}
    BY <1>2, <1>3, <1>4, <2>2, EndAttends DEF CallFails
  <2> QED BY <2>1, <2>2
<1>5. CASE CallDies(c)
  <2> DEFINE to == [Start(c) EXCEPT !.pc = Rest(c)]
  <2>1. Step(c, to) /\ Concerns(c) \subseteq cut'
    BY <1>5 DEF CallDies
  <2>2. to.todo = {} /\ to.cur = {}
    BY DEF Start
  <2> HIDE DEF to
  <2> QED BY <1>2, <1>3, <2>1, <2>2 DEF Attends, Fits
<1> QED BY <1>4, <1>5

(* No other step makes a match wait: a withdrawn bundle was available      *)
(* before.                                                                 *)
LEMMA OthersAttend ==
  ASSUME EvaluationInv, LineageInv', UNCHANGED at,
         \/ \E u \in Uploads : Revoke(u)
         \/ \E b \in Briefs, k \in Conversations : Reserve(b, k) \/ Claim(b, k) \/ Cancel(<<b, k>>)
         \/ \E b \in Briefs : Turn(b)
         \/ UNCHANGED vars
  PROVE  EvaluationInv'
<1>0. /\ record \in [Conversations -> RecordStates]
      /\ \A k \in Conversations : record[k].status = "none" => record[k].upload \notin Uploads
  BY Apart, NoUploadAssumption DEF EvaluationInv, LineageInv, ContributionInv, Bundled
<1>1. UNCHANGED <<matches, qa, cut>>
  BY DEF Revoke, Reserve, Claim, Cancel, Turn, vars, saleVars
<1>2. ASSUME NEW k \in Conversations, record'[k].status \in {"available", "revoked"}
      PROVE  record[k].status \in {"available", "revoked"}
  <2>1. ASSUME NEW u \in Uploads, Revoke(u) PROVE record[k].status \in {"available", "revoked"}
    <3>1. CASE k = ConversationOf[u] /\ record[k].upload = u
      BY <1>0, <2>1, <3>1 DEF Revoke, RecordStates
    <3>2. CASE ~ (k = ConversationOf[u] /\ record[k].upload = u)
      BY <1>0, <1>2, <2>1, <3>2 DEF Revoke
    <3> QED BY <3>1, <3>2
  <2>2. ASSUME NEW b \in Briefs, NEW j \in Conversations, Claim(b, j)
        PROVE  record[k].status \in {"available", "revoked"}
    BY <1>0, <1>2, <2>2 DEF Claim
  <2>3. CASE UNCHANGED record
    BY <1>2, <2>3
  <2> QED BY <2>1, <2>2, <2>3 DEF Reserve, Cancel, Turn, vars, recordVars
<1>3. \A b \in Briefs, k \in Conversations : Waits(b, k)' => Waits(b, k)
  BY <1>1, <1>2 DEF Waits
<1>4. (\A c \in Callers : Fits(c, at[c]))'
  BY DEF EvaluationInv, Fits
<1>5. (\A b \in Briefs, k \in Conversations :
         Waits(b, k) => \E c \in Callers : Pending(at[c], b, k))'
  BY <1>3 DEF EvaluationInv, Pending
<1> QED BY <1>4, <1>5 DEF EvaluationInv

LEMMA EvaluationStep == EvaluationInv /\ [Next]_vars => EvaluationInv'
<1> SUFFICES ASSUME EvaluationInv, [Next]_vars PROVE EvaluationInv'
  OBVIOUS
<1>0. LineageInv' /\ Uploads \subseteq Callers /\ Reports \subseteq Callers
  BY LineageStep DEF EvaluationInv, Callers
<1>1. ASSUME NEW u \in Uploads, Process(u) PROVE EvaluationInv'
  BY <1>0, <1>1, ProcessAttends, AttendsAll
<1>2. ASSUME NEW r \in Reports, ReportMatches(r) PROVE EvaluationInv'
  BY <1>0, <1>2, ReportAttends, AttendsAll
<1>3. ASSUME NEW c \in Callers, RunForConversation(c) \/ CallFails(c) \/ CallDies(c)
      PROVE  EvaluationInv'
  BY <1>0, <1>3, QaAttends, CutAttends, AttendsAll
<1>4. ASSUME \/ \E u \in Uploads : Revoke(u)
             \/ \E b \in Briefs, k \in Conversations :
                  Reserve(b, k) \/ Claim(b, k) \/ Cancel(<<b, k>>)
             \/ \E b \in Briefs : Turn(b)
             \/ UNCHANGED vars
      PROVE  EvaluationInv'
  <2>1. UNCHANGED at
    BY <1>4 DEF Revoke, Reserve, Claim, Cancel, Turn, vars
  <2> QED BY <1>0, <1>4, <2>1, OthersAttend
<1> QED BY <1>1, <1>2, <1>3, <1>4 DEF Next

(* No match is left without a result by uploads and reports that leave QA  *)
(* to each other: when the last of them is over, each has one.             *)
THEOREM EvaluatedAlways == Spec => []Evaluated
<1>1. Init => EvaluationInv
  <2> SUFFICES ASSUME Init PROVE EvaluationInv
    OBVIOUS
  <2>1. \A c \in Callers : Fits(c, at[c])
    BY DEF Init, Start, Fits
  <2>2. matches = {}
    BY DEF Init
  <2> QED BY <2>1, <2>2, InitLineage DEF EvaluationInv, Waits
<1>2. EvaluationInv => Evaluated
  <2> SUFFICES ASSUME EvaluationInv, NEW m \in matches, Quiet(m[2]),
                      record[m[2]].status \in {"available", "revoked"}, qa[m].status = "none"
               PROVE  FALSE
    BY DEF Evaluated
  <2> DEFINE b == m[1]
             k == m[2]
  <2>0. b \in Briefs /\ k \in Conversations /\ Waits(b, k)
    <3>1. matches \subseteq Briefs \X Conversations
      BY Apart DEF EvaluationInv, LineageInv, ContributionInv, SaleTyped, Matches
    <3>2. b \in Briefs /\ k \in Conversations /\ m = <<b, k>>
      BY <3>1
    <3> QED BY <3>2 DEF Waits, Quiet
  <2> HIDE DEF b
  <2>1. PICK c \in Callers : Pending(at[c], b, k)
    BY <2>0 DEF EvaluationInv
  <2>2. k \in at[c].todo \cup at[c].cur /\ at[c].pc \notin {"new", "done"}
    BY <2>1 DEF Pending, Running
  <2>3. CASE c \in Uploads
    <3>1. ConversationOf[c] = k
      BY <2>2, <2>3 DEF EvaluationInv, Fits
    <3> QED BY <2>2, <2>3, <3>1 DEF Quiet
  <2>4. CASE c \in Reports \ Uploads
    BY <2>2, <2>4 DEF Quiet, Concerns
  <2> QED BY <2>3, <2>4 DEF Callers
<1> QED BY <1>1, <1>2, EvaluationStep, PTL DEF Spec
====
