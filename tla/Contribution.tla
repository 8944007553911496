---------------------------- MODULE Contribution ----------------------------
(***************************************************************************)
(* A contribution from upload to sale (src/src/refinement, src/src/sale,   *)
(* the device side of src/src/briefs): process() persists a consent        *)
(* receipt, attestations and a packaged bundle in separate writes and then *)
(* runs QA; reportMatches() records which briefs a conversation matches    *)
(* and runs QA as well; the contributor withdraws consent; administrators  *)
(* reserve and sell.  All of it happens to one conversation at once.       *)
(*                                                                         *)
(* A conversation is one contributor's.  An upload of it names what it     *)
(* makes: its receipt, its attestations, and its version of the bundle     *)
(* with its prompts and chain hash.  Money is the business of module       *)
(* Settlement; here a sale is its claim of the record.                     *)
(***************************************************************************)
EXTENDS Integers, Sequences, FiniteSetsExt

CONSTANTS
  Conversations, \* <userId, internalConversationRef>
  Briefs,
  Uploads,       \* process() calls, for one conversation each
  Reports,       \* simultaneous reportMatches() calls
  ConversationOf,\* [Uploads -> Conversations]
  Kept,          \* the uploads of which the policy keeps some prompt
  Prompts,       \* [Uploads -> positive]  prompts, so attestations, of an upload
  Cents,         \* [Briefs -> [Uploads -> Nat]]  what the bundle of the upload
                 \*   is worth to the brief, 0 when its content fails the gate
  UserOf,        \* the contributor of a conversation
  Funded,        \* [Briefs -> Nat]  amountCents of the brief's payment
  MaxCount,      \* [Briefs -> Nat]  brief.volume.targetConversations
  MaxOwn,        \* [Briefs -> Nat]  brief.volume.maxPerContributor, 0 = none
  Elsewhere      \* what allocations of conversations outside this instance may
                 \*   hold of a brief, in all and of the contributor's own

ASSUME UploadsAssumption ==
  /\ ConversationOf \in [Uploads -> Conversations]
  /\ Kept \subseteq Uploads
  /\ Prompts \in [Uploads -> Nat \ {0}]
ASSUME CentsAssumption == Cents \in [Briefs -> [Uploads -> Nat]]
ASSUME LimitsAssumption ==
  /\ Funded \in [Briefs -> Nat] /\ MaxCount \in [Briefs -> Nat] /\ MaxOwn \in [Briefs -> Nat]
  /\ Elsewhere \subseteq [count : Nat, own : Nat, cents : Nat]
ASSUME CallsAssumption == Uploads \cap Reports = {}

VARIABLES
  live,       \* briefs that are live, funded and unexpired
  receipts,   \* ConsentReceipt rows
  withdrawn,  \* those with revokedAt
  handed,     \* those whose reference a response gave to the contributor
  chain,      \* DeidAttestation rows in the order of their createdAt
  record,     \* the PackagedRecord row of a conversation, status "none" before
  matches,    \* BriefMatch rows
  qa,         \* the QaResult row of a match, status "none" before
  alloc,      \* its FundAllocation row: what was reserved, and for how much
  at,         \* where each call is
  cut         \* conversations of which some call ended early (history)

recordVars == <<receipts, withdrawn, chain, record>>
saleVars   == <<live, matches, qa, alloc>>
vars       == <<recordVars, saleVars, handed, at, cut>>

Callers == Uploads \cup Reports
Matches == Briefs \X Conversations
NoUpload == "no upload"
ASSUME NoUploadAssumption == NoUpload \notin Uploads
NoRecord == [status |-> "none", upload |-> NoUpload, tail |-> 0]
NoResult == [status |-> "none", upload |-> NoUpload, cents |-> 0]
Pcs == {"idle", "new", "tail", "append", "package", "match", "matches", "record",
        "consent", "verdict", "done"}

(* The locals of a call: the tail of the chain as it knows it and the      *)
(* attestations left to append; the conversations left to QA; and for the  *)
(* one at hand its briefs, those the gate may pass on what was read so     *)
(* far, and the bundle that was read.                                      *)
Start(c) == [pc |-> IF c \in Uploads THEN "new" ELSE "idle", tail |-> 0, left |-> 0,
             todo |-> {}, cur |-> {}, briefs |-> {}, eligible |-> {}, seen |-> NoUpload]

Init ==
  /\ live = {} /\ receipts = {} /\ withdrawn = {} /\ handed = {}
  /\ chain = <<>>
  /\ record = [k \in Conversations |-> NoRecord]
  /\ matches = {}
  /\ qa = [m \in Matches |-> NoResult]
  /\ alloc = [m \in Matches |-> NoResult]
  /\ at = [c \in Callers |-> Start(c)]
  /\ cut = {}

Step(c, to) == at' = [at EXCEPT ![c] = to]
Goto(c, pc) == Step(c, [at[c] EXCEPT !.pc = pc])
Rest(c) == IF c \in Uploads THEN "done" ELSE "idle"
(* The conversations a call is about.                                      *)
Concerns(c) == IF c \in Uploads THEN {ConversationOf[c]} ELSE at[c].todo \cup at[c].cur

(* The call is over; an upload answers with the reference of its receipt.  *)
End(c) ==
  /\ Step(c, [Start(c) EXCEPT !.pc = Rest(c)])
  /\ handed' = handed \cup ({c} \cap receipts)

(***************************************************************************)
(* process(): receipt, attestations, bundle.                               *)
(***************************************************************************)
(* An upload of which nothing is kept gets no receipt, but is attested.    *)
CreateReceipt(u) ==
  /\ at[u].pc = "new"
  /\ receipts' = receipts \cup ({u} \cap Kept)
  /\ Goto(u, "tail")
  /\ UNCHANGED <<withdrawn, handed, chain, record, saleVars, cut>>

(* The position after the end instead of the end.                          *)
ReadTailWrong(u) ==
  /\ at[u].pc = "tail"
  /\ Step(u, [at[u] EXCEPT !.pc = "append", !.tail = Len(chain) + 1, !.left = Prompts[u]])
  /\ UNCHANGED <<recordVars, handed, saleVars, cut>>

(* persistProofs(): the end of the chain, whoever wrote it.                *)
ReadTail(u) ==
  /\ at[u].pc = "tail"
  /\ Step(u, [at[u] EXCEPT !.pc = "append", !.tail = Len(chain), !.left = Prompts[u]])
  /\ UNCHANGED <<recordVars, handed, saleVars, cut>>

(* Every attestation of an upload, and its bundle, extends the tail that   *)
(* the upload read at first.                                               *)
AppendAttestationWrong(u) ==
  /\ at[u].pc = "append"
  /\ chain' = Append(chain, [upload |-> u, prev |-> at[u].tail])
  /\ IF at[u].left > 1 \/ u \in Kept
     THEN /\ Step(u, [at[u] EXCEPT !.left = @ - 1,
                                    !.pc = IF at[u].left > 1 THEN "append" ELSE "package"])
          /\ UNCHANGED handed
     ELSE End(u)
  /\ UNCHANGED <<receipts, withdrawn, record, saleVars, cut>>

AppendAttestation(u) ==
  /\ at[u].pc = "append"
  /\ chain' = Append(chain, [upload |-> u, prev |-> at[u].tail])
  /\ IF at[u].left > 1 \/ u \in Kept
     THEN /\ Step(u, [at[u] EXCEPT !.tail = Len(chain'), !.left = @ - 1,
                                    !.pc = IF at[u].left > 1 THEN "append" ELSE "package"])
          /\ UNCHANGED handed
     ELSE End(u)
  /\ UNCHANGED <<receipts, withdrawn, record, saleVars, cut>>

(* The bundle replaces whatever there is, without a look at a sale.        *)
PackageWrong(u) ==
  /\ at[u].pc = "package"
  /\ record' = [record EXCEPT ![ConversationOf[u]] =
                  [status |-> "available", upload |-> u, tail |-> at[u].tail]]
  /\ Step(u, [Start(u) EXCEPT !.pc = "matches", !.todo = {ConversationOf[u]}])
  /\ UNCHANGED <<receipts, withdrawn, handed, chain, saleVars, cut>>

(* createPackagedRecord(): a serializable transaction; a sold bundle is    *)
(* final and the upload ends without one.                                  *)
Package(u) ==
  LET k == ConversationOf[u] IN
  /\ at[u].pc = "package"
  /\ IF record[k].status = "sold"
     THEN End(u) /\ UNCHANGED record
     ELSE /\ record' = [record EXCEPT ![k] =
                          [status |-> "available", upload |-> u, tail |-> at[u].tail]]
          /\ Step(u, [Start(u) EXCEPT !.pc = "matches", !.todo = {k}])
          /\ UNCHANGED handed
  /\ UNCHANGED <<receipts, withdrawn, chain, saleVars, cut>>

(***************************************************************************)
(* reportMatches()                                                         *)
(***************************************************************************)
(* The brief is checked first ...                                          *)
Report(r, b, conversations) ==
  /\ at[r].pc = "idle"
  /\ b \in live
  /\ Step(r, [at[r] EXCEPT !.pc = "match", !.briefs = {b}, !.todo = conversations])
  /\ UNCHANGED <<recordVars, handed, saleVars, cut>>

(* The report leaves QA to the upload.                                     *)
RecordMatchesWrong(r) ==
  /\ at[r].pc = "match"
  /\ matches' = matches \cup (at[r].briefs \X at[r].todo)
  /\ End(r)
  /\ UNCHANGED <<recordVars, live, qa, alloc, cut>>

(* ... and the matches are recorded later, in one transaction.             *)
RecordMatches(r) ==
  /\ at[r].pc = "match"
  /\ matches' = matches \cup (at[r].briefs \X at[r].todo)
  /\ Step(r, [at[r] EXCEPT !.pc = "matches", !.briefs = {}])
  /\ UNCHANGED <<recordVars, handed, live, qa, alloc, cut>>

(***************************************************************************)
(* runForConversation(): reads, then one write per match.                  *)
(***************************************************************************)
(* The QA of a conversation is over; a report may have others to do.       *)
NextConversation(c) ==
  IF at[c].todo = {} THEN End(c)
  ELSE Step(c, [Start(c) EXCEPT !.pc = "matches", !.todo = at[c].todo]) /\ UNCHANGED handed

(* The matches, and which of their briefs are live.                        *)
QaMatches(c, k) ==
  LET briefs == {b \in Briefs : <<b, k>> \in matches} IN
  /\ at[c].pc = "matches"
  /\ k \in at[c].todo
  /\ Step(c, [at[c] EXCEPT !.pc = "record", !.todo = @ \ {k}, !.cur = {k},
                            !.briefs = briefs, !.eligible = briefs \cap live])
  /\ UNCHANGED <<recordVars, handed, saleVars, cut>>

(* The record.  Without a match there is nothing to do, and a sale is      *)
(* final; the gate gets the prompts of an available bundle only.           *)
QaRecord(c, k) ==
  /\ at[c].pc = "record" /\ k \in at[c].cur
  /\ IF at[c].briefs = {} \/ record[k].status = "sold"
     THEN NextConversation(c)
     ELSE /\ Step(c, [at[c] EXCEPT !.pc = "consent", !.seen = record[k].upload,
                         !.eligible = IF record[k].status = "available" THEN @ ELSE {}])
          /\ UNCHANGED handed
  /\ UNCHANGED <<recordVars, saleVars, cut>>

(* The receipt of that record, and the fingerprints of other contributors, *)
(* who upload duplicates at any time.                                      *)
QaConsent(c) ==
  /\ at[c].pc = "consent"
  /\ \E new \in SUBSET at[c].eligible :
       Step(c, [at[c] EXCEPT !.pc = "verdict",
                             !.eligible = IF at[c].seen \in withdrawn THEN {} ELSE new])
  /\ UNCHANGED <<recordVars, handed, saleVars, cut>>

(* qaGate() on what was read, and preciseValue() of a pass.                *)
Passes(b, here) == b \in here.eligible /\ Cents[b][here.seen] > 0

Verdict(b, here) ==
  [status |-> IF Passes(b, here) THEN "passed" ELSE "failed",
   upload |-> here.seen,
   cents  |-> IF Passes(b, here) THEN Cents[b][here.seen] ELSE 0]

(* One upsert; the row of the match is overwritten, whatever it says.      *)
QaVerdict(c, b, k) ==
  /\ at[c].pc = "verdict" /\ k \in at[c].cur
  /\ b \in at[c].briefs
  /\ qa' = [qa EXCEPT ![<<b, k>>] = Verdict(b, at[c])]
  /\ IF at[c].briefs = {b} THEN NextConversation(c)
     ELSE Step(c, [at[c] EXCEPT !.briefs = @ \ {b}]) /\ UNCHANGED handed
  /\ UNCHANGED <<recordVars, live, matches, alloc, cut>>

(* An error in a call: process() and reportMatches() log it, leave out QA  *)
(* and go on; or the server dies and there is no answer.                   *)
CallFails(c) ==
  /\ at[c].pc \notin {"idle", "new", "done"}
  /\ IF at[c].pc \in {"record", "consent", "verdict"}
     THEN NextConversation(c) /\ cut' = cut \cup at[c].cur
     ELSE End(c) /\ cut' = cut \cup Concerns(c)
  /\ UNCHANGED <<recordVars, saleVars>>

CallDies(c) ==
  /\ at[c].pc \notin {"idle", "new", "done"}
  /\ Step(c, [Start(c) EXCEPT !.pc = Rest(c)])
  /\ cut' = cut \cup Concerns(c)
  /\ UNCHANGED <<recordVars, saleVars, handed>>

(***************************************************************************)
(* The contributor and the administrators, one transaction each.           *)
(***************************************************************************)
(* revoke(): "Two-stage withdrawal (D-18): unsold is deletable anytime;    *)
(* sold is final."  The reference must have reached the contributor.       *)
RevokeWrong(u) ==
  /\ u \in handed
  /\ record[ConversationOf[u]].status # "sold"
  /\ withdrawn' = withdrawn \cup {u}
  /\ UNCHANGED <<receipts, handed, chain, record, saleVars, at, cut>>

Revoke(u) ==
  LET k == ConversationOf[u]
      current == record[k].upload = u IN
  /\ u \in handed
  /\ ~ (current /\ record[k].status = "sold")
  /\ record' = IF current THEN [record EXCEPT ![k].status = "revoked"] ELSE record
  /\ withdrawn' = withdrawn \cup {u}
  /\ UNCHANGED <<receipts, handed, chain, saleVars, at, cut>>

(* What reserve() asks of a QA result, its brief and its conversation ...  *)
Acceptable(b, k) ==
  LET m == <<b, k>> IN
  /\ qa[m].status = "passed"
  /\ b \in live
  /\ alloc[m].status = "none"
  /\ ~ \E o \in Briefs : alloc[<<o, k>>].status \in {"reserved", "sold"}
  /\ record[k].status = "available" /\ record[k].upload \notin withdrawn
  /\ qa[m].upload = record[k].upload

(* ... and of the brief's limits and funds, by what is in force there: the *)
(* conversations followed here and those elsewhere, which come and go.  (A *)
(* reversal, which gives its share back, is module Settlement's.)          *)
Room(b, k, elsewhere) ==
  LET inForce == {j \in Conversations : alloc[<<b, j>>].status \in {"reserved", "sold"}}
      own == {j \in inForce : UserOf[j] = UserOf[k]}
      CentsHeld(j) == alloc[<<b, j>>].cents IN
  /\ Cardinality(inForce) + elsewhere.count < MaxCount[b]
  /\ MaxOwn[b] = 0 \/ Cardinality(own) + elsewhere.own < MaxOwn[b]
  /\ qa[<<b, k>>].cents + MapThenSumSet(CentsHeld, inForce) + elsewhere.cents <= Funded[b]

Reserve(b, k) ==
  LET m == <<b, k>> IN
  /\ Acceptable(b, k)
  /\ \E elsewhere \in Elsewhere : Room(b, k, elsewhere)
  /\ alloc' = [alloc EXCEPT ![m] =
                 [status |-> "reserved", upload |-> record[k].upload, cents |-> qa[m].cents]]
  /\ UNCHANGED <<recordVars, handed, live, matches, qa, at, cut>>

Cancel(m) ==
  /\ alloc[m].status = "reserved"
  /\ alloc' = [alloc EXCEPT ![m].status = "cancelled"]
  /\ UNCHANGED <<recordVars, handed, live, matches, qa, at, cut>>

(* Whatever bundle the conversation has by now is sold.                    *)
ClaimWrong(b, k) ==
  LET m == <<b, k>> IN
  /\ alloc[m].status = "reserved"
  /\ b \in live
  /\ qa[m].status = "passed" /\ qa[m].cents = alloc[m].cents
  /\ qa[m].upload = alloc[m].upload
  /\ record[k].status = "available" /\ record[k].upload \notin withdrawn
  /\ record' = [record EXCEPT ![k].status = "sold"]
  /\ alloc' = [alloc EXCEPT ![m].status = "sold"]
  /\ UNCHANGED <<receipts, withdrawn, chain, handed, live, matches, qa, at, cut>>

(* release()'s transaction: "Freeze the sale at approval".                 *)
Claim(b, k) ==
  LET m == <<b, k>> IN
  /\ alloc[m].status = "reserved"
  /\ b \in live
  /\ qa[m].status = "passed" /\ qa[m].cents = alloc[m].cents
  /\ qa[m].upload = alloc[m].upload /\ record[k].upload = alloc[m].upload
  /\ record[k].status = "available" /\ record[k].upload \notin withdrawn
  /\ record' = [record EXCEPT ![k].status = "sold"]
  /\ alloc' = [alloc EXCEPT ![m].status = "sold"]
  /\ UNCHANGED <<receipts, withdrawn, chain, handed, live, matches, qa, at, cut>>

(* Funding and settlement open and close briefs at any time.               *)
Turn(b) ==
  /\ live' = IF b \in live THEN live \ {b} ELSE live \cup {b}
  /\ UNCHANGED <<recordVars, handed, matches, qa, alloc, at, cut>>

(***************************************************************************)
(* What submissions() tells the contributor of a packaged conversation.    *)
(***************************************************************************)
(* Every result of the conversation counts, whatever bundle it is about.   *)
CheckedWrong(k, status) == {b \in Briefs : qa[<<b, k>>].status = status}

(* The briefs with such a result about the bundle there is.                *)
Checked(k, status) ==
  {b \in Briefs : qa[<<b, k>>].status = status /\ qa[<<b, k>>].upload = record[k].upload}

(* submissionReadiness(): nothing speaks against a reservation.            *)
Ready(b, k) == qa[<<b, k>>].cents >= 1 /\ b \in live

Told(k) ==
  LET allocated == {alloc[<<b, k>>].status : b \in Briefs} \ {"none"} IN
  CASE record[k].status = "revoked" -> "withdrawn"
    [] record[k].status # "revoked" /\ allocated # {} ->
         IF allocated = {"cancelled"} THEN "cancelled"
         ELSE CHOOSE status \in allocated : status # "cancelled"
    [] OTHER ->
         IF Checked(k, "passed") # {}
         THEN IF \E b \in Checked(k, "passed") : alloc[<<b, k>>].status = "none" /\ Ready(b, k)
              THEN "awaiting_acceptance" ELSE "awaiting_eligible_brief"
         ELSE IF Checked(k, "failed") # {} THEN "quality_not_passed" ELSE "awaiting_matching"

-----------------------------------------------------------------------------
Process(u) ==
  CreateReceipt(u) \/ ReadTail(u) \/ AppendAttestation(u) \/ Package(u)
RunForConversation(c) ==
  \/ QaConsent(c)
  \/ \E k \in Conversations : \/ QaMatches(c, k) \/ QaRecord(c, k)
                              \/ \E b \in Briefs : QaVerdict(c, b, k)
ReportMatches(r) ==
  \/ RecordMatches(r)
  \/ \E b \in Briefs, conversations \in SUBSET Conversations \ {{}} : Report(r, b, conversations)

Next ==
  \/ \E u \in Uploads : Process(u) \/ Revoke(u)
  \/ \E r \in Reports : ReportMatches(r)
  \/ \E c \in Callers : RunForConversation(c) \/ CallFails(c) \/ CallDies(c)
  \/ \E b \in Briefs, k \in Conversations : Reserve(b, k) \/ Claim(b, k) \/ Cancel(<<b, k>>)
  \/ \E b \in Briefs : Turn(b)

Spec == Init /\ [][Next]_vars

(***************************************************************************)
(* Properties.                                                             *)
(***************************************************************************)
Versions == Uploads \cup {NoUpload}
RecordStates == [status : {"none", "available", "revoked", "sold"}, upload : Versions, tail : Nat]
Positions == [pc : Pcs, tail : Nat, left : Nat, todo : SUBSET Conversations,
              cur : SUBSET Conversations, briefs : SUBSET Briefs,
              eligible : SUBSET Briefs, seen : Versions]

(* The shape of the rows and of what calls have read; an attestation       *)
(* extends one that is there.                                              *)
TypeOK ==
  /\ live \subseteq Briefs
  /\ receipts \subseteq Kept /\ withdrawn \subseteq handed /\ handed \subseteq receipts
  /\ chain \in Seq([upload : Uploads, prev : Nat])
  /\ \A i \in DOMAIN chain : chain[i].prev < i
  /\ record \in [Conversations -> RecordStates]
  /\ matches \subseteq Matches
  /\ qa \in [Matches -> [status : {"none", "passed", "failed"}, upload : Versions, cents : Nat]]
  /\ alloc \in [Matches -> [status : {"none", "reserved", "cancelled", "sold"},
                            upload : Versions, cents : Nat]]
  /\ at \in [Callers -> Positions]
  /\ cut \subseteq Conversations

(* What a delivery would contain is consented to: the receipt of an        *)
(* available or sold bundle is there and not withdrawn, though re-uploads, *)
(* withdrawals and the sale of the conversation interleave.                *)
Consented ==
  \A k \in Conversations :
    record[k].status \in {"available", "sold"} =>
      record[k].upload \in receipts \ withdrawn

(* The contributor is paid for the bundle that is delivered: a sold record *)
(* is sold as the version that was reserved, for the amount QA gave that   *)
(* very version, however the conversation was uploaded, matched and        *)
(* evaluated again in between.  (To whom it is sold, once: module          *)
(* Settlement.)                                                            *)
SoldAsValued ==
  \A k \in Conversations :
    LET sales == {b \in Briefs : alloc[<<b, k>>].status = "sold"} IN
    /\ record[k].status = "sold" <=> sales # {}
    /\ \A b \in sales : /\ alloc[<<b, k>>].upload = record[k].upload
                        /\ alloc[<<b, k>>].cents = Cents[b][record[k].upload]
                        /\ alloc[<<b, k>>].cents > 0

(* "Sold records are final (D-18) - never overwritten", nor withdrawn.     *)
SoldIsFinal ==
  [][\A k \in Conversations :
       record[k].status = "sold" =>
         record'[k] = record[k] /\ record[k].upload \notin withdrawn']_vars

(* The lineage of a bundle: going back from its prevHash, first come all   *)
(* the attestations of its own upload and no others, although other        *)
(* uploads append to the same chain meanwhile.                             *)
Lineage ==
  \A k \in Conversations :
    record[k].status # "none" =>
      LET own == {i \in DOMAIN chain : chain[i].upload = record[k].upload} IN
      /\ Cardinality(own) = Prompts[record[k].upload]
      /\ record[k].tail \in own
      /\ \A i \in own :
           /\ i <= record[k].tail
           /\ \A j \in own : j < i => chain[i].prev \in own /\ j <= chain[i].prev

(* No contribution falls between the two ways to QA: when every call on a  *)
(* conversation is over and none of them was cut short, each of its        *)
(* matches has a result once it is packaged.                               *)
Quiet(k) ==
  /\ k \notin cut
  /\ \A u \in Uploads : ConversationOf[u] = k => at[u].pc \in {"new", "done"}
  /\ \A r \in Reports : k \notin Concerns(r)
Evaluated ==
  \A m \in matches :
    Quiet(m[2]) /\ record[m[2]].status \in {"available", "revoked"} => qa[m].status # "none"

(* What the contributor is told is so: nothing but a limit of the brief or *)
(* its funds (Room, which submissions() does not look at) can refuse a     *)
(* conversation that awaits acceptance, whatever reserve() would refuse    *)
(* for no other reason is never said to wait for something else, unless a  *)
(* reservation of it was cancelled before, and exactly the sold ones are   *)
(* called sold - though results, reservations, withdrawals and new bundles *)
(* come in any order.                                                      *)
ToldAsIs ==
  \A k \in Conversations :
    record[k].status # "none" =>
      LET told == Told(k)
          open == \E b \in Briefs : Acceptable(b, k) IN
      /\ told = "awaiting_acceptance" => open
      /\ open => told \in {"awaiting_acceptance", "cancelled"}
      /\ told = "sold" <=> record[k].status = "sold"

(* "Both orderings converge ... Whichever arrives second produces the      *)
(* result" (src/src/sale/qa.service.ts): then the result is about the      *)
(* bundle there is.  The code does not keep this: a run that read the      *)
(* record first may write last, and overwrites the later run's result.     *)
Converges ==
  \A m \in matches :
    Quiet(m[2]) /\ record[m[2]].status = "available" => qa[m].upload = record[m[2]].upload
====
