# mcsa_server, specified in TLA+

MyCaseStudy's server buys de-identified AI conversations from contributors on
behalf of buyers.  A buyer files a *brief*, a moderator quotes an amount, the
buyer pays it through Stripe Checkout; contributors' devices report matching
conversations, the server de-identifies and packages them and runs a quality
gate; an administrator reserves part of the brief's money for a contribution and
releases it, which sells the record and transfers the money to the contributor's
Stripe account; what is left when the brief expires goes back to the buyer.

The server is a NestJS process (possibly several instances) over one Postgres
database.  There are no locks in memory: two requests interleave at every
`await`, the only mutual exclusion is a database transaction, and calls to
Stripe happen between transactions.  This directory models the parts in which
that matters, checks them with TLC on small instances and proves some of the
results for every instance with TLAPS.

Paths below are relative to the repository (`src/` is its NestJS source).

## Inventory

| Component | State it keeps | Operations | Talks to |
|---|---|---|---|
| Settlement service `src/settlement/settlement.service.ts`, `fund-balances.ts` | `FundAllocation`, `FundRefund`, `FundLedgerEntry`, `ContributorAccount`; the status of `PackagedRecord`, `Brief`, `BriefPayment` | `onboarding`, `reserve`, `cancel`, `release`, `reconcile`, `expire`; reads: `account`, `dashboard`, `submissions` | Stripe transfers, reversals, refunds, accounts; rows of payments, briefs, QA |
| Settlement worker `settlement.worker.ts` | a cursor and a `running` flag in memory | `tick` every minute: for up to 50 payments `reconcile`, then `expire` | settlement service |
| Payments `src/payments/payments.service.ts` | `BriefPayment`, `StripeEvent`, escrow fields of `Brief` | `quote`, `checkout`, `webhook` | Stripe Checkout and events |
| Briefs `src/briefs` | `Buyer`, `Brief`, `BriefMatch` | `createBrief`, `moderateForAccount`, `goLive`, `commitEscrow`, `pushPayload`, `reportMatches` | QA |
| Refinement `src/refinement/refinement.service.ts`, `attestation` | `RecordFingerprint`, `DeidAttestation` (a hash chain) | `process` | detector, policy, packaging, QA |
| De-identification policy `src/refinement/policy` | none (pure) | `processConversation`: spans, decision matrix, singling-out | |
| Detectors `src/refinement/detector` | none | `analyze` | Presidio over HTTP |
| Packaging `src/refinement/packaging` | `ConsentReceipt`, `PackagedRecord` | `createReceipt`, `createPackagedRecord`, `revoke`; reads: `buildBatch`, `verifyReceipt` | |
| QA `src/sale` | `QaResult`; reads `RecordFingerprint` | `runForConversation`: gate, duplicate check, valuation | |
| Valuation `src/valuation` | none (pure) | tiers, `preciseValue`, estimate | |
| Auth `src/auth` | `RefreshToken` | `register`, `login`, `refresh`, `logout` | users |
| Users `src/users` | `User` | create, find | |
| Submission readiness `submission-readiness.ts` | none (reads) | what `submissions` and `dashboard` tell | settlement |
| HTTP layer, Prisma connection, seed | - | routing, validation, presentation | all |

### What is hard, and what correctness means, by component

* **Settlement.**  Money moves at Stripe, the books are in Postgres, and a call
  can die in between.  `release()` is three transactions' worth of awaits that
  any number of clicks and any worker's `reconcile()` can run alongside;
  `reconcile()` and `expire()` read rows, call Stripe and write *by id* later;
  idempotency keys are forgotten by Stripe after a day.  Correct means: one
  transfer per allocation, the buyer's money never promised twice, the unused
  rest returned once, a record sold once, the collection limits kept, and the
  books saying what Stripe did - eventually, when a call died.
* **Payments.**  Several tabs check out at once and events come late, twice and
  out of order.  Correct means: the buyer is charged once, what was paid is
  recorded, a reversal is final, and the money held is the amount quoted.
* **Briefs.**  A brief is live only while its money is held, although
  moderation reads before it writes.
* **Refinement, packaging, QA.**  `process()` is a series of separate writes and
  `runForConversation()` a series of reads with a write at the end; re-upload,
  withdrawal of consent and sale happen alongside.  Correct means: every bundle
  finds all its attestations in the chain, a sold record never changes and is
  backed by consent, a reserved contribution is the one QA saw, and a contributor
  is told what an administrator could do with the contribution.
* **QA and valuation between contributors.**  The same prompts arrive from
  several contributors at once, stamped by a clock with ticks, and one run reads
  the fingerprints for every brief the conversation matched.  Correct means: first
  come keeps, whoever came behind does not, no brief changes another's verdict,
  and a pass has a price.
* **De-identification.**  The policy is sequential, and its rules meet each
  other: markers against fiction, thresholds against attribution, what is
  suppressed in a prompt against what is suppressed in the bundle, and edits of
  the text against the numbers of its sentences.  Correct means: sensitive content
  about a person is never kept, one person has one pseudonym, what accumulates over
  a conversation stays under the limits or nothing is kept, and the stored
  attestation names the types of quasi-identifiers that were edited away.
* **Auth and payout accounts.**  A refresh token is read, then revoked, then
  replaced, in three awaits; registration hashes a password before it looks whether
  the address is free; onboarding makes an account at Stripe before it saves which.
  Correct means: a token is good once, only contributors have payout accounts,
  and nobody has two.

`PROJECT.json` lists these hazards at the lines where they bite and names the
properties that cover each.

## Modules

| Module | What it is |
|---|---|
| `Escrow` | The abstract promise: a brief is open only while a buyer's money is held for it, money is held once, and never again after it was let go. |
| `Funding` | `payments.service.ts` and the operator side of `briefs.service.ts`, await by await. Implements `Escrow`. |
| `Settlement` | `settlement.service.ts`, `settlement.worker.ts` and the webhooks they race. Implements `Escrow`. |
| `Contribution` | One conversation from upload to sale: `process()`, packaging, `revoke()`, `reportMatches()`, `runForConversation()`, and the parts of reservation and release that look at them. |
| `Deidentification` | `processConversation()`: the policy on each prompt, then singling-out over the bundle. |
| `QaGate` | `src/sale` and `src/valuation` between contributors: fingerprints, the duplicate check, the gate on one brief, tiers and the precise value. |
| `Accounts` | `auth.service.ts`, `users.service.ts` and `onboard()`: registration, sessions, payout accounts. |
| `MCAccounts`, `MCContribution`, `MCDeidentification`, `MCFunding`, `MCQaGate`, `MCSettlement` | Instances for TLC: the maps from contributions to payments and records, sums, symmetry; the prompts, conversations and briefs. |
| `AccountsProofs`, `ContributionProofs`, `DeidentificationProofs`, `FundingProofs`, `QaGateProofs`, `SettlementProofs` | Theorems and proofs about the module of that name. |
| `FundsProofs` | More of them about `Settlement`: the buyer's money, the sale of a record, the ledger. |

`Escrow` is where the two halves of the server meet: `Funding` brings money in
and represents settlement by one action (`Release`, letting go of money that was
reversed or that is left after the expiry); `Settlement` starts from paid
briefs and represents payments by the webhooks that end a payment.  Each is
shown to implement the same abstract specification, so that neither can break
what the other relies on.

`Contribution` is the other input of a sale.  `Settlement` knows a contribution as
fit or not (`fit`, changed by `QualityChanges`) and a record as sold or not;
`Contribution` says how the rows behind those words change - the bundle, its
receipt, the QA result and what a reservation copied from them - and leaves the
money out.  `Deidentification` is what happens inside `process()` between the
receipt and the first attestation; `Contribution` takes its outcome, some number
of attestations and a bundle or none, as it comes.

`QaGate` opens what `Contribution` takes for a constant: what the gate says of a
bundle, which depends on what other contributors uploaded, and what the bundle
is worth.  It has several contributors with one conversation each, and no receipts,
attestations or reservations; the five awaits of a QA run, which `Contribution`
interleaves, are three steps here: the bundle, the fingerprints, the verdicts.
`Accounts` stands by itself: the other modules take users, their roles and
their payout accounts as given.

### How the modules correspond to the code

Rows are variables; a row that a unique key makes a function of another
(`FundAllocation.qaId`, `BriefPayment.briefId`, `FundRefund.paymentId`) is
indexed by it.  Stripe's objects are variables too, changed by the calls the
server makes and by outside events.  An action is what happens between two
awaits that others can run between: one transaction, or one call to Stripe.
Locals that survive an await are kept in the call's record (`rel`, `wk`,
`calls`, `inbox`) - that is where stale reads come from.  Every call has an
action that cuts it short anywhere (`ReleaseDies`, `PassDies`, `CallDies`,
`DeliveryDies`): the exception, the killed process and the lost answer look the
same afterwards.  In `Contribution` the two differ: `process()` and `reportMatches()`
catch an error and answer (`CallFails`), and only an answer gives the contributor
the reference `revoke()` asks for; a call that dies (`CallDies`) gives none.

*Transactions.*  `lock()` (`settlement.service.ts`) updates the payment row
first, so transactions of one payment run one after the other; `reserve()` and
`release()`'s claim are serializable besides.  Each is one action.  The writes of
`reconcile()`'s loop are not under the lock and are actions of their own, and
they write by id, whatever the row says by then.

*Time.*  `late` and `stale` stand for "more than 23 hours ago", the limit of
`checkRecovery()` and of checkout's retry, after which Stripe has also forgotten
the idempotency key (it keeps them for 24 hours, and the code stops an hour
earlier).  In `Settlement` an operation may age between any two steps; in
`Funding` not while a call on that brief is in flight.

*Stripe*, from how the code uses it: an idempotency key returns the object
it created as long as it is remembered; a transfer is reversed in full at most
once; a refund counts in `amount_refunded` from its creation until it fails
(`settlement.service.ts:944` relies on it when it looks for a refund whose id was
lost); events are delivered until they are answered, in any order.

*Hashes.*  In `Contribution` the hash of an attestation is its position among the
rows, `prev` the position it was chained to (0 for "genesis").  Two uploads that read the
tail together both extend it, so the rows are a tree and not the chain "in
insertion order" that a comment in `refinement.service.ts` speaks of; what a bundle
needs of it is `Lineage`.  And a bundle's
chain hash is the upload that made it: `createPackagedRecord()` hashes a fresh
random reference, so no two bundles share one.  (On a re-upload that fresh
reference goes into the hash while the row keeps its old `recordRef`, so the
hash of a re-uploaded bundle cannot be recomputed from its row; the model has no
property about that.)

*What the gate sees.*  A bundle's content decides its value and most of the
gate's checks, so both are the constant `Cents` of `Contribution`, 0 for content
that fails.  What changes under a run - the brief, the record's status, the
receipt, duplicates uploaded by others - is read step by step.  `QaGate` computes
both: a prompt is a sequence of words, a keyword too, and it is found across the
end of a prompt because the code joins the prompts with a space.

*Fingerprints and their stamps.*  `createdAt` is the time at which `createMany()`
began, on one clock, while the row is seen when it commits; a row is never
written again (`skipDuplicates`), so a re-upload keeps its old stamp, and
of the two reads of `dedupStatus()` only the one of the others' rows can miss
something.  Some facts of the code shape the properties:

* Stamps are compared with `<=`: two uploads within one tick that both see the
  other's rows are both duplicates, and neither keeps.
* Two uploads whose inserts overlap may each run QA before the other's row is
  there, and both pass, until one of them is evaluated again.  `FirstComeKeeps`
  therefore demands a duplicate only where the other rows were there when the
  insert began (`behind`).
* More than half of the kept prompts must collide; a conversation of two with one
  of them stolen is new.
* Near duplicates of a conversation that matched only briefs for exact ones are
  not looked for, so its result says `new`; once it also matches a brief for near
  ones, the class stored for both is that brief's.  `ByItself` is therefore about
  the stored status, bundle and price, and not about the class.

Two variables of `QaGate` are history: `behind`, and `alone`, the results the same
runs would have stored had the conversation matched each brief alone.  A run
classifies for that (`each`) from the rows it reads in the same step as for its
pooled classification, and nothing else reads either.

*Sessions and payout accounts.*  Two calls of `refresh()` with one token that overlap both
find it active, and the code gives tokens to both: `Rotated` leaves out sessions in
which calls overlapped (`overlapped`).  A token whose answer is lost is never shown
again.  Access tokens have no row and stay valid for their quarter of an hour; they
are not modelled.  The key of `accounts.create()` is the id of the row, which is
unique per contributor; `checkRecovery()` looks at the age of the row, and Stripe
forgets the key a day after the account was made, which is later.  A call that
is past `checkRecovery()` is not under way for the hour in between
(`StripeForgets`).

*What the contributor is told.*  `submissions()` reads records, results and
allocations in three queries; `Told` reads them at one moment.  It knows nothing of
the brief's collection target, its limit per contributor and its balance, so a
conversation can be told to await acceptance and be refused by `reserve()` for one of
these.  `Reserve` has all of the guards, in two parts: `Acceptable` (result,
brief, bundle, consent), which `ToldAsIs` is about, and `Room` (target, limit,
balance), which it leaves to `reserve()`.  What other conversations hold of a brief is
an input of `Room` (`Elsewhere`), because they come and go; that the limits and the
balance are kept is shown in `Settlement`.

*Prompts.*  In `Deidentification` a prompt is what the regular expressions and
the detector find in it: sentences with markers, framing and content, spans with
a group and a confidence band, phrases.  Words are not counted, so a text may fall
short of the quality ceilings or not.  Some facts of the code shape the model:

* "my" is a marker of the author, so a relation ("my sister") always comes with
  it, and `attributeSpan()` cannot say more than the sentence does.
* Nothing in the code produces the types `rare_attribute` and `education`: six
  types are possible, and the threshold of eight that excludes a conversation by
  itself is never met.  Exclusion comes from gutting.
* A phrase is looked for once per prompt.  If its first match stands in a
  sentence about nobody, later ones do not count; if it counts, it alone is edited
  away, and later ones stay in the text ("I'm a nurse ... I'm a nurse" keeps the
  second).  A prompt's phrases are all there are, `Hits` those the code counts, `left`
  and `edited` the hits that stay and those that were edited away.
  `NobodySingledOut` and `AttestedAsIs` are about hits: a type that an attestation
  calls suppressed, or that was suppressed to single nobody out, may still be in the
  text.  Nothing in the repository promises otherwise.
* Edits of a range that was edited before (a city or an employer whose type is then
  suppressed) cut at the offsets of the unedited text.  An edit is taken as done here.
* The reason code of a prompt dropped by the bundle's suppression goes to the
  outcome and not to its attestation, so attestations are compared by what they
  say of exclusion and quasi-identifiers.

*Numbers.*  Amounts are small positive integers.  `CentsOf`, the sum of the
amounts of a set of allocations, is a constant characterised by
`SumAssumption` and given by a fold in `MCSettlement`.

| Code | Actions |
|---|---|
| `reserve`, `cancel` | `Reserve`, `Cancel` |
| `release` | `ReleaseCheck` (the charge and account), `ReleaseClaim` (the sale), `ReleaseTransfer`, `ReleaseSettle` |
| `tick` | `StartPass`; the order of `reconcile` and `expire` is the program counter of `wk` |
| `reconcile` | `Recover`, `ReadCharge`, `ReadOwnRefund`, `Freeze`, `ListTransfers`, then per transfer `RetrieveTransfer`, `MarkReversing`, `CreateReversal`, `SettleReversal`, and `ReversalsDone` |
| `expire` | `CheckExpiry`, `FollowRefund`, `CloseBrief`, `LeaveReversed`, `RetrieveRefund`, `CreateRefund`, `RefundTooLate`, `SaveRefund` |
| `process` | `CreateReceipt`, `ReadTail`, `AppendAttestation` (one per prompt), `Package`, then QA |
| `reportMatches` | `Report` (the brief), `RecordMatches`, then QA of each conversation |
| `runForConversation` | `QaMatches`, `QaRecord`, `QaConsent` (receipt and fingerprints), `QaVerdict` (one upsert per match) |
| `revoke`; `reserve`, `cancel`, `release` as seen from the record | `Revoke`; `Reserve`, `Cancel`, `Claim` |
| `submissions`, `submissionReadiness` | the operators `Told`, `Checked`, `Ready`; `Acceptable` and `Room` are the guards of `reserve` |
| `process` as seen from the fingerprints | `Upload`, `StoreFingerprints` (begin and commit of one insert), `Package`, then QA |
| `runForConversation` between contributors | `QaRead`, `QaDuplicates`, `QaVerdict`; `qaGate`, `classifyDuplicates`, `matchesKeyword`, `redactionDensity`, `preciseValue` are operators |
| `register`, `registerBuyer`, `login` | `Register` (the hash), `CreateUser` (the row); `Login`; then `IssueTokens` |
| `refresh`, `logout` | `Present` (the token's row), `FindUser`, `RevokeToken`, `IssueTokens` |
| `onboard` | `Onboard` (role, row, country, age), `CreateAccount` (Stripe), `SaveAccount` |
| `processConversation`, `processRecord`, `failClosedOutcome` | `ProcessRecord`, `FailClosed` (one per prompt) |
| `applyConversationSinglingOut` | `SinglingOut` |
| `quote`, `commitEscrow`, `goLive`, `moderateForAccount` | `Quote`, `CommitEscrow`, `GoLive`, `Pause` |
| `checkout` | `Checkout`, `Reset`, `Reread`, `Retrieve`, `Replace`, `Refetch`, `Create`, `Save` |
| `webhook` | `HearUnpaid`, `Hear`, `Process` in `Funding`; `Webhook` in `Settlement` |

Definitions named `...Wrong` (or `...Unlogged`, `...Unnamed`) are the definition
after them with a mistake that code could plausibly have.  No specification
uses them: putting one in the place of the right one makes a property fail,
which shows that the property tells the two apart.

## Runs

All runs end within about three minutes on two cores.

| Run | Instance | Question |
|---|---|---|
| `settlement_refund` | two allocations of two cents out of five, one release call each, one worker; outside refunds, pending refunds, ageing, moderation | Is the buyer's money promised twice, refunded twice, reopened after its refund, or told wrongly by the ledger? (`NoOverspend`, `RefundClosesFunding`, `OneRefund`, `LedgerBalances`, `FinalStays`, `KeepsEscrow`) |
| `settlement_briefs` | two briefs, three contributions of one contributor, one record in both briefs, one contribution each, partial reversals by hand | Is a record sold twice, or a limit passed, through cancellations and reversals? (`SoldOnce`, `LimitsRespected`) |
| `settlement_liveness` | one allocation, two release calls, one fair worker; disputes, ageing, pending refunds, changing quality | Can a race, a crash or a retry move the money twice, or leave a status Stripe contradicts? (`OneTransfer`, `StatusMatchesStripe`)  Is what Stripe did eventually in the books, is reversed money taken back, do unused funds return? (`TransferRecorded`, `TransfersReturn`, `UnusedFundsReturn`) |
| `settlement_own_refund` | one allocation, pending refunds | A finding, see below. |
| `funding` | two tabs, three attempts, two amounts, one delivery at a time, methods that pay at once or take days, disputes, the expiry, the seed's escrow | Is the buyer charged twice, a payment called failed that can still be paid, or money held that was not paid? (`ChargedOnce`, `FailedIsOver`, `EscrowIsPaid`, `KeepsEscrow`) |
| `funding_liveness` | one tab, two attempts, fair deliveries, two at a time, refunds and disputes | Is money that was taken recorded, and is a reversal undone by a late event? (`PaidIsRecorded`, `ReversalIsFinal`) |
| `contribution` | one conversation uploaded twice (the second time with another value), one brief with or without other conversations at its limits, repeated reports and QA, withdrawal, reservation, cancellation, sale | Is a bundle sold that was not consented to, not reserved, or valued as another one? Is a sale final, the lineage of a bundle complete, every match evaluated, the contributor told what is so? (`Consented`, `SoldAsValued`, `SoldIsFinal`, `Lineage`, `Evaluated`, `ToldAsIs`) |
| `contribution_qa` | the same | A finding, see below. |
| `deidentification` | every conversation of up to three prompts out of twenty-seven, detector failures and drops anywhere | Does a rule let through what another one stops? (`NothingSensitive`, `OnePersonOnePseudonym`, `NobodySingledOut`, `AttestedAsIs`, `KeptWhole`) |
| `deidentification_suppress` | the same prompts, one at a time | A finding, see below. |
| `qagate` | two contributors, five uploads of prompts that are the same, similar or dropped, three calls, two ticks, a brief for exact and one for near duplicates | Does whoever came first keep, whoever came behind not, each brief get the verdict it would have got alone, a pass have a price? (`FirstComeKeeps`, `ByItself`, `TypeOK`) |
| `accounts` | one address, two calls, three tokens, two countries | Is a token good twice, a session's live token more than one, a payout account made twice or held by a buyer? (`Rotated`, `OnePayoutAccount`, `TypeOK`) |

### Why these bounds are enough

*Settlement.*  Two release calls and a worker are the three writers that
meet in one allocation: every guard and write of a call depends on the row, on
Stripe and on the call's own locals, so a third call repeats what one of the two
does, and a second worker repeats what the first did before it died.
The funding of five cents holds two allocations of two and leaves one: a
refund is possible with zero, one or two of them paid, and a third would not
fit.  Two briefs sharing one record, with three QA results, are the least for a
double sale; limits of one make the second contribution the boundary.
All safety properties of these runs are also proved, for any sets and amounts.

*Funding.*  Three attempts let a call that saw the first session expire come back
when another call has replaced it; a fourth differs from the third by its number
only.  Refunds and disputes end a payment alike: `funding` has the one, with two
tabs, and `funding_liveness` both, with two deliveries that overtake each other.
Two copies of a session per attempt stand for Stripe forgetting a key once; the
proofs do not bound attempts or deliveries.

*Contribution.*  Two uploads of a conversation and a report that can be repeated
without end are the three writers that meet in one record and one QA row.  An
upload has one prompt: two uploads already interleave every read and write of the
attestation chain, and `LineageAlways` covers uploads of any length.  The
conversation has one brief: what two briefs could do wrong with one record, to
sell it twice, is the question of `settlement_briefs`.  The brief has two cents and takes two
conversations, one of a contributor; elsewhere nothing is reserved, or one cent by
others, or one by the contributor, so each of the limit per contributor and the
balance can refuse a reservation.

*Deidentification.*  Three prompts are the least in which one can be suppressed
for the bundle without gutting it (one of three is less than two fifths, one of
two is not); the proofs are for conversations of any length, any prompts and any
number of identifiers.  The limits of three, five, four and eight types and of two prompts
are the code's; the number of identifiers that excludes a prompt is two instead
of fifteen.  The prompts are chosen, not enumerated: every combination of
markers, framing and sensitive content, names in every order, and portraits
whose types overlap so that bundles have from none to six.

*One worker in `settlement_refund`.*  With two workers, `FinalStays` and
`LedgerBalances` do not hold, and the code does not claim they do: the writes by
id after a Stripe call (`settlement.service.ts:888`, `:1018`) let a worker with
an old answer set a reversed allocation back to `reversing`, or a succeeded
refund back to `pending`, until a later pass repairs it.  No money moves by
that: the other safety properties are proved for any number of workers, and the
two for one (`OneWorker`).

*QaGate.*  Two contributors are the least that can collide, and what one owes to
several others it owes to each of them; three calls let the uploads overlap while a
report is under way.  Two ticks give an earlier stamp, an equal one and a
later one.  The first contributor's upload of three prompts can be stolen by a half, by
more, or by a prompt like one of them; it can drop them all, or keep one alone
without a jurisdiction.  The three properties are proved for every instance.

*Accounts.*  Tokens, rows and keys of two users never meet, so one address is
enough; two calls are the race, and three tokens let a refreshed token be shown
again after its successor was refreshed.  The three properties are proved for
every instance.

`CHECK_DEADLOCK FALSE` is set for `Funding`, where a brief that is paid for and
expired needs no further step, and for `Deidentification` and `QaGate`, which
end with their conversation and their calls; `Settlement` never stops because workers keep ticking.

### Fairness

* Workers tick every 60 s for as long as the instance lives, and the cursor
  comes round to every payment, so a pass that can start is started again and
  again (`SF` on `StartPass`, because an instance is in one pass at a time) and a
  pass that has started takes its steps (`WF` on `Pass`).
* Passes fail; the worker logs "retried next cycle".  Liveness needs failures to
  cease, not to be absent: `<>[][PassDies => Pass]_vars`.
* A refund that Stripe accepted ends, well or badly.
* Stripe redelivers an event until it is answered; deliveries that die do so
  finitely often.
* Administrators, buyers, contributors, disputes and outside refunds owe
  nothing.

`TransfersReturn` and `UnusedFundsReturn` except what the code leaves to an
operator, and more than that: a payment with a transfer that was reversed in part by
hand or whose reversal was begun a day ago (`Manual`) is excused altogether, since
the exception at that transfer ends the pass: `reconcile()` takes back none of the
payment's other transfers and `expire()` is not reached.  So no property here catches
what such a transfer does to the others; the run has one allocation, and the hazard
is listed without a property.  `UnusedFundsReturn` (`HeldBack`) further excuses a charge
that is disputed or was refunded by others, a refund begun over a day ago whether its
answer was seen or not, a payment with nothing unused, and a transfer of unknown
outcome that Stripe never made.

## Findings

`settlement_own_refund`: SETTLEMENT_SETUP.md says "Own unused-fund refunds do not
reverse contributor transfers."  `reconcile()` recognises the server's own refund
only when Stripe calls it `succeeded`; while it is `pending` - a state `expire()`
itself handles - the charge shows a refund that is "not ours", the funding is
frozen and the contributors' transfers are reversed.  TLC's behaviour: reserve,
release, expire, refund accepted as pending, next pass.

`contribution_qa`: `qa.service.ts` says "Both orderings converge ... Whichever
arrives second produces the result."  When the two arrive together it is the one
that writes last, and its reads may be older.  TLC's behaviour: a report records
its match, reads that there is no bundle yet, and waits; the upload stores the
bundle and its QA passes it; the report writes "failed" over the pass.  Every call
has returned and nothing is due to evaluate the bundle again.  The sale is safe
from this (`SoldAsValued`): `reserve()` and `release()` compare chain hashes.

`deidentification_suppress`: `pipeline.ts` says "sentence boundaries (punctuation)
are never inside spans, so a re-split is safe."  An e-mail address, a URL or an IP
address contains full stops, `splitSentences()` ends a sentence at each, and the
placeholder has none.  `materialise()` numbers the edited text afresh and leaves
out the numbers of the unedited one, so every sentence after the address is off
by one.  In "Write to jane@corp.com about it. I went to the clinic for
therapy." the sentence to suppress is the third, the edited text has two, and
all of it is kept.

## Proofs

Every safety property that a passing run checks is a theorem for every value of
the constants that meets the named assumptions of its module; two of them,
`LedgerBalances` and `FinalStays`, under the further hypothesis of one worker.

`SettlementProofs` (constants: any sets of payments, contributions, records,
users, calls and workers, under the assumptions of `Settlement`):

* `TypeCorrect`, `OneTransferAlways`, `StatusMatchesAlways`: `Spec` implies
  `[]TypeOK`, `[]OneTransfer`, `[]StatusMatchesStripe`.
* `SettlementImplementsEscrow`: `Spec => KeepsEscrow`, by `Escrow`'s initial
  states and a step-by-step simulation.

`StatusMatchesStripe` is not inductive: nothing in it says why a release call
that is about to create a transfer may do so.  The invariant `TransferInv` adds,
for every call and pass, what its program counter and locals imply about the row
- a call at `transfer` or `settle` has a claimed allocation, an unsettled
reversal belongs to a transfer that was made, a transfer Stripe has forgotten is
not asked for again because `late` allocations are refused - and that locals
name allocations of the payment at hand.

`FundsProofs` (the same constants):

* `SoldOnceAlways` and `LimitsRespectedAlways`, from `SaleInv`;
* `NoOverspendAlways`, `RefundClosesFundingAlways` and `OneRefundAlways`, from
  `MoneyInv`;
* `LedgerBalancesAlways` and `FinalStaysAlways`, for one worker, from `LedgerInv`.

Common to all is `FreezeHolds`: a pass that reverses transfers, and a transfer
reversed in the books, belong to a funding that is frozen.  It is why places in
the limits and money freed by a reversal cannot be given away.  `SaleInv` counts
the places that are *taken*, reversed ones included (`LimitsHold`), because what the
property counts may shrink and grow again.  `MoneyInv` adds that a refund is requested
only when the funding closes, made at Stripe only by a pass that found the
request, and called succeeded only after Stripe does (`RefundHolds`); the sum of
the outstanding cents is then bounded when something is reserved and when the rest is
asked back, and every other step leaves it or lessens it.  The sum is a constant
of the model of which only additivity is assumed (`SumAssumption`); TLC evaluates
the assumption on every instance.  `LedgerInv` adds which entries a row of each
status has (`Books`) and, for the one worker, that what its pass read is still so when
it writes (`PassesAlone`) - the fact that fails with two.  `OneWorker` is a
hypothesis of the two theorems and of no other.

`FundingProofs`:

* `FundingTypeCorrect`, `EscrowIsPaidAlways`, `ReversalIsFinalAlways`, and
  `FundingImplementsEscrow`, from `FundingInv`;
* `ChargedOnceAlways` and `FailedIsOverAlways`, from `AttemptInv`.

The inductive invariant `FundingInv` ties four things together: a call's
snapshot of the row against the row (`CallsHold`), the quote against the row's
amount and against every session made for it (`QuoteFrozen`), a delivery in
flight against what Stripe already did (`DeliveriesHold`), and live briefs
against held money (`LiveIsHeld`).  It is needed because `EscrowIsPaid` speaks of
the session's amount, which was fixed by a call that read the row many awaits
earlier.

`AttemptInv` adds what makes the sessions of a brief exclude each other: sessions of
attempts before the row's are over and there are none after it (`SessionsHold`),
and a call in flight holds a row that was, creates only under a key that Stripe
remembers or never saw, and replaces only a session that expired (`TabsHold`).
It is inductive for any number of attempts and calls.

`ContributionProofs`:

* `ContributionTypeCorrect`, `ConsentedAlways`, `SoldAsValuedAlways` and
  `SoldIsFinalAlways`, from `ContributionInv`;
* `LineageAlways`, from `LineageInv`;
* `ToldAsIsAlways`, from `TellingInv`;
* `EvaluatedAlways`, from `EvaluationInv`.

`ContributionInv` adds to the properties why they are kept: an upload under way
has its receipt and has not given out its reference, so nobody can have
withdrawn it when its bundle is stored (`CallsHold`); a bundle is a version of its
own conversation, so a withdrawal concerns one record (`OwnRecord`); a pass
carries the value of the bundle it is about, whoever wrote it last
(`PassedAsValued`).  `LineageInv` adds the attestations written so far: they are
linked to each other, their number is what the upload has done, and their last
one is what it remembers.  `TellingInv` adds that a conversation has one active
allocation at most, so that the one its contributor is told of is the one there
is.  `EvaluationInv` turns `Evaluated`, which speaks of the moments when no call is
under way, into what holds at every moment: a match that waits for a result is
pending in some call, which has its conversation still to do, or has it at hand
and the brief among those it read (`Pending`).

`QaGateProofs`:

* `FirstComeKeepsAlways`, `ByItselfAlways` and `QaGateTypeCorrect`.

`ByItself` compares what runs stored with what they would have stored for each
brief alone, `alone`.  `AloneInv` adds that a call past the fingerprints
has classes that agree as far as the brief can tell (`SameForTheBrief`): the pooled
class and the brief's own are both exact duplicates or neither - the rows that only
the wide search reads have other hashes - and the same when the brief wants near
ones, so the gates fail alike.  `FirstComeKeeps` compares a result with rows that are there
now, long after the run that wrote it read its own.  The invariant
`FirstComeInv` says that a classification, in a call or in a result, obeys the
rule for the rows there are (`Right`), and why it goes on doing so: the prompts
it is about have their rows (`Stored`), rows are only added (`Grows`), and what
came before a row is fixed with it (`BehindHolds`).

`AccountsProofs`:

* `AccountsTypeCorrect`, `RotatedAlways` and `OnePayoutAccountAlways`.

`Rotation` adds that a call which was shown a token of a session holds the one
that is live, that once it has revoked it there is none until the successor
(`HoldsActive`), and that two such calls have overlapped (`Alone`).  `Payouts`
says why a second account cannot be made: as long as a call may reach Stripe for a
row that has an account, its key is remembered (`KeyInTime`), and what a row
refers to was made for it (`SavedIsMade`).

`DeidentificationProofs` (any prompts of the shape in `PromptsAssumption`, any names,
any length of a conversation):

* `DeidentificationTypeCorrect`, `NothingSensitiveAlways`, `OnePersonAlways`,
  `NobodySingledOutAlways`, `AttestedAlways` and `KeptWholeAlways`.

`DeidInv` says of every outcome by itself that it is `Sound` - one that is kept has
passed every gate, its hits are either edited away or left, by type, and its
attestation names the one and counts the other - and of the pseudonyms
that they are a `Numbering`: as many numbers as names, none twice.  `Fresh` says
that before the bundle is looked at no attestation shows a suppression below the
limit of a prompt, which is how `KeptWhole` can tell the prompts that were touched
for the bundle.  The lemmas below are about the operators: the gates are shut
for every sensitive sentence that may be somebody's (`GatesShape`, `Nobodys`);
`MostDistinctive` takes as many types as it is asked for (`MostDistinctiveCount`,
counted place by place over the eight of the order); new names get the next
numbers, each its own (`NumberedOn`, by the ranks of their first places);
suppression leaves four types of a bundle (`BundleLeft`).

TLC has checked the inductive invariants on the instances above as well: the ones
of `Settlement` on `settlement_refund` and `settlement_liveness`, those of
`Funding`, `Contribution` and `Deidentification` on the runs of that name.

*Only model-checked.*  All liveness (`TransferRecorded`, `TransfersReturn`,
`UnusedFundsReturn`, `PaidIsRecorded`): proofs of it need `ENABLED`
and fairness reasoning that the prover does not do.

## Not modelled, and the plan

Left out for good: the HTTP layer, validation of request bodies, roles and
configuration checks that refuse a request without changing anything; password
hashing, signatures and tokens as strings, access tokens, which leave no row;
detectors (regular expressions and an HTTP client); the policy's work on text,
word by word, and with it edits over edited ranges; SimHashes bit by bit; the rough
estimate, one multiplication of counts a client sends; the dashboard and the
push payload, which list rows; the paging of the worker, of which the fairness is
what remains.

What could still be added: several conversations in one `process()` call, whose
errors are independent but whose attestations share the tail.
