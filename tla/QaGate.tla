------------------------------- MODULE QaGate -------------------------------
(***************************************************************************)
(* The quality gate (src/src/sale) between contributors: several of them   *)
(* upload conversations with the same or similar prompts at the same time. *)
(* Every upload stores the fingerprints of its prompts, stamped with the   *)
(* time, before it stores its bundle; QA compares a bundle's fingerprints  *)
(* with those of the other contributors, checks the bundle against every   *)
(* brief it matched and values what passes (src/src/valuation).            *)
(*                                                                         *)
(* Each contributor has one conversation, uploaded again and again.  How   *)
(* its receipts, attestations and sales go about it is the business of     *)
(* module Contribution; the reads and the writes of a QA run, which are    *)
(* apart there, are one step each here.                                    *)
(***************************************************************************)
EXTENDS Integers, FiniteSets, SequencesExt

CONSTANTS
  Users,        \* contributors
  Hashes,       \* the exactHash of a prompt
  Near,         \* pairs of hashes whose SimHashes differ in few bits
  Uploads,      \* what may be uploaded: [user, stored and kept hashes, the
                \*   de-identified prompts that are kept, tags, consent]
  Briefs,
  Live,         \* those that are live, funded and unexpired
  Matched,      \* [Users -> SUBSET Briefs]  what the conversations match
  Terms,        \* [Briefs -> the spec, quality and buyer category of a brief]
  Calls,        \* process() and reportMatches() calls, at any time
  Placeholders, \* the words that stand for something removed
  ShortBelow, LongAbove, \* the word counts at which tiers change
  MaxTime       \* bound: the last tick of the clock

NoUpload == [user |-> "nobody", stored |-> {}, kept |-> {}, prompts |-> <<>>,
             language |-> "und", tags |-> {}, categories |-> {}, jurisdiction |-> "none"]

ASSUME UploadsAssumption ==
  /\ IsFiniteSet(Hashes) /\ NoUpload \notin Uploads
  /\ \A up \in Uploads : /\ up.user \in Users
                         /\ up.kept \subseteq up.stored /\ up.stored \subseteq Hashes
                         /\ up.prompts \in Seq(Seq(STRING))
                         /\ up.kept = {} <=> up.prompts = <<>>
ASSUME BriefsAssumption == Live \subseteq Briefs /\ Matched \in [Users -> SUBSET Briefs]
ASSUME NearAssumption ==
  /\ Near \subseteq Hashes \X Hashes
  /\ \A h \in Hashes : <<h, h>> \in Near
ASSUME TimeAssumption == MaxTime \in Nat \ {0}

VARIABLES
  clock,
  rows,    \* RecordFingerprint: createdAt of <user, hash>, 0 without a row
  bundle,  \* the PackagedRecord of each contributor and its receipt's upload
  results, \* the QaResult of <user, brief>
  calls,   \* where each call is
  behind,  \* history: <hash, other hash> of a contributor whose row for the
           \*   one was stamped when another's row for the other was there
  alone    \* history: the result of <user, brief> that the same run would have
           \*   stored had the conversation matched that brief alone

dataVars == <<rows, bundle, results, behind, alone>>
vars == <<clock, dataVars, calls>>

NoBundle == [status |-> "none", upload |-> NoUpload]
NoResult == [status |-> "none", upload |-> NoUpload, dedup |-> "new", cents |-> 0]
(* The locals of a call; "each" is history, the class for each brief alone. *)
Idle == [pc |-> "idle", user |-> "nobody", upload |-> NoUpload, stamp |-> 0, knew |-> {},
         status |-> "none", dedup |-> "new", each |-> [b \in Briefs |-> "new"]]

Init ==
  /\ clock = 1
  /\ rows = [u \in Users |-> [h \in Hashes |-> 0]]
  /\ bundle = [u \in Users |-> NoBundle]
  /\ results = [u \in Users |-> [b \in Briefs |-> NoResult]]
  /\ calls = [c \in Calls |-> Idle]
  /\ behind = [u \in Users |-> {}]
  /\ alone = [u \in Users |-> [b \in Briefs |-> NoResult]]

(***************************************************************************)
(* Duplicates (dedup.ts).                                                  *)
(***************************************************************************)
(* The rows of others that dedupStatus() reads.                            *)
Pool(u, kept, wantsNear) ==
  {q \in (Users \ {u}) \X Hashes : rows[q[1]][q[2]] # 0 /\ (wantsNear \/ q[2] \in kept)}

(* Only a strictly earlier submission keeps.                               *)
EarlierWrong(u, kept, wantsNear, h) ==
  {o \in Hashes : \E v \in Users : <<v, o>> \in Pool(u, kept, wantsNear) /\ rows[v][o] < rows[u][h]}

(* "a prompt collides only with a fingerprint ANOTHER contributor          *)
(* submitted no later than this contributor did"                           *)
Earlier(u, kept, wantsNear, h) ==
  {o \in Hashes : \E v \in Users : <<v, o>> \in Pool(u, kept, wantsNear) /\ rows[v][o] <= rows[u][h]}

Exact(u, kept, wantsNear) == {h \in kept : h \in Earlier(u, kept, wantsNear, h)}

Colliding(u, kept, wantsNear) ==
  {h \in kept : \E o \in Earlier(u, kept, wantsNear, h) : <<o, h>> \in Near}

(* More than DUPLICATE_SHARE, a half.                                      *)
MostOf(kept, some) == 2 * Cardinality(some) > Cardinality(kept)

ClassifyDuplicates(u, kept, wantsNear) ==
  IF kept = {} THEN "new"
  ELSE IF MostOf(kept, Exact(u, kept, wantsNear)) THEN "exact_duplicate"
  ELSE IF MostOf(kept, Colliding(u, kept, wantsNear) \cup Exact(u, kept, wantsNear))
       THEN "near_duplicate"
  ELSE "new"

(***************************************************************************)
(* The gate on one brief (qa-gate.ts, keyword-match.ts).                   *)
(***************************************************************************)
WantsNear(b) == Terms[b].dedup = "exact+near"

(* A keyword is a sequence of words; they match across the end of a prompt,*)
(* because the prompts are joined with a space.                            *)
Has(text, keyword) ==
  keyword # <<>> /\ \E i \in 1 .. Len(text) - Len(keyword) + 1 :
                      SubSeq(text, i, i + Len(keyword) - 1) = keyword

(* Placeholders in a hundred words of text.                                *)
TooRedacted(text, max) ==
  LET removed == Cardinality({i \in DOMAIN text : text[i] \in Placeholders}) IN
  IF text = <<>> THEN 100 > max ELSE 100 * removed > max * Len(text)

If(condition, code) == IF condition THEN {code} ELSE {}

FinalPrompts(status, up) == IF status = "available" THEN up.prompts ELSE <<>>

(* Consent as the receipt records it (its withdrawal: module Contribution). *)
Consent(status, up, category) ==
  IF status = "none" THEN {"QA_NO_CONSENT"}
  ELSE UNION {If(category \notin up.categories, "QA_CATEGORY_NOT_CONSENTED"),
              If(up.jurisdiction \notin {"US", "CA"}, "QA_JURISDICTION")}

(* Any duplicate fails, whatever the brief guarantees.                     *)
DuplicateWrong(terms, dedup) == dedup # "new"

(* A near duplicate fails only a brief that guarantees there is none.      *)
Duplicate(terms, dedup) ==
  \/ dedup = "exact_duplicate"
  \/ dedup = "near_duplicate" /\ terms.dedup = "exact+near"

(* What the bundle has to be.                                              *)
Content(terms, isLive, status, up) ==
  LET prompts == FinalPrompts(status, up)
      text == FlattenSeq(prompts) IN
  UNION {If(~isLive, "QA_BRIEF_NOT_LIVE"),
         If(prompts = <<>>, "QA_NOT_PACKAGED"),
         If(terms.languages # {} /\ up.language \notin terms.languages, "QA_LANGUAGE"),
         If(terms.domains # {} /\ up.tags \cap terms.domains = {}, "QA_DOMAIN"),
         If(Len(prompts) < terms.minPrompts, "QA_MIN_PROMPTS"),
         If(TooRedacted(text, terms.maxDensity), "QA_REDACTION_DENSITY"),
         If(terms.any # {} /\ ~ \E k \in terms.any : Has(text, k), "QA_KEYWORDS_ANY"),
         If(\E k \in terms.all : ~ Has(text, k), "QA_KEYWORDS_ALL"),
         If(\E k \in terms.none : Has(text, k), "QA_KEYWORDS_NONE")}

QaGate(terms, isLive, status, up, dedup) ==
  Consent(status, up, terms.category) \cup Content(terms, isLive, status, up)
    \cup If(Duplicate(terms, dedup), "QA_DUPLICATE")

(***************************************************************************)
(* Valuation (tiers.ts, pricing-schedule.ts, precise-valuation.ts).        *)
(***************************************************************************)
TierOf(prompt) ==
  IF Len(prompt) < ShortBelow THEN "short"
  ELSE IF Len(prompt) > LongAbove THEN "long" ELSE "medium"
TierCount(prompts, tier) == Cardinality({i \in DOMAIN prompts : TierOf(prompts[i]) = tier})
PreciseValue(prompts) ==
  TierCount(prompts, "short") + 5 * TierCount(prompts, "medium") + 10 * TierCount(prompts, "long")

(***************************************************************************)
(* process(): fingerprints, then the bundle.                               *)
(***************************************************************************)
Step(c, to) == calls' = [calls EXCEPT ![c] = to]
End(c) == Step(c, [Idle EXCEPT !.pc = "done"])

(* The rows that are there and similar to a prompt of the upload.          *)
Known(up) ==
  {p \in up.stored \X Hashes :
     <<p[2], p[1]>> \in Near /\ \E v \in Users \ {up.user} : rows[v][p[2]] # 0}

(* createMany() begins; "now()" is the time of its beginning.              *)
Upload(c, up) ==
  /\ calls[c].pc = "idle"
  /\ Step(c, [Idle EXCEPT !.pc = "store", !.user = up.user, !.upload = up,
                          !.stamp = clock, !.knew = Known(up)])
  /\ UNCHANGED <<clock, dataVars>>

(* ... and commits: all prompts of the upload, kept or not; a row of the   *)
(* contributor that is there stays (skipDuplicates).                       *)
StoreFingerprints(c) ==
  LET u == calls[c].user
      new == {h \in calls[c].upload.stored : rows[u][h] = 0} IN
  /\ calls[c].pc = "store"
  /\ rows' = [rows EXCEPT ![u] = [h \in Hashes |-> IF h \in new THEN calls[c].stamp ELSE @[h]]]
  /\ behind' = [behind EXCEPT ![u] = @ \cup {p \in calls[c].knew : p[1] \in new}]
  /\ Step(c, [calls[c] EXCEPT !.pc = "package"])
  /\ UNCHANGED <<clock, bundle, results, alone>>

(* createPackagedRecord(); nothing to package when nothing is kept, and a  *)
(* sold bundle is final.                                                   *)
Package(c) ==
  LET u == calls[c].user up == calls[c].upload IN
  /\ calls[c].pc = "package"
  /\ IF up.kept = {} \/ bundle[u].status = "sold"
     THEN End(c) /\ UNCHANGED bundle
     ELSE /\ bundle' = [bundle EXCEPT ![u] = [status |-> "available", upload |-> up]]
          /\ Step(c, [Idle EXCEPT !.pc = "matches", !.user = u])
  /\ UNCHANGED <<clock, rows, results, behind, alone>>

(***************************************************************************)
(* reportMatches(), and runForConversation() for both.                     *)
(***************************************************************************)
Report(c, u) ==
  /\ calls[c].pc = "idle"
  /\ Matched[u] \cap Live # {}
  /\ Step(c, [Idle EXCEPT !.pc = "matches", !.user = u])
  /\ UNCHANGED <<clock, dataVars>>

(* The matches, the bundle and its receipt.                                *)
QaRead(c) ==
  LET u == calls[c].user IN
  /\ calls[c].pc = "matches"
  /\ IF Matched[u] = {} \/ bundle[u].status = "sold" THEN End(c)
     ELSE Step(c, [calls[c] EXCEPT !.pc = "others",
                     !.status = bundle[u].status, !.upload = bundle[u].upload])
  /\ UNCHANGED <<clock, dataVars>>

(* The fingerprints; those of others are all read as soon as one of the    *)
(* briefs wants to know of near duplicates.                                *)
QaDuplicates(c) ==
  LET here == calls[c] IN
  /\ here.pc = "others"
  /\ Step(c, [here EXCEPT !.pc = "verdict",
                !.dedup = ClassifyDuplicates(here.user, here.upload.kept,
                                             \E b \in Matched[here.user] : WantsNear(b)),
                !.each = [b \in Briefs |->
                            ClassifyDuplicates(here.user, here.upload.kept, WantsNear(b))]])
  /\ UNCHANGED <<clock, dataVars>>

(* What fails is valued as well.                                           *)
VerdictWrong(b, here) ==
  LET failures == QaGate(Terms[b], b \in Live, here.status, here.upload, here.dedup) IN
  [status |-> IF failures = {} THEN "passed" ELSE "failed", upload |-> here.upload,
   dedup |-> here.dedup, cents |-> PreciseValue(here.upload.prompts)]

Verdict(b, here) ==
  LET failures == QaGate(Terms[b], b \in Live, here.status, here.upload, here.dedup) IN
  [status |-> IF failures = {} THEN "passed" ELSE "failed", upload |-> here.upload,
   dedup  |-> here.dedup,
   cents  |-> IF failures = {} THEN PreciseValue(FinalPrompts(here.status, here.upload)) ELSE 0]

QaVerdict(c) ==
  LET here == calls[c]
      matched == Matched[here.user] IN
  /\ here.pc = "verdict"
  /\ results' = [results EXCEPT ![here.user] =
                   [b \in Briefs |-> IF b \in matched THEN Verdict(b, here) ELSE @[b]]]
  /\ alone' = [alone EXCEPT ![here.user] =
                 [b \in Briefs |-> IF b \in matched
                                   THEN Verdict(b, [here EXCEPT !.dedup = here.each[b]])
                                   ELSE @[b]]]
  /\ End(c)
  /\ UNCHANGED <<clock, rows, bundle, behind>>

CallDies(c) ==
  /\ calls[c].pc \notin {"idle", "done"}
  /\ End(c)
  /\ UNCHANGED <<clock, dataVars>>

(***************************************************************************)
(* The administrators and the clock.                                       *)
(***************************************************************************)
Sell(u, b) ==
  /\ bundle[u].status = "available"
  /\ results[u][b].status = "passed" /\ results[u][b].upload = bundle[u].upload
  /\ b \in Live
  /\ bundle' = [bundle EXCEPT ![u].status = "sold"]
  /\ UNCHANGED <<clock, rows, results, behind, alone, calls>>

Tick ==
  /\ clock < MaxTime
  /\ clock' = clock + 1
  /\ UNCHANGED <<dataVars, calls>>

Process(c) == (\E up \in Uploads : Upload(c, up)) \/ StoreFingerprints(c) \/ Package(c)
RunForConversation(c) == QaRead(c) \/ QaDuplicates(c) \/ QaVerdict(c)

Next ==
  \/ \E c \in Calls : \/ Process(c) \/ RunForConversation(c) \/ CallDies(c)
                      \/ \E u \in Users : Report(c, u)
  \/ \E u \in Users, b \in Briefs : Sell(u, b)
  \/ Tick

Spec == Init /\ [][Next]_vars

(***************************************************************************)
(* Properties.                                                             *)
(***************************************************************************)
Versions == Uploads \cup {NoUpload}
Statuses == {"none", "available", "sold"}
Classes == {"new", "exact_duplicate", "near_duplicate"}
Results == [status : {"none", "passed", "failed"}, upload : Versions, dedup : Classes, cents : Nat]

(* The shape of rows and locals; a pass is worth at least a cent, which    *)
(* reserve() insists on, and a failure nothing.                            *)
TypeOK ==
  /\ clock \in 1 .. MaxTime
  /\ rows \in [Users -> [Hashes -> 0 .. clock]]
  /\ bundle \in [Users -> [status : Statuses, upload : Versions]]
  /\ results \in [Users -> [Briefs -> Results]] /\ alone \in [Users -> [Briefs -> Results]]
  /\ \A u \in Users, b \in Briefs : results[u][b].status = "passed" <=> results[u][b].cents > 0
  /\ calls \in [Calls -> [pc : {"idle", "store", "package", "matches", "others", "verdict", "done"},
                          user : Users \cup {"nobody"}, upload : Versions, stamp : 0 .. clock,
                          knew : SUBSET (Hashes \X Hashes), status : Statuses,
                          dedup : Classes, each : [Briefs -> Classes]]]
  /\ behind \in [Users -> SUBSET (Hashes \X Hashes)]

(* "First come keeps": whoever submitted each kept prompt strictly before  *)
(* everybody else submitted it or one like it is never called a duplicate; *)
(* and whoever began to upload when most of its prompts were there from    *)
(* others is always called one, within the same tick of the clock too and  *)
(* whatever it uploads, reports or repeats around it.                      *)
First(u, up) ==
  \A h \in up.kept, o \in Hashes, v \in Users \ {u} :
    <<o, h>> \in Near /\ rows[v][o] # 0 => rows[u][h] < rows[v][o]
Behind(u, up) == {h \in up.kept : <<h, h>> \in behind[u]}
NearlyBehind(u, up) == {h \in up.kept : \E o \in Hashes : <<h, o>> \in behind[u]}

FirstComeKeeps ==
  \A u \in Users, b \in Briefs :
    LET r == results[u][b] IN
    r.status # "none" =>
      /\ First(u, r.upload) => r.dedup = "new"
      /\ MostOf(r.upload.kept, Behind(u, r.upload)) => r.dedup = "exact_duplicate"
      /\ WantsNear(b) /\ MostOf(r.upload.kept, NearlyBehind(u, r.upload)) => r.status = "failed"

(* What a run stored for a brief is what it would have stored had the      *)
(* conversation matched that brief alone, though all its briefs together   *)
(* decide which fingerprints the run reads and they share one              *)
(* classification: the same verdict about the same bundle at the same      *)
(* price, however uploads, runs and sales came in between.  (The class     *)
(* that is stored with it may be the other brief's.)                       *)
ByItself ==
  \A u \in Users, b \in Briefs :
    LET stored == results[u][b] own == alone[u][b] IN
    <<stored.status, stored.upload, stored.cents>> = <<own.status, own.upload, own.cents>>
====
