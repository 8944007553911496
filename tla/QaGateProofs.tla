---------------------------- MODULE QaGateProofs ----------------------------
(***************************************************************************)
(* Theorems about QaGate for any number of contributors, prompts, uploads, *)
(* briefs and calls: the rule "first come keeps", the independence of the  *)
(* verdicts, and the shape of rows and results.                            *)
(***************************************************************************)
EXTENDS QaGate, FiniteSetTheorems, TLAPS

LEMMA Constants ==
  /\ \A up \in Versions : /\ IsFiniteSet(up.kept) /\ up.kept \subseteq Hashes
                          /\ up.prompts \in Seq(Seq(STRING))
  /\ \A up \in Uploads : up.user \in Users /\ up.kept \subseteq up.stored /\ up.stored \subseteq Hashes
  /\ \A h \in Hashes : <<h, h>> \in Near
<1>1. \A up \in Uploads : up.kept \subseteq Hashes
  BY UploadsAssumption
<1>2. \A S \in SUBSET Hashes : IsFiniteSet(S)
  BY UploadsAssumption, FS_Subset
<1>3. IsFiniteSet(NoUpload.kept) /\ NoUpload.kept \subseteq Hashes /\ NoUpload.prompts \in Seq(Seq(STRING))
  BY FS_EmptySet DEF NoUpload
<1> QED BY <1>1, <1>2, <1>3, UploadsAssumption, NearAssumption DEF Versions

(* Most of nothing is nothing, and a larger share is a larger share.       *)
LEMMA NothingIsLittle ==
  ASSUME NEW kept, IsFiniteSet(kept)
  PROVE  ~ MostOf(kept, {})
<1>1. Cardinality({}) = 0 /\ Cardinality(kept) \in Nat
  BY FS_EmptySet, FS_CardinalityType
<1> QED BY <1>1 DEF MostOf

LEMMA MostGrows ==
  ASSUME NEW kept, IsFiniteSet(kept), NEW some, NEW more, some \subseteq more, more \subseteq kept,
         MostOf(kept, some)
  PROVE  MostOf(kept, more)
<1>1. IsFiniteSet(more) /\ IsFiniteSet(some)
  BY FS_Subset
<1>2. Cardinality(some) <= Cardinality(more)
  BY <1>1, FS_Subset
<1>3. Cardinality(some) \in Nat /\ Cardinality(more) \in Nat /\ Cardinality(kept) \in Nat
  BY <1>1, FS_CardinalityType
<1> QED BY <1>2, <1>3 DEF MostOf

-----------------------------------------------------------------------------
(* Exact duplicates are found in either pool.                              *)
LEMMA ExactInEitherPool ==
  ASSUME NEW u, NEW kept
  PROVE  Exact(u, kept, FALSE) = Exact(u, kept, TRUE)
<1>1. ASSUME NEW h \in kept
      PROVE  h \in Earlier(u, kept, FALSE, h) <=> h \in Earlier(u, kept, TRUE, h)
  BY DEF Earlier, Pool
<1> QED BY <1>1 DEF Exact

(* A brief takes what the briefs of the conversation found together for a  *)
(* duplicate exactly if it would take what it finds alone for one, for any *)
(* rows.                                                                   *)
LEMMA SameForTheBrief ==
  ASSUME NEW u, NEW kept, NEW b \in Briefs, NEW pooled, WantsNear(b) => pooled = TRUE,
         pooled \in BOOLEAN
  PROVE  Duplicate(Terms[b], ClassifyDuplicates(u, kept, pooled))
         <=> Duplicate(Terms[b], ClassifyDuplicates(u, kept, WantsNear(b)))
<1>0. WantsNear(b) \in BOOLEAN
  BY DEF WantsNear
<1>1. CASE WantsNear(b)
  <2>1. WantsNear(b) = TRUE
    BY <1>0, <1>1
  <2> QED BY <1>1, <2>1
<1>2. CASE ~ WantsNear(b)
  <2>1. WantsNear(b) = FALSE
    BY <1>0, <1>2
  <2>2. \A w : ClassifyDuplicates(u, kept, w) = "exact_duplicate"
                           <=> kept # {} /\ MostOf(kept, Exact(u, kept, w))
    BY DEF ClassifyDuplicates
  <2>3. \A d : Duplicate(Terms[b], d) <=> d = "exact_duplicate"
    BY <1>2 DEF Duplicate, WantsNear
  <2>4. Exact(u, kept, pooled) = Exact(u, kept, FALSE)
    BY ExactInEitherPool
  <2> QED BY <2>1, <2>2, <2>3, <2>4
<1> QED BY <1>1, <1>2

-----------------------------------------------------------------------------
(* What a classification owes to the rows: the rule "first come keeps".    *)
FirstIn(rws, u, up) ==
  \A h \in up.kept, o \in Hashes, v \in Users \ {u} :
    <<o, h>> \in Near /\ rws[v][o] # 0 => rws[u][h] < rws[v][o]
BehindIn(bhd, u, up) == {h \in up.kept : <<h, h>> \in bhd[u]}
NearlyBehindIn(bhd, u, up) == {h \in up.kept : \E o \in Hashes : <<h, o>> \in bhd[u]}

Right(rws, bhd, u, up, dedup) ==
  /\ FirstIn(rws, u, up) => dedup = "new"
  /\ MostOf(up.kept, BehindIn(bhd, u, up)) => dedup = "exact_duplicate"
  /\ (\E b \in Matched[u] : WantsNear(b)) /\ MostOf(up.kept, NearlyBehindIn(bhd, u, up))
       => dedup # "new"

(* The prompts of an upload have their rows.                               *)
Stored(rws, u, up) == \A h \in up.kept : rws[u][h] # 0

(* Another contributor's row for something like a prompt, by a time.       *)
Seen(rws, u, h, o, time) ==
  <<o, h>> \in Near /\ \E v \in Users \ {u} : rws[v][o] # 0 /\ rws[v][o] <= time

Rows(clk) == [Users -> [Hashes -> 0 .. clk]]
BehindHolds(rws, bhd) ==
  \A u \in Users, h, o \in Hashes :
    <<h, o>> \in bhd[u] => rws[u][h] # 0 /\ Seen(rws, u, h, o, rws[u][h])

Locals(clk) == [pc : {"idle", "store", "package", "matches", "others", "verdict", "done"},
                user : Users \cup {"nobody"}, upload : Versions, stamp : 0 .. clk,
                knew : SUBSET (Hashes \X Hashes), status : Statuses, dedup : Classes,
                each : [Briefs -> Classes]]
CallHolds(rws, bhd, clk, call) ==
  /\ call \in Locals(clk)
  /\ call.pc \notin {"idle", "done"} => call.user \in Users
  /\ call.pc \in {"store", "package"} => call.upload \in Uploads /\ call.upload.user = call.user
  /\ call.pc = "store" =>
       /\ call.stamp \in 1 .. clk
       /\ \A h, o \in Hashes : <<h, o>> \in call.knew => Seen(rws, call.user, h, o, call.stamp)
  /\ call.pc \in {"package", "others", "verdict"} => Stored(rws, call.user, call.upload)
  /\ call.pc = "verdict" => Right(rws, bhd, call.user, call.upload, call.dedup)

ResultHolds(rws, bhd, u, b, r) ==
  /\ r \in Results /\ (r.status = "passed" <=> r.cents > 0)
  /\ r.status # "none" => /\ Right(rws, bhd, u, r.upload, r.dedup) /\ Stored(rws, u, r.upload)
                          /\ b \in Matched[u]
                          /\ WantsNear(b) /\ r.dedup # "new" => r.status = "failed"

Bundles == [status : Statuses, upload : Versions]

FirstComeInv ==
  /\ clock \in 1 .. MaxTime /\ rows \in Rows(clock)
  /\ behind \in [Users -> SUBSET (Hashes \X Hashes)] /\ BehindHolds(rows, behind)
  /\ bundle \in [Users -> Bundles] /\ \A u \in Users : Stored(rows, u, bundle[u].upload)
  /\ calls \in [Calls -> Locals(clock)] /\ \A c \in Calls : CallHolds(rows, behind, clock, calls[c])
  /\ results \in [Users -> [Briefs -> Results]]
  /\ \A u \in Users, b \in Briefs : ResultHolds(rows, behind, u, b, results[u][b])

(* The classification of what is stored obeys the rule.                    *)
LEMMA ClassifiedRight ==
  ASSUME FirstComeInv, NEW u \in Users, NEW up \in Versions
  PROVE  Right(rows, behind, u, up, ClassifyDuplicates(u, up.kept, \E b \in Matched[u] : WantsNear(b)))
<1> DEFINE kept == up.kept
           near == \E b \in Matched[u] : WantsNear(b)
<1>0. IsFiniteSet(kept) /\ kept \subseteq Hashes
  BY Constants
<1>1. ASSUME FirstIn(rows, u, up)
      PROVE  Exact(u, kept, near) = {} /\ Colliding(u, kept, near) = {}
  <2>1. ASSUME NEW h \in kept, NEW o \in Earlier(u, kept, near, h), <<o, h>> \in Near
        PROVE  FALSE
    <3>1. PICK v \in Users : <<v, o>> \in Pool(u, kept, near) /\ rows[v][o] <= rows[u][h]
      BY <2>1 DEF Earlier
    <3>2. v \in Users \ {u} /\ o \in Hashes /\ rows[v][o] # 0
      BY <3>1 DEF Pool
    <3>3. rows[u][h] < rows[v][o]
      BY <1>1, <2>1, <3>2 DEF FirstIn
    <3>4. rows[u][h] \in Int /\ rows[v][o] \in Int
      BY <1>0, <3>2 DEF FirstComeInv, Rows
    <3> QED BY <3>1, <3>3, <3>4
  <2>2. \A h \in kept : <<h, h>> \in Near
    BY <1>0, Constants
  <2> QED BY <2>1, <2>2 DEF Exact, Colliding
<1>2. BehindIn(behind, u, up) \subseteq Exact(u, kept, near) /\ Exact(u, kept, near) \subseteq kept
  <2> SUFFICES ASSUME NEW h \in kept, <<h, h>> \in behind[u]
               PROVE  h \in Earlier(u, kept, near, h)
    BY DEF BehindIn, Exact
  <2>1. PICK v \in Users \ {u} : rows[v][h] # 0 /\ rows[v][h] <= rows[u][h]
    BY <1>0 DEF FirstComeInv, BehindHolds, Seen
  <2>2. <<v, h>> \in Pool(u, kept, near)
    BY <1>0, <2>1 DEF Pool
  <2> QED BY <1>0, <2>1, <2>2 DEF Earlier
<1>3. ASSUME near
      PROVE  NearlyBehindIn(behind, u, up) \subseteq Colliding(u, kept, near)
  <2> SUFFICES ASSUME NEW h \in kept, NEW o \in Hashes, <<h, o>> \in behind[u]
               PROVE  o \in Earlier(u, kept, near, h) /\ <<o, h>> \in Near
    BY DEF NearlyBehindIn, Colliding
  <2>1. PICK v \in Users \ {u} : /\ <<o, h>> \in Near
                                 /\ rows[v][o] # 0 /\ rows[v][o] <= rows[u][h]
    BY <1>0 DEF FirstComeInv, BehindHolds, Seen
  <2>2. <<v, o>> \in Pool(u, kept, near)
    BY <1>3, <2>1 DEF Pool
  <2> QED BY <2>1, <2>2 DEF Earlier
<1>4. Colliding(u, kept, near) \subseteq kept
  BY DEF Colliding
<1> HIDE DEF near, kept
<1>5. ~ MostOf(kept, {})
  BY <1>0, NothingIsLittle
<1>6. FirstIn(rows, u, up) => ClassifyDuplicates(u, kept, near) = "new"
  <2> SUFFICES ASSUME FirstIn(rows, u, up) PROVE ClassifyDuplicates(u, kept, near) = "new"
    OBVIOUS
  <2>1. Exact(u, kept, near) = {} /\ Colliding(u, kept, near) \cup Exact(u, kept, near) = {}
    BY <1>1
  <2> QED BY <1>5, <2>1 DEF ClassifyDuplicates
<1>7. MostOf(kept, BehindIn(behind, u, up)) => ClassifyDuplicates(u, kept, near) = "exact_duplicate"
  <2> SUFFICES ASSUME MostOf(kept, BehindIn(behind, u, up))
               PROVE  ClassifyDuplicates(u, kept, near) = "exact_duplicate"
    OBVIOUS
  <2>1. MostOf(kept, Exact(u, kept, near))
    BY <1>0, <1>2, MostGrows
  <2>2. kept # {}
    BY <1>2, <1>5, <2>1
  <2> QED BY <2>1, <2>2 DEF ClassifyDuplicates
<1>8. near /\ MostOf(kept, NearlyBehindIn(behind, u, up)) => ClassifyDuplicates(u, kept, near) # "new"
  <2> SUFFICES ASSUME near, MostOf(kept, NearlyBehindIn(behind, u, up))
               PROVE  ClassifyDuplicates(u, kept, near) # "new"
    OBVIOUS
  <2>1. MostOf(kept, Colliding(u, kept, near) \cup Exact(u, kept, near))
    <3> DEFINE both == Colliding(u, kept, near) \cup Exact(u, kept, near)
    <3>1. NearlyBehindIn(behind, u, up) \subseteq both /\ both \subseteq kept
      BY <1>2, <1>3, <1>4
    <3> HIDE DEF both
    <3>2. MostOf(kept, both)
      BY <1>0, <3>1, MostGrows
    <3> QED BY <3>2 DEF both
  <2>2. kept # {}
    BY <1>2, <1>4, <1>5, <2>1
  <2> QED BY <2>1, <2>2 DEF ClassifyDuplicates
<1> QED BY <1>6, <1>7, <1>8 DEF Right, kept, near

-----------------------------------------------------------------------------
(* Rows are only added, and what came before a row is fixed with it.       *)
Grows(rws, bhd, more, mbhd) ==
  \A u \in Users, h \in Hashes : rws[u][h] # 0 =>
    /\ more[u][h] = rws[u][h]
    /\ \A o \in Hashes : <<h, o>> \in mbhd[u] => <<h, o>> \in bhd[u]

LEMMA StaysStored ==
  ASSUME NEW rws, NEW bhd, NEW more, NEW mbhd, Grows(rws, bhd, more, mbhd),
         NEW u \in Users, NEW up \in Versions, Stored(rws, u, up)
  PROVE  Stored(more, u, up)
BY Constants DEF Stored, Grows

LEMMA StaysSeen ==
  ASSUME NEW rws, NEW bhd, NEW more, NEW mbhd, Grows(rws, bhd, more, mbhd),
         NEW u \in Users, NEW h \in Hashes, NEW o \in Hashes, NEW time, Seen(rws, u, h, o, time)
  PROVE  Seen(more, u, h, o, time)
<1>1. PICK v \in Users \ {u} : rws[v][o] # 0 /\ rws[v][o] <= time
  BY DEF Seen
<1>2. more[v][o] = rws[v][o]
  BY <1>1 DEF Grows
<1> QED BY <1>1, <1>2 DEF Seen

LEMMA StaysRight ==
  ASSUME NEW rws, NEW bhd, NEW more, NEW mbhd, Grows(rws, bhd, more, mbhd),
         NEW u \in Users, NEW up \in Versions, NEW dedup,
         Stored(rws, u, up), Right(rws, bhd, u, up, dedup)
  PROVE  Right(more, mbhd, u, up, dedup)
<1>0. IsFiniteSet(up.kept) /\ up.kept \subseteq Hashes
  BY Constants
<1>1. ASSUME FirstIn(more, u, up) PROVE FirstIn(rws, u, up)
  <2> SUFFICES ASSUME NEW h \in up.kept, NEW o \in Hashes, NEW v \in Users \ {u},
                      <<o, h>> \in Near, rws[v][o] # 0
               PROVE  rws[u][h] < rws[v][o]
    BY DEF FirstIn
  <2>1. more[v][o] = rws[v][o] /\ more[u][h] = rws[u][h]
    BY <1>0 DEF Grows, Stored
  <2> QED BY <1>1, <2>1 DEF FirstIn
<1>2. BehindIn(mbhd, u, up) \subseteq BehindIn(bhd, u, up) /\ BehindIn(bhd, u, up) \subseteq up.kept
  BY <1>0 DEF BehindIn, Grows, Stored
<1>3. /\ NearlyBehindIn(mbhd, u, up) \subseteq NearlyBehindIn(bhd, u, up)
      /\ NearlyBehindIn(bhd, u, up) \subseteq up.kept
  BY <1>0 DEF NearlyBehindIn, Grows, Stored
<1>4. MostOf(up.kept, BehindIn(mbhd, u, up)) => MostOf(up.kept, BehindIn(bhd, u, up))
  BY <1>0, <1>2, MostGrows
<1>5. MostOf(up.kept, NearlyBehindIn(mbhd, u, up)) => MostOf(up.kept, NearlyBehindIn(bhd, u, up))
  BY <1>0, <1>3, MostGrows
<1> QED BY <1>1, <1>4, <1>5 DEF Right

LEMMA CallStays ==
  ASSUME NEW rws, NEW bhd, NEW more, NEW mbhd, Grows(rws, bhd, more, mbhd),
         NEW clk \in Nat, NEW later \in Nat, clk <= later, NEW call, CallHolds(rws, bhd, clk, call)
  PROVE  CallHolds(more, mbhd, later, call)
<1>1. call \in Locals(later) /\ call.upload \in Versions
  BY DEF CallHolds, Locals
<1>2. call.pc \notin {"idle", "done"} => call.user \in Users
  BY DEF CallHolds
<1>3. call.pc \in {"store", "package"} => call.upload \in Uploads /\ call.upload.user = call.user
  BY DEF CallHolds
<1>4. call.pc = "store" =>
        /\ call.stamp \in 1 .. later
        /\ \A h, o \in Hashes : <<h, o>> \in call.knew => Seen(more, call.user, h, o, call.stamp)
  BY <1>2, StaysSeen DEF CallHolds
<1>5. call.pc \in {"package", "others", "verdict"} => Stored(more, call.user, call.upload)
  BY <1>1, <1>2, StaysStored DEF CallHolds
<1>6. call.pc = "verdict" => Right(more, mbhd, call.user, call.upload, call.dedup)
  BY <1>1, <1>2, StaysRight DEF CallHolds
<1> QED BY <1>1, <1>2, <1>3, <1>4, <1>5, <1>6 DEF CallHolds

LEMMA ResultStays ==
  ASSUME NEW rws, NEW bhd, NEW more, NEW mbhd, Grows(rws, bhd, more, mbhd),
         NEW u \in Users, NEW b, NEW r, ResultHolds(rws, bhd, u, b, r)
  PROVE  ResultHolds(more, mbhd, u, b, r)
<1>1. r.upload \in Versions
  BY DEF ResultHolds, Results
<1>2. r.status # "none" => Right(more, mbhd, u, r.upload, r.dedup) /\ Stored(more, u, r.upload)
  BY <1>1, StaysRight, StaysStored DEF ResultHolds
<1> QED BY <1>2 DEF ResultHolds

-----------------------------------------------------------------------------
(* What a verdict is worth.                                                *)
LEMMA ValueOfSome ==
  ASSUME NEW prompts \in Seq(Seq(STRING))
  PROVE  PreciseValue(prompts) \in Nat /\ (prompts # <<>> => PreciseValue(prompts) > 0)
<1> DEFINE In(tier) == {i \in DOMAIN prompts : TierOf(prompts[i]) = tier}
<1>1. \A tier : IsFiniteSet(In(tier))
  <2>1. IsFiniteSet(1 .. Len(prompts))
    BY FS_Interval
  <2> QED BY <2>1, FS_Subset
<1>2. \A tier : Cardinality(In(tier)) \in Nat /\ (In(tier) # {} => Cardinality(In(tier)) # 0)
  <2>1. \A tier : Cardinality(In(tier)) \in Nat
    BY <1>1, FS_CardinalityType
  <2>2. \A tier : Cardinality(In(tier)) = 0 <=> In(tier) = {}
    BY <1>1, FS_EmptySet
  <2> QED BY <2>1, <2>2
<1>3. \A tier : TierCount(prompts, tier) = Cardinality(In(tier))
  BY DEF TierCount
<1>4. ASSUME prompts # <<>>
      PROVE  \E tier \in {"short", "medium", "long"} : In(tier) # {}
  <2>1. 1 \in DOMAIN prompts
    BY <1>4
  <2>2. TierOf(prompts[1]) \in {"short", "medium", "long"}
    BY DEF TierOf
  <2>3. 1 \in In(TierOf(prompts[1]))
    BY <2>1
  <2> QED BY <2>2, <2>3
<1> HIDE DEF In
<1> QED BY <1>2, <1>3, <1>4 DEF PreciseValue

(* A pass is of what is there, and is no duplicate.                        *)
LEMMA VerdictHolds ==
  ASSUME NEW u \in Users, NEW b \in Matched[u], NEW here,
         here.upload \in Versions, here.dedup \in Classes,
         Right(rows, behind, u, here.upload, here.dedup), Stored(rows, u, here.upload)
  PROVE  Verdict(b, here) \in Results /\ ResultHolds(rows, behind, u, b, Verdict(b, here))
<1> DEFINE failures == QaGate(Terms[b], b \in Live, here.status, here.upload, here.dedup)
           prompts == FinalPrompts(here.status, here.upload)
           r == Verdict(b, here)
<1>1. /\ r.status = IF failures = {} THEN "passed" ELSE "failed"
      /\ r.upload = here.upload /\ r.dedup = here.dedup
      /\ r.cents = IF failures = {} THEN PreciseValue(prompts) ELSE 0
      /\ r = [status |-> r.status, upload |-> r.upload, dedup |-> r.dedup, cents |-> r.cents]
  BY DEF Verdict
<1>2. WantsNear(b) /\ here.dedup # "new" => failures # {}
  <2> SUFFICES ASSUME WantsNear(b), here.dedup # "new"
               PROVE  "QA_DUPLICATE" \in failures
    OBVIOUS
  <2>1. Duplicate(Terms[b], here.dedup)
    BY DEF Duplicate, WantsNear, Classes
  <2>2. "QA_DUPLICATE" \in If(Duplicate(Terms[b], here.dedup), "QA_DUPLICATE")
    BY <2>1 DEF If
  <2> QED BY <2>2 DEF QaGate
<1>3. prompts = <<>> => failures # {}
  <2> SUFFICES ASSUME prompts = <<>>
               PROVE  "QA_NOT_PACKAGED" \in failures
    OBVIOUS
  <2>1. "QA_NOT_PACKAGED" \in If(prompts = <<>>, "QA_NOT_PACKAGED")
    BY DEF If
  <2>2. "QA_NOT_PACKAGED" \in Content(Terms[b], b \in Live, here.status, here.upload)
    BY <2>1 DEF Content
  <2> QED BY <2>2 DEF QaGate
<1>4. prompts \in Seq(Seq(STRING))
  <2>1. here.upload.prompts \in Seq(Seq(STRING))
    BY Constants
  <2>2. <<>> \in Seq(Seq(STRING))
    OBVIOUS
  <2> QED BY <2>1, <2>2 DEF FinalPrompts
<1> HIDE DEF failures, prompts
<1>5. PreciseValue(prompts) \in Nat /\ (failures = {} => PreciseValue(prompts) > 0)
  BY <1>3, <1>4, ValueOfSome
<1> HIDE DEF r
<1>6. r \in Results /\ (r.status = "passed" <=> r.cents > 0) /\ r.status # "none"
  BY <1>1, <1>5 DEF Results
<1>7. WantsNear(b) /\ r.dedup # "new" => r.status = "failed"
  BY <1>1, <1>2
<1>8. ResultHolds(rows, behind, u, b, r)
  BY <1>1, <1>6, <1>7 DEF ResultHolds
<1> QED BY <1>6, <1>8 DEF r

-----------------------------------------------------------------------------
LEMMA FirstComeInit == Init => FirstComeInv
<1> SUFFICES ASSUME Init PROVE FirstComeInv
  OBVIOUS
<1> USE DEF Init
<1>1. clock \in 1 .. MaxTime /\ rows \in Rows(clock)
  BY TimeAssumption DEF Rows
<1>2. NoUpload \in Versions /\ \A u \in Users : Stored(rows, u, NoUpload)
  BY DEF Versions, Stored, NoUpload
<1>3. behind \in [Users -> SUBSET (Hashes \X Hashes)] /\ BehindHolds(rows, behind)
  BY DEF BehindHolds
<1>4. bundle \in [Users -> Bundles] /\ \A u \in Users : Stored(rows, u, bundle[u].upload)
  BY <1>2 DEF Bundles, NoBundle, Statuses
<1>5. Idle \in Locals(clock)
  BY <1>2 DEF Idle, Locals, Statuses, Classes
<1>6. CallHolds(rows, behind, clock, Idle)
  BY <1>5 DEF CallHolds, Idle
<1>7. \A u \in Users, b \in Briefs : results[u][b] = NoResult
  OBVIOUS
<1>8. NoResult \in Results /\ \A u \in Users, b \in Briefs : ResultHolds(rows, behind, u, b, NoResult)
  BY <1>2 DEF NoResult, Results, ResultHolds, Classes
<1> HIDE DEF Init
<1>9. /\ calls \in [Calls -> Locals(clock)]
      /\ \A c \in Calls : CallHolds(rows, behind, clock, calls[c])
  BY <1>5, <1>6 DEF Init
<1>10. /\ results \in [Users -> [Briefs -> Results]]
       /\ \A u \in Users, b \in Briefs : ResultHolds(rows, behind, u, b, results[u][b])
  <2>1. results \in [Users -> [Briefs -> Results]]
    BY <1>8 DEF Init
  <2> QED BY <1>7, <1>8, <2>1
<1> QED BY <1>1, <1>3, <1>4, <1>9, <1>10 DEF FirstComeInv

(* The invariant without the calls.                                        *)
DataHolds ==
  /\ clock \in 1 .. MaxTime /\ rows \in Rows(clock)
  /\ behind \in [Users -> SUBSET (Hashes \X Hashes)] /\ BehindHolds(rows, behind)
  /\ bundle \in [Users -> Bundles] /\ \A u \in Users : Stored(rows, u, bundle[u].upload)
  /\ results \in [Users -> [Briefs -> Results]]
  /\ \A u \in Users, b \in Briefs : ResultHolds(rows, behind, u, b, results[u][b])

(* A step of one call, or of none, keeps what the others hold.             *)
LEMMA OneCallSteps ==
  ASSUME FirstComeInv, DataHolds', Grows(rows, behind, rows', behind'), clock <= clock',
         NEW c \in Calls, NEW to,
         CallHolds(rows', behind', clock', to), calls' = [calls EXCEPT ![c] = to]
  PROVE  FirstComeInv'
<1>1. clock \in Nat /\ clock' \in Nat
  BY DEF FirstComeInv, DataHolds
<1>2. \A d \in Calls : CallHolds(rows', behind', clock', calls[d])
  BY <1>1, CallStays DEF FirstComeInv
<1>3. \A d \in Calls : calls'[d] = IF d = c THEN to ELSE calls[d]
  BY DEF FirstComeInv
<1>4. \A d \in Calls : CallHolds(rows', behind', clock', calls'[d])
  BY <1>2, <1>3
<1>5. \A d \in Calls : calls'[d] \in Locals(clock')
  BY <1>4 DEF CallHolds
<1>6. calls' \in [Calls -> Locals(clock')]
  BY <1>5 DEF FirstComeInv
<1> QED BY <1>4, <1>6 DEF FirstComeInv, DataHolds

LEMMA SameRows == Grows(rows, behind, rows, behind)
BY DEF Grows

(* ... and what is not in the data needs no argument about the data.       *)
LEMMA OnlyTheCallSteps ==
  ASSUME FirstComeInv, UNCHANGED <<clock, dataVars>>, NEW c \in Calls, NEW to,
         CallHolds(rows, behind, clock, to), Step(c, to)
  PROVE  FirstComeInv'
<1>1. DataHolds'
  BY DEF FirstComeInv, DataHolds, dataVars
<1>2. Grows(rows, behind, rows', behind') /\ clock <= clock' /\ CallHolds(rows', behind', clock', to)
  BY SameRows DEF FirstComeInv, dataVars
<1> QED BY <1>1, <1>2, OneCallSteps DEF Step

LEMMA IdleTyped == ASSUME FirstComeInv PROVE Idle \in Locals(clock)
BY DEF FirstComeInv, Locals, Idle, Versions, Statuses, Classes

LEMMA EndHolds ==
  ASSUME FirstComeInv
  PROVE  CallHolds(rows, behind, clock, [Idle EXCEPT !.pc = "done"])
BY DEF FirstComeInv, CallHolds, Locals, Idle, Versions, Statuses, Classes

-----------------------------------------------------------------------------
LEMMA EndStep == ASSUME FirstComeInv, UNCHANGED <<clock, dataVars>>, NEW c \in Calls, End(c)
                 PROVE  FirstComeInv'
BY EndHolds, OnlyTheCallSteps DEF End

LEMMA UploadStep == ASSUME FirstComeInv, NEW c \in Calls, NEW up \in Uploads, Upload(c, up)
                    PROVE  FirstComeInv'
<1> DEFINE to == [Idle EXCEPT !.pc = "store", !.user = up.user, !.upload = up,
                              !.stamp = clock, !.knew = Known(up)]
<1>1. /\ to.pc = "store" /\ to.user = up.user /\ to.upload = up /\ to.stamp = clock
      /\ to.knew = Known(up)
  BY DEF Idle
<1>2. up.user \in Users /\ Known(up) \in SUBSET (Hashes \X Hashes) /\ clock \in 1 .. clock
  BY Constants DEF Known, FirstComeInv
<1>3. to \in Locals(clock)
  <2>1. up \in Versions /\ clock \in 0 .. clock
    BY <1>2 DEF Versions
  <2> QED BY <1>2, <2>1, IdleTyped DEF Locals
<1>4. ASSUME NEW h \in Hashes, NEW o \in Hashes, <<h, o>> \in Known(up)
      PROVE  Seen(rows, up.user, h, o, clock)
  <2>1. PICK v \in Users \ {up.user} : <<o, h>> \in Near /\ rows[v][o] # 0
    BY <1>4 DEF Known
  <2>2. rows[v][o] <= clock
    BY <2>1 DEF FirstComeInv, Rows
  <2> QED BY <2>1, <2>2 DEF Seen
<1>5. Step(c, to) /\ UNCHANGED <<clock, dataVars>>
  BY DEF Upload
<1> HIDE DEF to
<1>6. CallHolds(rows, behind, clock, to)
  BY <1>1, <1>2, <1>3, <1>4 DEF CallHolds
<1> QED BY <1>5, <1>6, OnlyTheCallSteps

LEMMA StoreStep == ASSUME FirstComeInv, NEW c \in Calls, StoreFingerprints(c)
                   PROVE  FirstComeInv'
<1> DEFINE here == calls[c]
           u == here.user
           new == {h \in here.upload.stored : rows[u][h] = 0}
           to == [here EXCEPT !.pc = "package"]
<1>1. /\ here \in Locals(clock) /\ u \in Users /\ here.upload \in Uploads /\ here.upload.user = u
      /\ here.stamp \in 1 .. clock
      /\ \A h, o \in Hashes : <<h, o>> \in here.knew => Seen(rows, u, h, o, here.stamp)
  BY DEF FirstComeInv, CallHolds, StoreFingerprints
<1>2. here.upload.kept \subseteq here.upload.stored /\ here.upload.stored \subseteq Hashes
  BY <1>1, Constants
<1>3. /\ clock' = clock /\ bundle' = bundle /\ results' = results
      /\ rows' = [rows EXCEPT ![u] = [h \in Hashes |-> IF h \in new THEN here.stamp ELSE @[h]]]
      /\ behind' = [behind EXCEPT ![u] = @ \cup {p \in here.knew : p[1] \in new}]
      /\ Step(c, to)
  BY DEF StoreFingerprints
<1>4. /\ to.pc = "package" /\ to.user = u /\ to.upload = here.upload /\ to \in Locals(clock)
  BY <1>1 DEF Locals
<1>5. here.knew \in SUBSET (Hashes \X Hashes)
  BY <1>1 DEF Locals
<1>6. /\ rows \in Rows(clock) /\ behind \in [Users -> SUBSET (Hashes \X Hashes)]
      /\ BehindHolds(rows, behind) /\ clock \in Nat
  BY DEF FirstComeInv
<1>7. new \subseteq Hashes /\ \A h \in Hashes : h \in new => rows[u][h] = 0
  BY <1>2
<1>8. \A h \in here.upload.stored : rows[u][h] # 0 \/ h \in new
  OBVIOUS
<1> HIDE DEF new, to, here, u
<1>9. \A v \in Users, h \in Hashes :
        rows'[v][h] = IF v = u /\ h \in new THEN here.stamp ELSE rows[v][h]
  BY <1>1, <1>3, <1>6 DEF Rows
<1>10. \A v \in Users : \A p :
         p \in behind'[v] <=> p \in behind[v] \/ (v = u /\ p \in here.knew /\ p[1] \in new)
  BY <1>1, <1>3, <1>6
<1>11. rows' \in Rows(clock)
  BY <1>1, <1>3, <1>6 DEF Rows
<1>12. behind' \in [Users -> SUBSET (Hashes \X Hashes)]
  BY <1>1, <1>3, <1>5, <1>6
<1>13. Grows(rows, behind, rows', behind')
  <2> SUFFICES ASSUME NEW v \in Users, NEW h \in Hashes, rows[v][h] # 0
               PROVE  /\ rows'[v][h] = rows[v][h]
                      /\ \A o \in Hashes : <<h, o>> \in behind'[v] => <<h, o>> \in behind[v]
    BY DEF Grows
  <2>1. ~ (v = u /\ h \in new)
    BY <1>7
  <2> QED BY <1>9, <1>10, <2>1
<1>14. BehindHolds(rows', behind')
  <2> SUFFICES ASSUME NEW v \in Users, NEW h \in Hashes, NEW o \in Hashes, <<h, o>> \in behind'[v]
               PROVE  rows'[v][h] # 0 /\ Seen(rows', v, h, o, rows'[v][h])
    BY DEF BehindHolds
  <2>1. CASE <<h, o>> \in behind[v]
    <3>1. rows[v][h] # 0 /\ Seen(rows, v, h, o, rows[v][h])
      BY <1>6, <2>1 DEF BehindHolds
    <3>2. rows'[v][h] = rows[v][h]
      BY <1>13, <3>1 DEF Grows
    <3>3. Seen(rows', v, h, o, rows[v][h])
      BY <1>13, <3>1, StaysSeen
    <3> QED BY <3>1, <3>2, <3>3
  <2>2. CASE v = u /\ <<h, o>> \in here.knew /\ h \in new
    <3>1. Seen(rows', u, h, o, here.stamp)
      BY <1>1, <1>13, <2>2, StaysSeen
    <3>2. rows'[v][h] = here.stamp /\ here.stamp # 0
      BY <1>1, <1>9, <2>2
    <3> QED BY <2>2, <3>1, <3>2
  <2> QED BY <1>10, <2>1, <2>2
<1>15. DataHolds'
  <2>1. \A v \in Users : Stored(rows', v, bundle'[v].upload)
    BY <1>3, <1>13, StaysStored DEF FirstComeInv, Bundles
  <2>2. \A v \in Users, b \in Briefs : ResultHolds(rows', behind', v, b, results'[v][b])
    BY <1>3, <1>13, ResultStays DEF FirstComeInv
  <2> QED BY <1>3, <1>11, <1>12, <1>14, <2>1, <2>2 DEF DataHolds, FirstComeInv
<1>16. Stored(rows', u, here.upload)
  <2>1. \A h \in here.upload.kept : rows[u][h] # 0 \/ h \in new
    BY <1>2, <1>8
  <2>2. here.stamp # 0
    BY <1>1
  <2> QED BY <1>1, <1>2, <1>9, <2>1, <2>2 DEF Stored
<1>17. CallHolds(rows', behind', clock', to)
  BY <1>1, <1>3, <1>4, <1>16 DEF CallHolds
<1>18. clock <= clock'
  BY <1>3, <1>6
<1> QED BY <1>3, <1>13, <1>15, <1>17, <1>18, OneCallSteps DEF Step

(* A run begins with nothing read.                                         *)
LEMMA BeginHolds ==
  ASSUME FirstComeInv, NEW u \in Users
  PROVE  CallHolds(rows, behind, clock, [Idle EXCEPT !.pc = "matches", !.user = u])
<1> DEFINE to == [Idle EXCEPT !.pc = "matches", !.user = u]
<1>1. to.pc = "matches" /\ to.user = u
  BY DEF Idle
<1>2. to \in Locals(clock)
  BY IdleTyped DEF Locals
<1> HIDE DEF to
<1>3. CallHolds(rows, behind, clock, to)
  BY <1>1, <1>2 DEF CallHolds
<1> QED BY <1>3 DEF to

LEMMA PackageStep == ASSUME FirstComeInv, NEW c \in Calls, Package(c)
                     PROVE  FirstComeInv'
<1> DEFINE u == calls[c].user
           up == calls[c].upload
           to == [Idle EXCEPT !.pc = "matches", !.user = u]
<1>1. CASE up.kept = {} \/ bundle[u].status = "sold"
  <2>1. End(c) /\ UNCHANGED <<clock, dataVars>>
    BY <1>1 DEF Package, dataVars
  <2> QED BY <2>1, EndStep
<1>2. CASE ~ (up.kept = {} \/ bundle[u].status = "sold")
  <2>1. /\ u \in Users /\ up \in Versions /\ Stored(rows, u, up)
    BY DEF FirstComeInv, CallHolds, Package, Versions
  <2>2. /\ bundle' = [bundle EXCEPT ![u] = [status |-> "available", upload |-> up]]
        /\ calls' = [calls EXCEPT ![c] = to]
        /\ UNCHANGED <<clock, rows, results, behind>>
    BY <1>2 DEF Package, Step
  <2>3. CallHolds(rows', behind', clock', to)
    BY <2>1, <2>2, BeginHolds
  <2> HIDE DEF u, up, to
  <2>4. bundle' \in [Users -> Bundles]
    BY <2>1, <2>2 DEF FirstComeInv, Bundles, Statuses
  <2>5. \A v \in Users : bundle'[v].upload = IF v = u THEN up ELSE bundle[v].upload
    BY <2>1, <2>2 DEF FirstComeInv
  <2>6. \A v \in Users : Stored(rows', v, bundle'[v].upload)
    BY <2>1, <2>2, <2>5 DEF FirstComeInv
  <2>7. DataHolds'
    BY <2>2, <2>4, <2>6 DEF FirstComeInv, DataHolds
  <2>8. Grows(rows, behind, rows', behind') /\ clock <= clock'
    BY <2>2, SameRows DEF FirstComeInv
  <2> QED BY <2>2, <2>3, <2>7, <2>8, OneCallSteps
<1> QED BY <1>1, <1>2

LEMMA ReportStep == ASSUME FirstComeInv, NEW c \in Calls, NEW u \in Users, Report(c, u)
                    PROVE  FirstComeInv'
BY BeginHolds, OnlyTheCallSteps DEF Report

LEMMA QaReadStep == ASSUME FirstComeInv, NEW c \in Calls, QaRead(c)
                    PROVE  FirstComeInv'
<1> DEFINE here == calls[c]
           u == here.user
           to == [here EXCEPT !.pc = "others", !.status = bundle[u].status,
                              !.upload = bundle[u].upload]
<1>1. UNCHANGED <<clock, dataVars>> /\ (End(c) \/ Step(c, to))
  BY DEF QaRead
<1>2. here \in Locals(clock) /\ u \in Users
  BY DEF FirstComeInv, CallHolds, QaRead
<1>3. /\ bundle[u].status \in Statuses /\ bundle[u].upload \in Versions
      /\ Stored(rows, u, bundle[u].upload)
  BY <1>2 DEF FirstComeInv, Bundles
<1>4. to.pc = "others" /\ to.user = u /\ to.upload = bundle[u].upload /\ to \in Locals(clock)
  BY <1>2, <1>3 DEF Locals
<1> HIDE DEF to
<1>5. CallHolds(rows, behind, clock, to)
  BY <1>2, <1>3, <1>4 DEF CallHolds
<1> QED BY <1>1, <1>5, EndStep, OnlyTheCallSteps

LEMMA QaDuplicatesStep == ASSUME FirstComeInv, NEW c \in Calls, QaDuplicates(c)
                          PROVE  FirstComeInv'
<1> DEFINE here == calls[c]
           u == here.user
           d == ClassifyDuplicates(u, here.upload.kept, \E b \in Matched[u] : WantsNear(b))
           each == [b \in Briefs |-> ClassifyDuplicates(u, here.upload.kept, WantsNear(b))]
           to == [here EXCEPT !.pc = "verdict", !.dedup = d, !.each = each]
<1>1. UNCHANGED <<clock, dataVars>> /\ Step(c, to)
  BY DEF QaDuplicates
<1>2. /\ here \in Locals(clock) /\ u \in Users /\ here.upload \in Versions
      /\ Stored(rows, u, here.upload)
  BY DEF FirstComeInv, CallHolds, QaDuplicates, Locals
<1>3. d \in Classes /\ each \in [Briefs -> Classes]
  BY DEF ClassifyDuplicates, Classes
<1>4. Right(rows, behind, u, here.upload, d)
  BY <1>2, ClassifiedRight
<1> HIDE DEF d, each
<1>5. /\ to.pc = "verdict" /\ to.user = u /\ to.upload = here.upload /\ to.dedup = d
      /\ to \in Locals(clock)
  BY <1>2, <1>3 DEF Locals
<1> HIDE DEF to
<1>6. CallHolds(rows, behind, clock, to)
  BY <1>2, <1>4, <1>5 DEF CallHolds
<1> QED BY <1>1, <1>6, OnlyTheCallSteps

LEMMA QaVerdictStep == ASSUME FirstComeInv, NEW c \in Calls, QaVerdict(c)
                       PROVE  FirstComeInv'
<1> DEFINE here == calls[c]
           u == here.user
<1>1. /\ u \in Users /\ here.upload \in Versions /\ here.dedup \in Classes
      /\ Right(rows, behind, u, here.upload, here.dedup) /\ Stored(rows, u, here.upload)
  BY DEF FirstComeInv, CallHolds, QaVerdict, Locals
<1>2. /\ results' = [results EXCEPT ![u] =
                        [b \in Briefs |-> IF b \in Matched[u] THEN Verdict(b, here) ELSE @[b]]]
      /\ End(c) /\ UNCHANGED <<clock, rows, bundle, behind>>
  BY DEF QaVerdict
<1>3. \A b \in Matched[u] : /\ Verdict(b, here) \in Results
                            /\ ResultHolds(rows, behind, u, b, Verdict(b, here))
  BY <1>1, VerdictHolds
<1> HIDE DEF here, u
<1>4. results \in [Users -> [Briefs -> Results]]
  BY DEF FirstComeInv
<1>5. \A v \in Users, b \in Briefs :
        results'[v][b] = IF v = u /\ b \in Matched[u] THEN Verdict(b, here) ELSE results[v][b]
  BY <1>1, <1>2, <1>4
<1>6. results' \in [Users -> [Briefs -> Results]]
  BY <1>1, <1>2, <1>3, <1>4
<1>7. \A v \in Users, b \in Briefs : ResultHolds(rows', behind', v, b, results'[v][b])
  BY <1>2, <1>3, <1>5 DEF FirstComeInv
<1>8. DataHolds'
  BY <1>2, <1>6, <1>7 DEF FirstComeInv, DataHolds
<1>9. Grows(rows, behind, rows', behind') /\ clock <= clock'
  BY <1>2, SameRows DEF FirstComeInv
<1>10. CallHolds(rows', behind', clock', [Idle EXCEPT !.pc = "done"])
  BY <1>2, EndHolds
<1> QED BY <1>2, <1>8, <1>9, <1>10, OneCallSteps DEF End, Step

LEMMA SellStep == ASSUME FirstComeInv, NEW u \in Users, NEW b \in Briefs, Sell(u, b)
                  PROVE  FirstComeInv'
<1>1. /\ bundle' = [bundle EXCEPT ![u].status = "sold"]
      /\ UNCHANGED <<clock, rows, results, behind, calls>>
  BY DEF Sell
<1>2. bundle \in [Users -> Bundles]
  BY DEF FirstComeInv
<1>3. bundle' \in [Users -> Bundles] /\ \A v \in Users : bundle'[v].upload = bundle[v].upload
  BY <1>1, <1>2 DEF Bundles, Statuses
<1>4. \A v \in Users : Stored(rows', v, bundle'[v].upload)
  BY <1>1, <1>3 DEF FirstComeInv
<1> QED BY <1>1, <1>3, <1>4 DEF FirstComeInv

LEMMA TickStep == ASSUME FirstComeInv, Tick
                  PROVE  FirstComeInv'
<1>1. /\ clock \in Nat /\ clock' = clock + 1 /\ clock' \in 1 .. MaxTime
      /\ UNCHANGED <<rows, bundle, results, behind, calls>>
  BY TimeAssumption DEF FirstComeInv, Tick, dataVars
<1>2. rows' \in Rows(clock')
  BY <1>1 DEF FirstComeInv, Rows
<1>3. \A c \in Calls : CallHolds(rows', behind', clock', calls'[c])
  BY <1>1, SameRows, CallStays DEF FirstComeInv
<1>4. calls' \in [Calls -> Locals(clock')]
  BY <1>1, <1>3 DEF FirstComeInv, CallHolds
<1> QED BY <1>1, <1>2, <1>3, <1>4 DEF FirstComeInv

LEMMA FirstComeStep == FirstComeInv /\ [Next]_vars => FirstComeInv'
<1> SUFFICES ASSUME FirstComeInv, [Next]_vars PROVE FirstComeInv'
  OBVIOUS
<1>1. ASSUME NEW c \in Calls, NEW up \in Uploads, Upload(c, up) PROVE FirstComeInv'
  BY <1>1, UploadStep
<1>2. ASSUME NEW c \in Calls, StoreFingerprints(c) PROVE FirstComeInv'
  BY <1>2, StoreStep
<1>3. ASSUME NEW c \in Calls, Package(c) PROVE FirstComeInv'
  BY <1>3, PackageStep
<1>4. ASSUME NEW c \in Calls, NEW u \in Users, Report(c, u) PROVE FirstComeInv'
  BY <1>4, ReportStep
<1>5. ASSUME NEW c \in Calls, QaRead(c) PROVE FirstComeInv'
  BY <1>5, QaReadStep
<1>6. ASSUME NEW c \in Calls, QaDuplicates(c) PROVE FirstComeInv'
  BY <1>6, QaDuplicatesStep
<1>7. ASSUME NEW c \in Calls, QaVerdict(c) PROVE FirstComeInv'
  BY <1>7, QaVerdictStep
<1>8. ASSUME NEW c \in Calls, CallDies(c) PROVE FirstComeInv'
  BY <1>8, EndStep DEF CallDies
<1>9. ASSUME NEW u \in Users, NEW b \in Briefs, Sell(u, b) PROVE FirstComeInv'
  BY <1>9, SellStep
<1>10. CASE Tick
  BY <1>10, TickStep
<1>11. CASE UNCHANGED vars
  BY <1>11 DEF FirstComeInv, vars, dataVars
<1> QED BY <1>1, <1>2, <1>3, <1>4, <1>5, <1>6, <1>7, <1>8, <1>9, <1>10, <1>11
        DEF Next, Process, RunForConversation

-----------------------------------------------------------------------------
(* First come keeps: whoever submitted first is never called a duplicate,  *)
(* and whoever began behind others for most prompts always is, for any     *)
(* number of contributors, uploads, reports and calls.                     *)
THEOREM FirstComeKeepsAlways == Spec => []FirstComeKeeps
<1>1. FirstComeInv => FirstComeKeeps
  <2> SUFFICES ASSUME FirstComeInv, NEW u \in Users, NEW b \in Briefs, results[u][b].status # "none"
               PROVE  LET r == results[u][b] IN
                      /\ First(u, r.upload) => r.dedup = "new"
                      /\ MostOf(r.upload.kept, Behind(u, r.upload)) => r.dedup = "exact_duplicate"
                      /\ WantsNear(b) /\ MostOf(r.upload.kept, NearlyBehind(u, r.upload)) =>
                           r.status = "failed"
    BY DEF FirstComeKeeps
  <2> DEFINE r == results[u][b]
  <2>1. /\ Right(rows, behind, u, r.upload, r.dedup) /\ b \in Matched[u]
        /\ (WantsNear(b) /\ r.dedup # "new" => r.status = "failed")
    BY DEF FirstComeInv, ResultHolds
  <2>2. /\ First(u, r.upload) <=> FirstIn(rows, u, r.upload)
        /\ Behind(u, r.upload) = BehindIn(behind, u, r.upload)
        /\ NearlyBehind(u, r.upload) = NearlyBehindIn(behind, u, r.upload)
    BY DEF First, FirstIn, Behind, BehindIn, NearlyBehind, NearlyBehindIn
  <2> QED BY <2>1, <2>2 DEF Right
<1> QED BY <1>1, FirstComeInit, FirstComeStep, PTL DEF Spec
-----------------------------------------------------------------------------
(* Each brief by itself.  A call that has classified has found for every   *)
(* brief of the conversation what the brief would have found alone.        *)
Independent(call) ==
  \A b \in Matched[call.user] : Duplicate(Terms[b], call.dedup) <=> Duplicate(Terms[b], call.each[b])

AloneInv ==
  /\ FirstComeInv
  /\ alone \in [Users -> [Briefs -> Results]]
  /\ \A c \in Calls : calls[c].pc = "verdict" => Independent(calls[c])
  /\ ByItself

LEMMA AloneInit == Init => AloneInv
<1> SUFFICES ASSUME Init PROVE AloneInv
  OBVIOUS
<1>1. NoResult \in Results
  BY DEF NoResult, Results, Versions, Classes
<1>2. alone \in [Users -> [Briefs -> Results]] /\ ByItself
  BY <1>1 DEF Init, ByItself
<1>3. \A c \in Calls : calls[c].pc # "verdict"
  BY DEF Init, Idle
<1> QED BY <1>2, <1>3, FirstComeInit DEF AloneInv

(* A step of a call that does not classify, and writes no result.          *)
LEMMA QuietStep ==
  ASSUME AloneInv, FirstComeInv', UNCHANGED <<results, alone>>,
         \A c \in Calls : calls'[c].pc = "verdict" => calls'[c] = calls[c] \/ Independent(calls'[c])
  PROVE  AloneInv'
<1>1. ASSUME NEW c \in Calls, calls'[c].pc = "verdict" PROVE Independent(calls'[c])
  <2>1. CASE calls'[c] = calls[c]
    <3>1. Independent(calls[c])
      BY <1>1, <2>1 DEF AloneInv
    <3> QED BY <2>1, <3>1
  <2> QED BY <1>1, <2>1
<1>2. (\A c \in Calls : calls[c].pc = "verdict" => Independent(calls[c]))'
  BY <1>1 DEF Independent
<1> QED BY <1>2 DEF AloneInv, ByItself

LEMMA ClassifyAlone ==
  ASSUME AloneInv, FirstComeInv', NEW c \in Calls, QaDuplicates(c)
  PROVE  AloneInv'
<1> DEFINE here == calls[c]
           u == here.user
           kept == here.upload.kept
           pooled == \E b \in Matched[u] : WantsNear(b)
           d == ClassifyDuplicates(u, kept, pooled)
           each == [b \in Briefs |-> ClassifyDuplicates(u, kept, WantsNear(b))]
           to == [here EXCEPT !.pc = "verdict", !.dedup = d, !.each = each]
<1>1. UNCHANGED <<results, alone>> /\ calls' = [calls EXCEPT ![c] = to]
  BY DEF QaDuplicates, Step, dataVars
<1>2. calls \in [Calls -> Locals(clock)] /\ here \in Locals(clock) /\ u \in Users
  BY DEF AloneInv, FirstComeInv, CallHolds, QaDuplicates
<1>3. Matched[u] \subseteq Briefs
  BY <1>2, BriefsAssumption
<1>4. to.user = u /\ to.dedup = d /\ to.each = each
  BY <1>2 DEF Locals
<1>5. ASSUME NEW b \in Matched[u] PROVE Duplicate(Terms[b], d) <=> Duplicate(Terms[b], each[b])
  <2>1. b \in Briefs /\ pooled \in BOOLEAN /\ (WantsNear(b) => pooled = TRUE)
    BY <1>3, <1>5
  <2>2. each[b] = ClassifyDuplicates(u, kept, WantsNear(b))
    BY <2>1
  <2> HIDE DEF pooled, kept, u, each
  <2>3. Duplicate(Terms[b], ClassifyDuplicates(u, kept, pooled))
        <=> Duplicate(Terms[b], ClassifyDuplicates(u, kept, WantsNear(b)))
    BY <2>1, SameForTheBrief
  <2> QED BY <2>2, <2>3
<1> HIDE DEF d, each, u
<1>6. Independent(to)
  BY <1>4, <1>5 DEF Independent
<1> HIDE DEF to
<1>7. \A e \in Calls : calls'[e] = IF e = c THEN to ELSE calls[e]
  BY <1>1, <1>2
<1> QED BY <1>1, <1>6, <1>7, QuietStep

(* The verdict depends on the class by what it is to the brief.            *)
LEMMA SameFailures ==
  ASSUME NEW b, NEW status, NEW up, NEW d, NEW e, Duplicate(Terms[b], d) <=> Duplicate(Terms[b], e)
  PROVE  QaGate(Terms[b], b \in Live, status, up, d) = QaGate(Terms[b], b \in Live, status, up, e)
<1>1. If(Duplicate(Terms[b], d), "QA_DUPLICATE") = If(Duplicate(Terms[b], e), "QA_DUPLICATE")
  BY DEF If
<1> QED BY <1>1 DEF QaGate

LEMMA SameVerdict ==
  ASSUME NEW b, NEW here, NEW there, here.status = there.status, here.upload = there.upload,
         Duplicate(Terms[b], here.dedup) <=> Duplicate(Terms[b], there.dedup)
  PROVE  /\ Verdict(b, here).status = Verdict(b, there).status
         /\ Verdict(b, here).upload = Verdict(b, there).upload
         /\ Verdict(b, here).cents = Verdict(b, there).cents
<1> DEFINE Failures(call) == QaGate(Terms[b], b \in Live, call.status, call.upload, call.dedup)
<1>1. Failures(here) = Failures(there)
  <2>1. QaGate(Terms[b], b \in Live, here.status, here.upload, here.dedup)
          = QaGate(Terms[b], b \in Live, here.status, here.upload, there.dedup)
    BY SameFailures
  <2> QED BY <2>1
<1> HIDE DEF Failures
<1>2. /\ Verdict(b, here).status = IF Failures(here) = {} THEN "passed" ELSE "failed"
      /\ Verdict(b, there).status = IF Failures(there) = {} THEN "passed" ELSE "failed"
      /\ Verdict(b, here).upload = here.upload /\ Verdict(b, there).upload = there.upload
      /\ Verdict(b, here).cents = IF Failures(here) = {}
                                  THEN PreciseValue(FinalPrompts(here.status, here.upload)) ELSE 0
      /\ Verdict(b, there).cents = IF Failures(there) = {}
                                   THEN PreciseValue(FinalPrompts(there.status, there.upload)) ELSE 0
  BY DEF Verdict, Failures
<1> QED BY <1>1, <1>2

LEMMA StoreAlone ==
  ASSUME AloneInv, FirstComeInv', NEW c \in Calls, QaVerdict(c)
  PROVE  AloneInv'
<1> DEFINE here == calls[c]
           u == here.user
           Apart(b) == [here EXCEPT !.dedup = here.each[b]]
<1>1. /\ calls \in [Calls -> Locals(clock)] /\ here \in Locals(clock) /\ u \in Users
      /\ here.upload \in Versions /\ here.dedup \in Classes /\ here.each \in [Briefs -> Classes]
      /\ Right(rows, behind, u, here.upload, here.dedup) /\ Stored(rows, u, here.upload)
      /\ Independent(here)
  BY DEF AloneInv, FirstComeInv, CallHolds, QaVerdict, Locals
<1>2. /\ results' = [results EXCEPT ![u] =
                        [b \in Briefs |-> IF b \in Matched[u] THEN Verdict(b, here) ELSE @[b]]]
      /\ alone' = [alone EXCEPT ![u] =
                      [b \in Briefs |-> IF b \in Matched[u] THEN Verdict(b, Apart(b)) ELSE @[b]]]
      /\ calls' = [calls EXCEPT ![c] = [Idle EXCEPT !.pc = "done"]]
  BY DEF QaVerdict, End, Step
<1>3. Matched[u] \subseteq Briefs
  BY <1>1, BriefsAssumption
<1>4. ASSUME NEW b \in Matched[u]
      PROVE  /\ Apart(b).status = here.status /\ Apart(b).upload = here.upload
             /\ Apart(b).dedup = here.each[b]
  BY <1>1 DEF Locals
<1>5. ASSUME NEW b \in Matched[u]
      PROVE  /\ Verdict(b, here).status = Verdict(b, Apart(b)).status
             /\ Verdict(b, here).upload = Verdict(b, Apart(b)).upload
             /\ Verdict(b, here).cents = Verdict(b, Apart(b)).cents
  <2> DEFINE there == Apart(b)
  <2>1. here.status = there.status /\ here.upload = there.upload /\ there.dedup = here.each[b]
    BY <1>4
  <2>2. Duplicate(Terms[b], here.dedup) <=> Duplicate(Terms[b], here.each[b])
    BY <1>1 DEF Independent
  <2> HIDE DEF there, here
  <2>3. /\ Verdict(b, here).status = Verdict(b, there).status
        /\ Verdict(b, here).upload = Verdict(b, there).upload
        /\ Verdict(b, here).cents = Verdict(b, there).cents
    BY <2>1, <2>2, SameVerdict
  <2> QED BY <2>3 DEF there
<1>6. ASSUME NEW b \in Matched[u] PROVE Verdict(b, Apart(b)) \in Results
  <2> DEFINE r == Verdict(b, here)
             own == Verdict(b, Apart(b))
  <2>1. r \in Results
    BY <1>1, VerdictHolds
  <2>2. own.dedup \in Classes /\ own.dedup = here.each[b]
    BY <1>1, <1>3, <1>4 DEF Verdict
  <2>3. own = [status |-> own.status, upload |-> own.upload, dedup |-> own.dedup, cents |-> own.cents]
    BY DEF Verdict
  <2>4. own.status = r.status /\ own.upload = r.upload /\ own.cents = r.cents
    BY <1>5
  <2> HIDE DEF r, own
  <2>5. own \in Results
    BY <2>1, <2>2, <2>3, <2>4 DEF Results
  <2> QED BY <2>5 DEF own
<1> HIDE DEF Apart, here, u
<1>7. results \in [Users -> [Briefs -> Results]] /\ alone \in [Users -> [Briefs -> Results]]
  BY DEF AloneInv, FirstComeInv
<1>8. \A v \in Users, b \in Briefs :
        /\ results'[v][b] = IF v = u /\ b \in Matched[u] THEN Verdict(b, here) ELSE results[v][b]
        /\ alone'[v][b] = IF v = u /\ b \in Matched[u] THEN Verdict(b, Apart(b)) ELSE alone[v][b]
  BY <1>1, <1>2, <1>7
<1>9. alone' \in [Users -> [Briefs -> Results]]
  BY <1>1, <1>2, <1>6, <1>7
<1>10. ByItself'
  BY <1>5, <1>8 DEF AloneInv, ByItself
<1>11. \A e \in Calls : calls'[e] = IF e = c THEN [Idle EXCEPT !.pc = "done"] ELSE calls[e]
  BY <1>1, <1>2
<1>12. \A e \in Calls : calls'[e].pc = "verdict" => calls'[e] = calls[e] /\ e # c
  BY <1>11 DEF Idle
<1>13. (\A e \in Calls : calls[e].pc = "verdict" => Independent(calls[e]))'
  BY <1>12 DEF AloneInv, Independent
<1> QED BY <1>9, <1>10, <1>13 DEF AloneInv

LEMMA AloneStep == AloneInv /\ [Next]_vars => AloneInv'
<1> SUFFICES ASSUME AloneInv, [Next]_vars PROVE AloneInv'
  OBVIOUS
<1>0. FirstComeInv' /\ calls \in [Calls -> Locals(clock)]
  BY FirstComeStep DEF AloneInv, FirstComeInv
<1>1. ASSUME NEW c \in Calls, QaDuplicates(c) PROVE AloneInv'
  BY <1>0, <1>1, ClassifyAlone
<1>2. ASSUME NEW c \in Calls, QaVerdict(c) PROVE AloneInv'
  BY <1>0, <1>2, StoreAlone
<1>3. ASSUME NEW c \in Calls, NEW to, calls' = [calls EXCEPT ![c] = to], to.pc # "verdict",
             UNCHANGED <<results, alone>>
      PROVE  AloneInv'
  <2>1. \A e \in Calls : calls'[e] = IF e = c THEN to ELSE calls[e]
    BY <1>0, <1>3
  <2> QED BY <1>0, <1>3, <2>1, QuietStep
<1>4. ASSUME NEW c \in Calls, NEW up \in Uploads, Upload(c, up) PROVE AloneInv'
  <2> DEFINE to == [Idle EXCEPT !.pc = "store", !.user = up.user, !.upload = up,
                                !.stamp = clock, !.knew = Known(up)]
  <2>1. to.pc = "store"
    BY DEF Idle
  <2>2. calls' = [calls EXCEPT ![c] = to] /\ UNCHANGED <<results, alone>>
    BY <1>4 DEF Upload, Step, dataVars
  <2> HIDE DEF to
  <2> QED BY <1>3, <2>1, <2>2
<1>5. ASSUME NEW c \in Calls, StoreFingerprints(c) PROVE AloneInv'
  <2> DEFINE to == [calls[c] EXCEPT !.pc = "package"]
  <2>1. to.pc = "package"
    BY <1>0 DEF Locals
  <2>2. calls' = [calls EXCEPT ![c] = to] /\ UNCHANGED <<results, alone>>
    BY <1>5 DEF StoreFingerprints, Step
  <2> HIDE DEF to
  <2> QED BY <1>3, <2>1, <2>2
<1>6. ASSUME NEW c \in Calls, End(c), UNCHANGED <<results, alone>> PROVE AloneInv'
  <2> DEFINE to == [Idle EXCEPT !.pc = "done"]
  <2>1. to.pc = "done"
    BY DEF Idle
  <2>2. calls' = [calls EXCEPT ![c] = to]
    BY <1>6 DEF End, Step
  <2> HIDE DEF to
  <2> QED BY <1>3, <1>6, <2>1, <2>2
<1>7. ASSUME NEW c \in Calls, NEW u, Step(c, [Idle EXCEPT !.pc = "matches", !.user = u]),
             UNCHANGED <<results, alone>>
      PROVE  AloneInv'
  <2> DEFINE to == [Idle EXCEPT !.pc = "matches", !.user = u]
  <2>1. to.pc = "matches"
    BY DEF Idle
  <2>2. calls' = [calls EXCEPT ![c] = to]
    BY <1>7 DEF Step
  <2> HIDE DEF to
  <2> QED BY <1>3, <1>7, <2>1, <2>2
<1>8. ASSUME NEW c \in Calls, Package(c) PROVE AloneInv'
  BY <1>6, <1>7, <1>8 DEF Package
<1>9. ASSUME NEW c \in Calls, NEW u \in Users, Report(c, u) PROVE AloneInv'
  BY <1>7, <1>9 DEF Report, dataVars
<1>10. ASSUME NEW c \in Calls, QaRead(c) PROVE AloneInv'
  <2> DEFINE u == calls[c].user
             to == [calls[c] EXCEPT !.pc = "others", !.status = bundle[u].status,
                                    !.upload = bundle[u].upload]
  <2>1. to.pc = "others"
    BY <1>0 DEF Locals
  <2>2. (End(c) \/ calls' = [calls EXCEPT ![c] = to]) /\ UNCHANGED <<results, alone>>
    BY <1>10 DEF QaRead, Step, dataVars
  <2> HIDE DEF to
  <2> QED BY <1>3, <1>6, <2>1, <2>2
<1>11. ASSUME NEW c \in Calls, CallDies(c) PROVE AloneInv'
  BY <1>6, <1>11 DEF CallDies, dataVars
<1>12. ASSUME UNCHANGED <<results, alone, calls>> PROVE AloneInv'
  BY <1>0, <1>12, QuietStep
<1>13. ASSUME NEW u \in Users, NEW b \in Briefs, Sell(u, b) PROVE AloneInv'
  BY <1>12, <1>13 DEF Sell
<1>14. CASE Tick \/ UNCHANGED vars
  BY <1>12, <1>14 DEF Tick, vars, dataVars
<1> QED BY <1>1, <1>2, <1>4, <1>5, <1>8, <1>9, <1>10, <1>11, <1>13, <1>14
        DEF Next, Process, RunForConversation

(* What a run stores for a brief is what it would have stored for that     *)
(* brief alone, for any number of briefs, contributors, uploads and calls. *)
THEOREM ByItselfAlways == Spec => []ByItself
<1>1. AloneInv => ByItself
  BY DEF AloneInv
<1> QED BY <1>1, AloneInit, AloneStep, PTL DEF Spec

(* Rows, locals and results keep their shape; a pass is worth a cent or    *)
(* more, and a failure nothing.                                            *)
THEOREM QaGateTypeCorrect == Spec => []TypeOK
<1>1. AloneInv => TypeOK
  <2> SUFFICES ASSUME AloneInv PROVE TypeOK
    OBVIOUS
  <2>1. \A u \in Users, b \in Briefs : results[u][b].status = "passed" <=> results[u][b].cents > 0
    BY DEF AloneInv, FirstComeInv, ResultHolds
  <2> QED BY <2>1 DEF AloneInv, FirstComeInv, TypeOK, Rows, Bundles, Locals
<1> QED BY <1>1, AloneInit, AloneStep, PTL DEF Spec
====
