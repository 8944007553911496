--------------------------- MODULE Deidentification ---------------------------
(***************************************************************************)
(* The de-identification of one conversation (src/src/refinement/policy):  *)
(* its prompts, in the order of their turns, are analysed by the detector  *)
(* and go through the policy one by one, with one map of pseudonyms; then  *)
(* what they give away together is looked at.                              *)
(*                                                                         *)
(* A prompt is a sequence of sentences and what is found in them.  A       *)
(* sentence has the personal markers, the fiction framing and the          *)
(* sensitive content that the regular expressions see in it.  A span is    *)
(* one of dedupeSpans(), with its group, and how sure the detector is:     *)
(* under every threshold ("low"), between those for redaction and for      *)
(* exclusion ("band"), or above ("high").  A dotted span contains a full   *)
(* stop, at which splitSentences() ends a sentence.  The phrases are all    *)
(* that the regular expressions for quasi-identifiers match, of which the  *)
(* code looks at the first of a type.  Words are not counted: a text may   *)
(* fall short of the quality ceilings or not.                              *)
(***************************************************************************)
EXTENDS Integers, Sequences, FiniteSets

CONSTANTS
  Prompts,   \* the prompts there may be
  Names,
  Famous,    \* names in the gazetteer
  MaxTurns,  \* bound on the length of a conversation
  PII_DENSITY_EXCLUDE_COUNT

ASSUME FamousAssumption == Famous \subseteq Names

MAX_QI_TYPES == 3
QI_CONVERSATION_SUPPRESS == 5
QI_CONVERSATION_TARGET == 4
QI_CONVERSATION_EXCLUDE == 8
GUTTING_MIN_USABLE_PROMPTS == 2

QI_SUPPRESSION_ORDER ==
  <<"rare_attribute", "exact_age", "occupation", "employer", "family_structure",
    "education", "gender", "geo">>
QiTypes == {QI_SUPPRESSION_ORDER[i] : i \in DOMAIN QI_SUPPRESSION_ORDER}

(* What the detector and the regular expressions find in a text is in one  *)
(* of its sentences, and a person's span is a name.                        *)
ASSUME PromptsAssumption ==
  \A p \in Prompts :
    /\ p.sentences \in Seq([markers : SUBSET {"self", "third"}, fiction : {"none", "weak", "strong"},
                            category : {"none", "flag", "exclude"}])
    /\ p.spans \in Seq([at : DOMAIN p.sentences, group : STRING, sure : {"low", "band", "high"},
                        name : Names \cup {""}, dotted : BOOLEAN])
    /\ \A k \in DOMAIN p.spans : p.spans[k].group = "person" => p.spans[k].name \in Names
    /\ p.phrases \subseteq [at : DOMAIN p.sentences, type : QiTypes]

VARIABLES
  outcomes,   \* of the prompts so far, in the order of their turns
  pseudonyms, \* the number of each name met
  done        \* the conversation went through singling-out

vars == <<outcomes, pseudonyms, done>>

Init == outcomes = <<>> /\ pseudonyms = <<>> /\ done = FALSE

(***************************************************************************)
(* Attribution: whose a sentence is.                                       *)
(***************************************************************************)
PersonIn(p, i) == \E k \in DOMAIN p.spans : p.spans[k].group = "person" /\ p.spans[k].at = i

(* Fiction framing is looked for first.                                    *)
BucketWrong(p, i) ==
  LET s == p.sentences[i] IN
  CASE s.fiction # "none" -> "fiction"
    [] s.fiction = "none" /\ "third" \in s.markers -> "third_party"
    [] s.fiction = "none" /\ s.markers = {"self"} -> "self"
    [] s.fiction = "none" /\ s.markers = {} /\ PersonIn(p, i) -> "ambiguous"
    [] OTHER -> "unattributed"

(* "Personal markers win over fiction, always".  (A relation marker right  *)
(* before a span, attributeSpan(), is one of its sentence's.)              *)
Bucket(p, i) ==
  LET s == p.sentences[i] IN
  CASE "third" \in s.markers -> "third_party"
    [] s.markers = {"self"} -> "self"
    [] s.markers = {} /\ s.fiction # "none" -> "fiction"
    [] s.markers = {} /\ s.fiction = "none" /\ PersonIn(p, i) -> "ambiguous"
    [] OTHER -> "unattributed"

(* Only strong fiction counts as fiction.                                  *)
EffectiveBucket(p, i) ==
  IF Bucket(p, i) = "fiction" /\ p.sentences[i].fiction # "strong" THEN "ambiguous"
  ELSE Bucket(p, i)

Personal(p, i) == Bucket(p, i) \in {"self", "third_party"}
Attributed(p, i) == EffectiveBucket(p, i) \in {"self", "third_party", "ambiguous"}

(***************************************************************************)
(* Exclusion of a prompt.                                                  *)
(***************************************************************************)
Spans(p, group) == {k \in DOMAIN p.spans : p.spans[k].group = group}

(* Sentences that name a sensitive group, as sure as a suppression or an   *)
(* exclusion needs.                                                        *)
Groups(p, sure) == {p.spans[k].at : k \in {k \in Spans(p, "norp") : p.spans[k].sure = sure}}

(* Sentences to leave out: a flag counts in a personal sentence only.      *)
Flagged(p) ==
  {i \in DOMAIN p.sentences : p.sentences[i].category = "flag" /\ Personal(p, i)}
    \cup {i \in Groups(p, "band") : Attributed(p, i)}

(* A gate per sentence for the sensitive ones of a kind.                   *)
SensitiveGates(p, sensitive) ==
  [i \in DOMAIN p.sentences |->
     [code |-> IF Personal(p, i) THEN "EXC_SPECIAL_CATEGORY" ELSE "EXC_ATTRIBUTION_AMBIGUOUS",
      shut |-> i \in sensitive /\ Attributed(p, i)]]

(* The gates in their order; the first one that is shut gives the code.    *)
Gates(p) ==
  <<[code |-> "EXC_LIVE_SECRET", shut |-> Spans(p, "secret") # {}],
    [code |-> "EXC_PII_DENSITY",
     shut |-> Cardinality(Spans(p, "identifier")) >= PII_DENSITY_EXCLUDE_COUNT],
    [code |-> "EXC_SPECIAL_CATEGORY",
     shut |-> \E k \in Spans(p, "minor") : EffectiveBucket(p, p.spans[k].at) = "self"]>>
  \o SensitiveGates(p, {i \in DOMAIN p.sentences : p.sentences[i].category = "exclude"})
  \o SensitiveGates(p, Groups(p, "high"))
Shut(p) == {g \in DOMAIN Gates(p) : Gates(p)[g].shut}

(***************************************************************************)
(* Edits and quasi-identifiers.                                            *)
(***************************************************************************)
(* A person is called by a pseudonym, unless famous and nobody's relation. *)
Renamed(p, k) ==
  LET span == p.spans[k] IN
  /\ span.group = "person" /\ span.sure # "low"
  /\ ~ (span.name \in Famous /\ Bucket(p, span.at) # "third_party")

(* Spans that are replaced, whether by a placeholder or by something       *)
(* coarser: a province, a year, "90+".                                     *)
Replaced(p, k) ==
  LET span == p.spans[k] IN
  \/ span.group \in {"identifier", "unknown"}
  \/ Renamed(p, k)
  \/ span.group \in {"city", "place", "date"} /\ span.sure # "low" /\ Attributed(p, span.at)
  \/ span.group = "old" /\ Attributed(p, span.at)
  \/ span.group = "employer" /\ EffectiveBucket(p, span.at) \in {"self", "ambiguous"}

(* A hit is a quasi-identifier that the code counts, in its sentence.      *)
Types(hits) == {h.type : h \in hits}
OfTypes(hits, types) == {h \in hits : h.type \in types}

(* The quasi-identifier a span is, replaced or not.                        *)
QiOf == [city |-> "geo", region |-> "geo", adult |-> "exact_age", minor |-> "exact_age",
         employer |-> "employer"]
SpanHits(p) ==
  LET hit(k) ==
        LET span == p.spans[k] IN
        \/ span.group \in {"city", "region"} /\ span.sure # "low" /\ Attributed(p, span.at)
        \/ span.group \in {"adult", "minor"} /\ Attributed(p, span.at)
        \/ span.group = "employer" /\ Replaced(p, k)
  IN {[at |-> p.spans[k].at, type |-> QiOf[p.spans[k].group]] : k \in {k \in DOMAIN p.spans : hit(k)}}

(* A phrase counts where it first matches, if that sentence is personal    *)
(* and no span is of its type.                                             *)
PhraseHits(p) ==
  {f \in p.phrases :
     /\ \A g \in p.phrases : g.type = f.type => f.at <= g.at
     /\ Personal(p, f.at)
     /\ f.type \notin Types(SpanHits(p))}

Hits(p) == SpanHits(p) \cup PhraseHits(p)

(***************************************************************************)
(* Singling-out: most distinctive types first.                             *)
(***************************************************************************)
(* One type too few.                                                       *)
MostDistinctiveWrong(types, n) ==
  {QI_SUPPRESSION_ORDER[i] : i \in {i \in DOMAIN QI_SUPPRESSION_ORDER :
     /\ QI_SUPPRESSION_ORDER[i] \in types
     /\ Cardinality({j \in 1 .. i - 1 : QI_SUPPRESSION_ORDER[j] \in types}) < n - 1}}

(* The first n of the types in the order of suppression.                   *)
MostDistinctive(types, n) ==
  {QI_SUPPRESSION_ORDER[i] : i \in {i \in DOMAIN QI_SUPPRESSION_ORDER :
     /\ QI_SUPPRESSION_ORDER[i] \in types
     /\ Cardinality({j \in 1 .. i - 1 : QI_SUPPRESSION_ORDER[j] \in types}) < n}}

(***************************************************************************)
(* The text that is left.                                                  *)
(***************************************************************************)
(* The edited text is split into sentences again, and those with the       *)
(* numbers of the suppressed ones are left out.  Where a dotted span is    *)
(* replaced, a full stop is gone and two sentences are one.                *)
Shown(p) ==
  LET gone == {p.spans[k].at : k \in {k \in DOMAIN p.spans : p.spans[k].dotted /\ Replaced(p, k)}}
      renumbered(i) == i - Cardinality({j \in gone : j < i})
  IN {i \in DOMAIN p.sentences : renumbered(i) \notin Flagged(p)}

(* Numbers start from one in every prompt.                                 *)
NumberedWrong(p, known) ==
  LET new == {k \in DOMAIN p.spans :
                /\ Renamed(p, k) /\ p.spans[k].name \notin DOMAIN known
                /\ \A j \in 1 .. k - 1 : Renamed(p, j) => p.spans[j].name # p.spans[k].name}
      number(n) == CHOOSE k \in new : p.spans[k].name = n
  IN [n \in DOMAIN known \cup {p.spans[k].name : k \in new} |->
        IF n \in DOMAIN known THEN known[n]
        ELSE Cardinality({k \in new : k <= number(n)})]

(* New names get the next numbers in the order of the text.                *)
Numbered(p, known) ==
  LET new == {k \in DOMAIN p.spans :
                /\ Renamed(p, k) /\ p.spans[k].name \notin DOMAIN known
                /\ \A j \in 1 .. k - 1 : Renamed(p, j) => p.spans[j].name # p.spans[k].name}
      number(n) == CHOOSE k \in new : p.spans[k].name = n
  IN [n \in DOMAIN known \cup {p.spans[k].name : k \in new} |->
        IF n \in DOMAIN known THEN known[n]
        ELSE Cardinality(DOMAIN known) + Cardinality({k \in new : k <= number(n)})]

(* The attestation of a prompt, as far as the policy decides it: whether   *)
(* it was excluded, how many types of quasi-identifiers it had and has,    *)
(* and which were suppressed.                                              *)
Attestation(excluded, before, after, types) ==
  [excluded |-> excluded, before |-> before, after |-> after, types |-> types]

Excluded(p, code) ==
  [prompt |-> p, kind |-> "excluded", code |-> code, left |-> {}, edited |-> {}, shown |-> {},
   called |-> <<>>, attestation |-> Attestation(TRUE, 0, 0, {})]

(* A prompt that passes the gates.  The hits of the types toomany are      *)
(* edited away, each where it is, and the others are left; a phrase that   *)
(* is no hit stays as it is, also one of these types further on.  The      *)
(* prompt is dropped when too little text is left.                         *)
Passed(p, names, kind) ==
  LET types   == Types(Hits(p))
      toomany == MostDistinctive(types, Cardinality(types) - MAX_QI_TYPES)
      edited  == OfTypes(Hits(p), toomany)
      called  == {p.spans[k].name : k \in {k \in DOMAIN p.spans : Renamed(p, k)}}
  IN [prompt |-> p, kind |-> kind, code |-> IF kind = "kept" THEN "none" ELSE "DROP",
      left |-> Hits(p) \ edited, edited |-> edited, shown |-> Shown(p),
      called |-> [n \in called |-> names[n]],
      attestation |-> Attestation(FALSE, Cardinality(types),
                                  Cardinality(types) - Cardinality(toomany), toomany)]

-----------------------------------------------------------------------------
(* The next prompt of the conversation: analyze() answers and              *)
(* processRecord() judges ...                                              *)
ProcessRecord(p) ==
  /\ ~ done /\ Len(outcomes) < MaxTurns
  /\ \/ \E first \in Shut(p) :
          /\ \A g \in Shut(p) : first <= g
          /\ outcomes' = Append(outcomes, Excluded(p, Gates(p)[first].code))
          /\ UNCHANGED pseudonyms
     \/ /\ Shut(p) = {}
        /\ pseudonyms' = Numbered(p, pseudonyms)
        /\ \E kind \in {"kept", "dropped"} :
             outcomes' = Append(outcomes, Passed(p, pseudonyms', kind))
  /\ UNCHANGED done

(* ... or the detector is down: "fail closed for this record".             *)
FailClosed(p) ==
  /\ ~ done /\ Len(outcomes) < MaxTurns
  /\ outcomes' = Append(outcomes, Excluded(p, "EXC_STAGE6_UNAVAILABLE"))
  /\ UNCHANGED <<pseudonyms, done>>

(***************************************************************************)
(* applyConversationSinglingOut()                                          *)
(***************************************************************************)
Kept(os) == {i \in DOMAIN os : os[i].kind = "kept"}
BundleTypes(os) == UNION {Types(os[i].left) : i \in Kept(os)}

(* excludeConversation(): "every surviving prompt is excluded".            *)
ExcludeConversation(os) ==
  [i \in DOMAIN os |->
     IF os[i].kind = "kept"
     THEN [os[i] EXCEPT !.kind = "excluded", !.code = "EXC_SINGLING_OUT",
                        !.attestation.excluded = TRUE]
     ELSE os[i]]

(* Tier B: the hits of some types are edited away in every kept prompt     *)
(* that has one, and some of these prompts are dropped for what is left of *)
(* their text.                                                             *)
Touched(os, types) == {i \in Kept(os) : OfTypes(os[i].left, types) # {}}

(* The types of the bundle are counted instead of those of the prompt.     *)
SuppressWrong(os, types, dropped) ==
  [i \in DOMAIN os |->
     IF i \in Touched(os, types)
     THEN LET hits == OfTypes(os[i].left, types) IN
          [os[i] EXCEPT !.left = @ \ hits, !.edited = @ \cup hits,
                        !.attestation.types = @ \cup Types(hits),
                        !.attestation.after = @ - Cardinality(types),
                        !.kind = IF i \in dropped THEN "dropped" ELSE @,
                        !.code = IF i \in dropped THEN "DROP" ELSE @]
     ELSE os[i]]

(* The attestation stays that of the prompt by itself.                     *)
SuppressUncounted(os, types, dropped) ==
  [i \in DOMAIN os |->
     IF i \in Touched(os, types)
     THEN LET hits == OfTypes(os[i].left, types) IN
          [os[i] EXCEPT !.left = @ \ hits, !.edited = @ \cup hits,
                        !.attestation.types = @ \cup Types(hits),
                        !.kind = IF i \in dropped THEN "dropped" ELSE @,
                        !.code = IF i \in dropped THEN "DROP" ELSE @]
     ELSE os[i]]

Suppress(os, types, dropped) ==
  [i \in DOMAIN os |->
     IF i \in Touched(os, types)
     THEN LET hits == OfTypes(os[i].left, types) IN
          [os[i] EXCEPT !.left = @ \ hits, !.edited = @ \cup hits,
                        !.attestation.types = @ \cup Types(hits),
                        !.attestation.after = @ - Cardinality(Types(hits)),
                        !.kind = IF i \in dropped THEN "dropped" ELSE @,
                        !.code = IF i \in dropped THEN "DROP" ELSE @]
     ELSE os[i]]

(* The share is of all prompts, the excluded ones included.                *)
GuttedWrong(os, touched, rest) ==
  \/ 10 * Cardinality(touched) > 4 * Len(os)
  \/ Cardinality(Kept(rest)) < GUTTING_MIN_USABLE_PROMPTS

(* More than four tenths of the prompts touched, or too few left.          *)
Gutted(os, touched, rest) ==
  \/ 10 * Cardinality(touched) > 4 * Cardinality(Kept(os))
  \/ Cardinality(Kept(rest)) < GUTTING_MIN_USABLE_PROMPTS

SinglingOut ==
  LET n     == Cardinality(BundleTypes(outcomes))
      types == MostDistinctive(BundleTypes(outcomes), n - QI_CONVERSATION_TARGET)
  IN
  /\ ~ done /\ outcomes # <<>>
  /\ \E dropped \in SUBSET Touched(outcomes, types) :
       LET rest   == Suppress(outcomes, types, dropped)
           gutted == Gutted(outcomes, Touched(outcomes, types), rest)
       IN outcomes' = IF n < QI_CONVERSATION_SUPPRESS THEN outcomes
                      ELSE IF n >= QI_CONVERSATION_EXCLUDE THEN ExcludeConversation(outcomes)
                      ELSE IF gutted THEN ExcludeConversation(rest) ELSE rest
  /\ done' = TRUE
  /\ UNCHANGED pseudonyms

Next ==
  \/ \E p \in Prompts : ProcessRecord(p) \/ FailClosed(p)
  \/ SinglingOut

Spec == Init /\ [][Next]_vars

(***************************************************************************)
(* Properties.                                                             *)
(***************************************************************************)
(* The shape of outcomes; a prompt that is kept has no code, and as many   *)
(* quasi-identifiers are attested as there can be.                         *)
TypeOK ==
  /\ \A i \in DOMAIN outcomes :
       LET o == outcomes[i] IN
       /\ o.prompt \in Prompts
       /\ o.kind \in {"kept", "dropped", "excluded"}
       /\ o.kind = "kept" <=> o.code = "none"
       /\ o.left \cup o.edited \subseteq Hits(o.prompt) /\ o.attestation.types \subseteq QiTypes
       /\ o.shown \subseteq DOMAIN o.prompt.sentences
       /\ {o.attestation.before, o.attestation.after} \subseteq 0 .. Cardinality(QiTypes)
  /\ DOMAIN pseudonyms \subseteq Names
  /\ done \in BOOLEAN

(* "Personal markers BEAT fiction, always - this closes the 'write a story *)
(* where my sister ...' loophole", and a bare name is nobody's permission: *)
(* a kept prompt has sensitive content only as plain fiction or as a fact  *)
(* about the world, wherever in it the markers and the framing stand.      *)
NothingSensitive ==
  \A i \in DOMAIN outcomes :
    LET p == outcomes[i].prompt
        sensitive == {j \in DOMAIN p.sentences : p.sentences[j].category = "exclude"}
                       \cup Groups(p, "high")
    IN outcomes[i].kind = "kept" =>
         /\ Spans(p, "secret") = {}
         /\ \A j \in sensitive :
              /\ p.sentences[j].markers = {}
              /\ \/ p.sentences[j].fiction = "strong"
                 \/ p.sentences[j].fiction = "none" /\ ~ PersonIn(p, j)

(* "[PERSON_1] = the same person in every prompt" of the conversation, and *)
(* nobody else, whatever prompts between are excluded, dropped or not      *)
(* analysed.                                                               *)
OnePersonOnePseudonym ==
  \A i, j \in DOMAIN outcomes :
    \A m \in DOMAIN outcomes[i].called, n \in DOMAIN outcomes[j].called :
      m = n <=> outcomes[i].called[m] = outcomes[j].called[n]

(* What is packaged gives away three types of quasi-identifiers in a       *)
(* prompt and four in the bundle at most, as the code counts them: its     *)
(* prompts pass one by one, and accumulate.                                *)
NobodySingledOut ==
  LET bundle == {i \in DOMAIN outcomes : outcomes[i].kind = "kept"} IN
  /\ \A i \in bundle : Cardinality(Types(outcomes[i].left)) <= 3
  /\ done => Cardinality(UNION {Types(outcomes[i].left) : i \in bundle}) <= 4

(* The attestation that is stored and chained for a prompt is about the    *)
(* edits that were made to it, per prompt and for the bundle: it says      *)
(* excluded when the prompt is; the types it calls suppressed are those of *)
(* the hits that were edited away, every hit of such a type was and none   *)
(* of another; and it counts the types of what there was and of what is    *)
(* left.  It is about hits: of a phrase that is repeated the code counts,  *)
(* and suppresses, the first, so a type that is attested as suppressed may *)
(* still be in the text ("I'm a nurse ... I'm a nurse").                   *)
AttestedAsIs ==
  \A i \in DOMAIN outcomes :
    LET o == outcomes[i] IN
    /\ o.attestation.excluded <=> o.kind = "excluded"
    /\ o.kind = "kept" =>
         /\ o.attestation.types = Types(o.edited)
         /\ o.left \cup o.edited = Hits(o.prompt)
         /\ Types(o.left) \cap Types(o.edited) = {}
         /\ o.attestation.after = Cardinality(Types(o.left))
         /\ o.attestation.before = Cardinality(Types(Hits(o.prompt)))

(* A conversation is kept or excluded as a whole when it singles out:      *)
(* one of which something is left after the bundle's suppression has two   *)
(* prompts, and was suppressed in two fifths of them at most.              *)
KeptWhole ==
  LET kept    == {i \in DOMAIN outcomes : outcomes[i].kind = "kept"}
      touched == {i \in DOMAIN outcomes :
                    outcomes[i].attestation.after < 3
                      /\ outcomes[i].attestation.after < outcomes[i].attestation.before}
  IN done /\ kept # {} =>
       /\ \A i \in DOMAIN outcomes : outcomes[i].code # "EXC_SINGLING_OUT"
       /\ touched # {} => /\ Cardinality(kept) >= 2
                          /\ 5 * Cardinality(touched) <= 2 * Cardinality(kept \cup touched)

(* "sentence boundaries (punctuation) are never inside spans, so a         *)
(* re-split is safe" (src/src/refinement/policy/pipeline.ts): then a       *)
(* sentence that is to be suppressed is not in the text that is kept.  The *)
(* code does not keep this: the address in a sentence before has a full    *)
(* stop.                                                                   *)
SuppressedIsGone ==
  \A i \in DOMAIN outcomes :
    outcomes[i].kind = "kept" => outcomes[i].shown \cap Flagged(outcomes[i].prompt) = {}
====
