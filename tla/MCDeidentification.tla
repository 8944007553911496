-------------------------- MODULE MCDeidentification --------------------------
(***************************************************************************)
(* An instance of Deidentification for TLC: conversations of up to three   *)
(* prompts, out of those that take different ways through the policy.      *)
(***************************************************************************)
EXTENDS Deidentification

CONSTANTS ann, bob, star

Says(markers, fiction, category) ==
  [markers |-> markers, fiction |-> fiction, category |-> category]
Plain == Says({}, "none", "none")
Own   == Says({"self"}, "none", "none")

Span(at, group, sure, name, dotted) ==
  [at |-> at, group |-> group, sure |-> sure, name |-> name, dotted |-> dotted]
Person(at, name) == Span(at, "person", "high", name, FALSE)
Found(at, group) == Span(at, group, "high", "", FALSE)
Unsure(at, group) == Span(at, group, "band", "", FALSE)
Address(at)      == Span(at, "identifier", "high", "", TRUE)

Prompt(sentences, spans, phrases) ==
  [sentences |-> sentences, spans |-> spans, phrases |-> phrases]
Phrases(types) == {[at |-> 1, type |-> t] : t \in types}

(* What the author says of themselves, three or four things at a time, or  *)
(* the same twice, as a phrase after a span or after a phrase; and a       *)
(* phrase that first matches in a sentence about nobody.                   *)
Portraits ==
  {Prompt(<<Own, Own>>, <<Found(1, "adult")>>,
          Phrases({"occupation", "gender"}) \cup {[at |-> 2, type |-> "exact_age"]}),
   Prompt(<<Own>>, <<Found(1, "employer"), Found(1, "city")>>, Phrases({"exact_age", "gender"})),
   Prompt(<<Own>>, <<Found(1, "region")>>, Phrases({"family_structure", "exact_age"})),
   Prompt(<<Own>>, <<Found(1, "employer")>>, {}),
   Prompt(<<Own, Own>>, <<>>, [at : {1, 2}, type : {"occupation"}]),
   Prompt(<<Plain, Own>>, <<>>, {[at |-> 1, type |-> "family_structure"],
                               [at |-> 2, type |-> "family_structure"],
                               [at |-> 2, type |-> "gender"]})}

(* Who is mentioned.                                                       *)
People ==
  {Prompt(<<Own, Plain>>, <<Person(1, ann), Person(2, bob)>>, {}),
   Prompt(<<Plain>>, <<Person(1, bob), Person(1, star)>>, {}),
   Prompt(<<Says({"self", "third"}, "strong", "none")>>, <<Person(1, star), Found(1, "old")>>, {})}

(* What is sensitive, in every kind of sentence, and a secret after a name *)
Delicate ==
  {Prompt(<<Says(m, f, "exclude")>>, <<>>, {}) :
     m \in {{}, {"self"}, {"self", "third"}}, f \in {"none", "strong", "weak"}}
    \cup {Prompt(<<Says({}, f, "exclude")>>, <<Person(1, ann)>>, {}) : f \in {"none", "strong"}}
    \cup {Prompt(<<Own, Plain>>, <<Found(1, "norp"), Person(2, ann)>>, {}),
          Prompt(<<Plain>>, <<Person(1, ann), Found(1, "secret")>>, {}),
          Prompt(<<Own>>, <<Found(1, "minor")>>, {}),
          Prompt(<<Plain>>, <<Address(1), Found(1, "identifier")>>, {})}

(* Sentences to suppress, after none and after an address.                 *)
Suppressed ==
  {Prompt(<<Own, Says({"self"}, "none", "flag")>>, <<>>, {}),
   Prompt(<<Plain, Plain, Own>>, <<Unsure(3, "norp")>>, {})}
Addressed ==
  {Prompt(<<Plain, Plain, Says({"self"}, "none", "flag")>>, <<Address(1)>>, {})}

Various == Portraits \cup People \cup Delicate \cup Suppressed \cup Addressed
====
