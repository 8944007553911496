------------------------------ MODULE MCQaGate ------------------------------
(***************************************************************************)
(* An instance of QaGate for TLC.  Two contributors share the prompts h1   *)
(* and h2, and n1 is like h1; the second one's conversation also matched   *)
(* the brief that wants no near duplicates.                                *)
(***************************************************************************)
EXTENDS QaGate

CONSTANTS c1, c2, c3, u1, u2

Prompts == {"h1", "h2", "h3", "n1"}
Alike == {<<h, h>> : h \in Prompts} \cup {<<"h1", "n1">>, <<"n1", "h1">>}

Texts == [h \in Prompts |->
  CASE h = "h1" -> <<"sort", "list">>
    [] h = "h2" -> <<"name", "is", "[X]">>
    [] h = "h3" -> <<"quick">>
    [] h = "n1" -> <<"sort", "a", "long", "list">>]

From(u, stored, kept, jurisdiction) ==
  [user |-> u, stored |-> stored, kept |-> {kept[i] : i \in DOMAIN kept},
   prompts |-> [i \in DOMAIN kept |-> Texts[kept[i]]],
   language |-> "en", tags |-> {"code"}, categories |-> {"lab"}, jurisdiction |-> jurisdiction]

Conversations ==
  {From(u1, {"h1", "h2", "h3"}, <<"h1", "h2", "h3">>, "US"), From(u1, {"h1", "h2"}, <<>>, "US"),
   From(u1, {"h2"}, <<"h2">>, "none"),
   From(u2, {"h1", "h2"}, <<"h1", "h2">>, "CA"), From(u2, {"n1"}, <<"n1">>, "CA")}

(* "list name" is found where h2 follows h1.                               *)
Asked == [b \in Briefs |->
  IF b = "exact"
  THEN [category |-> "lab", languages |-> {}, domains |-> {}, minPrompts |-> 1, maxDensity |-> 100,
        any |-> {<<"sort">>, <<"is">>}, all |-> {}, none |-> {<<"slow">>}, dedup |-> "exact"]
  ELSE [category |-> "lab", languages |-> {"en"}, domains |-> {"code", "law"}, minPrompts |-> 1,
        maxDensity |-> 40, any |-> {<<"sort", "a">>, <<"list", "name">>}, all |-> {<<"list">>},
        none |-> {}, dedup |-> "exact+near"]]

BothAndOne == [u \in Users |-> IF u = u1 THEN {"exact"} ELSE Briefs]

(* Calls are interchangeable.                                              *)
AnyCall == Permutations(Calls)
====
