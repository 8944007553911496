--------------------------- MODULE MCContribution ---------------------------
(***************************************************************************)
(* Instances of Contribution for TLC: a conversation of one prompt is      *)
(* uploaded twice, the second time with another value, and reported and    *)
(* evaluated again at any time.  Elsewhere nothing is reserved, or one     *)
(* cent of the two, by others or by the contributor: the brief takes two   *)
(* conversations, one of a contributor.                                    *)
(***************************************************************************)
EXTENDS Contribution

CONSTANTS k1, u1

OneConversation == [u \in Uploads |-> k1]
OnePrompt       == [u \in Uploads |-> 1]
Values          == [b \in Briefs |-> [u \in Uploads |-> IF u = u1 THEN 1 ELSE 2]]
OneContributor  == [k \in Conversations |-> "contributor"]
One             == [b \in Briefs |-> 1]
Two             == [b \in Briefs |-> 2]
SomeElsewhere   == {[count |-> 0, own |-> 0, cents |-> 0], [count |-> 1, own |-> 0, cents |-> 1],
                    [count |-> 1, own |-> 1, cents |-> 1]}
====
