---------------------------- MODULE MCSettlement ----------------------------
(***************************************************************************)
(* Instances of Settlement for TLC.                                        *)
(*                                                                         *)
(* One brief: contributions q1 and q2 with a record and a contributor      *)
(* each, two cents a piece out of a funding of five, so that both fit,     *)
(* one cent stays unused and a third transfer would not.                   *)
(* Two briefs: q1 and q2 answer brief p1, q3 answers p2 with the record of *)
(* q1; both briefs can pay for one contribution only.                      *)
(***************************************************************************)
EXTENDS Settlement, Functions, TLC

CONSTANTS p1, p2, q1, q2, q3, r1, r2, u1, u2

OneBrief  == [q \in Qas |-> p1]
TwoBriefs == [q \in Qas |-> IF q = q3 THEN p2 ELSE p1]

RecordMap == [q \in Qas |-> IF q = q2 THEN r2 ELSE r1]
UserMap   == [q \in Qas |-> IF q = q2 THEN u2 ELSE u1]
OneUser   == [q \in Qas |-> u1]

TwoCents   == [q \in Qas |-> 2]
Sums       == [qs \in SUBSET Qas |-> SumFunctionOnSet(Cents, qs)]
FiveCents  == [p \in Payments |-> 5]
ThreeCents == [p \in Payments |-> 3]

NoTarget  == [p \in Payments |-> 9]
NoLimit   == [p \in Payments |-> 0]
OneEach   == [p \in Payments |-> 1]

(* Clicks and server instances are interchangeable.                        *)
Alike == Permutations(Clicks) \cup Permutations(Workers)
====
