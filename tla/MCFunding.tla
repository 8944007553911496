----------------------------- MODULE MCFunding -----------------------------
(***************************************************************************)
(* Instances of Funding for TLC: one brief, two tabs of its buyer, a       *)
(* second attempt.                                                         *)
(***************************************************************************)
EXTENDS Funding, TLC

CONSTANTS c1, c2

Tabs == Permutations(Calls)
====
