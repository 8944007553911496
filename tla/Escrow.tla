------------------------------- MODULE Escrow -------------------------------
(***************************************************************************)
(* What a brief promises to those who answer it, whatever the services do: *)
(* it is open only while a buyer's money is held for it, the money is held *)
(* once, and money that was let go of is never held again.                 *)
(*                                                                         *)
(* PaymentsService and BriefsService bring the money in and open the brief *)
(* (module Funding), SettlementService and its worker let it go (module    *)
(* Settlement); both implement this specification.                         *)
(***************************************************************************)
CONSTANT Briefs

VARIABLES
  funds,   \* [Briefs -> {"none", "held", "ended"}]
  open     \* the briefs that accept contributions

vars == <<funds, open>>

Init ==
  /\ funds \in [Briefs -> {"none", "held"}]
  /\ open \subseteq {b \in Briefs : funds[b] = "held"}

(* The buyer's payment, or a seeded sandbox reference, is confirmed.       *)
Commit(b) ==
  /\ funds[b] = "none"
  /\ funds' = [funds EXCEPT ![b] = "held"]
  /\ UNCHANGED open

(* The money is returned, disputed or closed to further use.               *)
Finish(b) ==
  /\ funds' = [funds EXCEPT ![b] = "ended"]
  /\ open' = open \ {b}

OpenUp(b) ==
  /\ funds[b] = "held"
  /\ open' = open \cup {b}
  /\ UNCHANGED funds

Hold(b) ==
  /\ open' = open \ {b}
  /\ UNCHANGED funds

Next == \E b \in Briefs : Commit(b) \/ Finish(b) \/ OpenUp(b) \/ Hold(b)

Spec == Init /\ [][Next]_vars

(* A brief is open only while its money is held.                           *)
OpenIsHeld == \A b \in open : funds[b] = "held"
====
