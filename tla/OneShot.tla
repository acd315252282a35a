------------------------------ MODULE OneShot ------------------------------
(***************************************************************************)
(* What single-use grants promise, whatever they are made of: a grant is   *)
(* offered, one claimant at most is given what it stands for, and once it  *)
(* is taken or withdrawn it stays so.  A step may move several grants, and *)
(* each on its own terms.                                                  *)
(***************************************************************************)
CONSTANTS Grants, Claimants

VARIABLES grant,    \* each is "none", "offered", "taken" or "withdrawn"
          winners   \* the claims on each that were honoured

vars == <<grant, winners>>

Init == grant \in [Grants -> {"none", "offered"}] /\ winners = [g \in Grants |-> {}]

Offer(g) == grant[g] = "none" /\ grant'[g] = "offered" /\ winners'[g] = winners[g]

Take(g, c) == grant[g] = "offered" /\ grant'[g] = "taken" /\ winners'[g] = {c}

Withdraw(g) == grant[g] = "offered" /\ grant'[g] = "withdrawn" /\ winners'[g] = winners[g]

Keep(g) == grant'[g] = grant[g] /\ winners'[g] = winners[g]

Next ==
  \A g \in Grants : Keep(g) \/ Offer(g) \/ Withdraw(g) \/ \E c \in Claimants : Take(g, c)

Spec == Init /\ [][Next]_vars
=============================================================================
