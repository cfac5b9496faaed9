------------------------------ MODULE MCRebalance ------------------------------
(***************************************************************************)
(* Two symbols, a target that turns both legs round and one that does not. *)
(***************************************************************************)
EXTENDS Rebalance

CONSTANT Budget   \* bound: troubles and restarts of one behaviour

Portfolio(a, b) == [s \in Symbols |-> IF s = "x" THEN a ELSE b]
MCTargets == {Portfolio(-1, 1), Portfolio(2, 0), NoTarget}
Leg(l, s) == [Flat EXCEPT !["x"] = [d \in Sides |-> IF d = "LONG" THEN l ELSE s]]
MCLegs == {Leg(1, 0)}

MCNext == Next /\ troubles' + restarts' <= Budget

MCSpec == Init /\ [][MCNext]_vars /\ Fairness
=============================================================================
