---------------------------- MODULE MCStrategyLoop ----------------------------
(***************************************************************************)
(* A strategy with two tasks and one series.                               *)
(***************************************************************************)
EXTENDS StrategyLoop, FiniteSetsExt

CONSTANT Budget   \* bound: the strategy's calls, bars closed and troubles, together

MCTaskOrder == <<"a", "b">>

Spent == calls + troubles + MapThenSumSet(LAMBDA s : closed[s], Series)
MCNext == Next /\ Spent' <= Budget

MCSpec == Init /\ [][MCNext]_vars /\ Fairness
=============================================================================
