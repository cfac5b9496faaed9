------------------------- MODULE MCStrategyProcesses -------------------------
(***************************************************************************)
(* Two strategies that share an account; one of them may also be started   *)
(* in a shell.                                                             *)
(***************************************************************************)
EXTENDS StrategyProcesses

Shared == [s \in Strategies |-> "acc"]
=============================================================================
