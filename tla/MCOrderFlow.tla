----------------------------- MODULE MCOrderFlow -----------------------------
(***************************************************************************)
(* Small instances of OrderFlow for TLC. Strategies and orders are         *)
(* interchangeable: nothing in the specification orders them, and          *)
(* OrderOf chooses only from singletons.                                   *)
(***************************************************************************)
EXTENDS OrderFlow, TLC

Symmetry == Permutations(Orders) \cup Permutations(Strategies)
=============================================================================
