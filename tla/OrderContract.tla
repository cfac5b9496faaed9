---------------------------- MODULE OrderContract ----------------------------
(***************************************************************************)
(* What the order path promises a strategy, whatever is lost, delayed or   *)
(* restarted on the way: an order is executed by the exchange at most once *)
(* and only after the strategy asked for it; it is answered at most once;  *)
(* and an answer that says an order succeeded is true.                     *)
(*                                                                         *)
(* It does not promise that an answer comes, nor that an order answered    *)
(* otherwise was not executed: the server may give up a call that the      *)
(* exchange executes later.                                                *)
(***************************************************************************)
EXTENDS Naturals

CONSTANT Orders

VARIABLES
  asked,     \* orders a strategy has sent
  market,    \* [o] the exchange's view of the order
  answers,   \* [o] number of answers given for it
  acked      \* orders answered as successful

vars == <<asked, market, answers, acked>>

Placed == {"live", "filled", "cancelled"}

Init ==
  /\ asked = {}
  /\ market = [o \in Orders |-> "none"]
  /\ answers = [o \in Orders |-> 0]
  /\ acked = {}

Ask(ids) ==
  /\ ids \cap asked = {}
  /\ asked' = asked \cup ids
  /\ UNCHANGED <<market, answers, acked>>

(* The exchange takes the orders of acc and refuses those of ref.          *)
Execute(acc, ref) ==
  /\ acc \cup ref \subseteq {o \in asked : market[o] = "none"}
  /\ market' = [o \in Orders |-> IF o \in acc THEN "live"
                                 ELSE IF o \in ref THEN "refused" ELSE market[o]]
  /\ UNCHANGED <<asked, answers, acked>>

(* Live orders are filled or cancelled.                                    *)
Settle(ids, how) ==
  /\ \A o \in ids : market[o] = "live"
  /\ market' = [o \in Orders |-> IF o \in ids THEN how ELSE market[o]]
  /\ UNCHANGED <<asked, answers, acked>>

Answer(ids, good) ==
  /\ ids \subseteq {o \in asked : answers[o] = 0}
  /\ good \subseteq {o \in ids : market[o] \in Placed}
  /\ answers' = [o \in Orders |-> IF o \in ids THEN 1 ELSE answers[o]]
  /\ acked' = acked \cup good
  /\ UNCHANGED <<asked, market>>

Next ==
  \/ \E ids \in SUBSET Orders : Ask(ids)
  \/ \E acc, ref \in SUBSET Orders : Execute(acc, ref)
  \/ \E ids \in SUBSET Orders, how \in {"filled", "cancelled"} : Settle(ids, how)
  \/ \E ids, good \in SUBSET Orders : Answer(ids, good)

Spec == Init /\ [][Next]_vars
=============================================================================
