----------------------------- MODULE KlineWindow -----------------------------
(***************************************************************************)
(* What the market data module promises of a kline series: the newest      *)
(* MaxKlineBars bars in the order they were stored, a bar stored again     *)
(* under the timestamp of the last one taking its place.                   *)
(***************************************************************************)
EXTENDS Integers, Sequences

CONSTANTS Bars, MaxKlineBars
VARIABLE window

Init == window = <<>>

Newest(w) == IF Len(w) > MaxKlineBars THEN Tail(w) ELSE w

Amend(bar) ==
  /\ window # <<>> /\ window[Len(window)].t = bar.t
  /\ window' = [window EXCEPT ![Len(window)] = bar]

Add(bar) ==
  /\ window # <<>> => window[Len(window)].t # bar.t
  /\ window' = Newest(Append(window, bar))

Next == \E bar \in Bars : Amend(bar) \/ Add(bar)
Spec == Init /\ [][Next]_window
=============================================================================
