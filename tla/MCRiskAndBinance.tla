--------------------------- MODULE MCRiskAndBinance ---------------------------
(***************************************************************************)
(* Instances of the three parts of the risk manager and of the two sides   *)
(* of the Binance adapter, its candle feed and its signed requests. They   *)
(* share no state, so a behaviour runs one of them: part says which, and   *)
(* the others stay in their initial state.                                 *)
(*                                                                         *)
(* Frequency: a second of 2 ticks, entries kept 5, 2 orders a second and 3 *)
(* in the time entries are kept; time runs for more than twice that long,  *)
(* so entries are dropped and both limits bind. Positions: "x" and "y"     *)
(* have one row each, held by an OKX account (whose answers may leave flat *)
(* rows out and whose open orders are counted) and a Binance account; the  *)
(* check may be given nothing of an order's value.                         *)
(* Drawdown: two accounts, a limit of 50 %, both modes. Feed: four         *)
(* troubles and the connection objects they can use up. Requests: clocks   *)
(* too far apart to work unsynchronised, in either direction, a move of    *)
(* the clock and a slow or failed request.                                 *)
(***************************************************************************)
EXTENDS RateLimiter, RiskGate, Drawdown, BinanceFeed, BinanceRest

CONSTANT MaxStart   \* bound: positions held and orders resting at the start, together
VARIABLE part

OneEach == {"x", "y"}
Self == [r \in Rows |-> r]
Holder == [r \in Rows |-> IF r \in {"x"} THEN "okx" ELSE "binance"]
BothAccounts == <<"okx", "binance">>
EitherWay == {-3, 3}

partsVars == <<part, rateVars, gateVars, drawdownVars, vars, restVars>>

PartsInit ==
  /\ part \in {"rate", "gate", "drawdown", "feed", "rest"}
  /\ RateInit
  /\ GateInit /\ Cardinality(resting) + SumFunction(pos) <= IF part = "gate" THEN MaxStart ELSE 0
  /\ DrawdownInit /\ (part /= "drawdown" => dailyInitial)
  /\ Init
  /\ RestInit /\ (part /= "rest" => skew > 0)

RunRate ==
  /\ part = "rate"
  /\ RateNext
  /\ UNCHANGED <<part, gateVars, drawdownVars, vars, restVars>>
RunGate ==
  /\ part = "gate"
  /\ GateNext
  /\ UNCHANGED <<part, rateVars, drawdownVars, vars, restVars>>
RunDrawdown ==
  /\ part = "drawdown"
  /\ DrawdownNext
  /\ UNCHANGED <<part, rateVars, gateVars, vars, restVars>>
RunFeed ==
  /\ part = "feed"
  /\ Next
  /\ UNCHANGED <<part, rateVars, gateVars, drawdownVars, restVars>>
RunRest ==
  /\ part = "rest"
  /\ RestNext
  /\ UNCHANGED <<part, rateVars, gateVars, drawdownVars, vars>>

PartsNext == RunRate \/ RunGate \/ RunDrawdown \/ RunFeed \/ RunRest

(* GateFairSpec's and FairSpec's fairness, each in its own part.           *)
PartsSpec ==
  /\ PartsInit /\ [][PartsNext]_partsVars
  /\ WF_gateVars(part = "gate" /\ PollAccounts)
  /\ \A c \in Conns : WF_vars(part = "feed" /\ Settles(c) /\ (Open(c) \/ Lose(c)))
  /\ WF_vars(part = "feed" /\ Callback) /\ WF_vars(part = "feed" /\ Silence)
  /\ WF_vars(part = "feed" /\ Monitor) /\ WF_vars(part = "feed" /\ Builder)
  /\ WF_vars(part = "feed" /\ Ending)

(* StreamsAgain, of the behaviours that run the feed: once the network     *)
(* leaves the batch alone, its candles arrive for good.                    *)
FeedStreamsAgain == part = "feed" => StreamsAgain
=============================================================================
