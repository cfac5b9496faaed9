-------------------------------- MODULE Ticks --------------------------------
(***************************************************************************)
(* Trades, order books and funding rates of one OKX symbol, from a         *)
(* strategy's subscription to its buffers: the request to the server, the  *)
(* server's sets, the adapter g_ws_public with its callbacks, the market   *)
(* channel and the handlers of the strategy's market data module. main     *)
(* sets the server up one step after another, and only then starts the     *)
(* thread that takes subscriptions. The connection is in no trouble here   *)
(* (its troubles are OkxFeed).                                             *)
(***************************************************************************)
EXTENDS Naturals, Sequences

CONSTANTS
  Strategies,
  Depths,       \* channels a strategy may give subscribe_orderbook
  MaxRequests,  \* bound: requests of one strategy
  Capacity      \* what a buffer holds

OkxDepths == {"books", "books5", "bbo-tbt", "books-l2-tbt", "books50-l2-tbt", "books-elp"}
Names == {"trades", "funding_rate"} \cup Depths

VARIABLES
  boot,      \* what main does next
  public,    \* g_ws_public
  hooks,     \* data its callbacks are set for
  wanted,    \* [s] subscribed_trades_, subscribed_orderbooks_, subscribed_funding_rates_
  requests,  \* [s] subscription requests on their way
  sent,      \* [s] how many it has made
  taken,     \* g_subscribed_trades, _orderbooks, _funding_rates
  asked,     \* channels the exchange sends
  push,      \* the message the adapter has received
  market,    \* [s] messages published and not yet received
  buffers    \* [s] [n] how many entries a buffer holds

server == <<boot, public, hooks>>
link == <<taken, asked, push>>
strategy == <<wanted, requests, sent, buffers>>
ticksVars == <<server, link, strategy, market>>

TicksInit ==
  /\ boot = "callbacks" /\ public = "null" /\ hooks = {}
  /\ wanted = [s \in Strategies |-> {}]
  /\ requests = [s \in Strategies |-> <<>>]
  /\ sent = [s \in Strategies |-> 0]
  /\ taken = {} /\ asked = {} /\ push = "none"
  /\ market = [s \in Strategies |-> <<>>]
  /\ buffers = [s \in Strategies |-> [n \in Names |-> 0]]

-----------------------------------------------------------------------------
(* main.                                                                   *)

Boot(from, to) == boot = from /\ boot' = to

(* The callbacks of the adapters there are.                                *)
SetupCallbacks ==
  /\ Boot("callbacks", "create")
  /\ hooks' = IF public = "null" THEN {} ELSE {"ticker", "trade", "orderbook", "funding_rate"}
  /\ UNCHANGED <<public, link, strategy, market>>

CreatePublic ==
  /\ Boot("create", "ticker")
  /\ public' = "created" /\ hooks' = {}
  /\ UNCHANGED <<link, strategy, market>>

SetTickerCallback ==
  /\ Boot("ticker", "connect")
  /\ hooks' = hooks \cup {"ticker"}
  /\ UNCHANGED <<public, link, strategy, market>>

(* The server's own symbols' tickers are subscribed at once.               *)
ConnectPublic ==
  /\ Boot("connect", "threads")
  /\ public' = "connected" /\ asked' = {"tickers"}
  /\ UNCHANGED <<hooks, taken, push, strategy, market>>

StartThreads ==
  /\ Boot("threads", "running")
  /\ UNCHANGED <<public, hooks, link, strategy, market>>

Startup == SetupCallbacks \/ CreatePublic \/ SetTickerCallback \/ ConnectPublic \/ StartThreads

-----------------------------------------------------------------------------
(* A strategy subscribes and unsubscribes.                                 *)

Ask(s, action, n, channel) ==
  /\ sent[s] < MaxRequests /\ sent' = [sent EXCEPT ![s] = @ + 1]
  /\ wanted' = [wanted EXCEPT ![s] = IF action = "subscribe" THEN @ \cup {n} ELSE @ \ {n}]
  /\ requests' = [requests EXCEPT ![s] = Append(@, [action |-> action, channel |-> channel])]
  /\ UNCHANGED <<server, link, market, buffers>>

DepthRequest(n) == IF n = "orderbook" THEN "books5" ELSE n

SubscribeTrades(s) == Ask(s, "subscribe", "trades", "trades")
UnsubscribeTrades(s) == Ask(s, "unsubscribe", "trades", "trades")
SubscribeOrderbook(s, n) == Ask(s, "subscribe", n, DepthRequest(n))
UnsubscribeOrderbook(s, n) == Ask(s, "unsubscribe", n, DepthRequest(n))
SubscribeFundingRate(s) == Ask(s, "subscribe", "funding_rate", "funding_rate")
UnsubscribeFundingRate(s) == Ask(s, "unsubscribe", "funding_rate", "funding_rate")

-----------------------------------------------------------------------------
(* The server takes a request.                                             *)

Subscribes(r) == r.action = "subscribe"

(* Nobody counts the strategies: the first subscription and the first      *)
(* unsubscription go to the exchange.                                      *)
TakeOnce(r, c) ==
  IF Subscribes(r) = (c \in taken) THEN UNCHANGED <<taken, asked>>
  ELSE IF Subscribes(r) THEN taken' = taken \cup {c} /\ asked' = asked \cup {c}
  ELSE taken' = taken \ {c} /\ asked' = asked \ {c}

(* Every one does.                                                         *)
TakeAlways(r, c) ==
  IF Subscribes(r) THEN taken' = taken \cup {c} /\ asked' = asked \cup {c}
  ELSE taken' = taken \ {c} /\ asked' = asked \ {c}

TakeTrades(r) == r.channel = "trades" /\ TakeOnce(r, "trades")
TakeOrderbook(r) == r.channel \in OkxDepths /\ TakeAlways(r, r.channel)
TakeFundingRate(r) == r.channel = "funding_rate" /\ TakeOnce(r, "funding-rate")

HandleSubscription(s) ==
  /\ boot = "running" /\ requests[s] # <<>>
  /\ LET r == Head(requests[s]) IN TakeTrades(r) \/ TakeOrderbook(r) \/ TakeFundingRate(r)
  /\ requests' = [requests EXCEPT ![s] = Tail(@)]
  /\ UNCHANGED <<server, push, market, wanted, sent, buffers>>

-----------------------------------------------------------------------------
(* Data comes in and is published, to every strategy.                      *)

Push(c) ==
  /\ c \in asked /\ push = "none"
  /\ \A s \in Strategies : market[s] = <<>>
  /\ push' = c
  /\ UNCHANGED <<server, taken, asked, strategy, market>>

(* What is published for an entry of the channel; for tickers by main's    *)
(* callback, for the others by setup_websocket_callbacks'.                 *)
TickerMessage == [type |-> "ticker", channel |-> "none"]
TradeMessage == [type |-> "trade", channel |-> "none"]
OrderbookMessage == [type |-> "orderbook", channel |-> push]
FundingRateMessage == [type |-> "funding_rate", channel |-> "none"]

(* An entry without a callback is dropped.                                 *)
Parse(channels, msg) ==
  /\ push \in channels /\ push' = "none"
  /\ market' = IF msg.type \in hooks THEN [s \in Strategies |-> Append(market[s], msg)]
               ELSE market
  /\ UNCHANGED <<server, taken, asked, strategy>>

ParseTicker == Parse({"tickers"}, TickerMessage)
ParseTrade == Parse({"trades"}, TradeMessage)
ParseOrderbook == Parse(OkxDepths, OrderbookMessage)
ParseFundingRate == Parse({"funding-rate"}, FundingRateMessage)

OnMessage == ParseTicker \/ ParseTrade \/ ParseOrderbook \/ ParseFundingRate

-----------------------------------------------------------------------------
(* process_market_data takes a message.                                    *)

Least(a, b) == IF a < b THEN a ELSE b

(* Data is kept if it is subscribed to.                                    *)
Keep(s, n) ==
  buffers' = IF n \in wanted[s] THEN [buffers EXCEPT ![s][n] = Least(@ + 1, Capacity)]
             ELSE buffers

HandleTrades(s, msg) == msg.type = "trade" /\ Keep(s, "trades")
HandleOrderbook(s, msg) == msg.type = "orderbook" /\ Keep(s, msg.channel)
HandleFundingRate(s, msg) == msg.type = "funding_rate" /\ Keep(s, "funding_rate")
IgnoreTicker(msg) == msg.type = "ticker" /\ UNCHANGED buffers

ProcessMarketData(s) ==
  /\ market[s] # <<>>
  /\ LET msg == Head(market[s])
     IN  \/ HandleTrades(s, msg) \/ HandleOrderbook(s, msg)
         \/ HandleFundingRate(s, msg) \/ IgnoreTicker(msg)
  /\ market' = [market EXCEPT ![s] = Tail(@)]
  /\ UNCHANGED <<server, link, wanted, requests, sent>>

-----------------------------------------------------------------------------
TicksNext ==
  \/ Startup \/ OnMessage
  \/ \E c \in asked : Push(c)
  \/ \E s \in Strategies :
       \/ SubscribeTrades(s) \/ UnsubscribeTrades(s)
       \/ SubscribeFundingRate(s) \/ UnsubscribeFundingRate(s)
       \/ \E n \in Depths : SubscribeOrderbook(s, n) \/ UnsubscribeOrderbook(s, n)
       \/ HandleSubscription(s) \/ ProcessMarketData(s)

(* Every thread runs, and the exchange sends of every channel it is asked  *)
(* for again and again.                                                    *)
TicksSpec ==
  /\ TicksInit /\ [][TicksNext]_ticksVars
  /\ WF_ticksVars(Startup) /\ WF_ticksVars(OnMessage)
  /\ \A s \in Strategies :
       WF_ticksVars(HandleSubscription(s)) /\ WF_ticksVars(ProcessMarketData(s))
  /\ \A c \in {"tickers", "trades", "funding-rate"} \cup OkxDepths : SF_ticksVars(Push(c))

-----------------------------------------------------------------------------
(* What a strategy has subscribed to and stays subscribed to comes in (the *)
(* comment at subscribe_trades in example_strategy.py: after a successful  *)
(* subscription every trade is pushed, and kept in a buffer).              *)
TicksReachStrategy ==
  \A s \in Strategies : \A n \in Names :
    (n \in wanted[s]) ~> (n \notin wanted[s] \/ buffers[s][n] > 0)
=============================================================================
