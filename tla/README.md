# Verification of the trading server

TLA+ models of the live trading server under `src/cpp`: the path of an order
from a Python strategy to an exchange and back, the risk manager in front of it,
the processes and the main loop of the strategies, the market-data connections,
the accounts, the candles in Redis, and the threads of the server around them.
TLC checks the models on small instances; TLAPS proves the central properties
for every value of the constants.

File names below are relative to `src/cpp`.

## 1. Inventory

### The system

One server process (`server/trading_server_main.cpp`) connects to OKX and
Binance; every strategy is a process of its own (`strategies/implementations/*.py`
on top of the C++ base class `strategies/core/py_strategy_base.h`). They talk
over ZeroMQ IPC sockets; a browser frontend talks to the server over a
WebSocket. Three programs of their own keep the candles in Redis whole
(`server/klinedata/`).

| Component | State | Operations | Talks to |
|---|---|---|---|
| Strategy main loop, `py_strategy_base.h` | running flag, callbacks, scheduled tasks, last heartbeat | connect, run and `poll_messages` (market data, reports twice, scheduled tasks, on_tick, heartbeat every 5 s), stop | order channel (PUSH), report channel (SUB), market channel (SUB) |
| Trading module, `trading_module.h` | `active_orders_` | send orders, batches, cancels; apply reports | shares the report socket with the main loop |
| Account module, `account_module.h` | `account_registered_`, balances, positions | register, unregister, refresh, apply account reports | order channel |
| Market data module, `market_data_module.h` | ring buffers, what is subscribed | subscribe, unsubscribe, store, read | subscription channel (PUSH), market channel (SUB) |
| Five-factor strategy, `five_mom_factor_live.py` | targets, the candle handled last, files | rebalance per 8 h candle: query, close, open, wait | base class, Redis |
| ZeroMQ server, `network/zmq_server.*` | sockets with high-water marks, `running_` | receive, publish, answer queries (REP), stop | all channels |
| Order processor, `handlers/order_processor.cpp` | counters | place, batch, cancel, batch cancel, amend, register, unregister, heartbeat, query, leverage | risk manager, account registry, process manager, REST adapters, report channel |
| Risk manager, `trading/risk_manager.h` | limits, position cache, open-order count, timestamps, equities of the day | check an order, record it; updates by the account monitor | order processor, account monitor |
| Account monitor, `managers/account_monitor.h` | accounts to poll | poll balance, positions, open orders every 10 s | REST adapters, risk manager |
| Account registry, `trading/account_registry.h` | API objects by exchange and name, defaults | register, alias, unregister, look up | order processor, frontend |
| Strategy process manager, `managers/strategy_process_manager.h` | one entry per strategy: pid, status, last heartbeat | start, stop, register, heartbeat, check, delete, stop all | fork/exec, signals, frontend, order processor |
| REST adapters, `adapters/*/*_rest_api.cpp` | Binance: `time_offset_ms_` | signed requests, synchronise the clock | exchanges |
| WebSocket client, `network/ws_client.cpp` | one IO thread, connection, `is_connected_`, callbacks | connect with timeout, send, close, shut down | the exchange adapters |
| OKX feed, `adapters/okx/okx_websocket.*` | flags, heartbeat thread, reconnect monitor, `subscriptions_`, failure counters | connect, disconnect, subscribe, resubscribe all | WebSocket client, callbacks |
| Binance feed, `adapters/binance/binance_websocket.cpp` | the same, and batches of candle streams in main | connect, disconnect, subscribe, resubscribe, health check of the batches | WebSocket client, callbacks |
| Subscription manager, `handlers/subscription_manager.cpp` | `g_subscribed_*`, counts per candle | subscribe and unsubscribe for strategies | feeds |
| Candles, `callbacks/`, `klinedata/`, `managers/redis_*` | sorted sets in Redis, the aggregation in progress | record, aggregate, deduplicate, detect gaps, fetch, fill, read | Redis, REST |
| Frontend channel, `network/websocket_server.cpp` | browsers, message queue | accept, execute commands, push events, stop | frontend commands |
| Frontend commands, `handlers/frontend_command_handler.cpp` | `acount_configs/`, `strategy_configs/` | start, stop, create, delete strategies; register and unregister accounts; logs | process manager, registry, account monitor |
| Query handler, `handlers/query_handler.cpp` | none | answer queries | query channel |
| Monitors, `vpn_network_monitor.h`, `symbol_delist_monitor.h`, main | last results, a state file | poll, alert by mail | alerts |
| Logger, `core/logger.cpp` | queue, a file per source and day | log, write, shut down | all |
| Authentication, `network/auth_manager.h` | users, tokens | log in, check a role | frontend commands |
| Event engine, `core/event_engine.h` | queue, listeners | put, dispatch | not used by the server |

### What is hard

* **Concurrency.** One order thread serves all strategies and blocks in every
  REST call. The risk cache is written by the monitor thread while orders are
  checked. Two receive loops of a strategy drain one socket, and its own code
  enters the loop again. A feed has an IO thread, a heartbeat thread, a monitor
  thread and main, which share atomics and no lock. Four programs write the same
  keys of Redis. Sockets are closed by main while others use them.
* **Failure.** A REST call may time out after the exchange acted. PUB/SUB drops.
  Strategies and the server die between any two steps, files and processes
  outlive the server.
* **Time.** Heartbeats are applied late; a connection attempt is given up and
  opens later; limits look back over windows of whole seconds; clocks of the
  exchange and the server drift apart.
* **Ordering.** Late registrations of older processes; late close events of older
  connections; polls that overtake fills; answers to earlier questions.

What makes each component correct is stated with its module below;
`PROJECT.json` lists the hazards line by line.

## 2. Modules

| Module | Extends | Models |
|---|---|---|
| `OrderFlow` | | strategies, channels, order thread, REST call, exchange, receive loops, crashes |
| `OrderContract` | | abstract: what the order path promises a strategy |
| `RiskGate` | | risk check of an order against the cache the account monitor writes |
| `RateLimiter` | | the order-frequency windows |
| `Drawdown` | | the drawdown check of each account's equity |
| `BinanceRest` | | the clock of signed requests, and the query for positions that repairs it |
| `StrategyProcesses` | | processes, their messages, and the table of the process manager |
| `WsClient` | | the WebSocket client and its connection objects |
| `OkxFeed` | `WsClient` | OKX adapter, its threads, and the subscriptions of main and strategies |
| `BinanceFeed` | `WsClient` | a batch of Binance candles: adapter, reconnect monitor, main's health thread, the end of the server |
| `Ticks` | | trades, order books and funding rates, from the subscription to the buffer |
| `Candles` | | candles in Redis: two recorders and two fillers |
| `Accounts` | | registry, monitor, files and strategies of the accounts |
| `MarketData` | | subscriptions and ring buffers of candles in a strategy |
| `KlineWindow` | | abstract: the window of the newest candles |
| `StrategyLoop` | `MarketData` | the rounds of the main loop, scheduled tasks, re-entry |
| `Rebalance` | | the five-factor strategy's rebalance with everything it waits for |
| `ProxyWatch`, `OutageWatch`, `DelistWatch` | | the three monitors that alert the operators |
| `FrontendChannel`, `Logger`, `Server` | | browsers and commands; the log; the life of the process and its sockets |
| `*Proofs` | the modules they are about, TLAPS | the theorems: section 4 |
| `MC*` | their modules | constants of the instances |

Modules that share no state with others of a run are checked as a sum
(`MCRiskAndBinance`, `MCStorage`, `MCServer`): `part` says which of them a
behaviour runs, the others stay in their initial state, and each has the
fairness of its own threads.

### OrderFlow

An order is a client order id; price, quantity and symbol are not kept. `Send`
holds the calls of a strategy: each pushes one request and, for orders, fills
`active_orders_` (`status`). `Handle` is `process_order_request`: a request that
needs the exchange puts the order thread in `stage` "called" with the request as
`current`, and nothing else is received before the call ends (the thread is
blocked). The exchange executes the call (`ExchangePlace`, `ExchangeCancel`) and
the server hears an answer, or an exception in any stage (`Reply`). What was
given up goes to `late` and may still arrive (`LandLate`). A report is
broadcast (`Publish`) to the inbox of every strategy and dropped where the inbox
is full; after a crash any subscriber may be unconnected. The main loop of a
strategy is in one of two receive loops (`loop`): `ProcessAccountReport` knows
every report and skips those of others, `ProcessOrderReport` does neither.

`cleared`, `batched`, `answers` and `acked` are history variables; nothing reads
them but the properties.

* `AcceptedIsReal`, `SingleOrdersRiskChecked`, `CountersAgree`: an order shown
  ACCEPTED is on OKX's books; a single order that reaches an exchange, late or
  not, was checked; the counters cover every outcome of the single, batch and
  failure paths.
* `KeepsContract`: `OrderFlow` implements `OrderContract`, with `asked` as the
  orders that have an owner. It contains that no order is answered twice
  (`AtMostOneAnswer`).
* `EveryOrderAnswered`, `StrategyLearns` (liveness), each with the safety it rests
  on: an order without an answer waits somewhere (`OrderWaits`), and the answer
  to a single order waits for its strategy until a callback names the order
  (`ReportKept`).

### RiskGate

A row is a line of `get_positions`: one per account and symbol, or two in hedge
mode. The monitor thread is a loop over `PollOrder`: `ReadPositions` takes the
answer, `UpdatePosition` writes row by row, `ReadOpenOrders` and
`SetOpenOrderCount` follow for OKX. Orders are checked (`CheckOrder`), reach the
exchange, fill or are cancelled between any two of these steps. Orders fill as a
whole; prices do not move. The value the check is given (`checked`) is not the
value that is filled: the strategy may send an `order_value` or an estimated
price, and a market order without either is checked with 0. The server may start
over positions and resting orders of which the cache knows nothing before the
first poll. `hidden` and `unseen` are history: what was filled, or held at the
start, since a row was read, and since the row now in the cache was read.

* `CachedNeverUnder`: the cache is not below the true position by more than what
  was filled since it was read, so a poll that overtakes fills loses nothing for
  good. Stated of symbols with one row (see the divergences).
* `ClearedWithinExposure`: an order that passes overshoots the exposure limit by
  no more than `unseen` and what the check was not told of this order. Earlier
  orders that were checked with too little do not add up beyond that.
* `CacheCatchesUp` (liveness).

### RateLimiter and Drawdown

The check (`CheckPassed`, `CheckRejected`) and the record are two critical
sections of the order thread with time passing between them. The queue is all
timestamps ever recorded (`stamps`) and how many were popped (`dropped`), which
lets the properties speak of every order and not only of those still queued:
`FrequencyHeld` (`PerSecondHeld` and `PerMinuteHeld`), and `RejectionJustified` in
the other direction. `count() > 60` on whole seconds keeps an entry for 61 seconds: `Keep`.

`Drawdown` is `update_account_equity` over the readings of some days, in either
mode. `today` is history; `AlertsExact` compares the alarm of every reading with
what the readings of the day say, in both directions.

### BinanceRest

Two threads share one `BinanceRestAPI`. A request is stamped and sent in two
steps, travels for up to `Timeout` ticks, and is refused by the exchange if its
stamp is too old or too far ahead. `skew` is how far the local clock is off, and
moves. A synchronisation takes the exchange's time at some moment of its round
trip, and halves it. `QueryBegins` to `QueryAnswered` is the positions query of
the order thread with its retries, synchronised and not.

`ClockTroubleOnly` is:

* `OffsetWithinHalfTrip`: whatever the two legs and the clocks do, the offset is
  off by no more than half the round trip and the moves since it began.
* `RefusedExplained`: a refusal has a slow synchronisation, a moved clock or a
  slow request behind it, never the other thread.
* `QueryErrsInTroubleOnly`: an offset gone stale earlier is repaired by the
  query that finds it out.

### StrategyProcesses

`owner` and `life` say what the operating system knows, `table` what the manager
believes, `mail` what a process has sent and the order thread not yet applied.
Commands of the frontend, messages, heartbeat checks, the end, crash or kill of
the server and its restart interleave freely. An unregistration of the frontend
removes the entries first and the files one by one (`cascade`), while the order
thread goes on. Time is `TimePasses`: a heartbeat becomes overdue.

* `OnlyAskedSignalled`: an entry's pid is its strategy's (`EntryOwnsPid`), and a
  pid that is signalled is that of the strategy that was asked to stop, whatever
  old registrations arrive late.
* `StatusCatchesUp` (liveness): `DeadNoticed` and `AliveNoticed`.

### WsClient and OkxFeed

`WsClient` keeps a state per connection object. Its close and fail handlers do
two things, first to the client, then to the adapter (`Callback`), and do not
look at which connection they are for: a late event of an old attempt resets the
new one. `OkxFeed` adds the adapter's atomics, the heartbeat thread as one bit,
the reconnect monitor as a program counter, `disconnect` as another, and the
subscription thread. The behaviour starts after the first connect.

Two facts about time are assumed, in `GotoAfterSleep` and in the comment at the
head of the module: a step of the monitor after a sleep of half a second or more
finds the IO thread out of the handler it was in before; and a send and the
record of it are not separated by a reconnect, which sleeps for seconds. Both
could fail only if a thread is not scheduled for that long.

* `BackOnline` (liveness): no drop is lost between the callbacks' stores and the
  monitor clearing the flag, and once the network is quiet the feed is connected
  for good.
* `NotCutOff`: unsubscriptions, double subscriptions, deaths and restarts do not
  take a candle off the exchange that main or a strategy still has, as long as
  no strategy unsubscribes what it does not have (the counts are of messages).

### BinanceFeed

One of main's batches: an adapter whose streams are part of its URL, so that
every connection that opens delivers them and `resubscribe_all` has nothing to
do. `connected`, `need`, `enabled` are the adapter's atomics, `monitor` and
`builder` the program counters of its reconnect monitor and of the health thread
(which runs `connect_binance_kline_batch`; main runs it the first time, before
the health thread is there), `main` that of the clean-up. Time is `Silence`: two
minutes without a closed candle. A connection can also go silent without
closing (`Stall`), which only the health thread notices. An adapter whose first
connect fails has no monitor (`binance_websocket.cpp:258`) and is thrown away;
`kept` is false and the batch waits for the next check.

* `DropNoticed`: a feed that is down while its monitor is at its loop is owed a
  reconnect. The monitor clears `need_reconnect_` five seconds after it read it
  and a success does not touch it; both orders matter.
* `FeedStreamsAgain` (liveness): after the last trouble of the network candles
  arrive for good, whichever of the two repairers was at work, the first build
  included.
* `ShutdownEnds` (liveness): the joins of the clean-up end, also in the middle of
  a rebuild, although the health thread holds the mutex of the batches while it
  joins a monitor.

### Ticks

The way of trades, order books and funding rates, step by step from main's
set-up (`Startup`) on: a strategy's request, the server's sets, the adapter with
its callbacks, the market channel and the buffers. The connection is in no
trouble. `TicksReachStrategy` is violated: see section 5.

### MarketData, KlineWindow and StrategyLoop

`rings` are the buffers of `KlineBuffer` with their slots, head and size;
the feed sends bars that are closed, forming, repeated or lost. `missing` is
history: the bars that were lost, or came while the strategy was not subscribed.

* `WindowKept`: every buffer implements `KlineWindow`, the newest bars in the
  order they came, amended by repetitions of the last. `ReadsExplained`
  (`HolesExplained`, `OnlyClosedBars`, `GettersAgree`) says what a strategy that
  reads them gets.

`StrategyLoop` adds the rounds. `stack` holds one frame per round that has been
entered: what it collected of the scheduled tasks and has still to call. The code
of a task or a callback is free to schedule, pause and remove tasks, to take
time, to throw, or to poll, which puts another frame on the stack.

* `RateKept`: polling inside a task does not run tasks more often than their
  interval. `TasksRun` (liveness): what is due is found by a late round, and what
  was collected is called although others throw. Its safety: what is due stays due
  until a round collects it (`OverdueKept`), and what was collected leaves its
  round only to be called (`CollectedKept`).

### Rebalance

One strategy from the candles in Redis to its legs at the exchange: the
readiness of a period, the query for positions with its repetition and its
fallbacks, the stages of orders, closes before opens, with a wait after each, and
what the strategy remembers (`mem`), of which a restart keeps nothing (`Fresh`).
`reports` is read by the two readers in turn (`poll`). The order thread answers first in, first out;
answers fail, are empty, or come after the wait is over. Two kinds of symbols
are skipped when the orders are made (`Keeping`): one whose change is worth less
than 6 USDT at its price (`Dust`; a close is never too small), and one with a
weight but without a price or a minimum quantity, or any without equity. Prices
differ and change: what 6 USDT buys is chosen for every symbol of every plan
(`MinTrades`). `executed`, `goal` (the target), `aim` (where the orders lead) and
`excuse` are history.

* `ReachesTarget`: a finished rebalance holds exactly what its orders led to, and
  that is the target but for the two kinds of skipped symbols: the one near its
  target, the other as it was. `NeverOvertrades`: a
  candle is traded on once, across restarts, and no leg exceeds a target at any
  moment. `excuse` names what the strategy does not guard against: rejected
  orders, two failed queries taken for an empty portfolio, a symbol held on both
  sides from the start, a kill between the stages.
* `CompleteCandleTaken` (liveness).

### Candles

Minutes from 0 to the end of the window. A member of a sorted set is a minute
with the text it has: each push differs, so that the same candle may be stored
twice. `RecordKline` is the server's recorder; `StoreKline`, `AggregateKline`,
`StoreBar` are data_recorder on each candle published, with the aggregation
state (`agg`) and the rebuilding from Redis; `GapFiller` and `FastFiller` are
the two programs an operator starts one after the other, one Redis command at a
time, with the exchange's history as it is when a page is fetched. What a longer
candle is made of (`src`) is which minutes, and how many candles of them.

* `FillersFindHoles`: a run of the gap filler in which every request was answered
  leaves no hole, its own deduplication (delete a key, insert it again) and the
  recorders meanwhile included; the fast filler, which counts, overlooks a hole
  only behind a candle stored twice.
* `BarsWhole`: longer candles hold every minute of their period once when
  data_recorder has collected enough of them, and when the gap filler writes
  them. Those that data_recorder rebuilds from Redis are made of what it finds:
  at the last minute of a period (`"last"`) minutes of it only; when a later
  period begins (`"next"`) also minutes of other periods, but only of later ones
  of which it got no candle (`met`, a history), since its query then spans every
  period skipped. They are whole unless they have such a minute, or one that is
  stored twice (`OwnMinutes`, `NoneTwice`).

### Accounts

`registry` maps names to API objects, which `apis` numbers in the order they
were made. A command of the frontend is a program counter (`command`): a
registration puts the account in the registry, asks the exchange, and rolls back
or adds the account to the monitor and saves the file; an unregistration goes
through registry, monitor, processes, file and configurations. Meanwhile the
order thread registers strategies as they start, by alias or with keys of their
own, and the server may be killed and read its files again. `queue` counts the
requests that wait: each process has a pipe of its own to the PULL socket, which
takes from them in turn, so what an earlier process of a strategy sent may come
after what a later one did.

* `OrdersOnConfiguredAccount`: a registered strategy trades with the keys of the
  account its configuration names. `twice` excepts strategies that got a
  configuration while another one, or a process or an untaken message of it, was
  still there: the old message would register the old account in their name.
* `AccountsAgree`: between commands registry, monitor, files and configurations
  agree; a registered account is polled through the object its orders use, and
  is there after a restart.

### The server around them

`ProxyWatch`: probes one after the other while addresses come and go.
`ProxyReported`: an alert is earned by failures in a row, and the operators end up
knowing how things are.

`OutageWatch`: the three atomics of the OKX feed's failures, read one by one
while the reconnect thread writes them one by one. `OutageReported`: an alert is
of an outage that had lasted a minute; one that lasts is told, unless the mark
of the one before came late (`staleMark`).

`DelistWatch`: polls, the state file in two steps, the message, crashes.
`DelistTold`: nothing is told again and again, and nothing is lost but what the
comment at the property names.

`FrontendChannel`: the IO thread executes commands with the clients' mutex held,
the message thread takes it for each message. A command that cannot be read
(`RefuseCommand`) and an answer that cannot be sent (`DropAnswer`) end silently,
counted in `lost`; an event whose text cannot be serialised ends the process
(`BroadcastCrash`). Events arrive at any time, also while `stop` joins; only
`MaxEvents` keeps the drain loop, which does not look at `running_`, from being
fed for ever. `CommandsServed`: a browser that stays gets the answers to its own
commands, each once and in order, all but the lost ones, and stop returns unless
the process crashes first.

`Logger`: `LinesKept`, every line is in exactly one place, and only a line queued
between two rounds right before the shutdown is lost.

`Server`: threads look at a socket and use it in two steps, main closes them one by
one. `WorkersOffSockets`: main's order of joining and closing keeps the workers
off sockets that are gone (the feed threads, which are not joined, may crash:
`culprit`). `QueryAnswered`: every query is answered, up to the first `garbled`
one, which does not parse at a byte outside ASCII: the REP socket owes it an
answer for good.
`ShutdownCompletes`.

## 3. Runs

| Run | Instance | States | Shows |
|---|---|---|---|
| `order_safety` | 2 strategies, 2 orders, 2 venues, 2 requests, 1 crash, inbox of 1 | 0.7 M | the safety properties and the contract |
| `order_liveness` | 2 strategies, 1 order, 2 requests, no crash, inbox of 2 | 0.1 M | every order is answered, its owner learns |
| `processes_safety` | 2 strategies of one account, 2 processes, 1 restart | 6.3 M | signals reach the right process |
| `processes_live` | 1 strategy, 2 processes, 1 restart | 0.2 M | deaths and lives are noticed |
| `okx` | 2 strategies, 2 candles, 3 connection objects, 3 messages and 2 troubles, together 4 | 0.4 M | the feed comes back, nobody is cut off |
| `risk_and_binance` | windows of 2 and 5 ticks; 2 accounts, 2 orders, 1 failure, 1 position or order at the start; 3 readings on 2 days; 4 troubles; clocks 3 ticks off | 0.5 M | limits hold, the cache is sound and catches up, alerts are exact, the batch comes back, refusals are explained |
| `storage` | periods of 2: 3 minutes and 2 lost candles with the fillers, 5 minutes and 3 lost ones without, 2 pushes of each; 2 accounts on 2 exchanges, 1 strategy, 5 commands | 5.7 M | candles are filled and whole; accounts agree |
| `rebalance` | 2 symbols, 3 candles, 6 USDT buy 1 or less than 2, 2 troubles and 1 restart, together 2 | 0.6 M | the target is reached but for dust, once per candle |
| `strategy_loop` | a ring of 2, 2 tasks, 3 bars, 3 calls of strategy code and 1 trouble, together 5 | 0.3 M | candles are a window; tasks run when they should |
| `server` | 2 addresses, 2 outages, 2 contracts, 2 crashes, 2 browsers, 3 lines, 2 feeds, 2 messages and 1 feed that connected, together 2 | 0.2 M | monitors tell what they should; channel, log and shutdown |
| `data_resumes` | 5 connection objects, 2 troubles | | violated: finding 1 |
| `ticks_reach` | 1 strategy, 2 requests | | violated: finding 2 |

**Bounds.** Two strategies show interference, a third adds no kind of it: all
state is per strategy except the order thread, the counters and the broadcast.
Two orders make a batch with one success and one failure and, with `BatchSize`
1, a Binance batch of two calls of which one fails; two requests make an order
and its cancel, or a second order behind a slow one. One order more than the
inbox holds makes PUB drop. One crash falls at every point. The rate limiter's
clock runs for more than two of its long windows. Two processes are an older and
a newer one of the same strategy. Each trouble of the network leaves at most one
connection object behind (two with late opens), so objects do not run out
before troubles do. Troubles cover a drop, a timeout that opens late, its late
close, and, with four, a failure of the attempt after that.

Some runs bound several kinds of event together (`Budget`, `MaxBusy` in their MC
modules): with four for `okx`, three messages leave one trouble, two troubles two
messages. Each kind still reaches its own bound in some behaviour, and
whatever fairness asks for can go on without another of them.

A ring of two wraps with the third bar and is amended at both heads. A period of
two minutes is complete, cut by a restart, or has a hole; a repetition falls on
the last minute or an earlier one; five minutes leave a whole period out between
one that was begun and one that begins. Five commands register, refuse, replace and
unregister an account. Three candles are one to start from, one to trade on and
one to come during a restart. A threshold of two with four changes of reach
makes failures that must not add up. Two outages make an alert for the first
meet the second.

**Deadlock** is checked for the order path, where draining never stops, and for
`rebalance`, whose loop goes on.
Elsewhere the bounds or the end of the server stop the system.

**Fairness.** Weak fairness stands for a thread that runs: the order thread, the
receive loops, the account monitor, the reconnect monitor and the heartbeat
thread, the main loop's heartbeat check, `disconnect`'s joins, the strategy's
loop, the watchers, the channel's and the logger's threads, the workers. Strong
fairness of `Handle(s)` is the PULL socket's fair queuing: the thread is busy in
between, and a waiting strategy is served in turn. `Reply` is fair because cURL
has a timeout (10 s OKX, 30 s Binance). Attempts to connect that are not in
trouble open, and closes that were asked for complete. In `Ticks` the exchange
sends of what it was asked for. A strategy's own code returns. Nothing is assumed
of the network's failures, of what strategies, operators or the frontend send,
or of the exchange executing anything.

## 4. Proofs

| Theorem | Says |
|---|---|
| `OrderFlowProofs!TypeCorrect` | `TypeOK` always |
| `OrderFlowProofs!ContractKept` | `OrderFlow` implements `OrderContract` (`KeepsContract`) |
| `OrderFlowProofs!AnsweredOnce` | `AtMostOneAnswer` always |
| `OrderFlowProofs!AcceptedReal` | `AcceptedIsReal` always |
| `OrderFlowProofs!RiskChecked` | `SingleOrdersRiskChecked` always |
| `OrderFlowProofs!CountersConsistent` | `CountersAgree` always |
| `OrderFlowProofs!OrdersWait` | `OrderWaits` always, the safety in `EveryOrderAnswered` |
| `OrderFlowProofs!ReportsReach` | `ReportKept`, the safety in `StrategyLearns` |
| `RiskAndBinanceProofs!FrequencyLimited` | `FrequencyHeld` always |
| `RiskAndBinanceProofs!RefusalsJustified` | `RejectionJustified` |
| `RiskAndBinanceProofs!CacheSound` | `CachedNeverUnder` always |
| `RiskAndBinanceProofs!ExposureCleared` | `ClearedWithinExposure` |
| `RiskAndBinanceProofs!DrawdownAlertsExact` | `AlertsExact` always |
| `StrategyProcessesProofs!SignalsAsked` | `OnlyAskedSignalled` |
| `StrategyProcessesProofs!ProcessesCorrect` | `TypeOK` always |
| `OkxFeedProofs!FeedTyped` | `TypeOK` always |
| `OkxFeedProofs!OkxDropsNoticed` | `DropNoticed` of `OkxFeed` always |
| `OkxFeedProofs!NobodyCutOff` | `NotCutOff` always |
| `RiskAndBinanceProofs!TypeCorrect`, `DropsNoticed` | `TypeOK` and `DropNoticed` always, for one batch |
| `RiskAndBinanceProofs!ClockTroubles` | `ClockTroubleOnly` always |
| `StrategyLoopProofs!ReadsTrue` | `ReadsExplained` always |
| `StrategyLoopProofs!RingsAreWindows` | every ring implements `KlineWindow` (`WindowKept`) |
| `StrategyLoopProofs!RatesKept` | `RateKept` always |
| `StrategyLoopProofs!OverdueNotForgotten`, `CollectedNotDropped` | `OverdueKept` and `CollectedKept`, the safety in `TasksRun` |
| `StrategyLoopProofs!LoopCorrect` | `TypeOK` always |
| `RebalanceProofs!RebalanceReachesTarget` | `ReachesTarget` always |
| `RebalanceProofs!RebalanceNeverOvertrades` | `NeverOvertrades` always |
| `RebalanceProofs!RebalanceSound` | the invariant both follow from, `RebalanceInv`, always |
| `RebalanceProofs!RebalanceCorrect` | `TypeOK` always |
| `StorageProofs!AccountsConsistent` | `AccountsAgree` always |
| `StorageProofs!OrdersOnOwnAccount` | `OrdersOnConfiguredAccount` always |
| `StorageProofs!AccountsCorrect` | `AccountsTypeOK` always |
| `StorageProofs!HolesFilled` | `FillersFindHoles` always |
| `StorageProofs!BarsAreWhole` | `BarsWhole` |
| `StorageProofs!CandlesCorrect` | `CandlesTypeOK` always |
| `ServerProofs!WorkersNeverCrash` | `WorkersOffSockets` always |
| `ServerProofs!RepliesPaired` | `OneAnswerOwed` always |
| `ServerProofs!NoLineLost`, `LinesInOrder` | `LinesKept` and `InOrder` always |
| `ServerProofs!ProxyAlertsEarned` | `AlertsEarned`, the safety in `ProxyReported` |
| `ServerProofs!OperatorsKnow` | `ToldAsBelieved` always |
| `ServerProofs!OutageAlertsTrue` | `OutageAlertTrue` always, the safety in `OutageReported` |
| `ServerProofs!NewsToldOnce` | `ToldOnce` always, the safety in `DelistTold` |
| `ServerProofs!BrowsersGetTheirOwn` | `AnswersOwn` always, the safety in `CommandsServed` |

All hold for any sets, limits and bounds that satisfy the named assumptions of
the modules. These say what kind a constant is (orders are finite, pids are
positive numbers, nulls are fresh, limits are naturals, main's candles are
candles, tasks have names, rows, symbols, targets and first positions are finite in number) and, where it matters, what the code or its environment grants: OKX is
a venue (`OkxIsVenue`), an entry is kept at least a second (`ClockAssumption`), a
ring has a slot (`RingAssumption`), an account's name is not a strategy's
(`NameAssumption`), sockets of feeds are not those of workers
(`ServerAssumption`). `PromptAssumption` is about numbers: half a prompt round
trip and a prompt request fit `recvWindow`, which the constants of the code do
by far; without it a query could err with nothing slow.

The theorems are about the modules' own specifications (`Spec`, `RateSpec`,
`GateSpec`, `DrawdownSpec`, `RestSpec`, `AccountsSpec`, `CandlesSpec`, `ServerSpec`,
`LoggerSpec`, `ProxySpec`, `OutageSpec`, `DelistSpec`, `FrontendSpec`).
A sum runs one of them at a time; the specifications with fairness imply those
without.

*OrderFlow.* That an order is answered once is not inductive: a request must not
be in two places. `IInv` says where an unanswered order can be: `QueueInv`, in
the queue of its owner, once; `CallInv`, in the request being called, and then
in no queue; `LateInv`, in a call given up, and then neither queued nor called
and unseen by the exchange; `FreshInv`, an order without an owner is nowhere and
was never executed or answered. Each lemma moves a request from one place to the
next; `ContractKept` maps each step to one of `OrderContract` or to a stutter,
with `IInv` giving the guards there. `FlowInv` says of each place what may be in
it: every report on its way is `Truthful` (an acceptance is of an order on
OKX's books), every single order that is called, or was given up, is `Vouched`
(checked, or of a batch). The two invariants are what comes out at the ends.
`CountersAgree` needs the types only: it counts what is in the call, and each
step of the order thread adds as much to one side as to the other. `WaitInv` says
of an unanswered order where it is, as `IInv` says where it cannot be: a receive
takes one request and leaves the others, and a call ends only with an answer to
every order in it. That a report is one the strategy knows its order by needs
`CalledInv`: the call is of the owner of its orders, and a single order that was
executed was either taken or refused, so the report names exactly it.

*Risk manager.* Frequency: the queue holds a suffix of the stamps, which are
sorted and not in the future; what was dropped has expired and stays so
(`DroppedExpired`). `Clear` carries the result of the check to the record: the
order about to be recorded has its distance from the limit-th before it. With
`Prune` stopping at the first entry that has not expired, the entries counted
are all that matter. Cache: `AnswerNeverUnder` says of a row read and not yet
written what `CachedNeverUnder` says of the cache; writing a row turns one into
the other. At the start everything held is `unseen`, which makes both true of an
empty cache. `ClearedWithinExposure` adds this up over the rows. The sum is a fold,
a recursive function on sets that takes away a chosen member at a time; that it
is defined on a finite set (`FoldExists`) and, of naturals, does not depend on the
member chosen (`FoldIsSum`) is shown by a smallest counterexample (`LeastSet`)
in place of an induction, and `SumsCompare` compares two sums summand by summand.
Drawdown: `AlertsExact` compares an alarm with all readings of the
day, the code with two numbers; `TopsKept` says that these are the first and the
highest positive reading, and `DayKept` that they are of today.

*StrategyProcesses.* That a pid in an entry is its strategy's (`EntryOwnsPid`)
could only fail by a message or a number of somebody else. `Born` says that
nobody sent anything before he was started, so that a registration, however late,
carries a pid whose owner is known; and a fork takes a number nobody has had
(the least one, which exists because the numbers are well-ordered).

*OkxFeed.* `Owed` extends `DropNoticed` to every place where the monitor is about to
return to its loop: a drop that no handler has still to finish has set
`need_reconnect_`. It needs that the callbacks are set there (`Hooked`) and that
nobody else joins or ends the monitor (`Ended`). For `NotCutOff` the counts have to
be compared with something that a message in a queue does not change yet:
`CountInv` says that there is a set of holders (strategy and candle) such that
every count is at least its holders and main's share, the messages that wait turn
the holders into what the strategies want, and none of them gives up what its
strategy will not have by then. A message that is handled moves its strategy into
the set or out of it; a strategy that dies stays, and wants nothing.

*BinanceFeed.* `Owed` has the same role here; it covers the moment between a
connection and its mark, of the monitor and of the first connect, where a drop
must not be taken for a success. `MonitorOfKept` and `BuilderAlone` keep a
monitor, a rebuild and the clean-up apart.

*BinanceRest.* `ThreadsOK` bounds, for each thread, what it measured while it
asked and by how much a stamped request is ahead, in terms of its own ages;
`OffsetWithinHalfTrip` follows when the answer is used. That a query errs only in
trouble rests on `SecondFresh`: at its second attempt the offset is from the
synchronisation that it made itself, with no move of the clock since.

*StrategyLoop.* A ring is a window: lemmas on head, size and slots say what
`Update` does to the sequence that `GetAll` reads, and `RingsAreWindows` maps
each step to one of `KlineWindow` or to a stutter. `MarketInv` follows the bars
of one series along the channel into its ring: they come in order (`SentInOrder`),
none is newer than the exchange's (`SentClosed`), and after a bar on its way
(`SentWhole`), or the last of the window (`Followed`), every closed bar is on its
way or noted as missing, which makes the window whole (`WindowWhole`). For
`RateKept` an entry is `Paced`: as many intervals as it has runs, and one more,
fit before its next run, and after a run the next one is at most an interval off.
What a round collects (`DueTasks`) is a recursive function on the lengths of the
table; that it is defined, and holds exactly the tasks that are due (`DueTasksAre`),
is shown by the least length for which it would not be. `RoundsInv` bounds the
rounds inside one another by the calls of `poll_messages` that are made.

*Rebalance.* Three arguments, each an invariant of its own. `CandlesCounted`: a
candle that was traded on is one that four fifths of the symbols have, and a
strategy that starts needs candles of half of them; so one symbol at least is in
both, and the initial check counts a candle as handled that is no older than the
one traded on. `Planning`: positions are asked for only when the orders of
earlier candles have been answered (`Settled`), so every answer on its way tells
the legs that are held, and what is planned from is true (`PositionsTrue`).
`Trading`: the orders that wait, in the channel or in a later stage, are at most
one for a leg (`OnePerLeg`), that one takes the leg to where the plan aims, a leg
without one is there already (`Aimed`), and neither exceeds `MaxLeg` meanwhile
(`Bounded`). What `Stages` makes of true positions establishes this
(`PlanStages`, `PlanAims`), and what it aims at is near the target because only
dust and symbols without a quantity are skipped (`KeepingIs`); a batch that is
filled keeps it. An order that is
rejected, or a kill between stages, gives up `Aimed`, but not `Bounded`: the two
guards of the invariant are the excuses of the two properties. The number of
orders a stage waits for is left open there (`Fields`), as neither property
depends on it: a wait may end early or late. That it is a number at all
(`Counting`) uses `OnePerLeg` once more: what is sent has one order for each leg at
most, and legs are finite in number (`OneEachFinite`).

*Accounts.* The registry, the monitor, the files and the configurations agree
only between commands. `Agreed` says for each step of a command what may differ
at it: an account that is being checked is registered and perhaps not polled, one
that is being saved has no file yet, one that is being unregistered is already
gone from the registry and still has configurations. `Keyed` says that an
account's name always means an object with the account's own keys (`OwnKeys`),
and that whatever there is of a strategy that is not in `twice`, its files,
its process and its messages that wait, is of one configuration (`Single`): so
the message that is handled is of the process that believes it. A restart
renumbers the objects by the files; that each file gets one is a fact about
`SetToSeq`.

*Candles.* The feed brings the minutes in order, from the last one aggregated to
the newest on the wire (`FeedOrdered`). So what data_recorder collects is minutes of
one period, each once (`Collected`), and N of them are all there are. What it counts
in Redis instead may count a candle twice. Up to the last minute of a period it
finds minutes of that period only; up to the begin of a later one, minutes of the
periods between, and of these it has met none, since no period it met is later than
that of its last minute (`Reached`). N or more members of which none is foreign or
double are all the minutes (`RebuiltWhole`). A stored minute is never lost (`MinutesKept`) but between the gap filler's
deletion and its insertion, when its snapshot has them all. What is missing below
the minute the filler saw is in a gap that still waits (`MissingKnown`): `GapsFound`
shows that the three kinds of gap cover every hole there can be, `MergedCovers` that
joining neighbours loses none. The fast filler only sees a hole where a block has
fewer members than minutes; `ScanFinds` is the pigeonhole principle on a block that
has as many: if one minute has no member, another has two.

*Server and Logger.* `Serving`: until main has joined the workers every socket is
there and `running_` is set; `Joined`: afterwards no worker runs. The writer's
lines are those before the queue's (`InOrder`), so that no line is met twice and
counting them says where each is (`Counted`); between two rounds only lines that
came after the writer's last look wait (`LateOnly`).

*Watchers.* The proxy's monitor believes in an outage only when its count, which
is that of the failures in a row, has reached the threshold (`Earned`). The time
that the feed stores is that of the outage but between the first two stores of a
reconnect (`StampOfOutage`); what the network monitor reads there is of no use to
it, as the count it has read is zero, or an outage has ended since (`RoundTrue`).
Of a delisting that the monitor has not noted, or is about to tell, one message
less was sent (`GoneOnce`): with what the state file has at each step of a poll
(`FileFollows`) a crash gives back only what was not told, unless it tore the file.

*Frontend's channel.* An answer waits under the number its browser had, which
nobody else has or will have (`Addressed`), because numbers only grow
(`NumbersFresh`) and a browser keeps its number while its command is executed
(`NumberHeld`). The answers of one browser wait in the order of its commands
(`WaitInOrder`), after those that it has got (`GotBefore`).

**Only model-checked:**

* Liveness (`StatusCatchesUp`, `BackOnline`, `CacheCatchesUp`, `FeedStreamsAgain`,
  `ShutdownEnds`, `CompleteCandleTaken`, `QueryAnswered`, `ShutdownCompletes`, and
  what is eventual in `EveryOrderAnswered`, `StrategyLearns`, `TasksRun`,
  `ProxyReported`, `OutageReported`, `DelistTold` and `CommandsServed`): out of the
  prover's reach.

## 5. What the checks found

Each has a run with a counterexample.

1. **A drop in the middle of a reconnect ends the feed** (`data_resumes`). The
   monitor then joins a heartbeat thread that is told to run
   (`okx_websocket.cpp:417`, `423`): connected, without subscriptions, for good.
2. **Trades, order books and funding rates never reach a strategy**
   (`ticks_reach`). main sets the callbacks while the public feed does not exist
   yet (`trading_server_main.cpp:571`, `632`) and does not set them again, so
   what the exchange pushes is dropped in the adapter; `example_strategy.py:362`
   says that every trade is pushed after a successful subscription.

### Divergences without a run

Met while modelling; the models follow the code.

Orders:

* A rejected order can be live: an exception of the REST call, a timeout
  included, is reported `rejected` (`order_processor.cpp:354`), which
  `example_strategy.py:637` takes for an order that was not placed.
* Batches are not risk-checked (`order_processor.cpp:377`;
  `risk_manager.h:8` promises a check before every order, and its
  `check_batch_orders` has no caller).
* A `register_report` that the trading module's loop takes
  (`trading_module.h:1045`) never reaches the account module
  (`py_strategy_base.h:1521`): `account_registered_` stays false. A
  `cancel_report` it takes is dropped (`trading_module.h:1043`), although
  `example_strategy.py:847` waits for it. Its loop does not skip reports of other
  strategies (`trading_module.h:1004`, against `py_strategy_base.h:1545`).
* `filled_quantity` in an order report is the ordered quantity
  (`order_processor.cpp:370`), which `example_strategy.py:647` reads as filled.
* `cancel_all_request` (`trading_module.h:972`) has no branch in
  `process_order_request` (`order_processor.cpp:1503`).
* The results of a batch are looked up under `clientOrderId`
  (`py_strategy_base.h:1663`), a key they do not have.
* A client order id is milliseconds modulo 10^9 and a counter from zero
  (`trading_module.h:1277`): two strategies may use the same one. Ids are
  distinct here.
* A clock that drifts refuses every signed Binance request until some strategy
  queries its positions (`order_processor.cpp:1304`): nothing else synchronises
  again. `{"code":200}`, a success by the comment at
  `binance_rest_api.cpp:322`, is thrown as an error.
* `gmtime` is called by two threads (`okx_rest_api.cpp:600`) and returns one
  static buffer.

Risk and processes:

* A short position is checked as a long one: the cache holds absolute notionals
  (`account_monitor.h:466`) and the check adds the order with its sign, so
  selling more looks like closing and passes `max_position_value`
  (`risk_config.json:25`).
* `send_swap_market_order` sends a price of 0 and no `order_value`
  (`trading_module.h:155-169`), so the check is given the value 0
  (`order_processor.cpp:142`): a market order of any size passes the limits of
  order value, position and exposure, and the quantity limit alone is left. With
  a price, a swap is checked with price times contracts, which is not its worth.
  `risk_config.json:23-26` states the limits without this exception.
* Exposure and open orders are checked against the last poll
  (`risk_manager.h:426`, `445`) and not against orders that passed since, so
  bursts exceed `max_total_exposure` and `max_open_orders`
  (`risk_config.json:26-27`). Orders that close a position are refused like any
  other once the exposure is reached.
* The position cache is keyed by the symbol alone (`account_monitor.h:594`): two
  accounts, or the two sides of a hedge, overwrite each other.
* A strategy marked stopped because its heartbeat was late can be started again
  beside its living process (`strategy_process_manager.h:151-152`, `277`); a stop
  of an entry marked stopped signals nobody (`109-126`); and the server's end
  leaves its process behind, or all if no entry is running (`387`, against the
  comment at `372`).
* `disconnect` may wait for ever: it clears `is_running_`, and a monitor in the
  middle of a reconnect sets it again before it ends (`okx_websocket.cpp:423`,
  `501`).

Market data:

* A subscription sent while the feed is down is counted
  (`subscription_manager.cpp:122`) and not recorded (`okx_websocket.cpp:718`), so
  it is never sent. A strategy that dies does not unsubscribe; its counts stay.
* Trades and funding rates are unsubscribed without a count: one strategy's
  unsubscription ends them for all (`subscription_manager.cpp:90`, `170`), and so
  it is for Binance candles (`52-57`).
* `subscribe_orderbook` accepts the channel "orderbook", whose data carries
  another name and is dropped (`market_data_module.h:946`).
* What strategies subscribe on Binance's market connection is recorded "for
  resubscribing after a reconnect" (`binance_websocket.cpp:192`) but
  `resubscribe_all` returns early in the combined-stream mode main uses
  (`binance_websocket.cpp:1413`): after a reconnect these streams are gone.
* The ticker connection has neither a monitor, if its first connect fails
  (`binance_websocket.cpp:258`), nor a health thread: it is never tried again.
* An attempt that timed out and opens late stays open beside the next one, and
  both deliver the same candles (`ws_client.cpp:258`).

Candles and accounts:

* data_recorder rebuilds a longer candle it missed minutes of from Redis by the
  number of members, against the comment at `data_recorder.cpp:183` (the data in
  Redis are complete): duplicates count for minutes. When it got no candle of the
  next period at all, the query (`180`) ends only where the period of the new
  minute begins: the candle of one period is then made of minutes of several.
* The fast filler counts members too (`kline_fast_filler.cpp:79`): see
  `HolesHiddenByDuplicates`.
* The default account is not what a strategy without one gets
  (`account_registry.h:373`, against the comment at `287`).
* The account monitor keeps a raw pointer of an object that a later
  registration may free (`account_monitor.h:351`).

The server around them:

* The proxy counts as down when no address answers
  (`vpn_network_monitor.h:263-272`); the comment in `network_monitor_config.json`
  says when any does not. A new outage is alerted at once, inside the cooldown of
  the one before.
* Contracts delisted while the server is down, or listed again and delisted
  again, are not told.
* `WebSocketServer::start` returns true also when its port is taken.
* A browser's answers are lost when stop comes before they are sent.
* A query that does not parse at a byte outside ASCII has no answer: the error
  text quotes the byte, `dump()` throws, and the `catch (...)` at
  `zmq_server.cpp:415` swallows it, against the comment at `409` (a JSON error is
  answered with an error). The REP socket then refuses to receive
  (`zmq_server.cpp:382`): no strategy's query is answered any more.
* A command that is no JSON object has no answer either
  (`websocket_server.cpp:337`), nor one whose answer is no UTF-8 (`373`). An
  event or log line that is no UTF-8 ends the server: `dump` is outside the `try`
  of `broadcast_internal` (`346`).

## 6. Not modelled

* Authentication, roles and tokens (`auth_manager.h`), which decide who may
  give a command. The older REP handler on port 5556 (`frontend_handler.h`), to
  which nothing in the repository connects; `secure_frontend_handler.h` is
  included nowhere.
* The registry's health checks and `auto_save` (never switched on), the event
  engine (not used), the centre of configuration, reading settings.
* Of the feeds: private endpoints, log-ins and listen keys, orders over
  WebSocket, the ticker connection's troubles, and the first seconds of the OKX
  feed before its first connect has returned (`okx_websocket.cpp:299`).
* The websocket mode of the account monitor, which main switches off
  (`trading_server_main.cpp:917`).
* `process_amend_order` and `process_batch_cancel`: no strategy sends them.
  What leverage and account queries answer changes nothing here.
* A field of the wrong JSON type (`order_processor.cpp:1474`), which ends the
  server.
* Signing, formatting, parsing, e-mails, the size of log files, and writes to a
  log file that is open but full or broken.
* Lifetimes of objects, eviction and expiry in Redis, Redis out of reach.
* Callbacks of the market data that poll again, commands and messages the server
  still takes after it has stopped its strategies (`trading_server_main.cpp:1058`).
* The other Python strategies' own logic and the web frontend.

## 7. Plan

1. Done: the order path and its contract, the risk manager, the processes, the
   feeds; then accounts and candles, the strategy's loop, its market data and a
   strategy on top, the server's own threads, and the clock of signed requests.
2. Done: proofs of the safety of the order path, the risk manager, the processes, both feeds, the strategy's loop and its
   market data, the rebalance on top, the accounts, the candles, the
   watchers, the frontend's channel, and the server's end.
3. Every safety property that a run checks is proved, and the safety stated with
   the liveness of the order path, the strategy's loop, the watchers and the
   frontend's channel, with the types listed in section 4. Left: what
   safety there is to state under the other liveness properties.
