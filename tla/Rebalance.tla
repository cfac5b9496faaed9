------------------------------- MODULE Rebalance -------------------------------
(***************************************************************************)
(* The five-factor strategy rebalances a portfolio once per 8 h candle.    *)
(* Its loop and its waiting share one stream of reports, read by two       *)
(* readers in turn: process_account_reports hands every report to its      *)
(* handler, TradingModule.process_order_reports drops whatever it does not *)
(* know. The server's order thread answers requests first in, first out.   *)
(*                                                                         *)
(* Binance in hedge mode: a symbol has a LONG and a SHORT leg; a MARKET    *)
(* order fills, or is refused, when it is placed. A change of a position   *)
(* that is worth less than 6 USDT is not made, nor one to a target whose   *)
(* quantity cannot be computed (Keeping). The 8 h between candles are      *)
(* long: a new one comes when the last rebalance has ended, nothing is on  *)
(* its way and the account monitor has polled (Quiet).                     *)
(***************************************************************************)
EXTENDS Integers, Sequences, FiniteSets, FiniteSetsExt, Functions

CONSTANTS
  Symbols,
  Targets,       \* the target quantities factors may ask for: [Symbols -> Int]
  Delistings,    \* sets of symbols the exchange may stop trading
  InitialLegs,   \* positions held before the strategy is ever started
  MinTrades,     \* what 6 USDT may buy of a symbol, rounded up, as prices change
  MaxPeriod,     \* bound: candles; the first is complete at the start
  MaxTroubles,   \* bound: failed or late answers, rejected orders
  MaxRestarts    \* bound: times the strategy is killed

Sides == {"LONG", "SHORT"}
Legs == [Symbols -> [Sides -> Nat]]
Flat == [s \in Symbols |-> [d \in Sides |-> 0]]

ASSUME PortfolioAssumption ==
  /\ Symbols # {} /\ IsFiniteSet(Symbols)
  /\ Targets \subseteq [Symbols -> Int] /\ IsFiniteSet(Targets)
  /\ Delistings \subseteq SUBSET Symbols
  /\ InitialLegs \subseteq Legs /\ IsFiniteSet(InitialLegs)
  /\ MinTrades \subseteq Nat \ {0} /\ MinTrades # {}
ASSUME PeriodAssumption == MaxPeriod \in Nat \ {0} /\ MaxTroubles \in Nat /\ MaxRestarts \in Nat

VARIABLES
  legs,       \* positions at the exchange
  monitored,  \* the account monitor's copy of them
  requests,   \* order channel to the server
  reports,    \* report channel to the strategy
  period,     \* the 8 h candle that is on
  latest,     \* [s] newest candle in Redis
  pc,         \* what the strategy is doing
  poll,       \* the reader of reports whose turn it is
  mem,        \* the strategy's fields (see Fresh)
  executed,   \* history: [p] rebalances begun for candle p
  goal,       \* history: target of the last planned rebalance
  aim,        \* history: where its orders lead
  excuse,     \* history: why they may not have got there
  troubles, restarts

market == <<period, latest>>
bounds == <<troubles, restarts>>
history == <<executed, goal, aim, excuse>>
vars == <<legs, monitored, requests, reports, market, pc, poll, mem, history, bounds>>

Hedged(l) == \E s \in Symbols : \A d \in Sides : l[s][d] > 0
Net(l, s) == l[s]["LONG"] - l[s]["SHORT"]
Abs(n) == IF n < 0 THEN -n ELSE n
Side(n) == IF n > 0 THEN "LONG" ELSE "SHORT"
MaxLeg == Max({1} \cup {Abs(t[s]) : t \in Targets, s \in Symbols}
                  \cup UNION {{l[s][d] : s \in Symbols, d \in Sides} : l \in InitialLegs})

Order == [s: Symbols, side: Sides, qty: Nat, open: BOOLEAN]
NoTarget == [s \in Symbols |-> 0]

(* A process that has just started. *)
Fresh == [ready |-> FALSE, data |-> FALSE,            \* account_ready, data_ready
          known |-> [s \in Symbols |-> 0],            \* symbol_periods
          lastPeriod |-> 0, lastKnown |-> 0,          \* of the last rebalance, positions
          positions |-> Flat, done |-> FALSE, error |-> FALSE,  \* AccountModule
          attempt |-> 0, why |-> "initial",
          target |-> NoTarget, delisted |-> {},
          stages |-> <<>>, expected |-> 0, answered |-> 0]

Init ==
  /\ legs \in InitialLegs /\ monitored = legs
  /\ requests = <<>> /\ reports = <<>>
  /\ period = 1 /\ latest = [s \in Symbols |-> 1]
  /\ pc = "down" /\ poll = "account" /\ mem = Fresh
  /\ executed = [p \in 1..MaxPeriod |-> 0]
  /\ goal = [s \in Symbols |-> Net(legs, s)] /\ aim = goal
  /\ excuse = IF Hedged(legs) THEN {"hedged"} ELSE {}
  /\ troubles = 0 /\ restarts = 0

Trouble == troubles < MaxTroubles /\ troubles' = troubles + 1
Smooth == UNCHANGED troubles

-----------------------------------------------------------------------------
(* The exchange, the recorder and the account monitor.                     *)

Quiet ==
  /\ requests = <<>> /\ reports = <<>> /\ monitored = legs
  /\ pc \in {"down", "loop"}
  /\ pc = "loop" /\ mem.ready /\ mem.data => mem.known = latest

NewPeriod ==
  /\ Quiet /\ period < MaxPeriod
  /\ period' = period + 1
  /\ UNCHANGED <<legs, monitored, requests, reports, latest, pc, poll, mem, history, bounds>>

(* The candle of a symbol reaches Redis. *)
Arrive(s) ==
  /\ latest[s] < period
  /\ latest' = [latest EXCEPT ![s] = period]
  /\ UNCHANGED <<legs, monitored, requests, reports, period, pc, poll, mem, history, bounds>>

MonitorPolls ==
  /\ monitored # legs
  /\ monitored' = legs
  /\ UNCHANGED <<legs, requests, reports, market, pc, poll, mem, history, bounds>>

-----------------------------------------------------------------------------
(* The server's order thread. A report to a strategy that is down is lost. *)

Publish(r) == reports' = IF pc = "down" THEN reports ELSE Append(reports, r)
Takes(type) == requests # <<>> /\ Head(requests).type = type /\ requests' = Tail(requests)

HandleRegister ==
  /\ Takes("register")
  /\ \/ Publish([type |-> "register", ok |-> TRUE]) /\ Smooth
     \/ Publish([type |-> "register", ok |-> FALSE]) /\ Trouble
  /\ UNCHANGED <<legs, monitored, market, pc, poll, mem, history, restarts>>

(* A failed account query is logged; the strategy is sent nothing. *)
QueryAccount ==
  /\ Takes("account")
  /\ \/ Publish([type |-> "account"]) /\ Smooth
     \/ UNCHANGED reports /\ Trouble
  /\ UNCHANGED <<legs, monitored, market, pc, poll, mem, history, restarts>>

(* An empty answer is not believed while the account monitor knows of      *)
(* positions: after two retries its copy is sent.                          *)
Believed(answer) == IF answer = Flat THEN monitored ELSE answer

QueryPositions ==
  /\ Takes("query")
  /\ \/ Publish([type |-> "positions", error |-> FALSE, data |-> Believed(legs)]) /\ Smooth
     \/ Publish([type |-> "positions", error |-> FALSE, data |-> Believed(Flat)]) /\ Trouble
     \/ Publish([type |-> "positions", error |-> TRUE, data |-> Flat]) /\ Trouble
  /\ UNCHANGED <<legs, monitored, market, pc, poll, mem, history, restarts>>

(* Orders of a batch that the exchange can fill; it refuses to close more  *)
(* than a leg holds.                                                       *)
Fillable(orders) == {o \in orders : o.open \/ legs[o.s][o.side] >= o.qty}
OnLeg(o, s, d) == o.s = s /\ o.side = d
Signed(o) == IF o.open THEN o.qty ELSE -o.qty
(* A batch has at most one order of a leg.                                 *)
Filled(l, orders) ==
  [s \in Symbols |-> [d \in Sides |->
     IF \E o \in orders : OnLeg(o, s, d)
     THEN l[s][d] + Signed(CHOOSE o \in orders : OnLeg(o, s, d))
     ELSE l[s][d]]]

(* An order has a result, accepted or rejected; an answer that is not a    *)
(* list has none.                                                          *)
ProcessBatch ==
  /\ Takes("batch")
  /\ LET orders == Head(requests).orders
     IN  \E filled \in SUBSET Fillable(orders), n \in {0, Cardinality(orders)} :
           /\ n = 0 => filled = {}
           /\ IF filled = Fillable(orders) /\ n > 0 THEN Smooth ELSE Trouble
           /\ legs' = Filled(legs, filled)
           /\ excuse' = IF filled = orders THEN excuse ELSE excuse \cup {"rejected"}
           /\ Publish([type |-> "batch", n |-> n])
  /\ UNCHANGED <<monitored, market, pc, poll, mem, executed, goal, aim, restarts>>

Server == HandleRegister \/ QueryAccount \/ QueryPositions \/ ProcessBatch

-----------------------------------------------------------------------------
(* The strategy: start, the two readers of reports, and the loop.          *)

Up == pc # "down"
Push(r) == requests' = Append(requests, r)

(* on_init: the account is registered and the candles in Redis are loaded; *)
(* a symbol whose load fails is left out, and fewer than half of them is   *)
(* not enough to trade, ever: only here is data_ready set.                 *)
LoadedCandles(loaded) ==
  [Fresh EXCEPT !.known = [s \in Symbols |-> IF s \in loaded THEN latest[s] ELSE 0],
                !.data = 2 * Cardinality(loaded) >= Cardinality(Symbols)]

Start ==
  /\ pc = "down" /\ pc' = "loop"
  /\ \E loaded \in SUBSET Symbols :
       /\ IF loaded = Symbols THEN Smooth ELSE Trouble
       /\ mem' = LoadedCandles(loaded)
  /\ Push([type |-> "register"])
  /\ UNCHANGED <<legs, monitored, reports, market, poll, history, restarts>>

Kill ==
  /\ Up /\ restarts < MaxRestarts /\ restarts' = restarts + 1
  /\ pc' = "down" /\ poll' = "account" /\ mem' = Fresh /\ reports' = <<>>
  /\ excuse' = IF pc = "fills" THEN excuse \cup {"killed"} ELSE excuse
  /\ UNCHANGED <<legs, monitored, requests, market, executed, goal, aim, troubles>>

(* Mutant: the positions of the last query are kept.                       *)
Uncleared(m) == [m EXCEPT !.done = FALSE, !.error = FALSE]
(* clear_positions, then refresh_positions.                                *)
Cleared(m) == [m EXCEPT !.positions = Flat, !.done = FALSE, !.error = FALSE]

Fetch(m, attempt, why) ==
  /\ mem' = [Cleared(m) EXCEPT !.attempt = attempt, !.why = why]
  /\ Push([type |-> "query"])
  /\ pc' = "await"

(* on_register_report: the balance is asked for.                           *)
HandleRegisterReport(r) ==
  /\ IF r.ok THEN Push([type |-> "account"]) ELSE UNCHANGED requests
  /\ UNCHANGED <<pc, mem>>

(* on_balance_update: the first one starts the initial check.              *)
HandleAccountUpdate(r) ==
  IF ~mem.ready /\ mem.data
  THEN Fetch([mem EXCEPT !.ready = TRUE], 1, "initial")
  ELSE mem' = [mem EXCEPT !.ready = TRUE] /\ UNCHANGED <<requests, pc>>

(* Legs that are not in an answer are left as they were.                   *)
Merged(old, data) ==
  [s \in Symbols |-> [d \in Sides |-> IF data[s][d] # 0 THEN data[s][d] ELSE old[s][d]]]

(* Mutant: a failed query counts as an answer without positions.           *)
ErrorIsEmpty(r) ==
  /\ mem' = [mem EXCEPT !.positions = Merged(@, r.data), !.done = TRUE]
  /\ UNCHANGED <<requests, pc>>
HandlePositionUpdate(r) ==
  /\ mem' = IF r.error THEN [mem EXCEPT !.error = TRUE, !.done = TRUE]
            ELSE [mem EXCEPT !.positions = Merged(@, r.data), !.done = TRUE]
  /\ UNCHANGED <<requests, pc>>

(* on_order_report for each result: it fills or is rejected, and counts    *)
(* for the stage that is waiting, whichever it belongs to.                 *)
HandleBatchReport(r) ==
  mem' = [mem EXCEPT !.answered = @ + r.n] /\ UNCHANGED <<requests, pc>>

(* process_account_reports                                                 *)
HandleReport ==
  /\ Up /\ poll = "account" /\ reports # <<>>
  /\ reports' = Tail(reports)
  /\ LET r == Head(reports)
     IN  CASE r.type = "register"  -> HandleRegisterReport(r)
           [] r.type = "account"   -> HandleAccountUpdate(r)
           [] r.type = "positions" -> HandlePositionUpdate(r)
           [] OTHER                -> HandleBatchReport(r)
  /\ UNCHANGED <<legs, monitored, market, poll, history, bounds>>

NextReader ==
  /\ Up /\ reports = <<>>
  /\ \/ poll = "account" /\ poll' = "trading"
     \/ poll = "trading" /\ poll' = "done"
  /\ UNCHANGED <<legs, monitored, requests, reports, market, pc, mem, history, bounds>>

(* TradingModule.process_order_reports: no handler for any of these.       *)
Swallow ==
  /\ Up /\ poll = "trading" /\ reports # <<>>
  /\ reports' = Tail(reports)
  /\ UNCHANGED <<legs, monitored, requests, market, pc, poll, mem, history, bounds>>

(* on_tick                                                                 *)
Changed == {s \in Symbols : latest[s] > mem.known[s]}
Newest == Max({latest[s] : s \in Changed})
Enough(known, p) == 5 * Cardinality({s \in Symbols : known[s] >= p}) >= 4 * Cardinality(Symbols)
Trades == mem.ready /\ mem.data

Polled == Up /\ poll = "done" /\ poll' = "account"

NothingNew ==
  /\ Polled /\ pc = "loop" /\ ~(Trades /\ Changed # {})
  /\ UNCHANGED <<legs, monitored, requests, reports, market, pc, mem, history, bounds>>

Learnt == [mem EXCEPT !.known = [s \in Symbols |-> latest[s]]]

NotYet ==
  /\ Polled /\ pc = "loop" /\ Trades /\ Changed # {}
  /\ Newest <= mem.lastPeriod \/ ~Enough(latest, Newest)
  /\ mem' = Learnt
  /\ UNCHANGED <<legs, monitored, requests, reports, market, pc, history, bounds>>

(* _execute_rebalance: what can be traded, the target, the positions. The  *)
(* candle is marked as handled first.                                      *)
Trigger ==
  /\ Polled /\ pc = "loop" /\ Trades /\ Changed # {}
  /\ Newest > mem.lastPeriod /\ Enough(latest, Newest)
  /\ \E delisted \in Delistings, t \in Targets :
       LET m == [Learnt EXCEPT !.lastPeriod = Newest, !.target = t, !.delisted = delisted, !.answered = 0]
       IN  /\ \A s \in delisted : t[s] = 0
           /\ IF t = NoTarget
              THEN mem' = m /\ UNCHANGED <<requests, pc, executed>>
              ELSE /\ Fetch(m, 1, "rebalance")
                   /\ executed' = [executed EXCEPT ![Newest] = @ + 1]
  /\ UNCHANGED <<legs, monitored, reports, market, goal, aim, excuse, bounds>>

-----------------------------------------------------------------------------
(* Waiting for the answer to a position query, 30 s, and for the orders of *)
(* a stage, 10 s, as rounds of poll_messages.                              *)

Expects == IF pc = "await" THEN [request |-> "query", report |-> "positions"]
           ELSE [request |-> "batch", report |-> "batch"]
Coming == \/ \E i \in DOMAIN requests : requests[i].type = Expects.request
          \/ \E i \in DOMAIN reports : reports[i].type = Expects.report
Satisfied == IF pc = "await" THEN mem.done ELSE mem.answered >= mem.expected
Waits == pc \in {"await", "fills"} /\ ~Satisfied

PollAgain ==
  /\ Polled /\ Waits /\ Coming
  /\ UNCHANGED <<legs, monitored, requests, reports, market, pc, mem, history, bounds>>

(* Mutant: only an answer that is still coming may be given up.            *)
ExpiresLate == Waits /\ Coming /\ Trouble
Expires == Waits /\ (IF Coming THEN Trouble ELSE Smooth)

(* One quantity per symbol: of two legs the SHORT one, last in the map.    *)
Current(positions) ==
  [s \in Symbols |-> IF positions[s]["SHORT"] > 0 THEN -positions[s]["SHORT"] ELSE positions[s]["LONG"]]

(* Orders that take a symbol from c to t: a position is closed or reduced  *)
(* on its side, opened or added to on the side of the target.              *)
Close(s, c, n) == [s |-> s, side |-> Side(c), qty |-> n, open |-> FALSE]
Open(s, t, n) == [s |-> s, side |-> Side(t), qty |-> n, open |-> TRUE]
Reverses(c, t) == c * t < 0

DelistCloses(cur, gone) == {Close(s, cur[s], Abs(cur[s])) : s \in {r \in gone : cur[r] # 0}}
ReverseCloses(cur, t) ==
  {Close(s, cur[s], Abs(cur[s])) : s \in {r \in Symbols : Reverses(cur[r], t[r])}}
NormalCloses(cur, t) ==
  {Close(s, cur[s], Abs(cur[s]) - Abs(t[s])) :
     s \in {r \in Symbols : ~Reverses(cur[r], t[r]) /\ Abs(t[r]) < Abs(cur[r])}}
NormalOpens(cur, t) ==
  {Open(s, t[s], Abs(t[s]) - Abs(cur[s])) :
     s \in {r \in Symbols : ~Reverses(cur[r], t[r]) /\ Abs(t[r]) > Abs(cur[r])}}
ReverseOpens(cur, t) == {Open(s, t[s], Abs(t[s])) : s \in {r \in Symbols : Reverses(cur[r], t[r])}}

(* What is empty is not sent.                                              *)
NonEmpty(orders) == IF orders = {} THEN <<>> ELSE <<orders>>
Stage(batches) == IF batches = <<>> THEN <<>> ELSE <<batches>>

(* Stages, each sent batch by batch and then waited for: closes come       *)
(* before opens, to release their margin. What is delisted is closed first *)
(* and then left alone.                                                    *)
Stages(cur, t, gone) ==
  LET rest == [s \in Symbols |-> IF s \in gone THEN 0 ELSE cur[s]]
  IN  Stage(NonEmpty(DelistCloses(cur, gone)))
        \o Stage(NonEmpty(ReverseCloses(rest, t)))
        \o Stage(NonEmpty(NormalCloses(rest, t)))
        \o Stage(NonEmpty(NormalOpens(rest, t)) \o NonEmpty(ReverseOpens(rest, t)))

Count(batches) == Cardinality(UNION {{i} \X batches[i] : i \in DOMAIN batches})
BatchOf(orders) == [type |-> "batch", orders |-> orders]

(* _send_orders_batch of the next stage, or the end of the rebalance.      *)
Continue(m) ==
  IF m.stages = <<>>
  THEN /\ pc' = "loop" /\ mem' = [m EXCEPT !.target = NoTarget, !.delisted = {}, !.expected = 0]
       /\ UNCHANGED requests
  ELSE /\ pc' = "fills"
       /\ mem' = [m EXCEPT !.stages = Tail(@), !.expected = Count(Head(m.stages))]
       /\ requests' = requests \o [i \in DOMAIN Head(m.stages) |-> BatchOf(Head(m.stages)[i])]

(* Changes worth less than 6 USDT; to close a position none is too small.  *)
Dust(cur, t, least) == {s \in Symbols : t[s] # 0 /\ Abs(t[s] - cur[s]) < least[s]}
(* The target, with what is skipped as it is.                              *)
Keeping(cur, t, skipped) == [s \in Symbols |-> IF s \in skipped THEN cur[s] ELSE t[s]]

(* Of a symbol with a weight but without a price or a minimum quantity, or *)
(* of any when there is no equity, no target can be computed (unsized).    *)
Plan(m, cur, assumed) ==
  /\ \E unsized \in SUBSET {s \in Symbols : m.target[s] # 0}, least \in [Symbols -> MinTrades] :
       /\ goal' = Keeping(cur, m.target, unsized)
       /\ aim' = Keeping(cur, m.target, unsized \cup Dust(cur, m.target, least))
  /\ Continue([m EXCEPT !.stages = Stages(cur, aim', m.delisted)])
  /\ excuse' = (IF assumed THEN {"assumed"} ELSE {}) \cup (IF Hedged(legs) THEN {"hedged"} ELSE {})
               \cup (IF \E s \in Symbols, d \in Sides : legs[s][d] > MaxLeg THEN {"inherited"} ELSE {})
  /\ UNCHANGED executed

(* Mutant: the oldest.                                                     *)
LoadedOldest == Min(Range(mem.known))
(* _check_initial_rebalance: the newest candle loaded counts as handled.   *)
Loaded == Max(Range(mem.known))

InitialCheck(m) ==
  /\ mem' = [m EXCEPT !.lastPeriod = Loaded] /\ pc' = "loop"
  /\ UNCHANGED <<requests, history>>

(* The positions are known: cur, or nothing when the query failed twice    *)
(* and no position was known before (assumed).                             *)
Proceed(m, cur, assumed) == IF m.why = "initial" THEN InitialCheck(m) ELSE Plan(m, cur, assumed)

FetchAnswered ==
  /\ Polled /\ pc = "await" /\ mem.done /\ ~mem.error
  /\ LET cur == Current(mem.positions)
     IN  Proceed([mem EXCEPT !.lastKnown = Cardinality({s \in Symbols : cur[s] # 0})], cur, FALSE)
  /\ UNCHANGED <<legs, monitored, reports, market, bounds>>

(* A failed query or one that times out is repeated once. The second time  *)
(* the rebalance is given up if positions were known.                      *)
FetchFailed ==
  /\ Polled /\ pc = "await"
  /\ (mem.done /\ mem.error /\ Smooth) \/ Expires
  /\ \/ /\ mem.attempt = 1
        /\ Fetch(mem, 2, mem.why) /\ UNCHANGED history
     \/ /\ mem.attempt = 2 /\ (mem.lastKnown = 0 \/ mem.why = "initial")
        /\ Proceed(mem, NoTarget, TRUE)
     \/ /\ mem.attempt = 2 /\ mem.lastKnown > 0 /\ mem.why = "rebalance"
        /\ pc' = "loop" /\ UNCHANGED <<requests, mem, history>>
  /\ UNCHANGED <<legs, monitored, reports, market, restarts>>

(* _wait_for_orders returns, and forgets what it has counted.              *)
StageEnds ==
  /\ Polled /\ pc = "fills"
  /\ (Satisfied /\ Smooth) \/ Expires
  /\ Continue([mem EXCEPT !.answered = 0])
  /\ UNCHANGED <<legs, monitored, reports, market, history, restarts>>

Strategy == \/ HandleReport \/ NextReader \/ Swallow \/ NothingNew \/ NotYet \/ Trigger
            \/ PollAgain \/ FetchAnswered \/ FetchFailed \/ StageEnds

Next == \/ NewPeriod \/ MonitorPolls \/ Start \/ Kill
        \/ \E s \in Symbols : Arrive(s)
        \/ Server \/ Strategy

Spec == Init /\ [][Next]_vars
(* The strategy's loop and the order thread go on, and the recorder writes *)
(* every candle in the end; nobody has to start the strategy.              *)
Fairness ==
  WF_vars(Strategy) /\ WF_vars(Server) /\ WF_vars(\E s \in Symbols : Arrive(s))
FairSpec == Spec /\ Fairness

-----------------------------------------------------------------------------
(* The fields of every component keep their shape.                         *)
Mem == [ready: BOOLEAN, data: BOOLEAN, known: [Symbols -> 0..MaxPeriod],
        lastPeriod: 0..MaxPeriod, lastKnown: 0..Cardinality(Symbols),
        positions: Legs, done: BOOLEAN, error: BOOLEAN,
        attempt: 0..2, why: {"initial", "rebalance"},
        target: Targets \cup {NoTarget}, delisted: SUBSET Symbols,
        stages: Seq(Seq(SUBSET Order)), expected: Nat, answered: Nat]

TypeOK ==
  /\ legs \in Legs /\ monitored \in Legs
  /\ \A i \in DOMAIN requests : \/ requests[i].type \in {"register", "account", "query"}
                                \/ requests[i].type = "batch" /\ requests[i].orders \in SUBSET Order
  /\ \A i \in DOMAIN reports : reports[i].type \in {"register", "account", "positions", "batch"}
  /\ period \in 1..MaxPeriod /\ latest \in [Symbols -> 1..MaxPeriod]
  /\ pc \in {"down", "loop", "await", "fills"} /\ poll \in {"account", "trading", "done"}
  /\ mem \in Mem
  /\ executed \in [1..MaxPeriod -> Nat]
  /\ goal \in [Symbols -> Int] /\ aim \in [Symbols -> Int]
  /\ excuse \subseteq {"assumed", "hedged", "inherited", "rejected", "killed"}

(* When a rebalance has ended and nothing is on its way, the exchange      *)
(* holds exactly what its orders led to, and no symbol on both sides; that *)
(* is the target, or off it by a change worth less than 6 USDT, which does *)
(* not excuse a position that is to be closed. A symbol without a computed *)
(* target is as it was. So it is whatever reports the other reader         *)
(* swallowed, whichever waits expired and however often the strategy was   *)
(* restarted, unless an order was rejected, the strategy was killed        *)
(* between the stages, started from a symbol held on both sides, or took   *)
(* two failed queries for an empty portfolio.                              *)
Near(n, g) == n = g \/ (g # 0 /\ \E least \in MinTrades : Abs(g - n) < least)
ReachesTarget ==
  (requests = <<>> /\ pc \in {"loop", "down"} /\ excuse = {}) =>
    ~Hedged(legs) /\ \A s \in Symbols : Net(legs, s) = aim[s] /\ Near(aim[s], goal[s])

(* One candle is traded on once, across restarts too: a restart in the     *)
(* middle does not open the same positions again.                          *)
OncePerPeriod == \A p \in 1..MaxPeriod : executed[p] <= 1

(* No leg grows beyond what some target asks for, at any moment of a       *)
(* rebalance, unless it was planned from positions that were wrong.        *)
LegsBounded ==
  excuse \cap {"assumed", "hedged", "inherited"} = {} =>
    \A s \in Symbols, d \in Sides : legs[s][d] <= MaxLeg

(* The strategy never trades more than a candle asks for: neither twice    *)
(* nor too much.                                                           *)
NeverOvertrades == OncePerPeriod /\ LegsBounded

(* A candle that enough symbols have is traded on, or has been handled, as *)
(* long as the strategy is ready and stays up: no swallowed report, lost   *)
(* answer or late order leaves the loop waiting.                           *)
CompleteCandleTaken ==
  \A p \in 1..MaxPeriod :
    (Up /\ Trades /\ period = p /\ latest = [s \in Symbols |-> p])
      ~> (mem.lastPeriod >= p \/ ~Up \/ period > p)

=============================================================================
