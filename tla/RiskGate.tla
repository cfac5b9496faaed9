------------------------------- MODULE RiskGate -------------------------------
(***************************************************************************)
(* What the pre-trade check knows. The order thread passes an order        *)
(* through check_order_with_value of RiskManager, which compares it with   *)
(* a cache of position values and an open-order count; the monitor thread  *)
(* of AccountMonitor polls the accounts one after the other and writes     *)
(* what they answered into the cache, entry by entry, while orders go on   *)
(* being checked, executed and filled.                                     *)
(*                                                                         *)
(* A row is a position line of an account's answer: one per account and    *)
(* symbol, or two (long and short) in hedge mode. The cache is keyed by    *)
(* the symbol alone. Notionals are integers and prices do not move.        *)
(* Quantity, daily loss and frequency (RateLimiter) may refuse any order   *)
(* and are not kept; the kill switch is never activated.                   *)
(*                                                                         *)
(* The value the check is given need not be what the order fills: it is    *)
(* order_value if the strategy sends one, else the estimated price of a    *)
(* market order, else the price, times the quantity. That is 0 for a       *)
(* market order with neither, and price times contracts for a swap.        *)
(***************************************************************************)
EXTENDS Integers, FiniteSets, Functions, Sequences

CONSTANTS
  Symbols, Accounts,
  Rows,           \* position rows
  SymbolOf, AccountOf,  \* [row] its symbol and its account
  PollOrder,      \* the accounts in the order they are polled
  CountsOrders,   \* accounts whose open orders are counted (OKX)
  OmitsFlat,      \* accounts that may leave flat rows out of the answer (OKX)
  OrderValues,    \* notionals of orders, as filled
  CheckedValues,  \* values the check is given for them
  MaxOrderValue, MaxPosition, MaxExposure, MaxOpenOrders,  \* the limits
  MaxOrders,      \* bound: orders checked and passed
  MaxFailures,    \* bound: REST calls of the monitor that fail
  StartPositions, \* positions the server may start over
  MaxLeft         \* bound: orders of an earlier run that still rest

ASSUME RowsAssumption ==
  SymbolOf \in [Rows -> Symbols] /\ AccountOf \in [Rows -> Accounts]
ASSUME FiniteRows == IsFiniteSet(Rows) /\ IsFiniteSet(Symbols)
ASSUME PollAssumption == PollOrder \in Seq(Accounts) /\ Len(PollOrder) > 0
ASSUME LimitsAssumption ==
  /\ OrderValues \subseteq Nat /\ CheckedValues \subseteq Nat
  /\ StartPositions \subseteq Int /\ MaxLeft \in Nat
  /\ MaxOrderValue \in Nat /\ MaxPosition \in Nat /\ MaxExposure \in Nat /\ MaxOpenOrders \in Nat
  /\ MaxOrders \in Nat /\ MaxFailures \in Nat

VARIABLES
  pos,        \* [row] signed notional at the exchange
  resting,    \* orders open at the exchange
  flying,     \* orders sent and not yet at the exchange
  passed,     \* orders that passed the check
  cache,      \* [symbol] position_values_
  openCount,  \* open_order_count_
  turn,       \* monitor: index in PollOrder of the account being polled
  phase,      \* monitor: the call or the writes it is at
  answer,     \* monitor: rows listed by get_positions, still to be written
  listed,     \* monitor: number of orders get_pending_orders listed
  failures,   \* REST calls of the monitor that failed
  hidden,     \* history: [row] value held at the start or filled, since its
              \* account was last read
  unseen      \* history: [symbol] the same, since the row was read whose value
              \* is in the cache

market  == <<pos, resting>>
gate    == <<flying, passed>>
polling == <<turn, phase, answer, listed, failures>>
gateVars == <<market, gate, cache, openCount, polling, hidden, unseen>>

Abs(n) == IF n < 0 THEN -n ELSE n

Orders(ids) ==
  [id: ids, row: Rows, side: {1, -1}, value: OrderValues, checked: CheckedValues]
Order == Orders(Int)

RowsOf(a) == {r \in Rows : AccountOf[r] = a}
Polled == PollOrder[turn]

(* What is held in a symbol, by all its rows.                              *)
Held(p, s) == SumFunction([r \in {r \in Rows : SymbolOf[r] = s} |-> Abs(p[r])])

LeftOver == {o \in Orders({-1}) : o.checked = o.value}

(* The server starts over what the accounts have: of that it knows nothing *)
(* before the first poll, and checks against an empty cache.               *)
GateInit ==
  /\ pos \in [Rows -> StartPositions]
  /\ resting \in {L \in SUBSET LeftOver : IsFiniteSet(L) /\ Cardinality(L) <= MaxLeft}
  /\ flying = {}
  /\ passed = 0
  /\ cache = [s \in Symbols |-> 0]
  /\ openCount = 0
  /\ turn = 1
  /\ phase = "positions"
  /\ answer = [r \in {} |-> 0]
  /\ listed = 0
  /\ failures = 0
  /\ hidden = [r \in Rows |-> Abs(pos[r])]
  /\ unseen = [s \in Symbols |-> Held(pos, s)]

-----------------------------------------------------------------------------
(* The order thread: check_order_with_value, in the order of its checks.   *)

CachedExposure == SumFunction([s \in Symbols |-> Abs(cache[s])])

(* Mutant: the exposure without the order.                                 *)
VerdictLate(o) ==
  IF o.checked > MaxOrderValue THEN "value"
  ELSE IF openCount >= MaxOpenOrders THEN "open orders"
  ELSE IF Abs(cache[SymbolOf[o.row]] + o.side * o.checked) > MaxPosition THEN "position"
  ELSE IF CachedExposure > MaxExposure THEN "exposure" ELSE "pass"

Verdict(o) ==
  IF o.checked > MaxOrderValue THEN "value"
  ELSE IF openCount >= MaxOpenOrders THEN "open orders"
  ELSE IF Abs(cache[SymbolOf[o.row]] + o.side * o.checked) > MaxPosition THEN "position"
  ELSE IF CachedExposure + o.checked > MaxExposure THEN "exposure" ELSE "pass"

(* The next order of a strategy, checked at this moment; one that is       *)
(* refused changes nothing kept here. The call for an earlier one that the *)
(* client gave up may still reach the exchange, so several may be flying.  *)
CheckOrder(o) ==
  /\ o.id = passed /\ passed < MaxOrders
  /\ Verdict(o) = "pass"
  /\ passed' = passed + 1
  /\ flying' = flying \cup {o}
  /\ UNCHANGED <<market, cache, openCount, polling, hidden, unseen>>

-----------------------------------------------------------------------------
(* The exchange.                                                           *)

TakeOrder(o) ==
  /\ flying' = flying \ {o}
  /\ resting' = resting \cup {o}
  /\ UNCHANGED <<pos, passed, cache, openCount, polling, hidden, unseen>>

RefuseOrder(o) ==
  /\ flying' = flying \ {o}
  /\ UNCHANGED <<market, passed, cache, openCount, polling, hidden, unseen>>

FillOrder(o) ==
  /\ resting' = resting \ {o}
  /\ pos' = [pos EXCEPT ![o.row] = @ + o.side * o.value]
  /\ hidden' = [hidden EXCEPT ![o.row] = @ + o.value]
  /\ unseen' = [unseen EXCEPT ![SymbolOf[o.row]] = @ + o.value]
  /\ UNCHANGED <<gate, cache, openCount, polling>>

CancelOrder(o) ==
  /\ resting' = resting \ {o}
  /\ UNCHANGED <<pos, gate, cache, openCount, polling, hidden, unseen>>

-----------------------------------------------------------------------------
(* The monitor thread: update_all_accounts, one account after the other.   *)

(* Mutant: the round does not start again.                                 *)
NextAccountStuck ==
  /\ turn' = IF turn < Len(PollOrder) THEN turn + 1 ELSE turn
  /\ phase' = "positions"

(* Go on to the next account, and round again.                             *)
NextAccount ==
  /\ turn' = (turn % Len(PollOrder)) + 1
  /\ phase' = "positions"

(* get_positions: the answer is what the exchange had at this moment.      *)
ReadPositions ==
  /\ phase = "positions"
  /\ \E R \in SUBSET RowsOf(Polled) :
       /\ \A r \in RowsOf(Polled) \ R :
            pos[r] = 0 /\ Polled \in OmitsFlat
       /\ answer' = [r \in R |-> pos[r]]
  /\ hidden' = [r \in Rows |-> IF r \in RowsOf(Polled) THEN 0 ELSE hidden[r]]
  /\ phase' = "writing"
  /\ UNCHANGED <<market, gate, cache, openCount, turn, listed, failures, unseen>>

(* Mutant: the notional is written with its sign.                          *)
UpdatePositionSigned(r) ==
  /\ phase = "writing"
  /\ cache' = [cache EXCEPT ![SymbolOf[r]] = answer[r]]
  /\ unseen' = [unseen EXCEPT ![SymbolOf[r]] = hidden[r]]
  /\ answer' = [q \in DOMAIN answer \ {r} |-> answer[q]]
  /\ UNCHANGED <<market, gate, openCount, turn, phase, listed, failures, hidden>>

(* update_position, for one row of the answer.                             *)
UpdatePosition(r) ==
  /\ phase = "writing"
  /\ cache' = [cache EXCEPT ![SymbolOf[r]] = Abs(answer[r])]
  /\ unseen' = [unseen EXCEPT ![SymbolOf[r]] = hidden[r]]
  /\ answer' = [q \in DOMAIN answer \ {r} |-> answer[q]]
  /\ UNCHANGED <<market, gate, openCount, turn, phase, listed, failures, hidden>>

(* All rows are written: an OKX account is asked for its open orders, a    *)
(* Binance account is done.                                                *)
ReadOpenOrders ==
  /\ phase = "writing"
  /\ DOMAIN answer = {}
  /\ Polled \in CountsOrders
  /\ listed' = Cardinality({o \in resting : AccountOf[o.row] = Polled})
  /\ phase' = "counting"
  /\ UNCHANGED <<market, gate, cache, openCount, turn, answer, failures, hidden, unseen>>

AccountDone ==
  /\ phase = "writing"
  /\ DOMAIN answer = {}
  /\ Polled \notin CountsOrders
  /\ NextAccount
  /\ UNCHANGED <<market, gate, cache, openCount, answer, listed, failures, hidden, unseen>>

SetOpenOrderCount ==
  /\ phase = "counting"
  /\ openCount' = listed
  /\ NextAccount
  /\ UNCHANGED <<market, gate, cache, answer, listed, failures, hidden, unseen>>

(* get_positions answers with an error code: the rows are skipped.         *)
PositionsRefused ==
  /\ failures < MaxFailures
  /\ phase = "positions"
  /\ failures' = failures + 1
  /\ phase' = "writing"
  /\ UNCHANGED <<market, gate, cache, openCount, turn, answer, listed, hidden, unseen>>

(* A call throws: the rest of this account's update is skipped.            *)
PollFails ==
  /\ failures < MaxFailures
  /\ \/ phase = "positions"
     \/ phase = "writing" /\ DOMAIN answer = {} /\ Polled \in CountsOrders
  /\ failures' = failures + 1
  /\ NextAccount
  /\ UNCHANGED <<market, gate, cache, openCount, answer, listed, hidden, unseen>>

-----------------------------------------------------------------------------
PollAccounts ==
  \/ ReadPositions
  \/ \E r \in DOMAIN answer : UpdatePosition(r)
  \/ ReadOpenOrders \/ AccountDone \/ SetOpenOrderCount

GateNext ==
  \/ \E o \in Orders({passed}) : CheckOrder(o)
  \/ \E o \in flying : TakeOrder(o) \/ RefuseOrder(o)
  \/ \E o \in resting : FillOrder(o) \/ CancelOrder(o)
  \/ PollAccounts
  \/ PositionsRefused \/ PollFails

GateSpec == GateInit /\ [][GateNext]_gateVars

(* The monitor thread runs for as long as the server does; that an account *)
(* can be read again after at most MaxFailures failed calls is assumed.    *)
GateFairSpec == GateSpec /\ WF_gateVars(PollAccounts)

-----------------------------------------------------------------------------
GateTypeOK ==
  /\ pos \in [Rows -> Int]
  /\ resting \subseteq Order /\ flying \subseteq Order
  /\ passed \in Nat
  /\ cache \in [Symbols -> Nat]
  /\ openCount \in Nat
  /\ turn \in 1 .. Len(PollOrder)
  /\ phase \in {"positions", "writing", "counting"}
  /\ DOMAIN answer \subseteq RowsOf(Polled)
  /\ \A r \in DOMAIN answer : answer[r] \in Int
  /\ listed \in Nat /\ failures \in Nat
  /\ hidden \in [Rows -> Nat]
  /\ unseen \in [Symbols -> Nat]

(* A symbol that only one row can be listed for.                           *)
Single(s) == \A r, q \in Rows : SymbolOf[r] = s /\ SymbolOf[q] = s => r = q

(* Of a symbol that only one row is kept for, the check never knows less   *)
(* than the true position minus what was filled, or held at the start,     *)
(* since the row in the cache was read: the fills between get_positions    *)
(* and update_position are not lost to the account for good.               *)
CachedNeverUnder ==
  \A r \in Rows :
    Single(SymbolOf[r]) => Abs(pos[r]) <= cache[SymbolOf[r]] + unseen[SymbolOf[r]]

TrueExposure(p) == SumFunction([r \in Rows |-> Abs(p[r])])

(* If every symbol has one row, an order that passes can take the true     *)
(* exposure over the limit only by what was filled since the cached rows   *)
(* were read (at the start, by what is held) and by what the check was not *)
(* told of this order, which is all of a market order checked with 0. That *)
(* earlier orders were checked with too little does not add to it: once    *)
(* filled and read they count in full.                                     *)
ClearedWithinExposure ==
  [][\A o \in flying' \ flying :
       (\A s \in Symbols : Single(s)) =>
         TrueExposure([pos EXCEPT ![o.row] = @ + o.side * o.value])
           <= MaxExposure + SumFunction(unseen) + (o.value - o.checked)]_gateVars

(* When nothing is traded any more, the cache catches up with every        *)
(* position, whichever calls failed: eventually it never shows less.       *)
CacheCatchesUp ==
  \A r \in Rows :
    Single(SymbolOf[r]) => <>[](Abs(pos[r]) <= cache[SymbolOf[r]])

=============================================================================
