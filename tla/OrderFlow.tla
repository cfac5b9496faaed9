------------------------------ MODULE OrderFlow ------------------------------
(***************************************************************************)
(* The path of an order through the trading server: strategy processes     *)
(* (PyStrategyBase, TradingModule, AccountModule) push requests over a     *)
(* PUSH/PULL channel; the single order thread (order_thread,               *)
(* process_order_request) handles them one at a time, calling the          *)
(* exchange over REST; every answer is broadcast over a PUB/SUB channel    *)
(* which each strategy drains in its main loop.                            *)
(*                                                                         *)
(* The risk check of a single order is a Boolean here (module RiskGate     *)
(* says what it decides); prices, quantities and symbols are not kept.     *)
(***************************************************************************)
EXTENDS Naturals, Sequences, FiniteSets

CONSTANTS
  Strategies,     \* strategy ids; each is one strategy process
  Orders,         \* client order ids (generate_client_order_id)
  Venues,         \* exchanges an account may be registered on
  Okx,            \* the one venue whose API cancels are sent to
  DefaultVenues,  \* venues for which a default account is configured
  BatchSize,      \* orders in one Binance batch call
  MaxSends,       \* bound: requests the strategies send in all
  Capacity,       \* high-water mark of a strategy's report subscription
  MaxCrashes,     \* bound: crashes of the server and of strategies
  NoStrategy,     \* "nobody": the owner of an order not yet sent
  NoOrder         \* the empty client_order_id

ASSUME OkxIsVenue == Okx \in Venues
ASSUME DefaultsAreVenues == DefaultVenues \subseteq Venues
ASSUME OrdersAreFinite == IsFiniteSet(Orders)
ASSUME BoundsAreNat ==
  /\ BatchSize \in Nat \ {0}
  /\ MaxSends \in Nat /\ Capacity \in Nat /\ MaxCrashes \in Nat
ASSUME NullsAreFresh == NoStrategy \notin Strategies /\ NoOrder \notin Orders

VARIABLES
  sent,        \* requests sent so far, by all strategies
  toServer,    \* [s] requests pushed by s and not yet received
  current,     \* the request the order thread is calling the exchange for
  stage,       \* where that REST call is
  late,        \* calls given up by the server that may still arrive
  registry,    \* [s] venues on which s has an account in g_account_registry
  market,      \* [o] the exchange's view of the order
  inbox,       \* [s] reports waiting in the report_sub_ socket of s
  loop,        \* [s] which receive loop of the main loop s is in
  owner,       \* [o] the strategy that sent the order
  venue,       \* [o] the exchange it was sent to
  status,      \* [o] its status in active_orders_ of its owner
  filledQty,   \* [o] filled_quantity there is the ordered quantity, not 0
  registered,  \* [s] account_registered_ of the AccountModule
  seen,        \* [s] the on_order_report callbacks the strategy has had
  batched,     \* history: orders sent by send_batch_orders
  orderCount, orderSuccess, orderFailed,  \* g_order_count, ...
  cleared,     \* history: orders that passed check_order_with_value
  answers,     \* history: [o] reports published that answer for the order
  acked,       \* history: orders a published report says succeeded
  crashes      \* processes that died so far

server   == <<current, stage, registry>>
exchange == <<market, late>>
counters == <<orderCount, orderSuccess, orderFailed>>
client   == <<owner, venue, batched, status, filledQty, registered, seen>>
vars == <<sent, toServer, server, exchange, inbox, loop, client, counters, cleared,
          answers, acked, crashes>>

-----------------------------------------------------------------------------
(* Messages.                                                               *)

RequestKinds == {"order_request", "batch_order_request", "cancel_request",
                 "cancel_all_request", "register_account", "unregister_account"}

Request == [kind: RequestKinds, from: Strategies, ids: SUBSET Orders,
            venue: Venues]

NoRequest == [kind |-> "none", from |-> NoStrategy, ids |-> {}, venue |-> Okx]

ReportTypes == {"order_report", "batch_report", "cancel_report",
                "register_report", "unregister_report"}

ReportStatuses == {"accepted", "submitted", "partial", "rejected",
                   "cancelled", "registered", "unregistered"}

(* good and bad are the orders the report says succeeded and failed.       *)
Report == [type: ReportTypes, to: Strategies, status: ReportStatuses,
           good: SUBSET Orders, bad: SUBSET Orders]

(* OrderStatus of the strategy's OrderInfo; UNKNOWN: not in active_orders_. *)
OrderStatuses == {"UNKNOWN", "SUBMITTED", "ACCEPTED", "REJECTED"}

MarketStates == {"none", "live", "filled", "cancelled", "refused"}
Placed == {"live", "filled", "cancelled"}

(* The REST call: not made, on its way, executed or declined by the        *)
(* exchange.                                                               *)
Stages == {"idle", "called", "executed", "declined"}

Callback == [to: Strategies, type: ReportTypes, status: ReportStatuses \cup {"filled"},
             order: Orders \cup {NoOrder}]

-----------------------------------------------------------------------------
Init ==
  /\ sent = 0
  /\ toServer = [s \in Strategies |-> <<>>]
  /\ current = NoRequest
  /\ stage = "idle"
  /\ registry = [s \in Strategies |-> {}]
  /\ market = [o \in Orders |-> "none"]
  /\ late = {}
  /\ inbox = [s \in Strategies |-> <<>>]
  /\ loop = [s \in Strategies |-> "account"]
  /\ owner = [o \in Orders |-> NoStrategy]
  /\ venue = [o \in Orders |-> Okx]
  /\ batched = {}
  /\ status = [o \in Orders |-> "UNKNOWN"]
  /\ filledQty = [o \in Orders |-> FALSE]
  /\ registered = [s \in Strategies |-> FALSE]
  /\ seen = [s \in Strategies |-> {}]
  /\ orderCount = 0 /\ orderSuccess = 0 /\ orderFailed = 0
  /\ cleared = {}
  /\ answers = [o \in Orders |-> 0]
  /\ acked = {}
  /\ crashes = 0

-----------------------------------------------------------------------------
(* Strategy: sending. A strategy sends from its callbacks, hence at any    *)
(* point of its main loop; one thread runs them, so pushing the message    *)
(* and recording the order in active_orders_ is one step.                  *)

Push(s, r) ==
  /\ sent < MaxSends
  /\ sent' = sent + 1
  /\ toServer' = [toServer EXCEPT ![s] = Append(@, r)]

Track(s, ids, v) ==
  /\ owner' = [o \in Orders |-> IF o \in ids THEN s ELSE owner[o]]
  /\ venue' = [o \in Orders |-> IF o \in ids THEN v ELSE venue[o]]
  /\ status' = [o \in Orders |-> IF o \in ids THEN "SUBMITTED" ELSE status[o]]

(* generate_client_order_id: an id nobody has used.                        *)
Fresh(o) == owner[o] = NoStrategy

SendOrder(s, o, v) ==
  /\ Fresh(o)
  /\ Push(s, [kind |-> "order_request", from |-> s, ids |-> {o}, venue |-> v])
  /\ Track(s, {o}, v)
  /\ UNCHANGED <<batched, server, exchange, inbox, loop, filledQty, registered, seen,
                 counters, cleared, answers, acked, crashes>>

SendBatch(s, ids, v) ==
  /\ ids # {}
  /\ \A o \in ids : Fresh(o)
  /\ Push(s, [kind |-> "batch_order_request", from |-> s, ids |-> ids,
              venue |-> v])
  /\ Track(s, ids, v)
  /\ batched' = batched \cup ids
  /\ UNCHANGED <<server, exchange, inbox, loop, filledQty, registered, seen,
                 counters, cleared, answers, acked, crashes>>

(* cancel_order names no exchange; the strategy cancels an order it tracks. *)
SendCancel(s, o) ==
  /\ owner[o] = s /\ status[o] # "UNKNOWN"
  /\ Push(s, [kind |-> "cancel_request", from |-> s, ids |-> {o},
              venue |-> Okx])
  /\ UNCHANGED <<server, exchange, inbox, loop, client, counters, cleared,
                 answers, acked, crashes>>

SendCancelAll(s) ==
  /\ Push(s, [kind |-> "cancel_all_request", from |-> s, ids |-> {},
              venue |-> Okx])
  /\ UNCHANGED <<server, exchange, inbox, loop, client, counters, cleared,
                 answers, acked, crashes>>

SendRegister(s, v) ==
  /\ Push(s, [kind |-> "register_account", from |-> s, ids |-> {},
              venue |-> v])
  /\ UNCHANGED <<server, exchange, inbox, loop, client, counters, cleared,
                 answers, acked, crashes>>

(* AccountModule::unregister_account clears account_registered_ at once.   *)
SendUnregister(s, v) ==
  /\ Push(s, [kind |-> "unregister_account", from |-> s, ids |-> {},
              venue |-> v])
  /\ registered' = [registered EXCEPT ![s] = FALSE]
  /\ UNCHANGED <<server, exchange, inbox, loop, owner, venue, batched, status,
                 filledQty, seen, counters, cleared, answers, acked, crashes>>

-----------------------------------------------------------------------------
(* Server: the order thread. It takes the next request (the PULL socket    *)
(* fair-queues the strategies) only when the previous one is finished.     *)

(* Mutant: the dispatch lets single orders into process_batch_orders.      *)
ReceiveFallThrough(s, kind) ==
  /\ stage = "idle"
  /\ toServer[s] # <<>>
  /\ \/ Head(toServer[s]).kind = kind
     \/ kind = "batch_order_request" /\ Head(toServer[s]).kind = "order_request"
  /\ toServer' = [toServer EXCEPT ![s] = Tail(@)]

Receive(s, kind) ==
  /\ stage = "idle"
  /\ toServer[s] # <<>>
  /\ Head(toServer[s]).kind = kind
  /\ toServer' = [toServer EXCEPT ![s] = Tail(@)]

(* get_okx_api / get_binance_api: own account, else the default account.   *)
HasApi(s, v) == v \in registry[s] \cup DefaultVenues

(* publish_report: PUB drops the message for a subscriber that is full     *)
(* or, after a crash of either side, not connected again yet.              *)
Publish(r) ==
  \E away \in SUBSET (IF crashes = 0 THEN {} ELSE Strategies) :
    inbox' = [s \in Strategies |->
                IF s \notin away /\ Len(inbox[s]) < Capacity
                  THEN Append(inbox[s], r) ELSE inbox[s]]

Answered(ids, good) ==
  /\ answers' = [o \in Orders |-> IF o \in ids THEN answers[o] + 1 ELSE answers[o]]
  /\ acked' = acked \cup good

Call(q) == current' = q /\ stage' = "called"
Finish == current' = NoRequest /\ stage' = "idle"

(* Mutant: a rejection that does not say whose order it rejects.           *)
RejectionUnaddressed(s, q) ==
  [type |-> "order_report", to |-> NoStrategy, status |-> "rejected",
   good |-> {}, bad |-> q.ids]

Rejection(s, q) ==
  [type |-> "order_report", to |-> s, status |-> "rejected", good |-> {},
   bad |-> q.ids]

(* process_place_order, risk check failed.                                 *)
RejectByRisk(s) ==
  /\ Receive(s, "order_request")
  /\ orderCount' = orderCount + 1 /\ orderFailed' = orderFailed + 1
  /\ LET q == Head(toServer[s])
     IN Publish(Rejection(s, q)) /\ Answered(q.ids, {})
  /\ UNCHANGED <<sent, server, exchange, loop, client, orderSuccess, cleared,
                 crashes>>

(* process_place_order, risk check passed but the strategy has no account. *)
RejectNoAccount(s) ==
  /\ Receive(s, "order_request")
  /\ ~HasApi(s, Head(toServer[s]).venue)
  /\ orderCount' = orderCount + 1 /\ orderFailed' = orderFailed + 1
  /\ LET q == Head(toServer[s])
     IN /\ cleared' = cleared \cup q.ids
        /\ Publish(Rejection(s, q))
        /\ Answered(q.ids, {})
  /\ UNCHANGED <<sent, server, exchange, loop, client, orderSuccess, crashes>>

(* process_place_order, risk check passed: the REST call starts.           *)
PlaceOrder(s) ==
  /\ Receive(s, "order_request")
  /\ HasApi(s, Head(toServer[s]).venue)
  /\ orderCount' = orderCount + 1
  /\ cleared' = cleared \cup Head(toServer[s]).ids
  /\ Call(Head(toServer[s]))
  /\ UNCHANGED <<sent, registry, exchange, inbox, loop, client, orderSuccess,
                 orderFailed, answers, acked, crashes>>

(* process_batch_orders makes no risk check and counts nothing yet.        *)
RejectBatch(s) ==
  /\ Receive(s, "batch_order_request")
  /\ ~HasApi(s, Head(toServer[s]).venue)
  /\ Publish([type |-> "batch_report", to |-> s, status |-> "rejected",
              good |-> {}, bad |-> {}])
  /\ Answered(Head(toServer[s]).ids, {})
  /\ UNCHANGED <<sent, server, exchange, loop, client, counters, cleared, crashes>>

PlaceBatch(s) ==
  /\ Receive(s, "batch_order_request")
  /\ HasApi(s, Head(toServer[s]).venue)
  /\ Call(Head(toServer[s]))
  /\ UNCHANGED <<sent, registry, exchange, inbox, loop, client, counters, cleared,
                 answers, acked, crashes>>

(* process_cancel_order asks for the strategy's OKX account, always.       *)
RejectCancel(s) ==
  /\ Receive(s, "cancel_request")
  /\ ~HasApi(s, Okx)
  /\ Publish([type |-> "cancel_report", to |-> s, status |-> "rejected",
              good |-> {}, bad |-> Head(toServer[s]).ids])
  /\ UNCHANGED <<sent, server, exchange, loop, client, counters, cleared,
                 answers, acked, crashes>>

CallCancel(s) ==
  /\ Receive(s, "cancel_request")
  /\ HasApi(s, Okx)
  /\ Call(Head(toServer[s]))
  /\ UNCHANGED <<sent, registry, exchange, inbox, loop, client, counters, cleared,
                 answers, acked, crashes>>

(* process_order_request does not know "cancel_all_request": a warning.    *)
DropCancelAll(s) ==
  /\ Receive(s, "cancel_all_request")
  /\ UNCHANGED <<sent, server, exchange, inbox, loop, client, counters, cleared,
                 answers, acked, crashes>>

AccountReport(s, type, st) ==
  [type |-> type, to |-> s, status |-> st, good |-> {}, bad |-> {}]

(* process_register_account: incomplete keys are refused.                  *)
RegisterAccount(s, ok) ==
  /\ Receive(s, "register_account")
  /\ registry' = IF ok
                   THEN [registry EXCEPT ![s] = @ \cup {Head(toServer[s]).venue}]
                   ELSE registry
  /\ Publish(AccountReport(s, "register_report",
                           IF ok THEN "registered" ELSE "rejected"))
  /\ UNCHANGED <<sent, current, stage, exchange, loop, client, counters, cleared,
                 answers, acked, crashes>>

(* process_unregister_account also sends SIGTERM to the strategies the     *)
(* process manager knows on the account. They end some time later, which   *)
(* is a StrategyCrash: one may happen at any time.                         *)
UnregisterAccount(s) ==
  /\ Receive(s, "unregister_account")
  /\ LET v == Head(toServer[s]).venue
     IN /\ registry' = [registry EXCEPT ![s] = @ \ {v}]
        /\ Publish(AccountReport(s, "unregister_report",
                     IF v \in registry[s] THEN "unregistered" ELSE "rejected"))
  /\ UNCHANGED <<sent, current, stage, exchange, loop, client, counters, cleared,
                 answers, acked, crashes>>

(* An account is removed by another thread of the server (a frontend       *)
(* command), which sends SIGTERM to its strategies too.                    *)
LoseAccount(s, v) ==
  /\ v \in registry[s]
  /\ registry' = [registry EXCEPT ![s] = @ \ {v}]
  /\ UNCHANGED <<sent, toServer, current, stage, exchange, inbox, loop, client,
                 counters, cleared, answers, acked, crashes>>

-----------------------------------------------------------------------------
(* Exchange. It executes a call before the reply is read, or, when the     *)
(* server has given up waiting, at any later time or never.                *)

PlaceKinds == {"order_request", "batch_order_request"}

(* The exchange takes the orders of acc and refuses those of ref.          *)
Execute(acc, ref) ==
  market' = [o \in Orders |-> IF o \in acc THEN "live"
                              ELSE IF o \in ref THEN "refused" ELSE market[o]]

(* OKX cancels an order that rests on OKX; it knows no other.              *)
Cancellable(ids) == {o \in ids : market[o] = "live" /\ venue[o] = Okx}

CancelAtOkx(ids) ==
  market' = [o \in Orders |-> IF o \in Cancellable(ids) THEN "cancelled"
                              ELSE market[o]]

(* A Binance batch goes out in concurrent calls of BatchSize orders, any   *)
(* of which may fail alone; ids is the union of some of the calls of q.    *)
Calls(q, ids) ==
  /\ ids \subseteq q.ids
  /\ \/ ids = q.ids
     \/ /\ q.kind = "batch_order_request" /\ q.venue # Okx
        /\ Cardinality(ids) % BatchSize \in {0, Cardinality(q.ids) % BatchSize}

ExchangePlace(acc, ref) ==
  /\ stage = "called" /\ current.kind \in PlaceKinds
  /\ acc \cap ref = {} /\ acc \cup ref # {}
  /\ Calls(current, acc \cup ref)
  /\ Execute(acc, ref)
  /\ stage' = "executed"
  /\ UNCHANGED <<sent, toServer, current, registry, late, inbox, loop, client,
                 counters, cleared, answers, acked, crashes>>

ExchangeCancel ==
  /\ stage = "called" /\ current.kind = "cancel_request"
  /\ CancelAtOkx(current.ids)
  /\ stage' = IF Cancellable(current.ids) # {} THEN "executed" ELSE "declined"
  /\ UNCHANGED <<sent, toServer, current, registry, late, inbox, loop, client,
                 counters, cleared, answers, acked, crashes>>

(* A call the server has given up arrives after all.                       *)
LandLate(q, acc) ==
  /\ q \in late
  /\ late' = late \ {q}
  /\ IF q.kind \in PlaceKinds
       THEN acc \subseteq q.ids /\ Execute(acc, q.ids \ acc)
       ELSE acc = {} /\ CancelAtOkx(q.ids)
  /\ UNCHANGED <<sent, toServer, server, inbox, loop, client, counters, cleared,
                 answers, acked, crashes>>

Fill(o) ==
  /\ market[o] = "live"
  /\ market' = [market EXCEPT ![o] = "filled"]
  /\ UNCHANGED <<sent, toServer, server, late, inbox, loop, client, counters,
                 cleared, answers, acked, crashes>>

-----------------------------------------------------------------------------
(* Server: the REST call returns (CURLOPT_TIMEOUT bounds it) or throws.    *)

(* Mutants: any answer is taken for a success; every order is counted as   *)
(* failed.                                                                 *)
AcceptedAny == {o \in current.ids : market[o] # "none"}
RefusedAll  == current.ids

Accepted  == {o \in current.ids : market[o] \in Placed}
Refused   == {o \in current.ids : market[o] = "refused"}
Unheard   == {o \in current.ids : market[o] = "none"}

(* Mutant: a call given up arrives even if it was executed already.        *)
GiveUpRetry == late' = late \cup {current}

(* What is given up: the orders the exchange has not seen yet.             *)
GiveUp ==
  late' = IF current.kind \in PlaceKinds
            THEN IF Unheard = {} THEN late
                 ELSE late \cup {[current EXCEPT !.ids = Unheard]}
            ELSE IF stage = "called" THEN late \cup {current} ELSE late

(* The exchange's answer arrives: OKX orders are reported accepted,        *)
(* Binance orders submitted.                                               *)
ReplyOrder ==
  /\ stage = "executed" /\ current.kind = "order_request"
  /\ IF Accepted # {}
       THEN orderSuccess' = orderSuccess + 1 /\ UNCHANGED orderFailed
       ELSE orderFailed' = orderFailed + 1 /\ UNCHANGED orderSuccess
  /\ Publish([type |-> "order_report", to |-> current.from,
              status |-> IF Accepted = {} THEN "rejected"
                         ELSE IF current.venue = Okx THEN "accepted"
                         ELSE "submitted",
              good |-> Accepted, bad |-> Refused])
  /\ Answered(current.ids, Accepted)
  /\ Finish
  /\ UNCHANGED <<sent, toServer, registry, exchange, loop, client, orderCount,
                 cleared, crashes>>

(* Exception (timeout, connection, bad JSON): reported rejected, whatever  *)
(* the exchange did.                                                       *)
ReplyOrderFailure ==
  /\ stage \in {"called", "executed"} /\ current.kind = "order_request"
  /\ orderFailed' = orderFailed + 1
  /\ Publish(Rejection(current.from, current))
  /\ Answered(current.ids, {})
  /\ GiveUp
  /\ Finish
  /\ UNCHANGED <<sent, toServer, registry, market, loop, client, orderCount,
                 orderSuccess, cleared, crashes>>

BatchStatus(good, bad) ==
  IF bad = {} THEN "accepted" ELSE IF good # {} THEN "partial" ELSE "rejected"

(* The shared end of process_batch_orders: count, report, done.            *)
FinishBatch(n, good, bad, st) ==
  /\ orderCount' = orderCount + n
  /\ orderSuccess' = orderSuccess + Cardinality(good)
  /\ orderFailed' = orderFailed + Cardinality(bad)
  /\ Publish([type |-> "batch_report", to |-> current.from, status |-> st,
              good |-> good, bad |-> bad])
  /\ Answered(current.ids, good)
  /\ GiveUp
  /\ Finish
  /\ UNCHANGED <<sent, toServer, registry, market, loop, client, cleared, crashes>>

(* One result per order. On Binance the calls that threw (lost) have all   *)
(* their orders reported rejected.                                         *)
ReplyBatch(lost) ==
  /\ stage \in {"called", "executed"} /\ current.kind = "batch_order_request"
  /\ Unheard \subseteq lost
  /\ IF current.venue = Okx THEN lost = {} ELSE lost = {} \/ Calls(current, lost)
  /\ LET good == Accepted \ lost
         bad == Refused \cup lost
     IN FinishBatch(Cardinality(current.ids), good, bad, BatchStatus(good, bad))

(* OKX answers an error for the whole request, with no results: nothing    *)
(* failed, so the report says accepted.                                    *)
ReplyBatchEmpty ==
  /\ stage = "executed" /\ current.kind = "batch_order_request"
  /\ current.venue = Okx /\ Accepted = {}
  /\ FinishBatch(Cardinality(current.ids), {}, {}, BatchStatus({}, {}))

(* OKX, exception: rejected, without results; nothing is counted.          *)
ReplyBatchFailure ==
  /\ stage \in {"called", "executed"} /\ current.kind = "batch_order_request"
  /\ current.venue = Okx
  /\ FinishBatch(0, {}, {}, "rejected")

(* An exception and a refusal give the same report.                        *)
ReplyCancel ==
  /\ stage \in {"called", "executed", "declined"}
  /\ current.kind = "cancel_request"
  /\ \E ok \in {stage = "executed", FALSE} :
       Publish([type |-> "cancel_report", to |-> current.from,
                status |-> IF ok THEN "cancelled" ELSE "rejected",
                good |-> IF ok THEN current.ids ELSE {},
                bad |-> IF ok THEN {} ELSE current.ids])
  /\ GiveUp
  /\ Finish
  /\ UNCHANGED <<sent, toServer, registry, market, loop, client, counters, cleared,
                 answers, acked, crashes>>

-----------------------------------------------------------------------------
(* Strategy: the main loop drains report_sub_ twice per round, first in    *)
(* PyStrategyBase::process_account_reports, which knows every report type  *)
(* and skips other strategies' reports, then in                            *)
(* TradingModule::process_order_reports, which does neither.               *)

Take(s) ==
  /\ inbox[s] # <<>>
  /\ inbox' = [inbox EXCEPT ![s] = Tail(@)]

(* TradingModule::update_order_from_report. The report of a single order   *)
(* carries price and quantity where filled_price and filled_quantity are   *)
(* expected (make_order_report), so both fields read as a complete fill.   *)
UpdateOrder(s, r) ==
  LET mine == {o \in r.good \cup r.bad : owner[o] = s /\ status[o] # "UNKNOWN"}
      new(o) == CASE r.status = "accepted" -> "ACCEPTED"
                  [] r.status = "rejected" -> "REJECTED"
                  [] OTHER -> status[o]
  IN /\ status' = [o \in Orders |-> IF o \in mine THEN new(o) ELSE status[o]]
     /\ filledQty' = [o \in Orders |-> IF o \in mine THEN TRUE ELSE filledQty[o]]

(* Mutant: a rejection that does not name its order.                       *)
OrderOfSuccess(r) ==
  IF r.good = {} THEN NoOrder ELSE CHOOSE o \in r.good : TRUE

(* The order_id of an on_order_report callback made with report r.         *)
OrderOf(r) ==
  IF r.good \cup r.bad = {} THEN NoOrder ELSE CHOOSE o \in r.good \cup r.bad : TRUE

CallBack(s, calls) == seen' = [seen EXCEPT ![s] = @ \cup calls]

(* handle_batch_report: one callback per result, under the key             *)
(* "clientOrderId" the results do not have; active_orders_ is not touched. *)
BatchCallbacks(r) ==
  { [to |-> r.to, type |-> "order_report", status |-> st, order |-> NoOrder] :
      st \in (IF r.good # {} THEN {"filled"} ELSE {})
             \cup (IF r.bad # {} THEN {"rejected"} ELSE {}) }

AsCallback(r) ==
  [to |-> r.to, type |-> r.type, status |-> r.status, order |-> OrderOf(r)]

(* handle_register_report serves both account reports; it can only set     *)
(* account_registered_.                                                    *)
ProcessAccountReport(s) ==
  /\ loop[s] = "account"
  /\ Take(s)
  /\ LET r == Head(inbox[s])
         mine == r.to = s
     IN /\ IF mine /\ r.type = "order_report"
             THEN UpdateOrder(s, r) ELSE UNCHANGED <<status, filledQty>>
        /\ registered' = IF mine /\ r.status = "registered"
                           THEN [registered EXCEPT ![s] = TRUE] ELSE registered
        /\ CallBack(s, IF ~mine THEN {}
                       ELSE IF r.type = "order_report" THEN {AsCallback(r)}
                       ELSE IF r.type = "batch_report" THEN BatchCallbacks(r)
                       ELSE {})
  /\ UNCHANGED <<sent, toServer, server, exchange, loop, owner, venue, batched,
                 counters, cleared, answers, acked, crashes>>

ProcessOrderReport(s) ==
  /\ loop[s] = "orders"
  /\ Take(s)
  /\ LET r == Head(inbox[s])
     IN IF r.type \in {"order_report", "register_report", "unregister_report"}
          THEN UpdateOrder(s, r) /\ CallBack(s, {AsCallback(r)})
          ELSE UNCHANGED <<status, filledQty, seen>>
  /\ UNCHANGED <<sent, toServer, server, exchange, loop, owner, venue, batched,
                 registered, counters, cleared, answers, acked, crashes>>

(* A receive loop ends when the socket is empty; after the second the      *)
(* round goes on with scheduled tasks, on_tick and the market data.        *)
NextLoop(s) ==
  /\ inbox[s] = <<>>
  /\ loop' = [loop EXCEPT ![s] = IF @ = "account" THEN "orders" ELSE "account"]
  /\ UNCHANGED <<sent, toServer, server, exchange, inbox, client, counters, cleared,
                 answers, acked, crashes>>

-----------------------------------------------------------------------------
(* Crashes. A strategy process that dies, or ends on SIGTERM, loses        *)
(* active_orders_ and its sockets: pending reports are gone and so may be  *)
(* what it had not transmitted (a suffix of the pipe); it comes back, if   *)
(* it does, with an empty state.                                           *)
StrategyCrash(s) ==
  /\ crashes < MaxCrashes
  /\ crashes' = crashes + 1
  /\ \E n \in 0 .. Len(toServer[s]) :
       toServer' = [toServer EXCEPT ![s] = SubSeq(@, 1, n)]
  /\ inbox' = [inbox EXCEPT ![s] = <<>>]
  /\ loop' = [loop EXCEPT ![s] = "account"]
  /\ status' = [o \in Orders |-> IF owner[o] = s THEN "UNKNOWN" ELSE status[o]]
  /\ filledQty' = [o \in Orders |-> IF owner[o] = s THEN FALSE ELSE filledQty[o]]
  /\ registered' = [registered EXCEPT ![s] = FALSE]
  /\ seen' = [seen EXCEPT ![s] = {}]
  /\ UNCHANGED <<sent, server, exchange, owner, venue, batched, counters, cleared,
                 answers, acked>>

(* The server loses what it had received (a prefix of each pipe), the call *)
(* in progress, which may still arrive, and its counters; of the accounts  *)
(* it finds again at most those it had. PUSH sockets reconnect and keep    *)
(* the rest. (crash_signal_handler signals the strategies too, which is a *)
(* StrategyCrash later on.)                                                *)
ServerCrash ==
  /\ crashes < MaxCrashes
  /\ crashes' = crashes + 1
  /\ \E lost \in [Strategies -> 0 .. MaxSends] :
       /\ \A s \in Strategies : lost[s] <= Len(toServer[s])
       /\ toServer' = [s \in Strategies |->
                         SubSeq(toServer[s], lost[s] + 1, Len(toServer[s]))]
  /\ \E reloaded \in [Strategies -> SUBSET Venues] :
       /\ \A s \in Strategies : reloaded[s] \subseteq registry[s]
       /\ registry' = reloaded
  /\ IF stage = "idle" THEN UNCHANGED late ELSE GiveUp
  /\ Finish
  /\ orderCount' = 0 /\ orderSuccess' = 0 /\ orderFailed' = 0
  /\ UNCHANGED <<sent, market, inbox, loop, client, cleared, answers, acked>>

-----------------------------------------------------------------------------
Send(s) ==
  \/ \E o \in Orders, v \in Venues : SendOrder(s, o, v)
  \/ \E ids \in SUBSET Orders, v \in Venues : SendBatch(s, ids, v)
  \/ \E o \in Orders : SendCancel(s, o)
  \/ SendCancelAll(s)
  \/ \E v \in Venues : SendRegister(s, v) \/ SendUnregister(s, v)

(* process_order_request                                                   *)
Handle(s) ==
  \/ RejectByRisk(s) \/ RejectNoAccount(s) \/ PlaceOrder(s)
  \/ RejectBatch(s) \/ PlaceBatch(s)
  \/ RejectCancel(s) \/ CallCancel(s)
  \/ DropCancelAll(s)
  \/ \E ok \in BOOLEAN : RegisterAccount(s, ok)
  \/ UnregisterAccount(s)

Exchange ==
  \/ \E acc, ref \in SUBSET Orders : ExchangePlace(acc, ref)
  \/ ExchangeCancel
  \/ \E q \in late, acc \in SUBSET Orders : LandLate(q, acc)
  \/ \E o \in Orders : Fill(o)

(* Mutant: a REST call without a timeout.                                  *)
ReplyWithoutTimeout ==
  \/ ReplyOrder
  \/ \E lost \in SUBSET Orders : ReplyBatch(lost)
  \/ ReplyBatchEmpty \/ ReplyBatchFailure
  \/ ReplyCancel

Reply ==
  \/ ReplyOrder \/ ReplyOrderFailure
  \/ \E lost \in SUBSET Orders : ReplyBatch(lost)
  \/ ReplyBatchEmpty \/ ReplyBatchFailure
  \/ ReplyCancel

Drain(s) == ProcessAccountReport(s) \/ ProcessOrderReport(s) \/ NextLoop(s)

Next ==
  \/ \E s \in Strategies : Send(s) \/ Handle(s) \/ Drain(s) \/ StrategyCrash(s)
  \/ \E s \in Strategies, v \in Venues : LoseAccount(s, v)
  \/ Exchange
  \/ Reply
  \/ ServerCrash

Spec == Init /\ [][Next]_vars

(* The order thread spins while the server runs, the PULL socket           *)
(* fair-queues the strategies, every REST call is bounded by a timeout,    *)
(* and a strategy's main loop runs until it is stopped. Nothing else is    *)
(* fair: strategies need not send, the exchange need not execute, nothing  *)
(* need fill, fail or crash.                                               *)
Fairness ==
  /\ \A s \in Strategies : SF_vars(Handle(s))
  /\ WF_vars(Reply)
  /\ \A s \in Strategies : WF_vars(Drain(s))

FairSpec == Spec /\ Fairness

-----------------------------------------------------------------------------
(* Properties.                                                             *)

(* Every variable has its type.                                            *)
TypeOK ==
  /\ sent \in Nat
  /\ toServer \in [Strategies -> Seq(Request)]
  /\ current \in Request \cup {NoRequest}
  /\ stage \in Stages
  /\ registry \in [Strategies -> SUBSET Venues]
  /\ market \in [Orders -> MarketStates]
  /\ late \subseteq Request
  /\ inbox \in [Strategies -> Seq(Report)]
  /\ loop \in [Strategies -> {"account", "orders"}]
  /\ owner \in [Orders -> Strategies \cup {NoStrategy}]
  /\ venue \in [Orders -> Venues]
  /\ batched \subseteq Orders
  /\ status \in [Orders -> OrderStatuses]
  /\ filledQty \in [Orders -> BOOLEAN]
  /\ registered \in [Strategies -> BOOLEAN]
  /\ seen \in [Strategies -> SUBSET Callback]
  /\ orderCount \in Nat /\ orderSuccess \in Nat /\ orderFailed \in Nat
  /\ cleared \subseteq Orders
  /\ answers \in [Orders -> Nat]
  /\ acked \subseteq Orders
  /\ crashes \in Nat

(* At most one answer is published for an order, however its requests are  *)
(* delayed, its calls time out or the server restarts (order_thread hands  *)
(* each received request to process_order_request once).                   *)
AtMostOneAnswer == \A o \in Orders : answers[o] <= 1

(* An order a strategy's active_orders_ shows ACCEPTED is on the books of  *)
(* OKX, although the report crossed two processes, was broadcast and may   *)
(* have been drained by either receive loop.                               *)
AcceptedIsReal ==
  \A o \in Orders : status[o] = "ACCEPTED" => market[o] \in Placed /\ venue[o] = Okx

(* What reaches the exchange as a single order has passed                  *)
(* check_order_with_value before, late calls included.                     *)
SingleOrdersRiskChecked ==
  \A o \in Orders : market[o] # "none" => o \in cleared \cup batched

InFlight == IF current.kind = "order_request" THEN 1 ELSE 0

(* g_order_count is never behind the outcomes counted, the order in flight *)
(* included, across single orders, both batch paths and their failures.    *)
CountersAgree == orderSuccess + orderFailed + InFlight <= orderCount

(* The order path keeps the promise of OrderContract.                      *)
Contract == INSTANCE OrderContract WITH
              asked <- {o \in Orders : owner[o] # NoStrategy}
KeepsContract == Contract!Spec

(* Until it is answered an order that was sent is not lost sight of: it    *)
(* waits in a request that its strategy has pushed, or in the one the      *)
(* order thread is calling the exchange for, unless a process died. No     *)
(* return from process_order_request leaves it behind unanswered.          *)
Places(q, o) == q.kind \in PlaceKinds /\ o \in q.ids
OrderWaits ==
  \A o \in Orders :
    owner[o] # NoStrategy /\ answers[o] = 0 /\ crashes = 0 =>
      \/ \E i \in DOMAIN toServer[owner[o]] : Places(toServer[owner[o]][i], o)
      \/ Places(current, o)

(* An order sent is answered, unless a process dies: it waits, the order   *)
(* thread comes round to it, and the REST call is bounded.                 *)
EveryOrderAnswered ==
  /\ []OrderWaits
  /\ \A o \in Orders : (owner[o] # NoStrategy) ~> (answers[o] = 1 \/ crashes > 0)

Reported(o) ==
  \E i \in DOMAIN inbox[owner[o]] :
    LET r == inbox[owner[o]][i]
    IN  r.type = "order_report" /\ r.to = owner[o] /\ r.good \cup r.bad = {o}
Learned(o) == \E c \in seen[owner[o]] : c.order = o

(* The answer to a single order reaches the strategy that sent it, if its  *)
(* subscription has room: the report names that strategy and that order,   *)
(* and leaves the queue only with an on_order_report callback, whichever   *)
(* of the two receive loops takes it, unless a process dies.               *)
ReportKept ==
  [][\A o \in Orders \ batched :
       owner[o] # NoStrategy /\ crashes' = 0 =>
         /\ answers'[o] # answers[o] /\ Len(inbox[owner[o]]) < Capacity => Reported(o)'
         /\ Reported(o) => Reported(o)' \/ Learned(o)']_vars

(* The strategy that sent a single order gets an on_order_report callback  *)
(* for it, unless a process dies.                                          *)
StrategyLearns ==
  /\ ReportKept
  /\ \A o \in Orders :
       (owner[o] # NoStrategy /\ o \notin batched)
         ~> (owner[o] # NoStrategy /\ Learned(o)) \/ crashes > 0
=============================================================================
