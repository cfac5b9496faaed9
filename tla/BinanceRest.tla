------------------------------ MODULE BinanceRest ------------------------------
(***************************************************************************)
(* Signed requests of one Binance account. A request carries a timestamp,  *)
(* the local clock corrected by time_offset_ms_; the exchange refuses one  *)
(* that is too old when it arrives, or too far ahead. The offset is taken  *)
(* when the account's BinanceRestAPI is constructed, and again only when a *)
(* strategy's query for its positions is refused or answered with none.    *)
(*                                                                         *)
(* The order thread places orders and asks for positions, the account      *)
(* monitor polls; both use the one object. Times are in ticks of the       *)
(* exchange's clock; the local clock moves against it now and then.        *)
(***************************************************************************)
EXTENDS Integers

CONSTANTS
  RecvWindow,   \* recvWindow: how old a request may be
  Ahead,        \* how far ahead of the exchange's clock it may not be
  Timeout,      \* CURLOPT_TIMEOUT
  Prompt,       \* what a request takes when the network is in no trouble
  Skews,        \* what the clocks may differ by at the start
  MaxMoves,     \* bound: moves of the local clock
  MaxSlow       \* bound: requests that are slow or fail

ASSUME WindowAssumption ==
  /\ RecvWindow \in Nat /\ Ahead \in Nat /\ Timeout \in Nat /\ Prompt \in 0..Timeout
  /\ Skews \subseteq Int /\ MaxMoves \in Nat /\ MaxSlow \in Nat

(* A prompt synchronisation and a prompt request fit the windows.          *)
ASSUME PromptAssumption ==
  (Prompt + 1) \div 2 + Prompt <= RecvWindow /\ (Prompt + 1) \div 2 < Ahead

Threads == {"order", "monitor"}
MaxRetries == 2

VARIABLES
  skew,      \* the exchange's clock less the local one
  offset,    \* time_offset_ms_
  thread,    \* [t] what a thread is doing
  synced,    \* history: the last synchronisation, and the moves since it began
  disturbed, \* history: the network or the clock was in trouble during the query
  reported,  \* what the last query for positions was answered
  moves, slow

restVars == <<skew, offset, thread, synced, disturbed, reported, moves, slow>>

(* doing: the call; at: its request; signed, lead: how it is stamped, ahead *)
(* of the exchange by lead; slack: history, how far lead may be off;       *)
(* elapsed, reading: of a synchronisation, on the local clock; age: ticks  *)
(* since the request left; first, retry: of query_positions_once.          *)
Nothing == [doing |-> "nothing", at |-> "idle", signed |-> FALSE, lead |-> 0, slack |-> 0,
            elapsed |-> 0, reading |-> 0, age |-> 0, moved |-> 0, first |-> FALSE, retry |-> 0]
Unsynced == [known |-> FALSE, moved |-> 0, trip |-> 0]

Magnitude(n) == IF n < 0 THEN -n ELSE n
Slack == synced.moved + (synced.trip + 1) \div 2

(* The constructor asks for the time before there is anything else.        *)
Construct == [Nothing EXCEPT !.doing = "construct", !.at = "ask"]

RestInit ==
  /\ skew \in Skews /\ offset = 0
  /\ thread = [t \in Threads |-> IF t = "order" THEN Construct ELSE Nothing]
  /\ synced = Unsynced /\ disturbed = FALSE /\ reported = "nothing"
  /\ moves = 0 /\ slow = 0

(* A request that is to be sent.                                           *)
Ready(th, signed) == [Nothing EXCEPT !.doing = th.doing, !.at = "ready", !.signed = signed,
                                     !.first = th.first, !.retry = th.retry]

Constructed == thread["order"].doing # "construct"
Flying(t) == thread[t].at \in {"ask", "told", "out"}
Synchronising(t) == thread[t].at \in {"ask", "told"}
Goes(t, new) == thread' = [thread EXCEPT ![t] = new]
Troubles(t) == slow < MaxSlow /\ slow' = slow + 1 /\ disturbed' = (disturbed \/ t = "order")

-----------------------------------------------------------------------------
(* Time, and the clocks.                                                   *)

Late(t) == Flying(t) /\ thread[t].age >= Prompt
TimeTicks ==
  /\ \E t \in Threads : Flying(t)
  /\ \A t \in Threads : Flying(t) => thread[t].age < Timeout
  /\ IF Late("order") THEN Troubles("order")
     ELSE IF Late("monitor") THEN Troubles("monitor")
     ELSE UNCHANGED <<slow, disturbed>>
  /\ thread' = [t \in Threads |->
       [thread[t] EXCEPT !.age = @ + (IF Flying(t) THEN 1 ELSE 0),
                         !.elapsed = @ + (IF Synchronising(t) THEN 1 ELSE 0)]]
  /\ UNCHANGED <<skew, offset, synced, reported, moves>>

(* The local clock is corrected, or drifts by a tick.                      *)
ClockMoves(d) ==
  /\ moves < MaxMoves /\ moves' = moves + 1
  /\ skew' = skew + d
  /\ thread' = [t \in Threads |->
       IF Synchronising(t) THEN [thread[t] EXCEPT !.elapsed = @ - d, !.moved = @ + 1]
       ELSE thread[t]]
  /\ synced' = [synced EXCEPT !.moved = IF synced.known THEN @ + 1 ELSE @]
  /\ disturbed' = TRUE
  /\ UNCHANGED <<offset, reported, slow>>

-----------------------------------------------------------------------------
(* sync_server_time, whose request is not signed.                          *)

(* The exchange reads its clock; the reading is kept from local_before on. *)
GetServerTime(t) ==
  /\ thread[t].at = "ask"
  /\ Goes(t, [thread[t] EXCEPT !.at = "told", !.reading = skew + thread[t].elapsed])
  /\ UNCHANGED <<skew, offset, synced, disturbed, reported, moves, slow>>

OffsetOf(th) == th.reading - th.elapsed \div 2

(* Then the constructor is done, and a query asks for the positions.       *)
SyncServerTime(t) ==
  /\ thread[t].at = "told"
  /\ offset' = OffsetOf(thread[t])
  /\ synced' = [known |-> TRUE, moved |-> thread[t].moved, trip |-> thread[t].age]
  /\ Goes(t, IF Constructed THEN Ready(thread[t], TRUE) ELSE Nothing)
  /\ UNCHANGED <<skew, disturbed, reported, moves, slow>>

-----------------------------------------------------------------------------
(* Requests.                                                               *)

StreamCalls == {"create_listen_key", "keepalive_listen_key"}
MarketCalls == {"ping", "exchangeInfo", "depth", "trades", "klines", "ticker",
                "fundingRate", "premiumIndexKlines"}
OrderCalls == {"place_order", "cancel_order", "get_order", "get_open_orders",
               "get_all_orders", "cancel_all_orders", "place_batch_orders"}
AccountCalls == {"get_account_balance", "get_account_info", "get_positions",
                 "change_leverage", "change_margin_type", "change_position_mode",
                 "get_position_mode"}
Signed(c) == c \in OrderCalls \cup AccountCalls

CallBegins(t) ==
  /\ Constructed /\ thread[t].doing = "nothing"
  /\ \E c \in StreamCalls \cup MarketCalls \cup OrderCalls \cup AccountCalls :
       Goes(t, Ready([Nothing EXCEPT !.doing = "call"], Signed(c)))
  /\ UNCHANGED <<skew, offset, synced, disturbed, reported, moves, slow>>

(* By how much the timestamp is ahead of the local clock.                  *)
GetTimestamp == offset

(* recvWindow, the timestamp and the signature go into the query string.   *)
SendRequest(t) ==
  /\ thread[t].at = "ready"
  /\ Goes(t, [thread[t] EXCEPT !.at = "out",
                !.lead = IF thread[t].signed THEN GetTimestamp - skew ELSE 0,
                !.slack = IF synced.known THEN Slack ELSE -1])
  /\ UNCHANGED <<skew, offset, synced, disturbed, reported, moves, slow>>

(* -1021: too old, or too far ahead.                                       *)
Refused(th) ==
  th.signed /\ (th.age - th.lead > RecvWindow \/ th.lead - th.age >= Ahead)

(* A call is answered, or throws.                                          *)
CallEnds(t) ==
  /\ thread[t].at = "out" /\ thread[t].doing = "call"
  /\ Goes(t, Nothing)
  /\ UNCHANGED <<skew, offset, synced, disturbed, reported, moves, slow>>

(* A constructor that could not synchronise goes on without.               *)
CallFails(t) ==
  /\ Flying(t) /\ thread[t].doing # "query"
  /\ Troubles(t)
  /\ Goes(t, Nothing)
  /\ UNCHANGED <<skew, offset, synced, reported, moves>>

-----------------------------------------------------------------------------
(* process_query_positions, in the order thread.                           *)

Querying == thread["order"].doing = "query"

QueryBegins ==
  /\ Constructed /\ thread["order"].doing = "nothing"
  /\ Goes("order", Ready([Nothing EXCEPT !.doing = "query"], TRUE))
  /\ disturbed' = FALSE /\ reported' = "nothing"
  /\ UNCHANGED <<skew, offset, synced, moves, slow>>

QueryEnds(with) == Goes("order", Nothing) /\ reported' = with
Once(again) ==
  /\ Goes("order", [Nothing EXCEPT !.doing = "query", !.at = "ask", !.first = TRUE, !.retry = again])
  /\ UNCHANGED reported

(* An answer without positions is doubted while the monitor's copy has     *)
(* some; in the end that copy is reported.                                 *)
NextRetry(th) == IF th.retry < MaxRetries THEN Once(th.retry + 1) ELSE QueryEnds("positions")
AttemptFails(th) == IF th.retry = 0 THEN QueryEnds("error") ELSE NextRetry(th)
(* Mutant: a refused query is not tried again.                             *)
AttemptRefusedOnce(th) == IF th.retry = 0 THEN QueryEnds("error") ELSE NextRetry(th)
AttemptRefused(th) == IF th.first THEN AttemptFails(th) ELSE Once(th.retry)

QueryAnswered ==
  /\ Querying /\ thread["order"].at = "out"
  /\ LET th == thread["order"]
     IN  IF Refused(th) THEN AttemptRefused(th) ELSE QueryEnds("positions") \/ NextRetry(th)
  /\ UNCHANGED <<skew, offset, synced, disturbed, moves, slow>>

QueryFails ==
  /\ Querying /\ Flying("order")
  /\ Troubles("order")
  /\ AttemptFails(thread["order"])
  /\ UNCHANGED <<skew, offset, synced, moves>>

-----------------------------------------------------------------------------
RestNext ==
  \/ TimeTicks \/ \E d \in {-1, 1} : ClockMoves(d)
  \/ \E t \in Threads :
       \/ GetServerTime(t) \/ SyncServerTime(t)
       \/ CallBegins(t) \/ SendRequest(t) \/ CallEnds(t) \/ CallFails(t)
  \/ QueryBegins \/ QueryAnswered \/ QueryFails

RestSpec == RestInit /\ [][RestNext]_restVars

-----------------------------------------------------------------------------
RestTypeOK ==
  /\ skew \in Int /\ offset \in Int
  /\ thread \in [Threads ->
       [doing: {"nothing", "construct", "call", "query"},
        at: {"idle", "ask", "told", "ready", "out"},
        signed: BOOLEAN, lead: Int, slack: Int, elapsed: Int, reading: Int,
        age: 0..Timeout, moved: 0..MaxMoves, first: BOOLEAN, retry: 0..MaxRetries]]
  /\ synced \in [known: BOOLEAN, moved: 0..MaxMoves, trip: 0..Timeout]
  /\ disturbed \in BOOLEAN /\ reported \in {"nothing", "positions", "error"}
  /\ moves \in 0..MaxMoves /\ slow \in 0..MaxSlow

(* The offset is as good as one exchange of messages allows, however the   *)
(* two legs differ and whatever the clocks do meanwhile and later: off by  *)
(* no more than half the round trip and the moves since it began           *)
(* (sync_server_time halves integers, on the local clock).                 *)
OffsetWithinHalfTrip ==
  synced.known => Magnitude(offset - skew) <= Slack

(* A signed request is refused for its timestamp only when the last        *)
(* synchronisation was slow, the clocks have moved since it, or the        *)
(* request took long itself; also when another thread synchronises between *)
(* its stamping and its arrival.                                           *)
RefusedExplained ==
  \A t \in Threads : LET th == thread[t] IN
    th.at = "out" /\ th.slack >= 0 /\ Refused(th) =>
      th.slack + th.age > RecvWindow \/ th.slack >= Ahead

(* A query for positions reports an error only when the network or the     *)
(* clock was in trouble during it: an offset gone stale long before is     *)
(* found out and repaired by the query itself (query_positions_once).      *)
QueryErrsInTroubleOnly == reported = "error" => disturbed

(* Requests are refused, and queries fail, only for troubles of their own  *)
(* time, and the offset is as good as they need it.                        *)
ClockTroubleOnly == OffsetWithinHalfTrip /\ RefusedExplained /\ QueryErrsInTroubleOnly
=============================================================================
