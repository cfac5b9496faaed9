------------------------------- MODULE OkxFeed -------------------------------
(***************************************************************************)
(* The feed of OKX candles: OKXWebSocket on top of WebSocketClient, with   *)
(* its reconnect monitor and heartbeat threads, and the subscription       *)
(* thread that counts what strategies ask for.                             *)
(*                                                                         *)
(* The behaviour starts when main's first connect has returned true and    *)
(* main has subscribed MainKlines. One step of the monitor is what it does *)
(* between two sleeps, waits or joins; a callback's stores are one step,   *)
(* and so are the send and the record of a subscription, since a reconnect *)
(* that could fall between them sleeps for seconds.                        *)
(***************************************************************************)
EXTENDS WsClient, Sequences, FiniteSets, FiniteSetsExt, SequencesExt

CONSTANTS
  Klines,       \* "symbol:interval"
  MainKlines,   \* those main subscribes at start-up
  Strategies,
  MaxRequests   \* bound: (un)subscriptions sent by strategies

ASSUME KlineAssumption == MainKlines \subseteq Klines
ASSUME RequestBound == MaxRequests \in Nat

VARIABLES
  connected, running, need, enabled,  \* the adapter's atomics
  heart,        \* the heartbeat thread runs
  monitor,      \* where the reconnect monitor is
  batch,        \* channels_to_subscribe of resubscribe_all
  main,         \* where disconnect is
  recorded,     \* keys of subscriptions_
  remote,       \* [c] what the exchange sends on connection c
  refs,         \* [k] g_okx_kline_ref_count, 0 where there is no key
  subscribed,   \* g_subscribed_klines
  wants,        \* [s] subscribed_klines_ of the strategy
  requests,     \* [s] its messages to the subscription thread
  asked,        \* requests sent so far
  misused       \* history: a strategy unsubscribed what it did not have

adapterVars == <<connected, running, need, enabled, heart, monitor, batch, main>>
subVars == <<refs, subscribed, wants, requests, asked, misused>>
vars == <<wsVars, adapterVars, recorded, remote, subVars>>

Request == [action: {"subscribe", "unsubscribe"}, kline: Klines]

MonitorStates ==
  {"watch", "clear", "sleep", "connect", "wait", "mark", "join", "beat",
   "collect", "resend", "exited"}

TypeOK ==
  /\ WsTypeOK
  /\ connected \in BOOLEAN /\ running \in BOOLEAN /\ need \in BOOLEAN
  /\ enabled \in BOOLEAN /\ heart \in BOOLEAN
  /\ monitor \in MonitorStates
  /\ batch \subseteq Klines
  /\ main \in {"run", "joinMonitor", "joinHeart", "done"}
  /\ recorded \subseteq Klines
  /\ remote \in [Conns -> SUBSET Klines]
  /\ refs \in [Klines -> Nat]
  /\ subscribed \subseteq Klines
  /\ wants \in [Strategies -> SUBSET Klines]
  /\ requests \in [Strategies -> Seq(Request)]
  /\ asked \in 0 .. MaxRequests /\ misused \in BOOLEAN

Init ==
  /\ WsInit
  /\ connected = TRUE /\ running = TRUE /\ need = FALSE /\ enabled = TRUE
  /\ heart = TRUE
  /\ monitor = "watch"
  /\ batch = {}
  /\ main = "run"
  /\ recorded = MainKlines
  /\ remote = [c \in Conns |-> IF c = current THEN MainKlines ELSE {}]
  /\ refs = [k \in Klines |-> 0]
  /\ subscribed = MainKlines
  /\ wants = [s \in Strategies |-> {}]
  /\ requests = [s \in Strategies |-> <<>>]
  /\ asked = 0 /\ misused = FALSE

-----------------------------------------------------------------------------
(* The network and the IO thread.                                          *)

Open(c) == Opened(c) /\ UNCHANGED <<adapterVars, recorded, remote, subVars>>

Lose(c) ==
  /\ Failed(c) \/ Dropped(c) \/ Closed(c)
  /\ remote' = [remote EXCEPT ![c] = {}]
  /\ UNCHANGED <<adapterVars, recorded, subVars>>

(* The close or fail callback, if it is set.                               *)
Callback ==
  /\ handling
  /\ handling' = FALSE
  /\ IF hooked
     THEN /\ connected' = FALSE /\ running' = FALSE
          /\ need' = (need \/ enabled)
     ELSE UNCHANGED <<connected, running, need>>
  /\ UNCHANGED <<conn, current, up, hooked, troubles, enabled, heart, monitor, batch,
                 main, recorded, remote, subVars>>

(* The heartbeat thread leaves its loop.                                   *)
HeartbeatEnds ==
  /\ heart /\ ~running
  /\ heart' = FALSE
  /\ UNCHANGED <<wsVars, connected, running, need, enabled, monitor, batch, main,
                 recorded, remote, subVars>>

-----------------------------------------------------------------------------
(* The reconnect monitor.                                                  *)

Goto(from, to) == monitor = from /\ monitor' = to

(* A step after a sleep of half a second or more: by then the IO thread    *)
(* has finished a handler it was in.                                       *)
GotoAfterSleep(from, to) == ~handling /\ Goto(from, to)

(* Every second: is a reconnect needed?                                    *)
Watch ==
  /\ enabled /\ need
  /\ GotoAfterSleep("watch", "clear")
  /\ need' = FALSE
  /\ UNCHANGED <<wsVars, connected, running, enabled, heart, batch, main, recorded,
                 remote, subVars>>

ExitMonitor ==
  /\ ~enabled
  /\ GotoAfterSleep("watch", "exited")
  /\ UNCHANGED <<wsVars, connected, running, need, enabled, heart, batch, main,
                 recorded, remote, subVars>>

(* The callbacks are cleared, and set again three seconds later.           *)
SetHooks(set) ==
  /\ hooked' = set
  /\ UNCHANGED <<conn, current, up, handling, troubles, connected, running, need, enabled,
                 heart, batch, main, recorded, remote, subVars>>

ClearCallbacks == Goto("clear", "sleep") /\ SetHooks(FALSE)
SetCallbacks == GotoAfterSleep("sleep", "connect") /\ SetHooks(TRUE)

Connect ==
  /\ Goto("connect", "wait")
  /\ StartConnect
  /\ UNCHANGED <<connected, running, need, enabled, heart, batch, main, recorded, remote,
                 subVars>>

ConnectSucceeds ==
  /\ up
  /\ Goto("wait", "mark")
  /\ UNCHANGED <<wsVars, connected, running, need, enabled, heart, batch, main, recorded,
                 remote, subVars>>

(* Mutant: nothing asks for another attempt.                               *)
ConnectFailsOnce ==
  /\ Goto("wait", "watch")
  /\ WaitFailed
  /\ UNCHANGED <<connected, running, need, enabled, heart, batch, main, recorded, remote, subVars>>

ConnectFails ==
  /\ Goto("wait", "watch")
  /\ WaitFailed
  /\ need' = TRUE
  /\ UNCHANGED <<connected, running, enabled, heart, batch, main, recorded, remote, subVars>>

MarkConnected ==
  /\ Goto("mark", "join")
  /\ connected' = TRUE
  /\ UNCHANGED <<wsVars, running, need, enabled, heart, batch, main, recorded, remote, subVars>>

(* heartbeat_thread_->join() returns when the old thread has ended.        *)
JoinHeartbeat ==
  /\ GotoAfterSleep("join", "beat")
  /\ ~heart
  /\ UNCHANGED <<wsVars, connected, running, need, enabled, heart, batch, main, recorded,
                 remote, subVars>>

StartHeartbeat ==
  /\ Goto("beat", "collect")
  /\ running' = TRUE /\ heart' = TRUE
  /\ UNCHANGED <<wsVars, connected, need, enabled, batch, main, recorded, remote, subVars>>

(* resubscribe_all: a copy of subscriptions_ under its mutex, then one     *)
(* message that is recorded if it could be sent.                           *)
Collect ==
  /\ GotoAfterSleep("collect", "resend")
  /\ batch' = recorded
  /\ UNCHANGED <<wsVars, connected, running, need, enabled, heart, main, recorded, remote,
                 subVars>>

Sendable == connected /\ CanSend

SendSubscribe(ks) ==
  IF Sendable
  THEN /\ recorded' = recorded \cup ks
       /\ remote' = [remote EXCEPT ![current] = @ \cup ks]
  ELSE UNCHANGED <<recorded, remote>>

SendUnsubscribe(k) ==
  IF Sendable
  THEN /\ recorded' = recorded \ {k}
       /\ remote' = [remote EXCEPT ![current] = @ \ {k}]
  ELSE UNCHANGED <<recorded, remote>>

Resend ==
  /\ Goto("resend", "watch")
  /\ SendSubscribe(batch)
  /\ batch' = {}
  /\ UNCHANGED <<wsVars, connected, running, need, enabled, heart, main, subVars>>

Monitor ==
  \/ Watch \/ ExitMonitor \/ ClearCallbacks \/ SetCallbacks
  \/ Connect \/ ConnectSucceeds \/ ConnectFails
  \/ MarkConnected \/ JoinHeartbeat \/ StartHeartbeat \/ Collect \/ Resend

-----------------------------------------------------------------------------
(* disconnect, called by main when the server stops if the feed is         *)
(* connected, and by the adapter's destructor at the end if it is not.     *)

Disconnect ==
  /\ main = "run" /\ main' = "joinMonitor"
  /\ enabled' = FALSE /\ need' = FALSE /\ running' = FALSE /\ connected' = FALSE
  /\ UNCHANGED <<wsVars, heart, monitor, batch, recorded, remote, subVars>>

JoinMonitor ==
  /\ main = "joinMonitor" /\ main' = "joinHeart"
  /\ monitor = "exited"
  /\ UNCHANGED <<wsVars, connected, running, need, enabled, heart, monitor, batch, recorded,
                 remote, subVars>>

(* The client is shut down with its connections.                           *)
JoinHeart ==
  /\ main = "joinHeart" /\ main' = "done"
  /\ ~heart
  /\ conn' = [c \in Conns |-> "unused"]
  /\ current' = NoConn
  /\ up' = FALSE /\ hooked' = FALSE /\ handling' = FALSE
  /\ remote' = [c \in Conns |-> {}]
  /\ UNCHANGED <<troubles, connected, running, need, enabled, heart, monitor, batch, recorded,
                 subVars>>

-----------------------------------------------------------------------------
(* Strategies: every call sends its message, whatever is subscribed; a     *)
(* process that dies does not unsubscribe.                                 *)

Ask(s, action, k) ==
  /\ asked < MaxRequests
  /\ asked' = asked + 1
  /\ requests' = [requests EXCEPT ![s] = Append(@, [action |-> action, kline |-> k])]
  /\ UNCHANGED <<wsVars, adapterVars, recorded, remote, refs, subscribed>>

AskSubscribe(s, k) ==
  /\ wants' = [wants EXCEPT ![s] = @ \cup {k}]
  /\ UNCHANGED misused
  /\ Ask(s, "subscribe", k)

AskUnsubscribe(s, k) ==
  /\ wants' = [wants EXCEPT ![s] = @ \ {k}]
  /\ misused' = (misused \/ k \notin wants[s])
  /\ Ask(s, "unsubscribe", k)

StrategyDies(s) ==
  /\ wants[s] # {}
  /\ wants' = [wants EXCEPT ![s] = {}]
  /\ UNCHANGED <<wsVars, adapterVars, recorded, remote, refs, subscribed, requests, asked, misused>>

(* Mutant: main's own subscription is not counted.                         *)
HandleSubscribeFirst(k) ==
  /\ refs' = [refs EXCEPT ![k] = @ + 1]
  /\ subscribed' = subscribed \cup {k}
  /\ IF k \notin subscribed THEN SendSubscribe({k}) ELSE UNCHANGED <<recorded, remote>>

(* handle_subscription: a count that starts at one, or at two if main has  *)
(* the candle already.                                                     *)
HandleSubscribe(k) ==
  /\ refs' = [refs EXCEPT ![k] = IF @ = 0 /\ k \in subscribed THEN 2 ELSE @ + 1]
  /\ subscribed' = subscribed \cup {k}
  /\ IF refs[k] = 0 /\ k \notin subscribed
     THEN SendSubscribe({k}) ELSE UNCHANGED <<recorded, remote>>

(* Without a count the candle is main's and is left alone.                 *)
HandleUnsubscribe(k) ==
  /\ refs' = [refs EXCEPT ![k] = IF @ = 0 THEN 0 ELSE @ - 1]
  /\ IF refs[k] = 1
     THEN SendUnsubscribe(k) /\ subscribed' = subscribed \ {k}
     ELSE UNCHANGED <<recorded, remote, subscribed>>

HandleSubscription(s) ==
  /\ main # "done"
  /\ requests[s] # <<>>
  /\ requests' = [requests EXCEPT ![s] = Tail(@)]
  /\ LET request == Head(requests[s])
     IN IF request.action = "subscribe" THEN HandleSubscribe(request.kline)
        ELSE HandleUnsubscribe(request.kline)
  /\ UNCHANGED <<wsVars, adapterVars, wants, asked, misused>>

-----------------------------------------------------------------------------
Next ==
  \/ \E c \in Conns : Open(c) \/ Lose(c)
  \/ Callback \/ HeartbeatEnds
  \/ Monitor
  \/ Disconnect \/ JoinMonitor \/ JoinHeart
  \/ \E s \in Strategies :
       \/ \E k \in Klines : AskSubscribe(s, k) \/ AskUnsubscribe(s, k)
       \/ StrategyDies(s)
       \/ HandleSubscription(s)

Spec == Init /\ [][Next]_vars

(* The threads run, an attempt that is not in trouble opens, and a close   *)
(* that was asked for completes. The network need not fail, nobody need    *)
(* subscribe and the server need not stop.                                 *)
Fairness ==
  /\ \A c \in Conns : WF_vars(Settles(c) /\ (Open(c) \/ Lose(c)))
  /\ WF_vars(Callback) /\ WF_vars(HeartbeatEnds) /\ WF_vars(Monitor)
  /\ WF_vars(JoinMonitor) /\ WF_vars(JoinHeart)
  /\ \A s \in Strategies : WF_vars(HandleSubscription(s))

FairSpec == Spec /\ Fairness

-----------------------------------------------------------------------------
(* A feed that is down while the monitor is at its loop is owed a          *)
(* reconnect: no drop, failure or late event of an old attempt gets lost   *)
(* between the callbacks' stores and the monitor clearing the flag.        *)
DropNoticed == monitor = "watch" /\ enabled /\ ~up /\ ~handling => need

(* Once the network leaves the feed alone, it is connected for good unless *)
(* it is told to stop, whatever attempts and threads are still in flight.  *)
BackOnline == <>[](enabled => up /\ connected)

Pending(s, k) == \E i \in DOMAIN requests[s] : requests[s][i].kline = k

(* As long as strategies unsubscribe only what they have (the counts are   *)
(* of messages, not of strategies), a candle that a strategy or main has   *)
(* subscribed is not taken off the exchange by the unsubscriptions, double *)
(* subscriptions, ends and restarts of other strategies.                   *)
NotCutOff ==
  ~misused =>
    /\ MainKlines \subseteq subscribed
    /\ \A s \in Strategies : \A k \in wants[s] : Pending(s, k) \/ k \in subscribed

-----------------------------------------------------------------------------
(* What the repository says of the feed.                                   *)

(* okx_websocket.h: after a reconnect all channels are subscribed again.   *)
(* In the end everything recorded arrives on the current connection.       *)
DataResumes == <>[](enabled => current # NoConn /\ recorded \subseteq remote[current])
=============================================================================
