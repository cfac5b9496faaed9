----------------------------- MODULE BinanceFeed -----------------------------
(***************************************************************************)
(* One batch of Binance candle streams: BinanceWebSocket with its          *)
(* reconnect monitor on top of WebSocketClient, and main's health thread,  *)
(* which throws the adapter away and builds another when no candle has     *)
(* closed for two minutes. The streams are part of the URL, so that every  *)
(* connection has them from the start.                                     *)
(*                                                                         *)
(* The behaviour starts with the first build, which main makes before the  *)
(* health thread is there; later ones are the health thread's. One step of *)
(* a thread is what it does between two sleeps, waits or joins.            *)
(***************************************************************************)
EXTENDS WsClient

VARIABLES
  connected, need, enabled,  \* the adapter's atomics
  monitor,    \* where its reconnect monitor is
  kept,       \* state.ws holds the adapter
  builder,    \* where the health thread (at first: main) is
  stale,      \* the last closed candle is older than stale_ms
  silent,     \* connections on which the exchange sends no more
  main        \* where the end of main is

flags == <<connected, need, enabled>>
batchVars == <<kept, builder, stale, main>>
vars == <<wsVars, flags, monitor, batchVars, silent>>

TypeOK ==
  /\ WsTypeOK
  /\ connected \in BOOLEAN /\ need \in BOOLEAN /\ enabled \in BOOLEAN
  /\ monitor \in {"none", "watch", "pause", "clear", "sleep", "connect", "wait", "mark",
                  "exited"}
  /\ kept \in BOOLEAN
  /\ builder \in {"build", "connect", "wait", "mark", "idle", "join"}
  /\ stale \in BOOLEAN
  /\ silent \subseteq Conns
  /\ main \in {"run", "joinHealth", "disconnect", "joinMonitor", "done"}

Init ==
  /\ conn = [c \in Conns |-> "unused"]
  /\ current = NoConn
  /\ up = FALSE /\ handling = FALSE /\ hooked = FALSE
  /\ troubles = 0
  /\ connected = FALSE /\ need = FALSE /\ enabled = FALSE
  /\ monitor = "none"
  /\ kept = FALSE
  /\ builder = "build"
  /\ stale = FALSE
  /\ silent = {}
  /\ main = "run"

-----------------------------------------------------------------------------
(* The network and the IO thread.                                          *)

Open(c) == Opened(c) /\ UNCHANGED <<flags, monitor, batchVars, silent>>

Lose(c) ==
  /\ Failed(c) \/ Dropped(c) \/ Closed(c)
  /\ silent' = silent \ {c}
  /\ UNCHANGED <<flags, monitor, batchVars>>

(* The exchange stops sending and the connection stays open.               *)
Stall(c) ==
  /\ conn[c] = "open" /\ c \notin silent
  /\ Trouble
  /\ silent' = silent \cup {c}
  /\ UNCHANGED <<conn, current, up, handling, hooked, flags, monitor, batchVars>>

(* The close or fail callback, if it is set.                               *)
Callback ==
  /\ handling
  /\ handling' = FALSE
  /\ IF hooked THEN connected' = FALSE /\ need' = (need \/ enabled)
               ELSE UNCHANGED <<connected, need>>
  /\ UNCHANGED <<conn, current, up, hooked, troubles, enabled, monitor, batchVars, silent>>

(* Any open connection's messages go to the client's one callback.         *)
Delivering == hooked /\ \E c \in Conns : conn[c] = "open" /\ c \notin silent

(* A candle closes: last_kline_ms.                                         *)
Candle ==
  /\ Delivering /\ stale
  /\ stale' = FALSE
  /\ UNCHANGED <<wsVars, flags, monitor, kept, builder, silent, main>>

(* Two minutes have passed without one.                                    *)
Silence ==
  /\ ~Delivering /\ ~stale
  /\ stale' = TRUE
  /\ UNCHANGED <<wsVars, flags, monitor, kept, builder, silent, main>>

-----------------------------------------------------------------------------
(* The reconnect monitor.                                                  *)

Goto(from, to) == monitor = from /\ monitor' = to

(* After a sleep the IO thread has finished a handler it was in.           *)
GotoAfterSleep(from, to) == ~handling /\ Goto(from, to)

(* The condition variable is signalled, or half a second has passed.       *)
Watch ==
  /\ enabled /\ need
  /\ Goto("watch", "pause")
  /\ UNCHANGED <<wsVars, flags, batchVars, silent>>

(* Mutant: a pending request for a reconnect keeps the monitor going.      *)
ExitMonitorServed ==
  /\ ~enabled /\ ~need
  /\ Goto("watch", "exited") \/ Goto("pause", "exited")
  /\ UNCHANGED <<wsVars, flags, batchVars, silent>>

ExitMonitor ==
  /\ ~enabled
  /\ Goto("watch", "exited") \/ Goto("pause", "exited")
  /\ UNCHANGED <<wsVars, flags, batchVars, silent>>

(* Five seconds later; need_reconnect_ is cleared only now.                *)
ClearFlag ==
  /\ enabled
  /\ GotoAfterSleep("pause", "clear")
  /\ need' = FALSE
  /\ UNCHANGED <<wsVars, connected, enabled, batchVars, silent>>

SetHooks(set) ==
  /\ hooked' = set
  /\ UNCHANGED <<conn, current, up, handling, troubles, flags, batchVars, silent>>

ClearCallbacks == Goto("clear", "sleep") /\ SetHooks(FALSE)
SetCallbacks == GotoAfterSleep("sleep", "connect") /\ SetHooks(TRUE)

Connect ==
  /\ Goto("connect", "wait")
  /\ StartConnect
  /\ UNCHANGED <<flags, batchVars, silent>>

ConnectSucceeds ==
  /\ up
  /\ Goto("wait", "mark")
  /\ UNCHANGED <<wsVars, flags, batchVars, silent>>

ConnectFails ==
  /\ Goto("wait", "watch")
  /\ WaitFailed
  /\ need' = TRUE
  /\ UNCHANGED <<connected, enabled, batchVars, silent>>

(* Mutant: a success withdraws the request for a reconnect.                *)
MarkConnectedClean ==
  /\ Goto("mark", "watch")
  /\ connected' = TRUE /\ need' = FALSE
  /\ UNCHANGED <<wsVars, enabled, batchVars, silent>>

(* resubscribe_all has nothing to do: the streams are in the URL.          *)
MarkConnected ==
  /\ Goto("mark", "watch")
  /\ connected' = TRUE
  /\ UNCHANGED <<wsVars, need, enabled, batchVars, silent>>

Monitor ==
  \/ Watch \/ ExitMonitor \/ ClearFlag \/ ClearCallbacks \/ SetCallbacks
  \/ Connect \/ ConnectSucceeds \/ ConnectFails \/ MarkConnected

-----------------------------------------------------------------------------
(* Building and ending an adapter.                                         *)

Build(from, to) == builder = from /\ builder' = to

(* disconnect: the flags, before the monitor is joined.                    *)
Disconnect ==
  /\ enabled' = FALSE /\ need' = FALSE /\ connected' = FALSE
  /\ UNCHANGED <<wsVars, monitor, silent>>

(* The client is shut down: its connections and its IO thread are gone.    *)
Destroy ==
  /\ conn' = [c \in Conns |-> "unused"]
  /\ current' = NoConn
  /\ up' = FALSE /\ handling' = FALSE /\ hooked' = FALSE
  /\ silent' = {}
  /\ monitor' = "none"
  /\ kept' = FALSE
  /\ UNCHANGED <<troubles, flags>>

(* Mutant: a batch without an adapter is skipped.                          *)
CheckHealthOfKept ==
  /\ main = "run" /\ stale /\ kept
  /\ Build("idle", "join") /\ Disconnect
  /\ UNCHANGED <<kept, stale, main>>

(* The health thread finds the batch stale.                                *)
CheckHealth ==
  /\ main = "run" /\ stale
  /\ IF kept THEN Build("idle", "join") /\ Disconnect
     ELSE Build("idle", "build") /\ UNCHANGED <<wsVars, flags, monitor, silent>>
  /\ UNCHANGED <<kept, stale, main>>

JoinOld ==
  /\ Build("join", "build")
  /\ monitor = "exited"
  /\ Destroy
  /\ UNCHANGED <<stale, main>>

(* connect_binance_kline_batch: a new adapter with its callbacks set.      *)
NewAdapter ==
  /\ Build("build", "connect")
  /\ hooked' = TRUE
  /\ connected' = FALSE /\ need' = FALSE /\ enabled' = TRUE
  /\ UNCHANGED <<conn, current, up, handling, troubles, monitor, kept, stale, silent, main>>

FirstConnect ==
  /\ Build("connect", "wait")
  /\ StartConnect
  /\ UNCHANGED <<flags, monitor, kept, stale, silent, main>>

FirstConnectSucceeds ==
  /\ Build("wait", "mark")
  /\ up
  /\ UNCHANGED <<wsVars, flags, monitor, kept, stale, silent, main>>

(* The monitor starts, and the batch counts as fresh.                      *)
KeepAdapter ==
  /\ Build("mark", "idle")
  /\ connected' = TRUE
  /\ monitor' = "watch"
  /\ kept' = TRUE /\ stale' = FALSE
  /\ UNCHANGED <<wsVars, need, enabled, silent, main>>

(* The adapter is dropped; the batch counts as fresh all the same.         *)
FirstConnectFails ==
  /\ Build("wait", "idle")
  /\ ~up
  /\ IF \E c \in Conns : conn[c] = "connecting" THEN Trouble ELSE UNCHANGED troubles
  /\ conn' = [c \in Conns |-> "unused"]
  /\ current' = NoConn
  /\ handling' = FALSE /\ hooked' = FALSE
  /\ stale' = FALSE
  /\ UNCHANGED <<up, flags, monitor, kept, silent, main>>

Builder ==
  \/ CheckHealth \/ JoinOld \/ NewAdapter \/ FirstConnect
  \/ FirstConnectSucceeds \/ KeepAdapter \/ FirstConnectFails

-----------------------------------------------------------------------------
(* The server stops: main joins the health thread, then ends the adapter   *)
(* (at once if it is connected, by its destructor later if not).           *)

Stop ==
  /\ main = "run" /\ main' = "joinHealth"
  /\ UNCHANGED <<wsVars, flags, monitor, kept, builder, stale, silent>>

JoinHealth ==
  /\ main = "joinHealth" /\ builder = "idle"
  /\ main' = IF kept THEN "disconnect" ELSE "done"
  /\ UNCHANGED <<wsVars, flags, monitor, kept, builder, stale, silent>>

EndAdapter ==
  /\ main = "disconnect" /\ main' = "joinMonitor"
  /\ Disconnect
  /\ UNCHANGED <<kept, builder, stale>>

JoinMonitor ==
  /\ main = "joinMonitor" /\ main' = "done"
  /\ monitor = "exited"
  /\ Destroy
  /\ UNCHANGED <<builder, stale>>

Ending == JoinHealth \/ EndAdapter \/ JoinMonitor

-----------------------------------------------------------------------------
Next ==
  \/ \E c \in Conns : Open(c) \/ Lose(c) \/ Stall(c)
  \/ Callback \/ Candle \/ Silence
  \/ Monitor \/ Builder
  \/ Stop \/ Ending

Spec == Init /\ [][Next]_vars

(* The threads run, an attempt that is not in trouble opens, a close that  *)
(* was asked for completes, and time passes. The network need not fail,    *)
(* and the server need not stop.                                           *)
FairSpec ==
  /\ Spec
  /\ \A c \in Conns : WF_vars(Settles(c) /\ (Open(c) \/ Lose(c)))
  /\ WF_vars(Callback) /\ WF_vars(Silence)
  /\ WF_vars(Monitor) /\ WF_vars(Builder) /\ WF_vars(Ending)

-----------------------------------------------------------------------------
(* A feed that is down while its monitor is at its loop is owed a          *)
(* reconnect, although need_reconnect_ is cleared seconds after it was     *)
(* read and late events of old attempts arrive at any time.                *)
DropNoticed == monitor = "watch" /\ enabled /\ ~up /\ ~handling => need

(* Once the network leaves the batch alone, candles arrive for good,       *)
(* whether a connection dropped, went silent, or the first one or a        *)
(* rebuild never succeeded.                                                *)
StreamsAgain == <>[](main = "run" => Delivering)

(* The server's end does not wait for ever for the health thread or the    *)
(* monitor, wherever they are in a rebuild or a reconnect.                 *)
ShutdownEnds == (main # "run") ~> (main = "done")
=============================================================================
