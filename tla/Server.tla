-------------------------------- MODULE Server --------------------------------
(***************************************************************************)
(* The life of the trading server process after its start: the ZmqServer   *)
(* with its sockets, the three worker threads that receive orders, queries *)
(* and subscriptions, the feed threads whose callbacks publish market data *)
(* and push events to the frontend, and main, which waits for a signal and *)
(* then takes all of it down in a fixed order.                             *)
(*                                                                         *)
(* Every operation of the ZmqServer first looks at running_ and the socket *)
(* and only then uses it, under a mutex that stop() does not take: between *)
(* the two the socket may be gone, and the use of a released socket is     *)
(* where the process crashes. What a message asks for is modelled          *)
(* elsewhere; a ticker feed is never disconnected, a kline feed is.        *)
(***************************************************************************)
EXTENDS Naturals, FiniteSets, Sequences, SequencesExt

CONSTANTS
  KlineFeeds, TickerFeeds,  \* WebSocket clients that publish
  VenueOf,       \* [f] the socket of its exchange
  Nobody,
  MaxMessages,   \* bound: messages the strategies send
  MaxLinked      \* bound: feeds that connected at the start

Feeds == KlineFeeds \cup TickerFeeds
Workers == {"order", "query", "subscribe"}
Sockets == <<"market", "okx", "binance", "order", "report", "query", "subscribe">>

ASSUME ServerAssumption ==
  /\ KlineFeeds \cap TickerFeeds = {} /\ Feeds \cap Workers = {}
  /\ Nobody \notin Feeds \cup Workers
  /\ VenueOf \in [Feeds -> {"okx", "binance"}]
  /\ MaxMessages \in Nat /\ MaxLinked \in Nat

VARIABLES
  up,        \* g_running
  mainAt,    \* where main is
  zmqRunning,   \* running_ of the ZmqServer
  sockets,   \* its sockets that are not released
  frontend,  \* g_frontend_server is set
  worker,    \* [w] "head", "check", "use", "handle", "report", "send", "ended"
  inbox,     \* [w] messages waiting
  sent,
  owing,     \* queries received and not answered
  garbled,   \* the query in hand does not parse at a byte outside ASCII
  callback,  \* [f] <<>> between messages, or <<"check" or "use", target>>
  linked,    \* feeds that connected at the start, and stay on by reconnecting
  passed,    \* kline feeds main has dealt with
  closing,   \* those it disconnects: nothing arrives and nothing reconnects
  culprit    \* the thread whose use of a released object crashed the process

threads == <<worker, inbox, sent, owing, garbled>>
feeds == <<callback, linked>>
process == <<up, mainAt, zmqRunning, sockets, frontend, passed, closing>>
serverVars == <<process, threads, feeds, culprit>>

(* The process runs until main returns, a second signal or a crash.        *)
Running == culprit = Nobody /\ mainAt \notin {"done", "killed"}

Quiet == <<>>
ServerInit ==
  /\ up = TRUE /\ mainAt = "run" /\ zmqRunning = TRUE
  /\ sockets = Range(Sockets) /\ frontend = TRUE
  /\ worker = [w \in Workers |-> "head"]
  /\ inbox = [w \in Workers |-> 0] /\ sent = 0 /\ owing = 0 /\ garbled = FALSE
  /\ callback = [f \in Feeds |-> Quiet]
  /\ linked \in {L \in SUBSET Feeds : Cardinality(L) <= MaxLinked}  \* some may fail
  /\ passed = {} /\ closing = {}
  /\ culprit = Nobody

-----------------------------------------------------------------------------
(* The workers: order_thread, query_thread and subscription_thread.        *)

Go(w, at) == worker' = [worker EXCEPT ![w] = at]

Arrive(w) ==
  /\ Running /\ sent < MaxMessages /\ sent' = sent + 1
  /\ inbox' = [inbox EXCEPT ![w] = @ + 1]
  /\ UNCHANGED <<process, worker, owing, garbled, feeds, culprit>>

(* Mutant: the loop ends with the ZmqServer, which main stops only after   *)
(* it has joined the workers.                                              *)
Checked(w) == IF zmqRunning /\ w \in sockets THEN "use" ELSE "head"
LoopHeadServing(w) ==
  /\ Running /\ worker[w] = "head"
  /\ Go(w, IF zmqRunning THEN Checked(w) ELSE "ended")
  /\ UNCHANGED <<process, inbox, sent, owing, garbled, feeds, culprit>>

(* The head of the loop and the first look of recv_order, handle_query and *)
(* poll_subscriptions, at objects that only main changes.                  *)
LoopHead(w) ==
  /\ Running /\ worker[w] = "head"
  /\ Go(w, IF up THEN Checked(w) ELSE "ended")
  /\ UNCHANGED <<process, inbox, sent, owing, garbled, feeds, culprit>>

CheckSocket(w) ==
  /\ Running /\ worker[w] = "check" /\ Go(w, Checked(w))
  /\ UNCHANGED <<process, inbox, sent, owing, garbled, feeds, culprit>>

(* recv_message, or recv on the reply socket, which refuses to receive     *)
(* while an answer is owed.                                                *)
Receive(w) ==
  /\ Running /\ worker[w] = "use"
  /\ IF w \notin sockets THEN culprit' = w /\ UNCHANGED threads
     ELSE /\ UNCHANGED <<culprit, sent>>
          /\ IF inbox[w] = 0 \/ (w = "query" /\ owing > 0)
             THEN Go(w, "head") /\ UNCHANGED <<inbox, owing, garbled>>
             ELSE /\ Go(w, "handle")
                  /\ inbox' = [inbox EXCEPT ![w] = @ - 1]
                  /\ IF w = "query" THEN owing' = owing + 1 /\ garbled' \in BOOLEAN
                     ELSE UNCHANGED <<owing, garbled>>
  /\ UNCHANGED <<process, feeds>>

(* A message that is no JSON ends the inner loop of the order thread; the  *)
(* subscription thread goes on receiving without looking again.            *)
HandleOrder ==
  /\ Running /\ worker["order"] = "handle"
  /\ \E at \in {"report", "head"} : Go("order", at)
  /\ UNCHANGED <<process, inbox, sent, owing, garbled, feeds, culprit>>

HandleSubscription ==
  /\ Running /\ worker["subscribe"] = "handle" /\ Go("subscribe", "use")
  /\ UNCHANGED <<process, inbox, sent, owing, garbled, feeds, culprit>>

Answered(at) == Go("query", at) /\ owing' = owing - 1
Unanswered == Go("query", "head") /\ UNCHANGED owing

(* Mutant: every request that does not parse is dropped.                   *)
HandleQueryDropped ==
  /\ Running /\ worker["query"] = "handle"
  /\ Unanswered \/ (~garbled /\ Answered("check"))
  /\ UNCHANGED <<process, inbox, sent, garbled, feeds, culprit>>

(* The answer, or the error answer to a request that does not parse or for *)
(* which the callback has a JSON error, which also ends the inner loop.    *)
(* The error answer quotes the bytes the parser stopped at: when they are  *)
(* no UTF-8 it cannot be made, and nothing is sent.                        *)
HandleQuery ==
  /\ Running /\ worker["query"] = "handle"
  /\ IF garbled THEN Unanswered ELSE \E at \in {"check", "head"} : Answered(at)
  /\ UNCHANGED <<process, inbox, sent, garbled, feeds, culprit>>

(* publish_report of the order thread.                                     *)
CheckReport ==
  /\ Running /\ worker["order"] = "report"
  /\ Go("order", IF zmqRunning /\ "report" \in sockets THEN "send" ELSE "check")
  /\ UNCHANGED <<process, inbox, sent, owing, garbled, feeds, culprit>>

SendReport ==
  /\ Running /\ worker["order"] = "send"
  /\ IF "report" \in sockets THEN Go("order", "check") /\ UNCHANGED culprit
     ELSE culprit' = "order" /\ UNCHANGED worker
  /\ UNCHANGED <<process, inbox, sent, owing, garbled, feeds>>

OrderThread ==
  LoopHead("order") \/ CheckSocket("order") \/ Receive("order") \/ HandleOrder
    \/ CheckReport \/ SendReport
QueryThread ==
  LoopHead("query") \/ CheckSocket("query") \/ Receive("query") \/ HandleQuery
SubscriptionThread ==
  LoopHead("subscribe") \/ CheckSocket("subscribe") \/ Receive("subscribe")
    \/ HandleSubscription

-----------------------------------------------------------------------------
(* The feed threads: the callback publishes on the socket of the exchange, *)
(* then on the common one, and a ticker goes to the frontend as well.      *)

TargetsOf(f) ==
  <<VenueOf[f], "market">> \o (IF f \in TickerFeeds THEN <<"frontend">> ELSE <<>>)
There(target) == IF target = "frontend" THEN frontend ELSE target \in sockets
Ready(target) == There(target) /\ (target = "frontend" \/ zmqRunning)
Following(f, target) ==
  LET i == IndexFirstSubSeq(<<target>>, TargetsOf(f)) IN
  IF i < Len(TargetsOf(f)) THEN <<"check", TargetsOf(f)[i + 1]>> ELSE Quiet

DataArrives(f) ==
  /\ Running /\ callback[f] = Quiet /\ f \in linked \ closing
  /\ callback' = [callback EXCEPT ![f] = <<"check", VenueOf[f]>>]
  /\ UNCHANGED <<process, threads, linked, culprit>>

(* publish_market, publish_okx_market, publish_binance_market: the look.   *)
CheckTarget(f) == \E target \in Range(TargetsOf(f)) :
  /\ Running /\ callback[f] = <<"check", target>>
  /\ callback' = [callback EXCEPT ![f] =
       IF Ready(target) THEN <<"use", target>> ELSE Following(f, target)]
  /\ UNCHANGED <<process, threads, linked, culprit>>

UseTarget(f) == \E target \in Range(TargetsOf(f)) :
  /\ Running /\ callback[f] = <<"use", target>>
  /\ IF There(target)
     THEN callback' = [callback EXCEPT ![f] = Following(f, target)] /\ UNCHANGED culprit
     ELSE culprit' = f /\ UNCHANGED callback
  /\ UNCHANGED <<process, threads, linked>>

-----------------------------------------------------------------------------
(* main and the signals.                                                   *)

Signal ==
  /\ Running /\ up /\ up' = FALSE
  /\ UNCHANGED <<mainAt, zmqRunning, sockets, frontend, passed, closing, threads, feeds, culprit>>

SecondSignal ==
  /\ Running /\ ~up /\ mainAt' = "killed"
  /\ UNCHANGED <<up, zmqRunning, sockets, frontend, passed, closing, threads, feeds, culprit>>

MainGoes(from, to) == Running /\ mainAt = from /\ mainAt' = to

(* The strategies and the monitors are stopped.                            *)
LeaveMainLoop ==
  /\ ~up /\ MainGoes("run", "disconnect")
  /\ UNCHANGED <<up, zmqRunning, sockets, frontend, passed, closing, threads, feeds, culprit>>

(* A kline feed that is connected is disconnected: main waits for the      *)
(* callback it is in. One that is just reconnecting, which any may be at   *)
(* any moment, is left alone.                                              *)
DisconnectFeed(f) ==
  /\ Running /\ mainAt = "disconnect" /\ f \notin passed /\ passed' = passed \cup {f}
  /\ closing' \in {closing, closing \cup ({f} \cap linked)}
  /\ UNCHANGED <<up, mainAt, zmqRunning, sockets, frontend, threads, feeds, culprit>>

AllQuiet == \A f \in closing : callback[f] = Quiet
AllDisconnected ==
  /\ passed = KlineFeeds /\ AllQuiet /\ MainGoes("disconnect", "join")
  /\ UNCHANGED <<up, zmqRunning, sockets, frontend, passed, closing, threads, feeds, culprit>>

(* Mutant: the workers are joined after the sockets are closed.            *)
JoinWorkersLater ==
  /\ MainGoes("join", "stop")
  /\ UNCHANGED <<up, zmqRunning, sockets, frontend, passed, closing, threads, feeds, culprit>>

(* The workers, and then the frontend channel, which stays allocated.      *)
JoinWorkers ==
  /\ \A w \in Workers : worker[w] = "ended"
  /\ MainGoes("join", "stop")
  /\ UNCHANGED <<up, zmqRunning, sockets, frontend, passed, closing, threads, feeds, culprit>>

(* ZmqServer::stop.                                                        *)
BeginZmqStop ==
  /\ MainGoes("stop", "close") /\ zmqRunning' = FALSE
  /\ UNCHANGED <<up, sockets, frontend, passed, closing, threads, feeds, culprit>>

CloseSocket ==
  /\ Running /\ mainAt = "close" /\ sockets /= {}
  /\ LET open == SelectSeq(Sockets, LAMBDA s : s \in sockets) IN
     sockets' = sockets \ {Head(open)}
  /\ UNCHANGED <<up, mainAt, zmqRunning, frontend, passed, closing, threads, feeds, culprit>>

AllClosed ==
  /\ sockets = {} /\ MainGoes("close", "release")
  /\ UNCHANGED <<up, zmqRunning, sockets, frontend, passed, closing, threads, feeds, culprit>>

(* The kline clients are destroyed, which disconnects those left alone,    *)
(* and so is the frontend channel; then main sleeps 200 ms and returns.    *)
BeginRelease ==
  /\ MainGoes("release", "destroy") /\ closing' = KlineFeeds
  /\ UNCHANGED <<up, zmqRunning, sockets, frontend, passed, threads, feeds, culprit>>

EndRelease ==
  /\ AllQuiet /\ MainGoes("destroy", "leave") /\ frontend' = FALSE
  /\ UNCHANGED <<up, zmqRunning, sockets, passed, closing, threads, feeds, culprit>>

Return ==
  /\ MainGoes("leave", "done")
  /\ UNCHANGED <<up, zmqRunning, sockets, frontend, passed, closing, threads, feeds, culprit>>

MainThread ==
  LeaveMainLoop \/ (\E f \in KlineFeeds : DisconnectFeed(f)) \/ AllDisconnected
    \/ JoinWorkers \/ BeginZmqStop \/ CloseSocket \/ AllClosed
    \/ BeginRelease \/ EndRelease \/ Return

FeedThread(f) == CheckTarget(f) \/ UseTarget(f)

ServerNext ==
  \/ \E w \in Workers : Arrive(w)
  \/ OrderThread \/ QueryThread \/ SubscriptionThread
  \/ \E f \in Feeds : DataArrives(f) \/ FeedThread(f)
  \/ Signal \/ SecondSignal \/ MainThread

ServerSpec == ServerInit /\ [][ServerNext]_serverVars

-----------------------------------------------------------------------------
(* The order of main's shutdown keeps every worker off a socket that is    *)
(* gone, although none of them looks and uses in one step: only the feed   *)
(* threads, which main does not stop or finds reconnecting, can crash.     *)
WorkersOffSockets == culprit \notin Workers

(* Every query is answered, one that does not parse too, unless the server *)
(* is told to stop, up to the first garbled one: the reply socket owes it  *)
(* its answer for good and refuses all later queries.                      *)
QueryAnswered ==
  <>[](up /\ Running) =>
    \/ <>[](inbox["query"] = 0 /\ owing = 0)
    \/ <>[](garbled /\ owing = 1)

(* Once told to stop, main comes to its end whatever the workers and the   *)
(* feeds are doing, unless a feed thread crashes the process or a second   *)
(* signal ends it first: no thread main joins waits for what main does     *)
(* only later.                                                             *)
ShutdownCompletes == ~up ~> ~Running
=============================================================================
