---------------------------- MODULE OkxFeedProofs ----------------------------
(***************************************************************************)
(* The feed of OKX candles, for any strategies, candles, connection        *)
(* objects, troubles and requests: no drop is forgotten, and the counting  *)
(* of subscriptions cuts nobody off.                                       *)
(***************************************************************************)
EXTENDS OkxFeed, SequenceTheorems, FiniteSetTheorems, TLAPS

-----------------------------------------------------------------------------
(* What the inductive invariants say: first of the connection.             *)

AtLoop == monitor \in {"watch", "mark", "join", "beat", "collect", "resend"}

(* DropNoticed holds from the end of the wait for the connection on.       *)
Owed == AtLoop /\ enabled /\ ~up /\ ~handling => need

(* The callbacks are unset only while the monitor sleeps, or when it and   *)
(* the client are gone.                                                    *)
Hooked == monitor \notin {"sleep", "exited"} => hooked

Ended ==
  /\ main # "run" => ~enabled
  /\ main \in {"joinHeart", "done"} => monitor = "exited"

FeedInv == TypeOK /\ Owed /\ Hooked /\ Ended

-----------------------------------------------------------------------------
(* Then of the subscriptions.                                              *)

(* Message i that waits from s asks this of k.                             *)
Asks(s, i, action, k) ==
  /\ i \in 1 .. Len(requests[s])
  /\ requests[s][i].action = action /\ requests[s][i].kline = k

(* After the first n of its messages s will have k, if it has what holds   *)
(* says now.                                                               *)
Has(holds, s, k, n) ==
  \/ /\ <<s, k>> \in holds
     /\ \A j \in 1 .. n : ~Asks(s, j, "unsubscribe", k)
  \/ \E i \in 1 .. n :
       /\ Asks(s, i, "subscribe", k)
       /\ \A j \in i + 1 .. n : ~Asks(s, j, "unsubscribe", k)

Holders(holds, k) == {s \in Strategies : <<s, k>> \in holds}
MainShare(k) == IF k \in MainKlines THEN 1 ELSE 0

(* The messages never give up what their strategy will not have by then,   *)
(* and end with all it wants; each holder, and main where the candle is    *)
(* main's, has a share in the count.                                       *)
Balanced(holds) ==
  /\ \A s \in Strategies, k \in Klines : \A j \in 1 .. Len(requests[s]) :
       Asks(s, j, "unsubscribe", k) => Has(holds, s, k, j - 1)
  /\ \A s \in Strategies : \A k \in wants[s] : Has(holds, s, k, Len(requests[s]))
  /\ \A k \in Klines :
       /\ IsFiniteSet(Holders(holds, k))
       /\ \/ Cardinality(Holders(holds, k)) + MainShare(k) <= refs[k]
          \/ refs[k] = 0 /\ Holders(holds, k) = {}

CountInv ==
  ~misused =>
    /\ MainKlines \subseteq subscribed
    /\ \A k \in Klines : refs[k] > 0 => k \in subscribed
    /\ \E holds \in SUBSET (Strategies \X Klines) : Balanced(holds)

-----------------------------------------------------------------------------
(* The connection.                                                         *)

LEMMA FeedInit == Init => FeedInv
  <1> SUFFICES ASSUME Init PROVE FeedInv
    OBVIOUS
  <1>1. PICK c \in Conns :
          /\ conn = [d \in Conns |-> IF d = c THEN "open" ELSE "unused"]
          /\ current = c /\ up = TRUE /\ handling = FALSE /\ hooked = TRUE /\ troubles = 0
    BY DEF Init, WsInit
  <1>2. WsTypeOK
    <2>1. conn \in [Conns -> {"unused", "connecting", "open", "closing"}]
      BY <1>1
    <2>2. up \in BOOLEAN /\ handling \in BOOLEAN /\ hooked \in BOOLEAN
      BY <1>1, Zenon
    <2>3. troubles \in 0 .. MaxTroubles /\ current \in Conns \cup {NoConn}
      BY <1>1, TroubleBound
    <2> QED BY <2>1, <2>2, <2>3 DEF WsTypeOK
  <1>3. /\ connected \in BOOLEAN /\ running \in BOOLEAN /\ need \in BOOLEAN
        /\ enabled \in BOOLEAN /\ heart \in BOOLEAN /\ misused \in BOOLEAN
    BY Zenon DEF Init
  <1>4. requests \in [Strategies -> Seq(Request)] /\ remote \in [Conns -> SUBSET Klines]
    BY EmptySeq, KlineAssumption DEF Init
  <1>5. TypeOK
    BY <1>2, <1>3, <1>4, KlineAssumption, RequestBound DEF Init, TypeOK, MonitorStates
  <1>6. Owed /\ Hooked /\ Ended
    BY <1>1 DEF Init, Owed, AtLoop, Hooked, Ended
  <1> QED BY <1>5, <1>6 DEF FeedInv

LEMMA StartConnectTyped ==
  ASSUME WsTypeOK, StartConnect
  PROVE  WsTypeOK'
  <1> DEFINE new == CHOOSE c \in Conns : conn[c] = "unused"
  <1>1. new \in Conns
    BY DEF StartConnect
  <1>2. conn' = [c \in Conns |-> CASE c = new             -> "connecting"
                                   [] c = current /\ up   -> "closing"
                                   [] OTHER               -> conn[c]]
    BY DEF StartConnect
  <1>3. conn' \in [Conns -> {"unused", "connecting", "open", "closing"}]
    <2> HIDE DEF new
    <2>1. \A c \in Conns : conn[c] \in {"unused", "connecting", "open", "closing"}
      BY DEF WsTypeOK
    <2>2. \A c \in Conns :
            (CASE c = new             -> "connecting"
               [] c = current /\ up   -> "closing"
               [] OTHER               -> conn[c])
              \in {"unused", "connecting", "open", "closing"}
      BY <2>1
    <2> QED BY <1>2, <2>2
  <1> QED BY <1>1, <1>3 DEF StartConnect, WsTypeOK

LEMMA TroubleTyped ==
  ASSUME WsTypeOK, Trouble \/ UNCHANGED troubles
  PROVE  troubles' \in 0 .. MaxTroubles
  BY TroubleBound DEF Trouble, WsTypeOK

LEMMA NetworkKeeps ==
  ASSUME FeedInv, NEW c \in Conns, Open(c) \/ Lose(c)
  PROVE  FeedInv'
  <1> USE DEF adapterVars, subVars
  <1>1. CASE Open(c)
    BY <1>1 DEF FeedInv, Open, Opened, TypeOK, WsTypeOK, Owed, AtLoop, Hooked, Ended
  <1>2. CASE Lose(c)
    <2>1. Gone(c) /\ (Trouble \/ UNCHANGED troubles)
      BY <1>2 DEF Lose, Failed, Dropped, Closed
    <2>2. conn' \in [Conns -> {"unused", "connecting", "open", "closing"}]
      BY <2>1 DEF Gone, FeedInv, TypeOK, WsTypeOK
    <2>3. up' \in BOOLEAN /\ handling' \in BOOLEAN /\ hooked' \in BOOLEAN
          /\ current' \in Conns \cup {NoConn}
      BY <2>1, Zenon DEF Gone, FeedInv, TypeOK, WsTypeOK
    <2>4. WsTypeOK'
      BY <2>1, <2>2, <2>3, TroubleTyped DEF WsTypeOK, FeedInv, TypeOK
    <2>5. remote' \in [Conns -> SUBSET Klines]
      BY <1>2 DEF Lose, FeedInv, TypeOK
    <2>6. handling' = TRUE /\ hooked' = hooked
      BY <2>1 DEF Gone
    <2>7. TypeOK'
      BY <1>2, <2>4, <2>5 DEF Lose, FeedInv, TypeOK
    <2> QED BY <1>2, <2>6, <2>7 DEF Lose, FeedInv, Owed, AtLoop, Hooked, Ended
  <1> QED BY <1>1, <1>2

LEMMA CallbackKeeps ==
  ASSUME FeedInv, Callback \/ HeartbeatEnds
  PROVE  FeedInv'
  <1> USE DEF wsVars, subVars
  <1>1. CASE Callback
    <2>1. need' \in BOOLEAN /\ connected' \in BOOLEAN /\ running' \in BOOLEAN
          /\ handling' \in BOOLEAN
      BY <1>1, Zenon DEF Callback, FeedInv, TypeOK
    <2>2. UNCHANGED <<conn, current, up, hooked, troubles, enabled, heart, monitor, batch,
                      main, recorded, remote, subVars>>
      BY <1>1 DEF Callback
    <2>3. TypeOK'
      BY <2>1, <2>2 DEF FeedInv, TypeOK, WsTypeOK
    <2>4. AtLoop => hooked
      BY DEF FeedInv, AtLoop, Hooked
    <2>5. Owed'
      <3>1. CASE hooked
        <4>1. need' = (need \/ enabled)
          BY <1>1, <3>1 DEF Callback
        <4> QED BY <2>2, <4>1 DEF Owed
      <3>2. CASE ~hooked
        BY <2>2, <2>4, <3>2 DEF Owed, AtLoop
      <3> QED BY <3>1, <3>2
    <2> QED BY <2>2, <2>3, <2>5 DEF FeedInv, Hooked, Ended
  <1>2. CASE HeartbeatEnds
    BY <1>2 DEF HeartbeatEnds, FeedInv, TypeOK, WsTypeOK, Owed, AtLoop, Hooked, Ended
  <1> QED BY <1>1, <1>2

(* What a subscription that is sent leaves typed.                          *)
LEMMA SendTyped ==
  ASSUME TypeOK, NEW ks \in SUBSET Klines,
         SendSubscribe(ks) \/ (\E k \in Klines : SendUnsubscribe(k))
           \/ UNCHANGED <<recorded, remote>>
  PROVE  recorded' \subseteq Klines /\ remote' \in [Conns -> SUBSET Klines]
  <1>1. recorded \subseteq Klines /\ remote \in [Conns -> SUBSET Klines]
    BY DEF TypeOK
  <1>2. ASSUME NEW k \in Klines, SendUnsubscribe(k)
        PROVE  recorded' \subseteq Klines /\ remote' \in [Conns -> SUBSET Klines]
    BY <1>1, <1>2 DEF SendUnsubscribe
  <1>3. CASE SendSubscribe(ks)
    BY <1>1, <1>3 DEF SendSubscribe
  <1> QED BY <1>1, <1>2, <1>3

LEMMA MonitorKeeps ==
  ASSUME FeedInv, Monitor
  PROVE  FeedInv'
  <1> USE DEF FeedInv, Goto, GotoAfterSleep, wsVars, subVars, AtLoop, Hooked, Ended
  <1>1. CASE Watch
    BY <1>1 DEF Watch, TypeOK, WsTypeOK, MonitorStates, Owed
  <1>2. CASE ExitMonitor
    BY <1>2 DEF ExitMonitor, TypeOK, WsTypeOK, MonitorStates, Owed
  <1>3. CASE ClearCallbacks \/ SetCallbacks
    <2>1. hooked' \in BOOLEAN
      BY <1>3, Zenon DEF ClearCallbacks, SetCallbacks, SetHooks
    <2> QED BY <1>3, <2>1 DEF ClearCallbacks, SetCallbacks, SetHooks, TypeOK, WsTypeOK,
               MonitorStates, Owed
  <1>4. CASE Connect
    <2>1. WsTypeOK'
      BY <1>4, StartConnectTyped DEF Connect, TypeOK
    <2>2. UNCHANGED <<handling, hooked>>
      BY <1>4 DEF Connect, StartConnect
    <2>3. TypeOK'
      BY <1>4, <2>1 DEF Connect, TypeOK, MonitorStates
    <2> QED BY <1>4, <2>2, <2>3 DEF Connect, Owed
  <1>5. CASE ConnectSucceeds
    BY <1>5 DEF ConnectSucceeds, TypeOK, WsTypeOK, MonitorStates, Owed
  <1>6. CASE ConnectFails
    <2>1. troubles' \in 0 .. MaxTroubles
      BY <1>6, TroubleTyped DEF ConnectFails, WaitFailed, TypeOK
    <2> QED BY <1>6, <2>1 DEF ConnectFails, WaitFailed, TypeOK, WsTypeOK, MonitorStates, Owed
  <1>7. CASE MarkConnected \/ JoinHeartbeat \/ StartHeartbeat
    <2>1. /\ UNCHANGED <<wsVars, need, enabled, batch, main, recorded, remote, subVars>>
          /\ monitor \in {"mark", "join", "beat"} /\ monitor' \in {"join", "beat", "collect"}
      BY <1>7 DEF MarkConnected, JoinHeartbeat, StartHeartbeat
    <2>2. connected' \in BOOLEAN /\ running' \in BOOLEAN /\ heart' \in BOOLEAN
      BY <1>7, Zenon DEF MarkConnected, JoinHeartbeat, StartHeartbeat, TypeOK
    <2> QED BY <2>1, <2>2 DEF TypeOK, WsTypeOK, MonitorStates, Owed
  <1>8. CASE Collect
    BY <1>8 DEF Collect, TypeOK, WsTypeOK, MonitorStates, Owed
  <1>9. CASE Resend
    <2>1. recorded' \subseteq Klines /\ remote' \in [Conns -> SUBSET Klines]
      <3>1. batch \in SUBSET Klines /\ SendSubscribe(batch)
        BY <1>9 DEF Resend, TypeOK
      <3> QED BY <3>1, SendTyped
    <2> QED BY <1>9, <2>1 DEF Resend, TypeOK, WsTypeOK, MonitorStates, Owed
  <1> QED BY <1>1, <1>2, <1>3, <1>4, <1>5, <1>6, <1>7, <1>8, <1>9 DEF Monitor

LEMMA EndKeeps ==
  ASSUME FeedInv, Disconnect \/ JoinMonitor \/ JoinHeart
  PROVE  FeedInv'
  <1> USE DEF FeedInv, wsVars, subVars, AtLoop, Hooked, Ended
  <1>1. CASE Disconnect
    BY <1>1 DEF Disconnect, TypeOK, WsTypeOK, Owed
  <1>2. CASE JoinMonitor
    BY <1>2 DEF JoinMonitor, TypeOK, WsTypeOK, Owed
  <1>3. CASE JoinHeart
    <2>1. WsTypeOK'
      <3>1. up' \in BOOLEAN /\ handling' \in BOOLEAN /\ hooked' \in BOOLEAN
        BY <1>3, Zenon DEF JoinHeart
      <3> QED BY <1>3, <3>1 DEF JoinHeart, TypeOK, WsTypeOK
    <2> QED BY <1>3, <2>1 DEF JoinHeart, TypeOK, Owed
  <1> QED BY <1>1, <1>2, <1>3

LEMMA SubsKeep ==
  ASSUME FeedInv, TypeOK', UNCHANGED <<wsVars, adapterVars>>
  PROVE  FeedInv'
  BY DEF FeedInv, wsVars, adapterVars, Owed, AtLoop, Hooked, Ended

LEMMA AskTyped ==
  ASSUME TypeOK, NEW s \in Strategies, NEW action \in {"subscribe", "unsubscribe"},
         NEW k \in Klines, Ask(s, action, k)
  PROVE  requests' \in [Strategies -> Seq(Request)] /\ asked' \in 0 .. MaxRequests
  <1> DEFINE m == [action |-> action, kline |-> k]
  <1>1. m \in Request
    BY DEF Request
  <1>2. requests' = [requests EXCEPT ![s] = Append(@, m)]
    BY DEF Ask
  <1> HIDE DEF m
  <1>3. Append(requests[s], m) \in Seq(Request)
    BY <1>1, AppendProperties DEF TypeOK
  <1>4. requests' \in [Strategies -> Seq(Request)]
    BY <1>2, <1>3 DEF TypeOK
  <1>5. asked' \in 0 .. MaxRequests
    BY RequestBound DEF Ask, TypeOK
  <1> QED BY <1>4, <1>5

LEMMA HeadTyped ==
  ASSUME TypeOK, NEW s \in Strategies, HandleSubscription(s)
  PROVE  /\ Head(requests[s]) \in Request /\ Head(requests[s]) = requests[s][1]
         /\ requests' \in [Strategies -> Seq(Request)]
  <1>1. Head(requests[s]) \in Request /\ Tail(requests[s]) \in Seq(Request)
        /\ Head(requests[s]) = requests[s][1]
    BY HeadTailProperties DEF TypeOK, HandleSubscription
  <1> QED BY <1>1 DEF TypeOK, HandleSubscription

LEMMA StrategiesKeep ==
  ASSUME FeedInv, NEW s \in Strategies,
         \/ \E k \in Klines : AskSubscribe(s, k) \/ AskUnsubscribe(s, k)
         \/ StrategyDies(s)
         \/ HandleSubscription(s)
  PROVE  FeedInv'
  <1>0. TypeOK
    BY DEF FeedInv
  <1>1. ASSUME NEW k \in Klines, AskSubscribe(s, k) \/ AskUnsubscribe(s, k)
        PROVE  FeedInv'
    <2>1. PICK action \in {"subscribe", "unsubscribe"} : Ask(s, action, k)
      BY <1>1 DEF AskSubscribe, AskUnsubscribe
    <2>2. requests' \in [Strategies -> Seq(Request)] /\ asked' \in 0 .. MaxRequests
      BY <1>0, <2>1, AskTyped
    <2>3. wants' \in [Strategies -> SUBSET Klines]
      BY <1>0, <1>1 DEF AskSubscribe, AskUnsubscribe, TypeOK
    <2>4. misused' \in BOOLEAN
      BY <1>0, <1>1, Zenon DEF AskSubscribe, AskUnsubscribe, TypeOK
    <2>5. UNCHANGED <<wsVars, adapterVars, recorded, remote, refs, subscribed>>
      BY <2>1 DEF Ask
    <2>6. TypeOK'
      BY <1>0, <2>2, <2>3, <2>4, <2>5 DEF wsVars, adapterVars, TypeOK, WsTypeOK
    <2> QED BY <2>5, <2>6, SubsKeep
  <1>2. CASE StrategyDies(s)
    <2>1. wants' \in [Strategies -> SUBSET Klines]
      BY <1>0, <1>2 DEF StrategyDies, TypeOK
    <2>2. TypeOK'
      BY <1>0, <1>2, <2>1 DEF StrategyDies, wsVars, adapterVars, TypeOK, WsTypeOK
    <2> QED BY <1>2, <2>2, SubsKeep DEF StrategyDies
  <1>3. CASE HandleSubscription(s)
    <2> DEFINE k == Head(requests[s]).kline
    <2>1. k \in Klines /\ requests' \in [Strategies -> Seq(Request)]
      BY <1>0, <1>3, HeadTyped DEF Request
    <2>2. (HandleSubscribe(k) \/ HandleUnsubscribe(k))
          /\ UNCHANGED <<wsVars, adapterVars, wants, asked, misused>>
      BY <1>3 DEF HandleSubscription
    <2> HIDE DEF k
    <2>3. refs' \in [Klines -> Nat] /\ subscribed' \subseteq Klines
      <3>1. refs[k] \in Nat /\ refs \in [Klines -> Nat]
        BY <1>0, <2>1 DEF TypeOK
      <3>2. CASE HandleSubscribe(k)
        BY <1>0, <2>1, <3>1, <3>2 DEF HandleSubscribe, TypeOK
      <3>3. CASE HandleUnsubscribe(k)
        <4>1. subscribed' \subseteq Klines
          BY <1>0, <3>3 DEF HandleUnsubscribe, TypeOK
        <4>2. (IF refs[k] = 0 THEN 0 ELSE refs[k] - 1) \in Nat
          BY <3>1
        <4>3. refs' = [refs EXCEPT ![k] = IF refs[k] = 0 THEN 0 ELSE refs[k] - 1]
          BY <3>3 DEF HandleUnsubscribe
        <4> QED BY <3>1, <4>1, <4>2, <4>3
      <3> QED BY <2>2, <3>2, <3>3
    <2>4. recorded' \subseteq Klines /\ remote' \in [Conns -> SUBSET Klines]
      <3>1. {k} \in SUBSET Klines
        BY <2>1
      <3>2. SendSubscribe({k}) \/ SendUnsubscribe(k) \/ UNCHANGED <<recorded, remote>>
        BY <2>2 DEF HandleSubscribe, HandleUnsubscribe
      <3> QED BY <1>0, <2>1, <3>1, <3>2, SendTyped
    <2>5. TypeOK'
      BY <1>0, <2>1, <2>2, <2>3, <2>4 DEF wsVars, adapterVars, TypeOK, WsTypeOK
    <2> QED BY <2>2, <2>5, SubsKeep
  <1> QED BY <1>1, <1>2, <1>3

LEMMA FeedStep == FeedInv /\ [Next]_vars => FeedInv'
  <1> SUFFICES ASSUME FeedInv, [Next]_vars PROVE FeedInv'
    OBVIOUS
  <1>1. CASE Next
    BY <1>1, NetworkKeeps, CallbackKeeps, MonitorKeeps, EndKeeps, StrategiesKeep DEF Next
  <1>2. CASE UNCHANGED vars
    BY <1>2 DEF vars, wsVars, adapterVars, subVars, FeedInv, TypeOK, WsTypeOK, Owed, AtLoop,
                Hooked, Ended
  <1> QED BY <1>1, <1>2

(* The OKX feed is well typed whatever the network, the monitor and the    *)
(* heartbeat thread do, however many strategies ask for candles.           *)
THEOREM FeedTyped == Spec => []TypeOK
  <1>1. FeedInv => TypeOK
    BY DEF FeedInv
  <1> QED BY <1>1, FeedInit, FeedStep, PTL DEF Spec

(* An OKX feed that is down while its monitor is at its loop has           *)
(* need_reconnect_ set, although the monitor clears the flag after it has  *)
(* read it and handlers of old attempts run at any time.                   *)
THEOREM OkxDropsNoticed == Spec => []DropNoticed
  <1>1. FeedInv => DropNoticed
    BY DEF FeedInv, Owed, AtLoop, DropNoticed
  <1> QED BY <1>1, FeedInit, FeedStep, PTL DEF Spec

-----------------------------------------------------------------------------
(* The subscriptions.                                                      *)

LEMMA CountInit == Init => CountInv
  <1> SUFFICES ASSUME Init PROVE CountInv
    OBVIOUS
  <1>1. \A s \in Strategies : requests[s] = <<>> /\ wants[s] = {}
    BY DEF Init
  <1>2. \A s \in Strategies : 1 .. Len(requests[s]) = {}
    BY <1>1
  <1>3. \A k \in Klines : Holders({}, k) = {} /\ refs[k] = 0
    BY DEF Init, Holders
  <1>4. Balanced({})
    <2>1. \A k \in Klines : IsFiniteSet(Holders({}, k))
      BY <1>3, FS_EmptySet
    <2> QED BY <1>1, <1>2, <1>3, <2>1 DEF Balanced
  <1>5. {} \in SUBSET (Strategies \X Klines) /\ MainKlines \subseteq subscribed
    BY DEF Init
  <1> QED BY <1>3, <1>4, <1>5 DEF CountInv

LEMMA CountIdle ==
  ASSUME CountInv, UNCHANGED subVars
  PROVE  CountInv'
  <1>1. UNCHANGED <<refs, subscribed, wants, requests, misused>>
    BY DEF subVars
  <1>2. \A holds, s, k, n : Has(holds, s, k, n)' <=> Has(holds, s, k, n)
    BY <1>1 DEF Has, Asks
  <1>3. \A holds : Balanced(holds)' <=> Balanced(holds)
    BY <1>1, <1>2 DEF Balanced, Asks, Holders
  <1> QED BY <1>1, <1>3 DEF CountInv

(* A message more at the end of the queue of s.                            *)
LEMMA AsksMore ==
  ASSUME TypeOK, NEW s \in Strategies, NEW act \in {"subscribe", "unsubscribe"},
         NEW kl \in Klines, Ask(s, act, kl)
  PROVE  /\ \A t \in Strategies : Len(requests[t]) \in Nat
         /\ \A t \in Strategies :
              Len(requests'[t]) = IF t = s THEN Len(requests[t]) + 1 ELSE Len(requests[t])
         /\ \A t \in Strategies, i \in Nat : \A action, k :
              Asks(t, i, action, k)' <=>
                \/ Asks(t, i, action, k)
                \/ t = s /\ i = Len(requests[s]) + 1 /\ action = act /\ k = kl
  <1> DEFINE m == [action |-> act, kline |-> kl]
  <1>1. requests' = [requests EXCEPT ![s] = Append(@, m)] /\ m \in Request
    BY DEF Ask, Request
  <1>2. m.action = act /\ m.kline = kl
    OBVIOUS
  <1>3. requests \in [Strategies -> Seq(Request)]
    BY DEF TypeOK
  <1> HIDE DEF m
  <1>4. /\ Len(Append(requests[s], m)) = Len(requests[s]) + 1
        /\ \A i \in 1 .. Len(requests[s]) : Append(requests[s], m)[i] = requests[s][i]
        /\ Append(requests[s], m)[Len(requests[s]) + 1] = m
    BY <1>1, <1>3, AppendProperties
  <1>5. \A t \in Strategies : Len(requests[t]) \in Nat
    BY <1>3, LenProperties
  <1>6. /\ requests'[s] = Append(requests[s], m)
        /\ \A t \in Strategies : t # s => requests'[t] = requests[t]
    BY <1>1, <1>3
  <1>7. ASSUME NEW t \in Strategies, NEW i \in Nat, NEW action, NEW k
        PROVE  Asks(t, i, action, k)' <=>
                 \/ Asks(t, i, action, k)
                 \/ t = s /\ i = Len(requests[s]) + 1 /\ action = act /\ k = kl
    <2>1. CASE t # s
      BY <1>6, <2>1 DEF Asks
    <2>2. CASE t = s /\ i \in 1 .. Len(requests[s])
      <3>1. requests'[s][i] = requests[s][i] /\ i \in 1 .. Len(requests'[s])
            /\ i # Len(requests[s]) + 1
        BY <1>4, <1>5, <1>6, <2>2
      <3> QED BY <2>2, <3>1 DEF Asks
    <2>3. CASE t = s /\ i = Len(requests[s]) + 1
      <3>1. requests'[s][i] = m /\ i \in 1 .. Len(requests'[s])
            /\ i \notin 1 .. Len(requests[s])
        BY <1>4, <1>5, <1>6, <2>3
      <3> QED BY <1>2, <2>3, <3>1 DEF Asks
    <2>4. CASE t = s /\ i \notin 1 .. Len(requests[s]) /\ i # Len(requests[s]) + 1
      <3>1. i \notin 1 .. Len(requests'[s])
        BY <1>4, <1>5, <1>6, <2>4
      <3> QED BY <2>4, <3>1 DEF Asks
    <2> QED BY <2>1, <2>2, <2>3, <2>4
  <1>8. \A t \in Strategies :
          Len(requests'[t]) = IF t = s THEN Len(requests[t]) + 1 ELSE Len(requests[t])
    BY <1>4, <1>6
  <1> QED BY <1>5, <1>7, <1>8

LEMMA CountAsk ==
  ASSUME TypeOK, CountInv, NEW s \in Strategies, NEW kl \in Klines,
         AskSubscribe(s, kl) \/ AskUnsubscribe(s, kl)
  PROVE  CountInv'
  <1> SUFFICES ASSUME ~misused' PROVE CountInv'
    BY DEF CountInv
  <1>1. PICK act \in {"subscribe", "unsubscribe"} :
          /\ Ask(s, act, kl)
          /\ act = "subscribe" => wants' = [wants EXCEPT ![s] = @ \cup {kl}]
          /\ act = "unsubscribe" => wants' = [wants EXCEPT ![s] = @ \ {kl}] /\ kl \in wants[s]
    BY DEF AskSubscribe, AskUnsubscribe
  <1>2. ~misused
    BY DEF AskSubscribe, AskUnsubscribe
  <1>3. PICK holds \in SUBSET (Strategies \X Klines) : Balanced(holds)
    BY <1>2 DEF CountInv
  <1>4. /\ \A t \in Strategies : Len(requests[t]) \in Nat
        /\ \A t \in Strategies :
             Len(requests'[t]) = IF t = s THEN Len(requests[t]) + 1 ELSE Len(requests[t])
        /\ \A t \in Strategies, i \in Nat : \A action, k :
             Asks(t, i, action, k)' <=>
               \/ Asks(t, i, action, k)
               \/ t = s /\ i = Len(requests[s]) + 1 /\ action = act /\ k = kl
    BY <1>1, AsksMore
  <1>5. ASSUME NEW t \in Strategies, NEW k \in Klines, NEW n \in 0 .. Len(requests[t]),
               Has(holds, t, k, n)
        PROVE  Has(holds, t, k, n)'
    BY <1>4, <1>5 DEF Has
  <1>6. wants \in [Strategies -> SUBSET Klines]
    BY DEF TypeOK
  <1>n. PICK n \in Nat, e \in Nat :
          n = Len(requests[s]) /\ e = n + 1 /\ Len(requests'[s]) = e
    BY <1>4
  <1>e. /\ \A k : Asks(s, e, "subscribe", k)' <=> act = "subscribe" /\ k = kl
        /\ \A k : Asks(s, e, "unsubscribe", k)' <=> act = "unsubscribe" /\ k = kl
    <2>1. \A k, action : ~Asks(s, e, action, k)
      BY <1>n DEF Asks
    <2> QED BY <1>4, <1>n, <2>1
  <1>7. ASSUME NEW t \in Strategies, NEW k \in Klines, NEW j \in 1 .. Len(requests'[t]),
               Asks(t, j, "unsubscribe", k)'
        PROVE  Has(holds, t, k, j - 1)'
    <2>1. CASE Asks(t, j, "unsubscribe", k)
      <3>1. j \in 1 .. Len(requests[t])
        BY <2>1 DEF Asks
      <3>2. Has(holds, t, k, j - 1) /\ j - 1 \in 0 .. Len(requests[t])
        BY <1>3, <1>4, <2>1, <3>1 DEF Balanced
      <3> QED BY <1>5, <3>2
    <2>2. CASE t = s /\ j = Len(requests[s]) + 1 /\ act = "unsubscribe" /\ k = kl
      <3>1. Has(holds, t, k, n) /\ n \in 0 .. Len(requests[t]) /\ j - 1 = n
        BY <1>1, <1>3, <1>n, <2>2 DEF Balanced
      <3> QED BY <1>5, <3>1
    <2> QED BY <1>4, <1>7, <2>1, <2>2
  <1>8. ASSUME NEW t \in Strategies, NEW k \in wants'[t]
        PROVE  Has(holds, t, k, Len(requests[t]))' /\ k \in Klines
    <2>1. k \in wants[t] \/ (t = s /\ k = kl /\ act = "subscribe")
      BY <1>1, <1>6, <1>8
    <2>2. k \in Klines
      BY <1>6, <2>1
    <2>3. CASE t # s
      <3>1. PICK m \in Nat : m = Len(requests[t]) /\ m = Len(requests'[t])
        BY <1>4, <2>3
      <3>2. m \in 0 .. Len(requests[t]) /\ k \in wants[t]
        BY <2>1, <2>3, <3>1
      <3>3. Has(holds, t, k, Len(requests[t]))
        BY <1>3, <3>2 DEF Balanced
      <3>4. Has(holds, t, k, m)
        BY <3>1, <3>3
      <3>5. Has(holds, t, k, m)'
        BY <1>5, <2>2, <3>2, <3>4
      <3> QED BY <2>2, <3>1, <3>5
    <2>4. CASE t = s /\ k = kl
      <3>1. act = "subscribe"
        BY <1>1, <1>6, <1>8, <2>4
      <3>2. Asks(s, e, "subscribe", k)'
        BY <1>e, <2>4, <3>1
      <3>3. Has(holds, s, k, e)'
        BY <1>n, <3>2 DEF Has
      <3> QED BY <1>n, <2>2, <2>4, <3>3
    <2>5. CASE t = s /\ k # kl
      <3>1. Has(holds, s, k, n) /\ n \in 0 .. n
        BY <1>3, <1>n, <2>1, <2>5 DEF Balanced
      <3>2. Has(holds, s, k, n)'
        BY <1>5, <1>n, <2>2, <3>1
      <3>3. ~Asks(s, e, "unsubscribe", k)'
        BY <1>e, <2>5
      <3>4. Has(holds, s, k, e)'
        BY <1>n, <3>2, <3>3 DEF Has
      <3> QED BY <1>n, <2>2, <2>5, <3>4
    <2> QED BY <2>3, <2>4, <2>5
  <1>9. UNCHANGED <<refs, subscribed>>
    BY <1>1 DEF Ask
  <1>10. Balanced(holds)'
    BY <1>3, <1>7, <1>8, <1>9 DEF Balanced, Holders
  <1> QED BY <1>2, <1>9, <1>10 DEF CountInv

(* The message at the head of the queue of s is gone.                      *)
LEMMA AsksFewer ==
  ASSUME TypeOK, NEW s \in Strategies, HandleSubscription(s)
  PROVE  /\ \A t \in Strategies : Len(requests[t]) \in Nat
         /\ Len(requests[s]) > 0
         /\ \A t \in Strategies :
              Len(requests'[t]) = IF t = s THEN Len(requests[t]) - 1 ELSE Len(requests[t])
         /\ \A t \in Strategies : \A i, action, k :
              t # s => (Asks(t, i, action, k)' <=> Asks(t, i, action, k))
         /\ \A i, j \in Nat \ {0} : \A action, k :
              j = i + 1 => (Asks(s, i, action, k)' <=> Asks(s, j, action, k))
  <1>1. requests \in [Strategies -> Seq(Request)]
    BY DEF TypeOK
  <1>2. requests[s] # <<>> /\ requests' = [requests EXCEPT ![s] = Tail(@)]
    BY DEF HandleSubscription
  <1>3. \A t \in Strategies : Len(requests[t]) \in Nat
    BY <1>1, LenProperties
  <1>4. Len(requests[s]) > 0
    BY <1>1, <1>2, <1>3, EmptySeq
  <1>5. /\ Len(requests'[s]) = Len(requests[s]) - 1
        /\ \A i \in 1 .. Len(requests'[s]) : requests'[s][i] = requests[s][i + 1]
    <2>1. requests'[s] = Tail(requests[s])
      BY <1>1, <1>2
    <2> QED BY <1>1, <1>2, <2>1, HeadTailProperties
  <1>6. \A t \in Strategies : t # s => requests'[t] = requests[t]
    BY <1>1, <1>2
  <1>7. \A t \in Strategies : \A i, action, k :
          t # s => (Asks(t, i, action, k)' <=> Asks(t, i, action, k))
    BY <1>6 DEF Asks
  <1>8. ASSUME NEW i \in Nat \ {0}, NEW j \in Nat \ {0}, NEW action, NEW k, j = i + 1
        PROVE  Asks(s, i, action, k)' <=> Asks(s, j, action, k)
    <2>1. i \in 1 .. Len(requests'[s]) <=> j \in 1 .. Len(requests[s])
      BY <1>3, <1>5, <1>8
    <2>2. i \in 1 .. Len(requests'[s]) => requests'[s][i] = requests[s][j]
      BY <1>5, <1>8
    <2> QED BY <2>1, <2>2 DEF Asks
  <1>9. \A t \in Strategies :
          Len(requests'[t]) = IF t = s THEN Len(requests[t]) - 1 ELSE Len(requests[t])
    BY <1>5, <1>6
  <1> QED BY <1>3, <1>4, <1>7, <1>8, <1>9

(* What s holds once the message of its queue's head is handled.           *)
Settled(holds, s, action, k) ==
  IF action = "subscribe" THEN holds \cup {<<s, k>>} ELSE holds \ {<<s, k>>}

LEMMA HasFewer ==
  ASSUME TypeOK, NEW s \in Strategies, HandleSubscription(s),
         NEW act \in {"subscribe", "unsubscribe"}, NEW kl \in Klines,
         act = Head(requests[s]).action, kl = Head(requests[s]).kline,
         NEW holds \in SUBSET (Strategies \X Klines),
         NEW t \in Strategies, NEW k \in Klines, NEW n \in Nat, NEW m \in Nat,
         m = IF t = s THEN n + 1 ELSE n, Has(holds, t, k, m)
  PROVE  Has(Settled(holds, s, act, kl), t, k, n)'
  <1>0. PICK after : after = Settled(holds, s, act, kl)
    OBVIOUS
  <1> SUFFICES Has(after, t, k, n)'
    BY <1>0
  <1>1. \A i, action, p : t # s => (Asks(t, i, action, p)' <=> Asks(t, i, action, p))
    BY AsksFewer
  <1>2. \A i, j \in Nat \ {0} : \A action, p :
          j = i + 1 => (Asks(s, i, action, p)' <=> Asks(s, j, action, p))
    BY AsksFewer
  <1>3. \A action, p : Asks(s, 1, action, p) <=> action = act /\ p = kl
    <2>1. 1 \in 1 .. Len(requests[s]) /\ Head(requests[s]) = requests[s][1]
      BY AsksFewer, HeadTyped
    <2> QED BY <2>1 DEF Asks
  <1>4. t # s \/ k # kl => (<<t, k>> \in holds <=> <<t, k>> \in after)
    BY <1>0 DEF Settled
  <1>5. t = s /\ k = kl => (<<t, k>> \in after <=> act = "subscribe")
    BY <1>0 DEF Settled
  <1>6. CASE t # s
    BY <1>1, <1>4, <1>6 DEF Has
  <1>7. CASE t = s
    <2>0. m = n + 1
      BY <1>7
    <2>1. \A i \in Nat, j \in 1 .. n :
            j \in i .. n /\ (\A l \in i + 1 .. m : ~Asks(s, l, "unsubscribe", k))
              => ~Asks(s, j, "unsubscribe", k)'
      <3> SUFFICES ASSUME NEW i \in Nat, NEW j \in 1 .. n, j \in i .. n,
                          \A l \in i + 1 .. m : ~Asks(s, l, "unsubscribe", k)
                   PROVE  ~Asks(s, j, "unsubscribe", k)'
        OBVIOUS
      <3>1. PICK l \in Nat \ {0} : l = j + 1
        OBVIOUS
      <3>2. l \in i + 1 .. m
        BY <2>0, <3>1
      <3> QED BY <1>2, <3>1, <3>2
    <2>2. CASE <<s, k>> \in holds /\ \A j \in 1 .. m : ~Asks(s, j, "unsubscribe", k)
      <3>1. <<s, k>> \in after
        BY <1>3, <1>4, <1>5, <1>7, <2>0, <2>2
      <3>2. \A j \in 1 .. n : ~Asks(s, j, "unsubscribe", k)'
        BY <2>1, <2>2
      <3> QED BY <1>7, <3>1, <3>2 DEF Has
    <2>3. ASSUME NEW i \in 1 .. m, Asks(s, i, "subscribe", k),
                 \A j \in i + 1 .. m : ~Asks(s, j, "unsubscribe", k)
          PROVE  Has(after, s, k, n)'
      <3>1. CASE i = 1
        <4>1. <<s, k>> \in after
          BY <1>3, <1>5, <1>7, <2>3, <3>1
        <4>2. \A j \in 1 .. n : ~Asks(s, j, "unsubscribe", k)'
          BY <2>1, <2>3, <3>1
        <4> QED BY <4>1, <4>2 DEF Has
      <3>2. CASE i # 1
        <4>1. PICK h \in Nat \ {0} : i = h + 1 /\ h \in 1 .. n
          <5>1. i - 1 \in Nat \ {0} /\ i = (i - 1) + 1 /\ i - 1 \in 1 .. n
            BY <2>0, <3>2
          <5> QED BY <5>1
        <4>2. Asks(s, h, "subscribe", k)'
          BY <1>2, <2>3, <4>1
        <4>3. \A j \in h + 1 .. n : ~Asks(s, j, "unsubscribe", k)'
          BY <2>1, <2>3, <4>1
        <4> QED BY <4>1, <4>2, <4>3 DEF Has
      <3> QED BY <3>1, <3>2
    <2> QED BY <1>7, <2>0, <2>2, <2>3 DEF Has
  <1> QED BY <1>6, <1>7

(* The share of s in the count of kl comes and goes with its holding.      *)
LEMMA SharesSettle ==
  ASSUME TypeOK, NEW s \in Strategies, HandleSubscription(s), ~misused, CountInv,
         NEW act \in {"subscribe", "unsubscribe"}, NEW kl \in Klines,
         act = Head(requests[s]).action, kl = Head(requests[s]).kline,
         NEW holds \in SUBSET (Strategies \X Klines), Balanced(holds),
         NEW after, after = Settled(holds, s, act, kl), NEW k \in Klines
  PROVE  /\ IsFiniteSet(Holders(after, k))
         /\ \/ Cardinality(Holders(after, k)) + MainShare(k) <= refs'[k]
            \/ refs'[k] = 0 /\ Holders(after, k) = {}
         /\ k \in MainKlines => k \in subscribed'
         /\ refs'[k] > 0 => k \in subscribed'
  <1> DEFINE H == Holders(holds, k)
             A == Holders(after, k)
  <1>1. /\ act = "subscribe" => HandleSubscribe(kl)
        /\ act = "unsubscribe" => HandleUnsubscribe(kl)
    BY DEF HandleSubscription
  <1>2. /\ refs \in [Klines -> Nat] /\ refs[k] \in Nat
        /\ MainShare(k) \in {0, 1} /\ (MainShare(k) = 1 <=> k \in MainKlines)
    BY DEF TypeOK, MainShare
  <1>3. /\ k \in MainKlines => k \in subscribed
        /\ refs[k] > 0 => k \in subscribed
    BY DEF CountInv
  <1>4. IsFiniteSet(H) /\ Cardinality(H) \in Nat
    BY FS_CardinalityType DEF Balanced
  <1>5. Cardinality(H) + MainShare(k) <= refs[k] \/ (refs[k] = 0 /\ H = {})
    BY DEF Balanced
  <1>6. CASE k # kl
    <2>1. A = H
      BY <1>6 DEF Holders, Settled
    <2>2. refs'[k] = refs[k] /\ (k \in subscribed' <=> k \in subscribed)
      BY <1>1, <1>2, <1>6 DEF HandleSubscribe, HandleUnsubscribe
    <2> QED BY <1>3, <1>4, <1>5, <2>1, <2>2
  <1>7. CASE k = kl /\ act = "subscribe"
    <2>1. A = H \cup {s}
      BY <1>7 DEF Holders, Settled
    <2>2. IsFiniteSet(A) /\ Cardinality(A) \in Nat /\ Cardinality(A) <= Cardinality(H) + 1
      <3>1. /\ IsFiniteSet(A)
            /\ Cardinality(A) = IF s \in H THEN Cardinality(H) ELSE Cardinality(H) + 1
        BY <1>4, <2>1, FS_AddElement
      <3> HIDE DEF H, A
      <3> QED BY <1>4, <3>1
    <2>3. /\ refs'[k] = IF refs[k] = 0 /\ k \in subscribed THEN 2 ELSE refs[k] + 1
          /\ k \in subscribed'
      BY <1>1, <1>2, <1>7 DEF HandleSubscribe
    <2>4. H = {} => Cardinality(H) = 0
      BY FS_EmptySet
    <2>5. Cardinality(A) + MainShare(k) <= refs'[k]
      BY <1>2, <1>3, <1>4, <1>5, <2>2, <2>3, <2>4
    <2> QED BY <2>2, <2>3, <2>5
  <1>8. CASE k = kl /\ act = "unsubscribe"
    <2>1. s \in H
      <3>1. /\ 1 \in 1 .. Len(requests[s]) /\ Head(requests[s]) = requests[s][1]
        BY AsksFewer, HeadTyped
      <3>2. Asks(s, 1, "unsubscribe", kl)
        BY <1>8, <3>1 DEF Asks
      <3>3. PICK z : z = 1 - 1
        OBVIOUS
      <3>4. Has(holds, s, kl, z)
        BY <3>1, <3>2, <3>3 DEF Balanced
      <3> QED BY <1>8, <3>3, <3>4 DEF Has, Holders
    <2>2. A = H \ {s}
      BY <1>8 DEF Holders, Settled
    <2>3. IsFiniteSet(A) /\ Cardinality(A) = Cardinality(H) - 1 /\ Cardinality(A) \in Nat
      BY <1>4, <2>1, <2>2, FS_RemoveElement, FS_CardinalityType
    <2>4. refs[k] > 0 /\ Cardinality(H) + MainShare(k) <= refs[k]
      BY <1>2, <1>4, <1>5, <2>1, <2>3
    <2>5. /\ refs'[k] = refs[k] - 1
          /\ k \in subscribed' <=> k \in subscribed /\ refs[k] # 1
      BY <1>1, <1>2, <1>8, <2>4 DEF HandleUnsubscribe
    <2>6. refs'[k] > 0 => k \in subscribed'
      BY <1>2, <1>3, <2>4, <2>5
    <2>7. k \in MainKlines => k \in subscribed'
      <3>1. Cardinality(H) # 0 /\ Cardinality(H) \in Nat
        BY <1>4, <2>1, FS_EmptySet
      <3> HIDE DEF H
      <3>2. k \in MainKlines => refs[k] # 1
        BY <1>2, <2>4, <3>1 DEF MainShare
      <3> QED BY <1>3, <2>5, <3>2
    <2>8. Cardinality(A) + MainShare(k) <= refs'[k]
      <3> HIDE DEF H, A
      <3> QED BY <1>2, <1>4, <2>3, <2>4, <2>5 DEF MainShare
    <2> QED BY <2>3, <2>6, <2>7, <2>8
  <1> QED BY <1>6, <1>7, <1>8

LEMMA CountHandle ==
  ASSUME TypeOK, CountInv, NEW s \in Strategies, HandleSubscription(s)
  PROVE  CountInv'
  <1> SUFFICES ASSUME ~misused PROVE CountInv'
    BY DEF CountInv, HandleSubscription
  <1>1. PICK act \in {"subscribe", "unsubscribe"}, kl \in Klines :
          act = Head(requests[s]).action /\ kl = Head(requests[s]).kline
    <2>1. Head(requests[s]) \in Request
      BY HeadTyped
    <2>2. /\ Head(requests[s]).action \in {"subscribe", "unsubscribe"}
          /\ Head(requests[s]).kline \in Klines
      BY <2>1 DEF Request
    <2> QED BY <2>2
  <1>2. PICK holds \in SUBSET (Strategies \X Klines) : Balanced(holds)
    BY DEF CountInv
  <1>3. PICK after : after = Settled(holds, s, act, kl)
    OBVIOUS
  <1>4. after \in SUBSET (Strategies \X Klines)
    BY <1>3 DEF Settled
  <1>5. \A t \in Strategies : Len(requests[t]) \in Nat /\ Len(requests'[t]) \in Nat
    BY AsksFewer
  <1>6. ASSUME NEW t \in Strategies, NEW k \in Klines, NEW j \in 1 .. Len(requests'[t]),
               Asks(t, j, "unsubscribe", k)'
        PROVE  Has(after, t, k, j - 1)'
    <2>1. PICK n \in Nat, m \in Nat, p \in Nat \ {0} :
            n = j - 1 /\ m = (IF t = s THEN n + 1 ELSE n) /\ p = m + 1
      <3>1. j - 1 \in Nat
        BY <1>5
      <3> QED BY <3>1
    <2>2. Asks(t, p, "unsubscribe", k)
      BY <1>5, <1>6, <2>1, AsksFewer
    <2>3. p \in 1 .. Len(requests[t]) /\ m = p - 1
      BY <2>1, <2>2 DEF Asks
    <2>4. Has(holds, t, k, m)
      BY <1>2, <2>2, <2>3 DEF Balanced
    <2>5. Has(Settled(holds, s, act, kl), t, k, n)'
      BY <1>1, <2>1, <2>4, HasFewer
    <2> QED BY <1>3, <2>1, <2>5
  <1>7. ASSUME NEW t \in Strategies, NEW k \in wants'[t]
        PROVE  Has(after, t, k, Len(requests[t]))'
    <2>1. k \in wants[t] /\ k \in Klines
      BY <1>7 DEF HandleSubscription, TypeOK
    <2>2. PICK n \in Nat, m \in Nat :
            /\ n = Len(requests'[t]) /\ m = Len(requests[t])
            /\ m = IF t = s THEN n + 1 ELSE n
      BY <1>5, AsksFewer
    <2>3. Has(holds, t, k, m)
      BY <1>2, <2>1, <2>2 DEF Balanced
    <2>4. Has(Settled(holds, s, act, kl), t, k, n)'
      BY <1>1, <2>1, <2>2, <2>3, HasFewer
    <2> QED BY <1>3, <2>2, <2>4
  <1>8. \A k \in Klines :
          /\ IsFiniteSet(Holders(after, k))
          /\ \/ Cardinality(Holders(after, k)) + MainShare(k) <= refs'[k]
             \/ refs'[k] = 0 /\ Holders(after, k) = {}
          /\ k \in MainKlines => k \in subscribed'
          /\ refs'[k] > 0 => k \in subscribed'
    BY <1>1, <1>2, <1>3, SharesSettle
  <1>9. Balanced(after)'
    BY <1>6, <1>7, <1>8 DEF Balanced, Holders, MainShare
  <1> QED BY <1>4, <1>8, <1>9, KlineAssumption DEF CountInv

LEMMA CountDies ==
  ASSUME TypeOK, CountInv, NEW s \in Strategies, StrategyDies(s)
  PROVE  CountInv'
  <1>1. /\ UNCHANGED <<refs, subscribed, requests, misused>>
        /\ \A t \in Strategies : wants'[t] \subseteq wants[t]
    BY DEF StrategyDies, TypeOK
  <1>2. \A holds, t, k, n : Has(holds, t, k, n)' <=> Has(holds, t, k, n)
    BY <1>1 DEF Has, Asks
  <1>3. ASSUME NEW holds \in SUBSET (Strategies \X Klines), Balanced(holds)
        PROVE  Balanced(holds)'
    BY <1>1, <1>2, <1>3 DEF Balanced, Asks, Holders
  <1> QED BY <1>1, <1>3 DEF CountInv

LEMMA CountStep == TypeOK /\ CountInv /\ [Next]_vars => CountInv'
  <1> SUFFICES ASSUME TypeOK, CountInv, [Next]_vars PROVE CountInv'
    OBVIOUS
  <1>1. ASSUME NEW c \in Conns, Open(c) \/ Lose(c) PROVE CountInv'
    BY <1>1, CountIdle DEF Open, Lose
  <1>2. CASE Callback \/ HeartbeatEnds
    BY <1>2, CountIdle DEF Callback, HeartbeatEnds
  <1>3. CASE Monitor
    BY <1>3, CountIdle DEF Monitor, Watch, ExitMonitor, ClearCallbacks, SetCallbacks, SetHooks,
       Connect, ConnectSucceeds, ConnectFails, MarkConnected, JoinHeartbeat, StartHeartbeat,
       Collect, Resend
  <1>4. CASE Disconnect \/ JoinMonitor \/ JoinHeart
    BY <1>4, CountIdle DEF Disconnect, JoinMonitor, JoinHeart
  <1>5. CASE UNCHANGED vars
    BY <1>5, CountIdle DEF vars
  <1> QED BY <1>1, <1>2, <1>3, <1>4, <1>5, CountAsk, CountHandle, CountDies DEF Next

(* As long as strategies give up only what they have, no candle that main  *)
(* or a strategy has subscribed is taken off the exchange: the count of    *)
(* handle_subscription never falls behind those who hold the candle,       *)
(* whatever was sent twice, is still queued, or was left by a process that *)
(* died.                                                                   *)
THEOREM NobodyCutOff == Spec => []NotCutOff
  <1>1. TypeOK /\ CountInv => NotCutOff
    <2> SUFFICES ASSUME TypeOK, CountInv, ~misused, NEW s \in Strategies, NEW k \in wants[s],
                        ~Pending(s, k)
                 PROVE  k \in subscribed
      BY DEF NotCutOff, CountInv
    <2>1. PICK holds \in SUBSET (Strategies \X Klines) : Balanced(holds)
      BY DEF CountInv
    <2>2. k \in Klines /\ requests \in [Strategies -> Seq(Request)]
      BY DEF TypeOK
    <2>3. \A i, action : ~Asks(s, i, action, k)
      BY <2>2 DEF Asks, Pending
    <2>4. PICK n : n = Len(requests[s])
      OBVIOUS
    <2>5. Has(holds, s, k, n)
      BY <2>1, <2>4 DEF Balanced
    <2>6. s \in Holders(holds, k)
      BY <2>3, <2>5 DEF Has, Holders
    <2>7. IsFiniteSet(Holders(holds, k)) /\ Cardinality(Holders(holds, k)) + MainShare(k) <= refs[k]
      BY <2>1, <2>2, <2>6 DEF Balanced
    <2>8. Cardinality(Holders(holds, k)) \in Nat /\ Cardinality(Holders(holds, k)) # 0
      BY <2>6, <2>7, FS_CardinalityType, FS_EmptySet
    <2>9. refs[k] > 0
      BY <2>2, <2>7, <2>8 DEF MainShare, TypeOK
    <2> QED BY <2>2, <2>9 DEF CountInv
  <1>2. FeedInv => TypeOK
    BY DEF FeedInv
  <1> QED BY <1>1, <1>2, FeedInit, FeedStep, CountInit, CountStep, PTL DEF Spec

=============================================================================
