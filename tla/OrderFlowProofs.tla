--------------------------- MODULE OrderFlowProofs ---------------------------
(***************************************************************************)
(* Theorems about OrderFlow, for any sets of strategies, orders and        *)
(* venues and any bounds.                                                  *)
(***************************************************************************)
EXTENDS OrderFlow, SequenceTheorems, FiniteSetTheorems, TLAPS

-----------------------------------------------------------------------------
(* Type correctness.                                                       *)

(* A call is in progress exactly when a request is being handled.          *)
Idle == stage = "idle" <=> current = NoRequest

TypeInv == TypeOK /\ Idle

(* What the helpers of the actions leave typed.                            *)
LEMMA PushTyped ==
  ASSUME TypeInv, NEW s \in Strategies, NEW r \in Request, Push(s, r)
  PROVE  sent' \in Nat /\ toServer' \in [Strategies -> Seq(Request)]
  <1>1. Append(toServer[s], r) \in Seq(Request)
    BY AppendProperties DEF TypeInv, TypeOK
  <1> QED BY <1>1 DEF TypeInv, TypeOK, Push

LEMMA ReceiveTyped ==
  ASSUME TypeInv, NEW s \in Strategies, NEW kind, Receive(s, kind)
  PROVE  /\ Head(toServer[s]) \in Request
         /\ toServer' \in [Strategies -> Seq(Request)]
  <1>1. Head(toServer[s]) \in Request /\ Tail(toServer[s]) \in Seq(Request)
    BY HeadTailProperties DEF TypeInv, TypeOK, Receive
  <1> QED BY <1>1 DEF TypeInv, TypeOK, Receive

LEMMA CallTyped ==
  ASSUME TypeInv, NEW s \in Strategies, NEW kind, Receive(s, kind),
         Call(Head(toServer[s]))
  PROVE  /\ toServer' \in [Strategies -> Seq(Request)]
         /\ current' \in Request /\ stage' = "called" /\ Idle'
  <1>1. Head(toServer[s]) \in Request
    BY ReceiveTyped
  <1>2. Head(toServer[s]) # NoRequest
    BY <1>1 DEF Request, NoRequest, RequestKinds
  <1> QED BY <1>1, <1>2, ReceiveTyped DEF Call, Idle

LEMMA PublishTyped ==
  ASSUME TypeInv, NEW r \in Report, Publish(r)
  PROVE  inbox' \in [Strategies -> Seq(Report)]
  <1>1. \A s \in Strategies : Append(inbox[s], r) \in Seq(Report)
    BY AppendProperties DEF TypeInv, TypeOK
  <1> QED BY <1>1 DEF TypeInv, TypeOK, Publish

LEMMA AnsweredTyped ==
  ASSUME TypeInv, NEW ids \in SUBSET Orders, NEW good \in SUBSET Orders,
         Answered(ids, good)
  PROVE  answers' \in [Orders -> Nat] /\ acked' \subseteq Orders
  BY DEF TypeInv, TypeOK, Answered

LEMMA CountTyped ==
  ASSUME NEW ids \in SUBSET Orders
  PROVE  Cardinality(ids) \in Nat
  BY FS_Subset, FS_CardinalityType, OrdersAreFinite

LEMMA RejectionTyped ==
  ASSUME TypeInv, NEW s \in Strategies, NEW q \in Request,
         Publish(Rejection(s, q)), Answered(q.ids, {})
  PROVE  /\ inbox' \in [Strategies -> Seq(Report)]
         /\ answers' \in [Orders -> Nat]
         /\ acked' \subseteq Orders
  <1>1. q.ids \in SUBSET Orders
    BY DEF Request
  <1>2. Rejection(s, q) \in Report
    BY <1>1 DEF Rejection, Report, ReportTypes, ReportStatuses
  <1>3. inbox' \in [Strategies -> Seq(Report)]
    BY <1>2, PublishTyped
  <1>4. answers' \in [Orders -> Nat] /\ acked' \subseteq Orders
    BY <1>1, AnsweredTyped
  <1> QED BY <1>3, <1>4

LEMMA TypeInit == Init => TypeInv
  BY OkxIsVenue, BoundsAreNat
     DEF Init, TypeInv, TypeOK, Idle, Stages, MarketStates, OrderStatuses, NoRequest

LEMMA TypeSend ==
  ASSUME TypeInv, NEW s \in Strategies, Send(s)
  PROVE  TypeInv'
  <1> USE DEF Request, RequestKinds
  <1>1. ASSUME NEW o \in Orders, NEW v \in Venues, SendOrder(s, o, v)
        PROVE  TypeInv'
    BY <1>1, PushTyped
       DEF SendOrder, Track, TypeInv, TypeOK, Idle, OrderStatuses, server, exchange,
           counters
  <1>2. ASSUME NEW ids \in SUBSET Orders, NEW v \in Venues, SendBatch(s, ids, v)
        PROVE  TypeInv'
    BY <1>2, PushTyped
       DEF SendBatch, Track, TypeInv, TypeOK, Idle, OrderStatuses, server, exchange,
           counters
  <1>3. ASSUME NEW o \in Orders, SendCancel(s, o)
        PROVE  TypeInv'
    BY <1>3, PushTyped, OkxIsVenue
       DEF SendCancel, TypeInv, TypeOK, Idle, server, exchange, counters, client
  <1>4. CASE SendCancelAll(s)
    BY <1>4, PushTyped, OkxIsVenue
       DEF SendCancelAll, TypeInv, TypeOK, Idle, server, exchange, counters, client
  <1>5. ASSUME NEW v \in Venues, SendRegister(s, v)
        PROVE  TypeInv'
    BY <1>5, PushTyped
       DEF SendRegister, TypeInv, TypeOK, Idle, server, exchange, counters, client
  <1>6. ASSUME NEW v \in Venues, SendUnregister(s, v)
        PROVE  TypeInv'
    BY <1>6, PushTyped
       DEF SendUnregister, TypeInv, TypeOK, Idle, server, exchange, counters
  <1> QED BY <1>1, <1>2, <1>3, <1>4, <1>5, <1>6 DEF Send

LEMMA TypeHandle ==
  ASSUME TypeInv, NEW s \in Strategies, Handle(s)
  PROVE  TypeInv'
  <1> USE DEF server, exchange, client, counters
  <1> DEFINE q == Head(toServer[s])
  <1>a. ASSUME NEW kind, Receive(s, kind)
        PROVE  q \in Request /\ q.ids \in SUBSET Orders
    BY <1>a, ReceiveTyped DEF Request
  <1>1. CASE RejectByRisk(s)
    <2>1. q \in Request /\ toServer' \in [Strategies -> Seq(Request)]
      BY <1>1, ReceiveTyped DEF RejectByRisk
    <2>2. Publish(Rejection(s, q)) /\ Answered(q.ids, {})
      BY <1>1 DEF RejectByRisk
    <2> QED BY <1>1, <2>1, <2>2, RejectionTyped DEF RejectByRisk, TypeInv, TypeOK, Idle
  <1>2. CASE RejectNoAccount(s)
    <2>1. q \in Request /\ toServer' \in [Strategies -> Seq(Request)]
      BY <1>2, ReceiveTyped DEF RejectNoAccount
    <2>2. Publish(Rejection(s, q)) /\ Answered(q.ids, {}) /\ cleared' = cleared \cup q.ids
      BY <1>2 DEF RejectNoAccount
    <2>3. cleared' \subseteq Orders
      BY <1>2, <1>a, <2>2 DEF RejectNoAccount, TypeInv, TypeOK
    <2> QED BY <1>2, <2>1, <2>2, <2>3, RejectionTyped
            DEF RejectNoAccount, TypeInv, TypeOK, Idle
  <1>3. CASE PlaceOrder(s)
    <2>1. cleared' \subseteq Orders
      BY <1>3, <1>a DEF PlaceOrder, TypeInv, TypeOK
    <2> QED BY <1>3, <2>1, CallTyped DEF PlaceOrder, TypeInv, TypeOK, Stages
  <1>4. CASE RejectBatch(s)
    <2>1. q \in Request /\ toServer' \in [Strategies -> Seq(Request)]
      BY <1>4, ReceiveTyped DEF RejectBatch
    <2>2. inbox' \in [Strategies -> Seq(Report)]
      BY <1>4, PublishTyped DEF RejectBatch, Report, ReportTypes, ReportStatuses
    <2>3. answers' \in [Orders -> Nat] /\ acked' \subseteq Orders
      BY <1>4, <1>a, AnsweredTyped DEF RejectBatch
    <2>4. UNCHANGED <<sent, server, exchange, loop, client, counters, cleared, crashes>>
      BY <1>4 DEF RejectBatch
    <2> QED BY <2>1, <2>2, <2>3, <2>4 DEF TypeInv, TypeOK, Idle
  <1>5. CASE PlaceBatch(s)
    BY <1>5, CallTyped DEF PlaceBatch, TypeInv, TypeOK, Stages
  <1>6. CASE RejectCancel(s)
    <2>1. Head(toServer[s]) \in Request /\ toServer' \in [Strategies -> Seq(Request)]
      BY <1>6, ReceiveTyped DEF RejectCancel
    <2>2. inbox' \in [Strategies -> Seq(Report)]
      BY <1>6, <1>a, <2>1, PublishTyped DEF RejectCancel, Report, ReportTypes, ReportStatuses
    <2>3. UNCHANGED <<sent, server, exchange, loop, client, counters, cleared, answers,
                      acked, crashes>>
      BY <1>6 DEF RejectCancel
    <2> QED BY <2>1, <2>2, <2>3 DEF TypeInv, TypeOK, Idle
  <1>7. CASE CallCancel(s)
    BY <1>7, CallTyped DEF CallCancel, TypeInv, TypeOK, Stages
  <1>8. CASE DropCancelAll(s)
    BY <1>8, ReceiveTyped DEF DropCancelAll, TypeInv, TypeOK, Idle
  <1>9. ASSUME NEW ok \in BOOLEAN, RegisterAccount(s, ok)
        PROVE  TypeInv'
    <2>1. Head(toServer[s]) \in Request /\ toServer' \in [Strategies -> Seq(Request)]
      BY <1>9, ReceiveTyped DEF RegisterAccount
    <2>2. inbox' \in [Strategies -> Seq(Report)]
      BY <1>9, PublishTyped
         DEF RegisterAccount, AccountReport, Report, ReportTypes, ReportStatuses
    <2>3. registry' \in [Strategies -> SUBSET Venues]
      BY <1>9, <2>1 DEF RegisterAccount, TypeInv, TypeOK, Request
    <2> QED BY <1>9, <2>1, <2>2, <2>3 DEF RegisterAccount, TypeInv, TypeOK, Idle
  <1>10. CASE UnregisterAccount(s)
    <2>1. Head(toServer[s]) \in Request /\ toServer' \in [Strategies -> Seq(Request)]
      BY <1>10, ReceiveTyped DEF UnregisterAccount
    <2>2. inbox' \in [Strategies -> Seq(Report)]
      BY <1>10, PublishTyped
         DEF UnregisterAccount, AccountReport, Report, ReportTypes, ReportStatuses
    <2>3. registry' \in [Strategies -> SUBSET Venues]
      BY <1>10, <2>1 DEF UnregisterAccount, TypeInv, TypeOK, Request
    <2> QED BY <1>10, <2>1, <2>2, <2>3 DEF UnregisterAccount, TypeInv, TypeOK, Idle
  <1> QED
    BY <1>1, <1>2, <1>3, <1>4, <1>5, <1>6, <1>7, <1>8, <1>9, <1>10 DEF Handle

LEMMA TypeExchange ==
  ASSUME TypeInv, Exchange
  PROVE  TypeInv'
  <1> USE DEF server, exchange, client, counters
  <1>1. ASSUME NEW acc \in SUBSET Orders, NEW ref \in SUBSET Orders,
               ExchangePlace(acc, ref)
        PROVE  TypeInv'
    BY <1>1 DEF ExchangePlace, Execute, TypeInv, TypeOK, Idle, Stages, MarketStates
  <1>2. CASE ExchangeCancel
    BY <1>2 DEF ExchangeCancel, CancelAtOkx, TypeInv, TypeOK, Idle, Stages, MarketStates
  <1>3. ASSUME NEW q \in late, NEW acc \in SUBSET Orders, LandLate(q, acc)
        PROVE  TypeInv'
    BY <1>3 DEF LandLate, Execute, CancelAtOkx, TypeInv, TypeOK, Idle, MarketStates
  <1>4. ASSUME NEW o \in Orders, Fill(o)
        PROVE  TypeInv'
    BY <1>4 DEF Fill, TypeInv, TypeOK, Idle, MarketStates
  <1> QED BY <1>1, <1>2, <1>3, <1>4 DEF Exchange

LEMMA GiveUpTyped ==
  ASSUME TypeInv, current \in Request, GiveUp
  PROVE  late' \subseteq Request
  <1>1. [current EXCEPT !.ids = Unheard] \in Request
    BY DEF Request, Unheard
  <1> QED BY <1>1 DEF GiveUp, TypeInv, TypeOK

(* A reply concerns a request, and leaves the order thread idle.           *)
LEMMA ReplyTyped ==
  ASSUME TypeInv, current.kind \in RequestKinds
  PROVE  /\ current \in Request
         /\ Accepted \in SUBSET Orders /\ Refused \in SUBSET Orders
         /\ current.ids \in SUBSET Orders /\ current.from \in Strategies
         /\ Finish => current' \in Request \cup {NoRequest} /\ stage' \in Stages /\ Idle'
  <1>1. current \in Request
    BY DEF TypeInv, TypeOK, NoRequest, RequestKinds
  <1> QED BY <1>1 DEF Request, Accepted, Refused, Finish, Idle, Stages

LEMMA FinishBatchTyped ==
  ASSUME TypeInv, current.kind = "batch_order_request",
         NEW n \in Nat, NEW good \in SUBSET Orders, NEW bad \in SUBSET Orders,
         NEW st \in ReportStatuses, FinishBatch(n, good, bad, st)
  PROVE  TypeInv'
  <1>1. current \in Request /\ current.ids \in SUBSET Orders /\ current.from \in Strategies
    BY ReplyTyped DEF RequestKinds
  <1>2. Cardinality(good) \in Nat /\ Cardinality(bad) \in Nat
    BY CountTyped
  <1>3. orderCount' \in Nat /\ orderSuccess' \in Nat /\ orderFailed' \in Nat
    BY <1>2 DEF FinishBatch, TypeInv, TypeOK
  <1>4. [type |-> "batch_report", to |-> current.from, status |-> st,
         good |-> good, bad |-> bad] \in Report
    BY <1>1 DEF Report, ReportTypes
  <1>5. inbox' \in [Strategies -> Seq(Report)]
    BY <1>4, PublishTyped DEF FinishBatch
  <1>6. answers' \in [Orders -> Nat] /\ acked' \subseteq Orders
    BY <1>1, AnsweredTyped DEF FinishBatch
  <1>7. late' \subseteq Request
    BY <1>1, GiveUpTyped DEF FinishBatch
  <1>8. current' \in Request \cup {NoRequest} /\ stage' \in Stages /\ Idle'
    BY ReplyTyped DEF FinishBatch, RequestKinds
  <1>9. UNCHANGED <<sent, toServer, registry, market, loop, client, cleared, crashes>>
    BY DEF FinishBatch
  <1> QED BY <1>3, <1>5, <1>6, <1>7, <1>8, <1>9 DEF TypeInv, TypeOK, client

LEMMA TypeReply ==
  ASSUME TypeInv, Reply
  PROVE  TypeInv'
  <1> USE DEF exchange, client
  <1>1. CASE ReplyOrder
    <2>1. current.kind \in RequestKinds
      BY <1>1 DEF ReplyOrder, RequestKinds
    <2>2. \E st \in ReportStatuses :
            Publish([type |-> "order_report", to |-> current.from, status |-> st,
                     good |-> Accepted, bad |-> Refused])
      BY <1>1 DEF ReplyOrder, ReportStatuses
    <2>3. inbox' \in [Strategies -> Seq(Report)]
      BY <2>1, <2>2, ReplyTyped, PublishTyped DEF Report, ReportTypes
    <2>4. answers' \in [Orders -> Nat] /\ acked' \subseteq Orders
      BY <1>1, <2>1, ReplyTyped, AnsweredTyped DEF ReplyOrder
    <2>5. orderSuccess' \in Nat /\ orderFailed' \in Nat
      BY <1>1 DEF ReplyOrder, TypeInv, TypeOK
    <2>6. current' \in Request \cup {NoRequest} /\ stage' \in Stages /\ Idle'
      BY <1>1, <2>1, ReplyTyped DEF ReplyOrder
    <2>7. UNCHANGED <<sent, toServer, registry, exchange, loop, client, orderCount,
                      cleared, crashes>>
      BY <1>1 DEF ReplyOrder
    <2> QED BY <2>3, <2>4, <2>5, <2>6, <2>7 DEF TypeInv, TypeOK
  <1>2. CASE ReplyOrderFailure
    <2>1. current.kind \in RequestKinds
      BY <1>2 DEF ReplyOrderFailure, RequestKinds
    <2>2. /\ inbox' \in [Strategies -> Seq(Report)]
          /\ answers' \in [Orders -> Nat] /\ acked' \subseteq Orders
      BY <1>2, <2>1, ReplyTyped, RejectionTyped DEF ReplyOrderFailure
    <2>3. orderFailed' \in Nat
      BY <1>2 DEF ReplyOrderFailure, TypeInv, TypeOK
    <2>4. late' \subseteq Request
      BY <1>2, <2>1, ReplyTyped, GiveUpTyped DEF ReplyOrderFailure
    <2>5. current' \in Request \cup {NoRequest} /\ stage' \in Stages /\ Idle'
      BY <1>2, <2>1, ReplyTyped DEF ReplyOrderFailure
    <2>6. UNCHANGED <<sent, toServer, registry, market, loop, client, orderCount,
                      orderSuccess, cleared, crashes>>
      BY <1>2 DEF ReplyOrderFailure
    <2> QED BY <2>2, <2>3, <2>4, <2>5, <2>6 DEF TypeInv, TypeOK
  <1>3. ASSUME NEW lost \in SUBSET Orders, ReplyBatch(lost)
        PROVE  TypeInv'
    <2>1. current.kind = "batch_order_request" /\ current.kind \in RequestKinds
      BY <1>3 DEF ReplyBatch, RequestKinds
    <2>2. Cardinality(current.ids) \in Nat
      BY <2>1, ReplyTyped, CountTyped
    <2>3. \A good, bad : BatchStatus(good, bad) \in ReportStatuses
      BY DEF BatchStatus, ReportStatuses
    <2>4. FinishBatch(Cardinality(current.ids), Accepted \ lost, Refused \cup lost,
                      BatchStatus(Accepted \ lost, Refused \cup lost))
      BY <1>3 DEF ReplyBatch
    <2>5. Accepted \ lost \in SUBSET Orders /\ Refused \cup lost \in SUBSET Orders
      BY <2>1, ReplyTyped
    <2> QED BY <2>1, <2>2, <2>3, <2>4, <2>5, FinishBatchTyped
  <1>4. CASE ReplyBatchEmpty
    <2>1. current.kind = "batch_order_request" /\ current.kind \in RequestKinds
      BY <1>4 DEF ReplyBatchEmpty, RequestKinds
    <2>2. Cardinality(current.ids) \in Nat
      BY <2>1, ReplyTyped, CountTyped
    <2>3. BatchStatus({}, {}) \in ReportStatuses
      BY DEF BatchStatus, ReportStatuses
    <2>4. FinishBatch(Cardinality(current.ids), {}, {}, BatchStatus({}, {}))
      BY <1>4 DEF ReplyBatchEmpty
    <2>5. {} \in SUBSET Orders
      OBVIOUS
    <2> QED BY <2>1, <2>2, <2>3, <2>4, <2>5, FinishBatchTyped
  <1>5. CASE ReplyBatchFailure
    <2>1. current.kind = "batch_order_request" /\ FinishBatch(0, {}, {}, "rejected")
      BY <1>5 DEF ReplyBatchFailure
    <2>2. 0 \in Nat /\ {} \in SUBSET Orders /\ "rejected" \in ReportStatuses
      BY DEF ReportStatuses
    <2> QED BY <2>1, <2>2, FinishBatchTyped
  <1>6. CASE ReplyCancel
    <2>1. current.kind \in RequestKinds
      BY <1>6 DEF ReplyCancel, RequestKinds
    <2>2. PICK ok \in BOOLEAN :
            Publish([type |-> "cancel_report", to |-> current.from,
                     status |-> IF ok THEN "cancelled" ELSE "rejected",
                     good |-> IF ok THEN current.ids ELSE {},
                     bad |-> IF ok THEN {} ELSE current.ids])
      BY <1>6 DEF ReplyCancel
    <2>3. [type |-> "cancel_report", to |-> current.from,
           status |-> IF ok THEN "cancelled" ELSE "rejected",
           good |-> IF ok THEN current.ids ELSE {},
           bad |-> IF ok THEN {} ELSE current.ids] \in Report
      BY <2>1, ReplyTyped DEF Report, ReportTypes, ReportStatuses
    <2>4. inbox' \in [Strategies -> Seq(Report)]
      BY <2>2, <2>3, PublishTyped
    <2>5. late' \subseteq Request
      BY <1>6, <2>1, ReplyTyped, GiveUpTyped DEF ReplyCancel
    <2>6. current' \in Request \cup {NoRequest} /\ stage' \in Stages /\ Idle'
      BY <1>6, <2>1, ReplyTyped DEF ReplyCancel
    <2>7. UNCHANGED <<sent, toServer, registry, market, loop, client, counters, cleared,
                      answers, acked, crashes>>
      BY <1>6 DEF ReplyCancel
    <2> QED BY <2>4, <2>5, <2>6, <2>7 DEF TypeInv, TypeOK, counters
  <1> QED BY <1>1, <1>2, <1>3, <1>4, <1>5, <1>6 DEF Reply

LEMMA TakeTyped ==
  ASSUME TypeInv, NEW s \in Strategies, Take(s)
  PROVE  Head(inbox[s]) \in Report /\ inbox' \in [Strategies -> Seq(Report)]
  <1>1. Head(inbox[s]) \in Report /\ Tail(inbox[s]) \in Seq(Report)
    BY HeadTailProperties DEF TypeInv, TypeOK, Take
  <1> QED BY <1>1 DEF TypeInv, TypeOK, Take

LEMMA UpdateTyped ==
  ASSUME TypeInv, NEW s, NEW r, UpdateOrder(s, r)
  PROVE  status' \in [Orders -> OrderStatuses] /\ filledQty' \in [Orders -> BOOLEAN]
  BY DEF UpdateOrder, TypeInv, TypeOK, OrderStatuses

LEMMA CallbackTyped ==
  ASSUME NEW r \in Report
  PROVE  AsCallback(r) \in Callback /\ BatchCallbacks(r) \subseteq Callback
  <1>1. OrderOf(r) \in Orders \cup {NoOrder}
    <2>1. r.good \cup r.bad \subseteq Orders
      BY DEF Report
    <2>2. r.good \cup r.bad # {} => (CHOOSE o \in r.good \cup r.bad : TRUE) \in r.good \cup r.bad
      OBVIOUS
    <2> QED BY <2>1, <2>2 DEF OrderOf
  <1>2. AsCallback(r) \in Callback
    BY <1>1 DEF AsCallback, Callback, Report
  <1>3. BatchCallbacks(r) \subseteq Callback
    BY DEF BatchCallbacks, Callback, Report, ReportTypes, ReportStatuses
  <1> QED BY <1>2, <1>3

LEMMA SeenTyped ==
  ASSUME TypeInv, NEW s \in Strategies, NEW calls \in SUBSET Callback, CallBack(s, calls)
  PROVE  seen' \in [Strategies -> SUBSET Callback]
  BY DEF TypeInv, TypeOK, CallBack

LEMMA TypeDrain ==
  ASSUME TypeInv, NEW s \in Strategies, Drain(s)
  PROVE  TypeInv'
  <1> USE DEF server, exchange, client, counters
  <1> DEFINE r == Head(inbox[s])
  <1>1. CASE ProcessAccountReport(s)
    <2>1. r \in Report /\ inbox' \in [Strategies -> Seq(Report)]
      BY <1>1, TakeTyped DEF ProcessAccountReport
    <2>2. status' \in [Orders -> OrderStatuses] /\ filledQty' \in [Orders -> BOOLEAN]
      BY <1>1, UpdateTyped DEF ProcessAccountReport, TypeInv, TypeOK
    <2>3. registered' \in [Strategies -> BOOLEAN]
      BY <1>1 DEF ProcessAccountReport, TypeInv, TypeOK
    <2>4. \E calls \in SUBSET Callback : CallBack(s, calls)
      BY <1>1, <2>1, CallbackTyped DEF ProcessAccountReport
    <2>5. seen' \in [Strategies -> SUBSET Callback]
      BY <2>4, SeenTyped
    <2>6. UNCHANGED <<sent, toServer, server, exchange, loop, owner, venue, batched,
                      counters, cleared, answers, acked, crashes>>
      BY <1>1 DEF ProcessAccountReport
    <2> QED BY <2>1, <2>2, <2>3, <2>5, <2>6 DEF TypeInv, TypeOK, Idle
  <1>2. CASE ProcessOrderReport(s)
    <2>1. r \in Report /\ inbox' \in [Strategies -> Seq(Report)]
      BY <1>2, TakeTyped DEF ProcessOrderReport
    <2>2. status' \in [Orders -> OrderStatuses] /\ filledQty' \in [Orders -> BOOLEAN]
      BY <1>2, UpdateTyped DEF ProcessOrderReport, TypeInv, TypeOK
    <2>3. CallBack(s, {AsCallback(r)}) \/ UNCHANGED seen
      BY <1>2 DEF ProcessOrderReport
    <2>4. {AsCallback(r)} \in SUBSET Callback
      BY <2>1, CallbackTyped
    <2>5. seen' \in [Strategies -> SUBSET Callback]
      BY <2>3, <2>4, SeenTyped DEF TypeInv, TypeOK
    <2>6. UNCHANGED <<sent, toServer, server, exchange, loop, owner, venue, batched,
                      registered, counters, cleared, answers, acked, crashes>>
      BY <1>2 DEF ProcessOrderReport
    <2> QED BY <2>1, <2>2, <2>5, <2>6 DEF TypeInv, TypeOK, Idle
  <1>3. CASE NextLoop(s)
    BY <1>3 DEF NextLoop, TypeInv, TypeOK, Idle
  <1> QED BY <1>1, <1>2, <1>3 DEF Drain

LEMMA TypeLoseAccount ==
  ASSUME TypeInv, NEW s \in Strategies, NEW v \in Venues, LoseAccount(s, v)
  PROVE  TypeInv'
  BY DEF LoseAccount, TypeInv, TypeOK, Idle, exchange, client, counters

(* Any interval of a typed queue is a typed queue.                         *)
LEMMA SubSeqTyped ==
  ASSUME NEW M, NEW q \in Seq(M), NEW m \in Nat \ {0}, NEW n \in 0 .. Len(q)
  PROVE  SubSeq(q, m, n) \in Seq(M)
  <1>1. \A i \in m .. n : q[i] \in M
    BY ElementOfSeq, LenProperties
  <1> QED BY <1>1, SubSeqProperties, LenProperties

LEMMA TypeCrash ==
  ASSUME TypeInv, (\E s \in Strategies : StrategyCrash(s)) \/ ServerCrash
  PROVE  TypeInv'
  <1> USE DEF server, exchange, client, counters
  <1>1. ASSUME NEW s \in Strategies, StrategyCrash(s)
        PROVE  TypeInv'
    <2>1. PICK n \in 0 .. Len(toServer[s]) :
            toServer' = [toServer EXCEPT ![s] = SubSeq(@, 1, n)]
      BY <1>1 DEF StrategyCrash
    <2>2. SubSeq(toServer[s], 1, n) \in Seq(Request)
      BY SubSeqTyped DEF TypeInv, TypeOK
    <2>3. toServer' \in [Strategies -> Seq(Request)]
      BY <2>1, <2>2 DEF TypeInv, TypeOK
    <2>4. inbox' \in [Strategies -> Seq(Report)]
      BY <1>1 DEF StrategyCrash, TypeInv, TypeOK
    <2>5. /\ loop' \in [Strategies -> {"account", "orders"}]
          /\ registered' \in [Strategies -> BOOLEAN]
          /\ seen' \in [Strategies -> SUBSET Callback]
      BY <1>1 DEF StrategyCrash, TypeInv, TypeOK
    <2>6. /\ status' \in [Orders -> OrderStatuses]
          /\ filledQty' \in [Orders -> BOOLEAN]
      BY <1>1 DEF StrategyCrash, TypeInv, TypeOK, OrderStatuses
    <2>7. crashes' \in Nat
      BY <1>1 DEF StrategyCrash, TypeInv, TypeOK
    <2>8. UNCHANGED <<sent, server, exchange, owner, venue, batched, counters, cleared,
                      answers, acked>>
      BY <1>1 DEF StrategyCrash
    <2> QED BY <2>3, <2>4, <2>5, <2>6, <2>7, <2>8 DEF TypeInv, TypeOK, Idle
  <1>2. CASE ServerCrash
    <2>1. PICK lost \in [Strategies -> 0 .. MaxSends] :
            toServer' = [s \in Strategies |->
                           SubSeq(toServer[s], lost[s] + 1, Len(toServer[s]))]
      BY <1>2 DEF ServerCrash
    <2>2. \A s \in Strategies :
            SubSeq(toServer[s], lost[s] + 1, Len(toServer[s])) \in Seq(Request)
      <3> TAKE s \in Strategies
      <3>1. toServer[s] \in Seq(Request) /\ lost[s] + 1 \in Nat \ {0}
        BY BoundsAreNat DEF TypeInv, TypeOK
      <3>2. Len(toServer[s]) \in 0 .. Len(toServer[s])
        BY <3>1, LenProperties
      <3> QED BY <3>1, <3>2, SubSeqTyped
    <2>3. registry' \in [Strategies -> SUBSET Venues]
      BY <1>2 DEF ServerCrash
    <2>4. late' \subseteq Request
      <3>1. CASE stage = "idle"
        BY <1>2, <3>1 DEF ServerCrash, TypeInv, TypeOK
      <3>2. CASE stage # "idle"
        <4>1. current \in Request
          BY <3>2 DEF TypeInv, TypeOK, Idle
        <4> QED BY <1>2, <3>2, <4>1, GiveUpTyped DEF ServerCrash
      <3> QED BY <3>1, <3>2
    <2>5. current' = NoRequest /\ stage' = "idle"
      BY <1>2 DEF ServerCrash, Finish
    <2>6. orderCount' \in Nat /\ orderSuccess' \in Nat /\ orderFailed' \in Nat
          /\ crashes' \in Nat
      BY <1>2 DEF ServerCrash, TypeInv, TypeOK
    <2>7. UNCHANGED <<sent, market, inbox, loop, client, cleared, answers, acked>>
      BY <1>2 DEF ServerCrash
    <2> QED BY <2>1, <2>2, <2>3, <2>4, <2>5, <2>6, <2>7
            DEF TypeInv, TypeOK, Idle, Stages
  <1> QED BY <1>1, <1>2

LEMMA TypeStep == TypeInv /\ [Next]_vars => TypeInv'
  <1> SUFFICES ASSUME TypeInv, [Next]_vars PROVE TypeInv'
    OBVIOUS
  <1>1. CASE Next
    BY <1>1, TypeSend, TypeHandle, TypeDrain, TypeExchange, TypeReply, TypeLoseAccount,
       TypeCrash DEF Next
  <1>2. CASE UNCHANGED vars
    BY <1>2 DEF vars, server, exchange, client, counters, TypeInv, TypeOK, Idle
  <1> QED BY <1>1, <1>2

(* Every variable of the order path keeps its type, for any number of      *)
(* strategies, orders and crashes.                                         *)
THEOREM TypeCorrect == Spec => []TypeOK
  <1>1. Spec => []TypeInv
    BY TypeInit, TypeStep, PTL DEF Spec
  <1>2. TypeInv => TypeOK
    BY DEF TypeInv
  <1> QED BY <1>1, <1>2, PTL

-----------------------------------------------------------------------------
(* The order path keeps its contract. An order that is still to be         *)
(* executed is in one place only: in a queue, in the call of the order     *)
(* thread, or in a call given up.                                          *)

Placing(q) == q.kind \in PlaceKinds

Queued(o, s, i) ==
  /\ i \in 1 .. Len(toServer[s])
  /\ Placing(toServer[s][i]) /\ o \in toServer[s][i].ids

Calling(o) == Placing(current) /\ o \in current.ids

GivenUp(o, q) == q \in late /\ Placing(q) /\ o \in q.ids

(* What waits in a queue is new to the exchange and unanswered, and waits  *)
(* once; the queue holds its own strategy's requests.                      *)
QueueInv ==
  /\ \A s \in Strategies : \A i \in 1 .. Len(toServer[s]) : toServer[s][i].from = s
  /\ \A o \in Orders, s \in Strategies, i \in Nat :
       Queued(o, s, i) => owner[o] = s /\ market[o] = "none" /\ answers[o] = 0
  /\ \A o \in Orders, s \in Strategies, i, j \in Nat :
       Queued(o, s, i) /\ Queued(o, s, j) => i = j

CallInv ==
  \A o \in Orders :
    Calling(o) =>
      /\ owner[o] \in Strategies /\ answers[o] = 0
      /\ stage = "called" => market[o] = "none"
      /\ \A s \in Strategies, i \in Nat : ~Queued(o, s, i)

LateInv ==
  \A o \in Orders, q \in late :
    GivenUp(o, q) =>
      /\ owner[o] \in Strategies /\ market[o] = "none"
      /\ ~Calling(o)
      /\ \A s \in Strategies, i \in Nat : ~Queued(o, s, i)
      /\ \A p \in late : GivenUp(o, p) => p = q

(* An id nobody has used is unknown to the exchange.                       *)
FreshInv ==
  \A o \in Orders : Fresh(o) => market[o] = "none" /\ answers[o] = 0

IInv == TypeInv /\ QueueInv /\ CallInv /\ LateInv /\ FreshInv

(* k[t] requests leave the front of the queue of t, and perhaps some its   *)
(* end.                                                                    *)
Shrinks(k) ==
  /\ k \in [Strategies -> Nat]
  /\ \A t \in Strategies : \A i \in 1 .. Len(toServer'[t]) :
       /\ i + k[t] \in 1 .. Len(toServer[t])
       /\ toServer'[t][i] = toServer[t][i + k[t]]

LEMMA QueuedBefore ==
  ASSUME NEW k, Shrinks(k), NEW o, NEW t \in Strategies, NEW i \in Nat, Queued(o, t, i)'
  PROVE  i + k[t] \in Nat /\ Queued(o, t, i + k[t])
  BY DEF Shrinks, Queued, Placing, PlaceKinds

LEMMA QueueKept ==
  ASSUME IInv, NEW k, Shrinks(k),
         \A o \in Orders, t \in Strategies, i \in Nat :
           Queued(o, t, i)' =>
             owner'[o] = owner[o] /\ market'[o] = market[o] /\ answers'[o] = answers[o]
  PROVE  QueueInv'
  <1>1. \A t \in Strategies : \A i \in 1 .. Len(toServer'[t]) : toServer'[t][i].from = t
    BY DEF Shrinks, IInv, QueueInv
  <1>2. ASSUME NEW o \in Orders, NEW t \in Strategies, NEW i \in Nat, Queued(o, t, i)'
        PROVE  owner'[o] = t /\ market'[o] = "none" /\ answers'[o] = 0
    <2>1. i + k[t] \in Nat /\ Queued(o, t, i + k[t])
      BY <1>2, QueuedBefore
    <2> QED BY <1>2, <2>1 DEF IInv, QueueInv
  <1>3. ASSUME NEW o \in Orders, NEW t \in Strategies, NEW i \in Nat, NEW j \in Nat,
               Queued(o, t, i)', Queued(o, t, j)'
        PROVE  i = j
    <2>1. i + k[t] \in Nat /\ Queued(o, t, i + k[t])
      BY <1>3, QueuedBefore
    <2>2. j + k[t] \in Nat /\ Queued(o, t, j + k[t])
      BY <1>3, QueuedBefore
    <2>3. i + k[t] = j + k[t]
      BY <2>1, <2>2 DEF IInv, QueueInv
    <2> QED BY <2>3 DEF Shrinks
  <1> QED BY <1>1, <1>2, <1>3 DEF QueueInv

(* A step that only drops requests from the queues.                        *)
LEMMA ShrinkKeeps ==
  ASSUME IInv, TypeInv', NEW k, Shrinks(k),
         UNCHANGED <<current, stage, market, late, owner, answers>>
  PROVE  IInv'
  <1> USE DEF Placing, PlaceKinds
  <1>1. QueueInv'
    BY QueueKept
  <1>2. ASSUME NEW o \in Orders, Calling(o)
        PROVE  \A t \in Strategies, i \in Nat : ~Queued(o, t, i)'
    BY <1>2, QueuedBefore DEF IInv, CallInv
  <1>3. CallInv'
    BY <1>2 DEF IInv, CallInv, Calling
  <1>4. ASSUME NEW o \in Orders, NEW q \in late, GivenUp(o, q)
        PROVE  \A t \in Strategies, i \in Nat : ~Queued(o, t, i)'
    BY <1>4, QueuedBefore DEF IInv, LateInv
  <1>5. LateInv'
    BY <1>4 DEF IInv, LateInv, GivenUp, Calling
  <1>6. FreshInv'
    BY DEF IInv, FreshInv, Fresh
  <1> QED BY <1>1, <1>3, <1>5, <1>6 DEF IInv

(* A received request leaves its queue, and with it its orders.            *)
LEMMA ReceiveShrinks ==
  ASSUME IInv, NEW s \in Strategies, NEW kind, Receive(s, kind)
  PROVE  LET h == Head(toServer[s])
             k == [t \in Strategies |-> IF t = s THEN 1 ELSE 0]
         IN  /\ h \in Request /\ h.from = s
             /\ Shrinks(k)
             /\ Placing(h) => \A o \in h.ids :
                  /\ owner[o] = s /\ market[o] = "none" /\ answers[o] = 0
                  /\ Queued(o, s, 1)
                  /\ \A t \in Strategies, i \in Nat : ~Queued(o, t, i)'
  <1> DEFINE h == Head(toServer[s])
  <1> DEFINE k == [t \in Strategies |-> IF t = s THEN 1 ELSE 0]
  <1>1. /\ toServer[s] \in Seq(Request) /\ toServer[s] # <<>>
        /\ toServer' = [toServer EXCEPT ![s] = Tail(@)]
        /\ toServer \in [Strategies -> Seq(Request)]
    BY DEF IInv, TypeInv, TypeOK, Receive
  <1>2. /\ h \in Request /\ h = toServer[s][1]
        /\ Len(toServer[s]) \in Nat /\ 1 \in 1 .. Len(toServer[s])
        /\ Len(Tail(toServer[s])) = Len(toServer[s]) - 1
        /\ \A i \in 1 .. Len(Tail(toServer[s])) : Tail(toServer[s])[i] = toServer[s][i + 1]
    BY <1>1, HeadTailProperties, LenProperties, EmptySeq
  <1>3. Shrinks(k)
    <2> SUFFICES ASSUME NEW t \in Strategies, NEW i \in 1 .. Len(toServer'[t])
                 PROVE  /\ i + k[t] \in 1 .. Len(toServer[t])
                        /\ toServer'[t][i] = toServer[t][i + k[t]]
      BY DEF Shrinks
    <2>1. CASE t = s
      BY <1>1, <1>2, <2>1
    <2>2. CASE t # s
      <3>1. toServer'[t] = toServer[t] /\ k[t] = 0 /\ Len(toServer[t]) \in Nat
        BY <1>1, <2>2, LenProperties
      <3> QED BY <3>1
    <2> QED BY <2>1, <2>2
  <1>4. ASSUME Placing(h), NEW o \in h.ids
        PROVE  /\ owner[o] = s /\ market[o] = "none" /\ answers[o] = 0
               /\ Queued(o, s, 1)
               /\ \A t \in Strategies, i \in Nat : ~Queued(o, t, i)'
    <2>1. o \in Orders
      BY <1>2 DEF Request
    <2>2. Queued(o, s, 1)
      BY <1>2, <1>4 DEF Queued
    <2>3. owner[o] = s /\ market[o] = "none" /\ answers[o] = 0
      BY <2>1, <2>2 DEF IInv, QueueInv
    <2>4. ASSUME NEW t \in Strategies, NEW i \in Nat, Queued(o, t, i)'
          PROVE  FALSE
      <3> HIDE DEF k
      <3>1. i + k[t] \in Nat /\ Queued(o, t, i + k[t])
        BY <1>3, <2>4, QueuedBefore
      <3>2. t = s
        BY <2>1, <2>3, <3>1 DEF IInv, QueueInv
      <3>3. i + k[t] = 1
        BY <2>1, <2>2, <3>1, <3>2 DEF IInv, QueueInv
      <3>4. i \in 1 .. Len(toServer'[t])
        BY <2>4 DEF Queued
      <3> QED BY <3>2, <3>3, <3>4 DEF k
    <2> QED BY <2>2, <2>3, <2>4
  <1>5. h.from = s
    BY <1>2 DEF IInv, QueueInv
  <1> QED BY <1>2, <1>3, <1>4, <1>5

(* A place request is received and answered at once.                       *)
LEMMA RejectKeeps ==
  ASSUME IInv, TypeInv', NEW s \in Strategies, NEW kind \in PlaceKinds, Receive(s, kind),
         Answered(Head(toServer[s]).ids, {}),
         UNCHANGED <<current, stage, market, late, owner>>
  PROVE  IInv'
  <1> DEFINE h == Head(toServer[s])
  <1> DEFINE k == [t \in Strategies |-> IF t = s THEN 1 ELSE 0]
  <1>1. /\ Placing(h) /\ Shrinks(k)
        /\ \A o \in h.ids :
             /\ owner[o] = s /\ Queued(o, s, 1)
             /\ \A t \in Strategies, i \in Nat : ~Queued(o, t, i)'
    BY ReceiveShrinks DEF Receive, Placing
  <1>2. \A o \in Orders : o \notin h.ids => answers'[o] = answers[o]
    BY DEF Answered
  <1> HIDE DEF h, k
  <1>3. QueueInv'
    BY <1>1, <1>2, QueueKept
  <1>4. ASSUME NEW o \in Orders, Calling(o)
        PROVE  answers'[o] = answers[o] /\ \A t \in Strategies, i \in Nat : ~Queued(o, t, i)'
    BY <1>1, <1>2, <1>4, QueuedBefore DEF IInv, CallInv
  <1>5. CallInv'
    BY <1>4 DEF IInv, CallInv, Calling, Placing, PlaceKinds
  <1>6. ASSUME NEW o \in Orders, NEW q \in late, GivenUp(o, q)
        PROVE  \A t \in Strategies, i \in Nat : ~Queued(o, t, i)'
    BY <1>1, <1>6, QueuedBefore DEF IInv, LateInv
  <1>7. LateInv'
    BY <1>6 DEF IInv, LateInv, GivenUp, Calling, Placing, PlaceKinds
  <1>8. FreshInv'
    BY <1>1, <1>2, NullsAreFresh DEF IInv, FreshInv, Fresh
  <1> QED BY <1>3, <1>5, <1>7, <1>8 DEF IInv

(* A request is received and its call starts.                              *)
LEMMA CallKeeps ==
  ASSUME IInv, TypeInv', NEW s \in Strategies, NEW kind, Receive(s, kind),
         Call(Head(toServer[s])), UNCHANGED <<market, late, owner, answers>>
  PROVE  IInv'
  <1> DEFINE h == Head(toServer[s])
  <1> DEFINE k == [t \in Strategies |-> IF t = s THEN 1 ELSE 0]
  <1>1. /\ h \in Request /\ Shrinks(k)
        /\ Placing(h) => \A o \in h.ids :
             /\ owner[o] = s /\ market[o] = "none" /\ answers[o] = 0
             /\ Queued(o, s, 1)
             /\ \A t \in Strategies, i \in Nat : ~Queued(o, t, i)'
    BY ReceiveShrinks
  <1>2. current' = h /\ stage' = "called"
    BY DEF Call
  <1> HIDE DEF h, k
  <1>3. QueueInv'
    BY <1>1, QueueKept
  <1>4. CallInv'
    BY <1>1, <1>2 DEF CallInv, Calling, Placing, PlaceKinds
  <1>5. ASSUME NEW o \in Orders, NEW q \in late, GivenUp(o, q)
        PROVE  ~Calling(o)' /\ \A t \in Strategies, i \in Nat : ~Queued(o, t, i)'
    <2>1. ~Queued(o, s, 1)
      BY <1>5 DEF IInv, LateInv
    <2>2. ~Calling(o)'
      BY <1>1, <1>2, <2>1 DEF Calling, Placing, PlaceKinds
    <2>3. \A t \in Strategies, i \in Nat : ~Queued(o, t, i)'
      BY <1>1, <1>5, QueuedBefore DEF IInv, LateInv
    <2> QED BY <2>2, <2>3
  <1>6. LateInv'
    BY <1>5 DEF IInv, LateInv, GivenUp, Placing, PlaceKinds
  <1>7. FreshInv'
    BY DEF IInv, FreshInv, Fresh
  <1> QED BY <1>3, <1>4, <1>6, <1>7 DEF IInv

(* The exchange acts: on live orders, on those of the call in progress     *)
(* (which is then executed), or on those of calls given up (which are then *)
(* spent).                                                                 *)
LEMMA MarketKeeps ==
  ASSUME IInv, TypeInv', UNCHANGED <<toServer, current, owner, answers>>,
         late' \subseteq late, stage' # "called" \/ stage' = stage,
         \A o \in Orders : market'[o] # market[o] =>
           \/ market[o] = "live"
           \/ Calling(o) /\ stage' # "called"
           \/ \E q \in late \ late' : GivenUp(o, q)
  PROVE  IInv'
  <1> USE DEF Placing, PlaceKinds
  <1>1. \A o, t, i : Queued(o, t, i)' <=> Queued(o, t, i)
    BY DEF Queued
  <1>2. \A o : Calling(o)' <=> Calling(o)
    BY DEF Calling
  <1>3. \A o, q : GivenUp(o, q)' => GivenUp(o, q)
    BY DEF GivenUp
  <1>4. ASSUME NEW o \in Orders, NEW t \in Strategies, NEW i \in Nat, Queued(o, t, i)
        PROVE  market'[o] = market[o]
    BY <1>4 DEF IInv, QueueInv, CallInv, LateInv
  <1>5. QueueInv'
    BY <1>1, <1>4 DEF IInv, QueueInv
  <1>6. ASSUME NEW o \in Orders, Calling(o), stage' = "called"
        PROVE  market'[o] = market[o]
    BY <1>6 DEF IInv, CallInv, LateInv
  <1>7. CallInv'
    BY <1>1, <1>2, <1>6 DEF IInv, CallInv
  <1>8. ASSUME NEW o \in Orders, NEW q \in late', GivenUp(o, q)
        PROVE  market'[o] = market[o]
    BY <1>8 DEF IInv, LateInv
  <1>9. LateInv'
    BY <1>1, <1>2, <1>3, <1>8 DEF IInv, LateInv
  <1>10. ASSUME NEW o \in Orders, Fresh(o)
         PROVE  market'[o] = market[o]
    BY <1>10, NullsAreFresh DEF IInv, FreshInv, CallInv, LateInv, Fresh
  <1>11. FreshInv'
    BY <1>10 DEF IInv, FreshInv, Fresh
  <1> QED BY <1>5, <1>7, <1>9, <1>11 DEF IInv

(* The order thread is done with its request, or has died; what it gives   *)
(* up the exchange has not seen.                                           *)
LEMMA FinishKeeps ==
  ASSUME IInv, TypeInv', NEW k, Shrinks(k), Finish, UNCHANGED <<market, owner>>,
         \A o \in Orders : answers'[o] = answers[o] \/ Calling(o),
         NEW r, late' \subseteq late \cup {r},
         \A o \in Orders : Placing(r) /\ o \in r.ids => Calling(o) /\ market[o] = "none"
  PROVE  IInv'
  <1>1. \A o : ~Calling(o)'
    BY DEF Finish, Calling, Placing, PlaceKinds, NoRequest
  <1>2. ASSUME NEW o \in Orders, Calling(o) \/ \E q \in late : GivenUp(o, q)
        PROVE  \A t \in Strategies, i \in Nat : ~Queued(o, t, i)'
    BY <1>2, QueuedBefore DEF IInv, CallInv, LateInv
  <1>3. QueueInv'
    BY <1>2, QueueKept
  <1>4. CallInv'
    BY <1>1 DEF CallInv
  <1>5. ASSUME NEW o \in Orders, NEW q \in late', GivenUp(o, q)'
        PROVE  GivenUp(o, q) \/ (q = r /\ Calling(o) /\ market[o] = "none")
    BY <1>5 DEF GivenUp, Placing, PlaceKinds
  <1>6. LateInv'
    <2> SUFFICES ASSUME NEW o \in Orders, NEW q \in late', GivenUp(o, q)'
                 PROVE  /\ owner[o] \in Strategies /\ market[o] = "none"
                        /\ \A t \in Strategies, i \in Nat : ~Queued(o, t, i)'
                        /\ \A p \in late' : GivenUp(o, p)' => p = q
      BY <1>1 DEF LateInv
    <2>1. CASE GivenUp(o, q)
      <3>1. q \in late /\ ~Calling(o)
        BY <2>1 DEF GivenUp, IInv, LateInv
      <3>2. \A p \in late' : GivenUp(o, p)' => p = q
        BY <1>5, <2>1, <3>1 DEF IInv, LateInv, GivenUp
      <3> QED BY <1>2, <2>1, <3>1, <3>2 DEF IInv, LateInv
    <2>2. CASE q = r /\ Calling(o) /\ market[o] = "none"
      <3>1. \A p : ~GivenUp(o, p)
        BY <2>2 DEF IInv, LateInv, GivenUp
      <3> QED BY <1>2, <1>5, <2>2, <3>1 DEF IInv, CallInv
    <2> QED BY <1>5, <2>1, <2>2
  <1>7. FreshInv'
    BY NullsAreFresh DEF IInv, FreshInv, Fresh, CallInv
  <1> QED BY <1>3, <1>4, <1>6, <1>7 DEF IInv

(* What GiveUp leaves to arrive.                                           *)
LEMMA GiveUpLeaves ==
  ASSUME IInv, GiveUp \/ UNCHANGED late
  PROVE  \E r : /\ late' \subseteq late \cup {r}
                /\ \A o \in Orders :
                     Placing(r) /\ o \in r.ids => Calling(o) /\ market[o] = "none"
  <1> USE DEF Placing, PlaceKinds
  <1>1. CASE Placing(current)
    <2> DEFINE r == [current EXCEPT !.ids = Unheard]
    <2>1. current \in Request
      BY <1>1 DEF IInv, TypeInv, TypeOK, NoRequest
    <2>2. r.ids = Unheard /\ Unheard = {o \in current.ids : market[o] = "none"}
      BY <2>1 DEF Unheard, Request
    <2>3. late' \subseteq late \cup {r}
      BY <1>1 DEF GiveUp
    <2> HIDE DEF r
    <2>4. \A o \in Orders : o \in r.ids => Calling(o) /\ market[o] = "none"
      BY <1>1, <2>2 DEF Calling
    <2> QED BY <2>3, <2>4
  <1>2. CASE ~Placing(current)
    <2>1. late' \subseteq late \cup {current}
      BY <1>2 DEF GiveUp
    <2> QED BY <1>2, <2>1
  <1> QED BY <1>1, <1>2

LEMMA PushedQueue ==
  ASSUME IInv, NEW s \in Strategies, NEW r \in Request, Push(s, r)
  PROVE  /\ \A o \in Orders, t \in Strategies, i \in Nat :
              Queued(o, t, i)' =>
                \/ Queued(o, t, i)
                \/ t = s /\ i = Len(toServer[s]) + 1 /\ Placing(r) /\ o \in r.ids
         /\ \A t \in Strategies : \A i \in 1 .. Len(toServer'[t]) :
              \/ toServer'[t][i] = r /\ t = s
              \/ i \in 1 .. Len(toServer[t]) /\ toServer'[t][i] = toServer[t][i]
  <1>1. /\ toServer \in [Strategies -> Seq(Request)]
        /\ toServer' = [toServer EXCEPT ![s] = Append(@, r)]
    BY DEF IInv, TypeInv, TypeOK, Push
  <1>2. ASSUME NEW t \in Strategies, NEW i \in 1 .. Len(toServer'[t])
        PROVE  \/ i \in 1 .. Len(toServer[t]) /\ toServer'[t][i] = toServer[t][i]
               \/ t = s /\ i = Len(toServer[s]) + 1 /\ toServer'[t][i] = r
    <2>1. CASE t = s
      <3>1. toServer'[t] = Append(toServer[s], r) /\ toServer[s] \in Seq(Request)
        BY <1>1, <2>1
      <3> QED BY <2>1, <3>1, AppendProperties, LenProperties
    <2>2. CASE t # s
      BY <1>1, <2>2
    <2> QED BY <2>1, <2>2
  <1>3. ASSUME NEW o \in Orders, NEW t \in Strategies, NEW i \in Nat, Queued(o, t, i)'
        PROVE  \/ Queued(o, t, i)
               \/ t = s /\ i = Len(toServer[s]) + 1 /\ Placing(r) /\ o \in r.ids
    BY <1>2, <1>3 DEF Queued, Placing, PlaceKinds
  <1>4. \A t \in Strategies : \A i \in 1 .. Len(toServer'[t]) :
          \/ toServer'[t][i] = r /\ t = s
          \/ i \in 1 .. Len(toServer[t]) /\ toServer'[t][i] = toServer[t][i]
    BY <1>2
  <1> QED BY <1>3, <1>4

(* New orders enter the queue of their strategy.                           *)
LEMMA PlaceKeeps ==
  ASSUME IInv, TypeInv', NEW s \in Strategies, NEW r \in Request, r.from = s, Push(s, r),
         \A o \in r.ids : Fresh(o),
         \A o \in Orders : owner'[o] = IF o \in r.ids THEN s ELSE owner[o],
         UNCHANGED <<current, stage, market, late, answers>>
  PROVE  IInv'
  <1>1. ASSUME NEW o \in Orders, Fresh(o)
        PROVE  /\ market[o] = "none" /\ answers[o] = 0 /\ ~Calling(o)
               /\ \A t \in Strategies, i \in Nat : ~Queued(o, t, i)
               /\ \A q \in late : ~GivenUp(o, q)
    BY <1>1, NullsAreFresh DEF IInv, FreshInv, QueueInv, CallInv, LateInv, Fresh
  <1>2. ASSUME NEW o \in Orders, NEW t \in Strategies, NEW i \in Nat, Queued(o, t, i)'
        PROVE  \/ Queued(o, t, i) /\ o \notin r.ids
               \/ t = s /\ i = Len(toServer[s]) + 1 /\ o \in r.ids
    BY <1>1, <1>2, PushedQueue
  <1>3. \A t \in Strategies : \A i \in 1 .. Len(toServer'[t]) : toServer'[t][i].from = t
    BY PushedQueue DEF IInv, QueueInv
  <1>4. ASSUME NEW o \in Orders, NEW t \in Strategies, NEW i \in Nat, Queued(o, t, i)'
        PROVE  owner'[o] = t /\ market[o] = "none" /\ answers[o] = 0
    BY <1>1, <1>2, <1>4 DEF IInv, QueueInv
  <1>5. ASSUME NEW o \in Orders, NEW t \in Strategies, NEW i \in Nat, NEW j \in Nat,
               Queued(o, t, i)', Queued(o, t, j)'
        PROVE  i = j
    BY <1>2, <1>5 DEF IInv, QueueInv
  <1>6. QueueInv'
    BY <1>3, <1>4, <1>5 DEF QueueInv
  <1>7. ASSUME NEW o \in Orders, Calling(o) \/ \E q \in late : GivenUp(o, q)
        PROVE  owner'[o] = owner[o] /\ \A t \in Strategies, i \in Nat : ~Queued(o, t, i)'
    <2>1. o \notin r.ids
      BY <1>1, <1>7
    <2> QED BY <1>2, <1>7, <2>1 DEF IInv, CallInv, LateInv
  <1>8. CallInv'
    BY <1>7 DEF IInv, CallInv, Calling, Placing, PlaceKinds
  <1>9. LateInv'
    BY <1>7 DEF IInv, LateInv, GivenUp, Calling, Placing, PlaceKinds
  <1>10. FreshInv'
    BY NullsAreFresh DEF IInv, FreshInv, Fresh
  <1> QED BY <1>6, <1>8, <1>9, <1>10 DEF IInv

(* Any other request enters it without changing what waits there.          *)
LEMMA PushKeeps ==
  ASSUME IInv, TypeInv', NEW s \in Strategies, NEW r \in Request, r.from = s, Push(s, r),
         ~Placing(r), UNCHANGED <<current, stage, market, late, owner, answers>>
  PROVE  IInv'
  <1>1. \A o \in Orders, t \in Strategies, i \in Nat : Queued(o, t, i)' => Queued(o, t, i)
    BY PushedQueue
  <1>2. \A t \in Strategies : \A i \in 1 .. Len(toServer'[t]) : toServer'[t][i].from = t
    BY PushedQueue DEF IInv, QueueInv
  <1>3. QueueInv'
    BY <1>1, <1>2 DEF IInv, QueueInv
  <1>4. CallInv'
    BY <1>1 DEF IInv, CallInv, Calling, Placing, PlaceKinds
  <1>5. LateInv'
    BY <1>1 DEF IInv, LateInv, GivenUp, Calling, Placing, PlaceKinds
  <1>6. FreshInv'
    BY DEF IInv, FreshInv, Fresh
  <1> QED BY <1>3, <1>4, <1>5, <1>6 DEF IInv

LEMMA IInvInit == Init => IInv
  <1> SUFFICES ASSUME Init PROVE IInv
    OBVIOUS
  <1>1. TypeInv
    BY TypeInit
  <1>2. \A s \in Strategies : Len(toServer[s]) = 0
    BY DEF Init
  <1>3. \A o, i : \A s \in Strategies : ~Queued(o, s, i)
    BY <1>2 DEF Queued
  <1>4. QueueInv
    BY <1>2, <1>3 DEF QueueInv
  <1>5. CallInv /\ LateInv /\ FreshInv
    BY DEF Init, CallInv, LateInv, FreshInv, Calling, Placing, PlaceKinds, NoRequest
  <1> QED BY <1>1, <1>4, <1>5 DEF IInv

LEMMA IInvSend ==
  ASSUME IInv, TypeInv', NEW s \in Strategies, Send(s)
  PROVE  IInv'
  <1> USE DEF server, exchange, client
  <1>1. ASSUME NEW o \in Orders, NEW v \in Venues, SendOrder(s, o, v)
        PROVE  IInv'
    <2> DEFINE r == [kind |-> "order_request", from |-> s, ids |-> {o}, venue |-> v]
    <2>1. r \in Request /\ r.from = s /\ r.ids = {o}
      BY DEF Request, RequestKinds
    <2>2. Push(s, r) /\ Fresh(o) /\ Track(s, {o}, v)
      BY <1>1 DEF SendOrder
    <2>3. UNCHANGED <<current, stage, market, late, answers>>
      BY <1>1 DEF SendOrder
    <2> HIDE DEF r
    <2> QED BY <2>1, <2>2, <2>3, PlaceKeeps DEF Track
  <1>2. ASSUME NEW ids \in SUBSET Orders, NEW v \in Venues, SendBatch(s, ids, v)
        PROVE  IInv'
    <2> DEFINE r == [kind |-> "batch_order_request", from |-> s, ids |-> ids, venue |-> v]
    <2>1. r \in Request /\ r.from = s /\ r.ids = ids
      BY DEF Request, RequestKinds
    <2>2. Push(s, r) /\ (\A o \in ids : Fresh(o)) /\ Track(s, ids, v)
      BY <1>2 DEF SendBatch
    <2>3. UNCHANGED <<current, stage, market, late, answers>>
      BY <1>2 DEF SendBatch
    <2> HIDE DEF r
    <2> QED BY <2>1, <2>2, <2>3, PlaceKeeps DEF Track
  <1>3. ASSUME NEW r \in Request, r.from = s, r.kind \notin PlaceKinds, Push(s, r),
               UNCHANGED <<server, exchange, owner, answers>>
        PROVE  IInv'
    BY <1>3, PushKeeps DEF Placing
  <1>4. ASSUME \/ \E o \in Orders : SendCancel(s, o)
               \/ SendCancelAll(s)
               \/ \E v \in Venues : SendRegister(s, v) \/ SendUnregister(s, v)
        PROVE  \E r \in Request :
                 /\ r.from = s /\ r.kind \notin PlaceKinds /\ Push(s, r)
                 /\ UNCHANGED <<server, exchange, owner, answers>>
    BY <1>4, OkxIsVenue
       DEF SendCancel, SendCancelAll, SendRegister, SendUnregister, Request, RequestKinds,
           PlaceKinds
  <1> QED BY <1>1, <1>2, <1>3, <1>4 DEF Send

LEMMA IInvHandle ==
  ASSUME IInv, TypeInv', NEW s \in Strategies, Handle(s)
  PROVE  IInv'
  <1> USE DEF server, exchange, client
  <1>1. CASE RejectByRisk(s)
    BY <1>1, RejectKeeps DEF RejectByRisk, PlaceKinds
  <1>2. CASE RejectNoAccount(s)
    BY <1>2, RejectKeeps DEF RejectNoAccount, PlaceKinds
  <1>3. CASE RejectBatch(s)
    BY <1>3, RejectKeeps DEF RejectBatch, PlaceKinds
  <1>4. CASE PlaceOrder(s) \/ PlaceBatch(s) \/ CallCancel(s)
    BY <1>4, CallKeeps DEF PlaceOrder, PlaceBatch, CallCancel
  <1>5. ASSUME NEW kind, Receive(s, kind),
               UNCHANGED <<current, stage, market, late, owner, answers>>
        PROVE  IInv'
    BY <1>5, ReceiveShrinks, ShrinkKeeps
  <1>6. CASE RejectCancel(s)
    BY <1>5, <1>6 DEF RejectCancel
  <1>7. CASE DropCancelAll(s)
    BY <1>5, <1>7 DEF DropCancelAll
  <1>8. ASSUME NEW ok \in BOOLEAN, RegisterAccount(s, ok)
        PROVE  IInv'
    BY <1>5, <1>8 DEF RegisterAccount
  <1>9. CASE UnregisterAccount(s)
    BY <1>5, <1>9 DEF UnregisterAccount
  <1> QED BY <1>1, <1>2, <1>3, <1>4, <1>6, <1>7, <1>8, <1>9 DEF Handle

LEMMA IInvExchange ==
  ASSUME IInv, TypeInv', Exchange
  PROVE  IInv'
  <1>1. ASSUME NEW acc \in SUBSET Orders, NEW ref \in SUBSET Orders,
               ExchangePlace(acc, ref)
        PROVE  IInv'
    <2>1. \A o \in Orders : market'[o] # market[o] => Calling(o)
      BY <1>1 DEF ExchangePlace, Execute, Calls, Calling, Placing
    <2> QED BY <1>1, <2>1, MarketKeeps DEF ExchangePlace, client
  <1>2. CASE ExchangeCancel
    <2>1. \A o \in Orders : market'[o] # market[o] => market[o] = "live"
      BY <1>2 DEF ExchangeCancel, CancelAtOkx, Cancellable
    <2> QED BY <1>2, <2>1, MarketKeeps DEF ExchangeCancel, client
  <1>3. ASSUME NEW q \in late, NEW acc \in SUBSET Orders, LandLate(q, acc)
        PROVE  IInv'
    <2>1. \A o \in Orders :
            market'[o] # market[o] => market[o] = "live" \/ GivenUp(o, q)
      BY <1>3 DEF LandLate, Execute, CancelAtOkx, Cancellable, GivenUp, Placing
    <2>2. q \in late \ late' /\ late' \subseteq late
      BY <1>3 DEF LandLate
    <2> QED BY <1>3, <2>1, <2>2, MarketKeeps DEF LandLate, server, client
  <1>4. ASSUME NEW o \in Orders, Fill(o)
        PROVE  IInv'
    <2>1. \A p \in Orders : market'[p] # market[p] => market[p] = "live"
      BY <1>4 DEF Fill, IInv, TypeInv, TypeOK
    <2> QED BY <1>4, <2>1, MarketKeeps DEF Fill, server, client
  <1> QED BY <1>1, <1>2, <1>3, <1>4 DEF Exchange

(* Every reply ends the call in progress: it answers its orders if it      *)
(* places orders, and acknowledges none that is not on the books.          *)
LEMMA ReplyEnds ==
  ASSUME IInv, Reply
  PROVE  /\ Finish /\ UNCHANGED <<toServer, market, owner>>
         /\ GiveUp \/ UNCHANGED late
         /\ \/ /\ Placing(current)
               /\ \E good \in SUBSET Accepted : Answered(current.ids, good)
            \/ UNCHANGED <<answers, acked>>
  <1> USE DEF exchange, client, Placing, PlaceKinds
  <1>1. CASE ReplyOrder
    BY <1>1 DEF ReplyOrder
  <1>2. CASE ReplyOrderFailure
    BY <1>2 DEF ReplyOrderFailure
  <1>3. ASSUME NEW n, NEW good \in SUBSET Accepted, NEW bad, NEW st,
               current.kind = "batch_order_request", FinishBatch(n, good, bad, st)
        PROVE  /\ Finish /\ UNCHANGED <<toServer, market, owner>> /\ GiveUp
               /\ Answered(current.ids, good)
    BY <1>3 DEF FinishBatch
  <1>4. ASSUME NEW lost \in SUBSET Orders, ReplyBatch(lost)
        PROVE  \E n, bad, st : \E good \in SUBSET Accepted :
                 current.kind = "batch_order_request" /\ FinishBatch(n, good, bad, st)
    BY <1>4 DEF ReplyBatch
  <1>5. CASE ReplyBatchEmpty
    BY <1>3, <1>5 DEF ReplyBatchEmpty
  <1>6. CASE ReplyBatchFailure
    BY <1>3, <1>6 DEF ReplyBatchFailure
  <1>7. CASE ReplyCancel
    BY <1>7 DEF ReplyCancel
  <1> QED BY <1>1, <1>2, <1>3, <1>4, <1>5, <1>6, <1>7 DEF Reply

LEMMA IInvReply ==
  ASSUME IInv, TypeInv', Reply
  PROVE  IInv'
  <1> DEFINE k == [t \in Strategies |-> 0]
  <1>1. Finish /\ UNCHANGED <<toServer, market, owner>> /\ (GiveUp \/ UNCHANGED late)
    BY ReplyEnds
  <1>2. \A o \in Orders : answers'[o] = answers[o] \/ Calling(o)
    BY ReplyEnds DEF Answered, Calling
  <1>3. Shrinks(k)
    BY <1>1, LenProperties DEF Shrinks, IInv, TypeInv, TypeOK
  <1>4. PICK r : /\ late' \subseteq late \cup {r}
                 /\ \A o \in Orders :
                      Placing(r) /\ o \in r.ids => Calling(o) /\ market[o] = "none"
    BY <1>1, GiveUpLeaves
  <1> HIDE DEF k
  <1> QED BY <1>1, <1>2, <1>3, <1>4, FinishKeeps

LEMMA IInvIdleSteps ==
  ASSUME IInv, TypeInv',
         UNCHANGED <<toServer, current, stage, market, late, owner, answers>>
  PROVE  IInv'
  <1> DEFINE k == [t \in Strategies |-> 0]
  <1>1. Shrinks(k)
    BY LenProperties DEF Shrinks, IInv, TypeInv, TypeOK
  <1> HIDE DEF k
  <1> QED BY <1>1, ShrinkKeeps

LEMMA IInvCrash ==
  ASSUME IInv, TypeInv', (\E s \in Strategies : StrategyCrash(s)) \/ ServerCrash
  PROVE  IInv'
  <1>0. toServer \in [Strategies -> Seq(Request)]
    BY DEF IInv, TypeInv, TypeOK
  <1>1. ASSUME NEW s \in Strategies, StrategyCrash(s)
        PROVE  IInv'
    <2> DEFINE k == [t \in Strategies |-> 0]
    <2>1. PICK n \in 0 .. Len(toServer[s]) :
            toServer' = [toServer EXCEPT ![s] = SubSeq(@, 1, n)]
      BY <1>1 DEF StrategyCrash
    <2>2. /\ Len(SubSeq(toServer[s], 1, n)) = n
          /\ \A i \in 1 .. n : SubSeq(toServer[s], 1, n)[i] = toServer[s][i]
      <3>1. toServer[s] \in Seq(Request) /\ Len(toServer[s]) \in Nat
        BY <1>0, LenProperties
      <3>2. \A i \in 1 .. n : toServer[s][i] \in Request
        BY <3>1, ElementOfSeq
      <3> QED BY <3>1, <3>2, SubSeqProperties
    <2>3. Shrinks(k)
      BY <1>0, <2>1, <2>2, LenProperties DEF Shrinks
    <2>4. UNCHANGED <<current, stage, market, late, owner, answers>>
      BY <1>1 DEF StrategyCrash, server, exchange
    <2> HIDE DEF k
    <2> QED BY <2>3, <2>4, ShrinkKeeps
  <1>2. CASE ServerCrash
    <2>1. PICK lost \in [Strategies -> 0 .. MaxSends] :
            /\ \A s \in Strategies : lost[s] <= Len(toServer[s])
            /\ toServer' = [s \in Strategies |->
                              SubSeq(toServer[s], lost[s] + 1, Len(toServer[s]))]
      BY <1>2 DEF ServerCrash
    <2>2. ASSUME NEW s \in Strategies, NEW i \in 1 .. Len(toServer'[s])
          PROVE  /\ lost[s] \in Nat /\ i + lost[s] \in 1 .. Len(toServer[s])
                 /\ toServer'[s][i] = toServer[s][i + lost[s]]
      <3> DEFINE n == Len(toServer[s])
      <3>1. toServer[s] \in Seq(Request) /\ n \in Nat
        BY <1>0, LenProperties
      <3>2. lost[s] \in Nat /\ lost[s] <= n
        BY <2>1, BoundsAreNat
      <3>3. \A j \in 1 .. n : toServer[s][j] \in Request
        BY <3>1, ElementOfSeq
      <3>4. toServer'[s] = SubSeq(toServer[s], lost[s] + 1, n)
        BY <2>1
      <3> HIDE DEF n
      <3>5. \A j \in lost[s] + 1 .. n : toServer[s][j] \in Request
        BY <3>1, <3>2, <3>3
      <3>6. /\ Len(toServer'[s]) = n - lost[s]
            /\ \A j \in 1 .. n - lost[s] : toServer'[s][j] = toServer[s][j + lost[s]]
        <4> DEFINE m == lost[s] + 1
        <4>1. m \in Int /\ n \in Int
          BY <3>1, <3>2
        <4> HIDE DEF m
        <4>2. /\ Len(SubSeq(toServer[s], m, n)) = IF m <= n THEN n - m + 1 ELSE 0
              /\ \A j \in 1 .. n - m + 1 : SubSeq(toServer[s], m, n)[j] = toServer[s][m + j - 1]
          BY <3>5, <4>1, SubSeqProperties DEF m
        <4> QED BY <3>1, <3>2, <3>4, <4>2 DEF m
      <3> QED BY <3>1, <3>2, <3>6 DEF n
    <2>3. lost \in [Strategies -> Nat]
      BY BoundsAreNat
    <2>4. Shrinks(lost)
      BY <2>2, <2>3 DEF Shrinks
    <2>5. Finish /\ UNCHANGED <<market, owner, answers>> /\ (GiveUp \/ UNCHANGED late)
      BY <1>2 DEF ServerCrash, client
    <2>6. PICK r : /\ late' \subseteq late \cup {r}
                   /\ \A o \in Orders :
                        Placing(r) /\ o \in r.ids => Calling(o) /\ market[o] = "none"
      BY <2>5, GiveUpLeaves
    <2> QED BY <2>4, <2>5, <2>6, FinishKeeps
  <1> QED BY <1>1, <1>2

LEMMA IInvStep == IInv /\ [Next]_vars => IInv'
  <1> SUFFICES ASSUME IInv, [Next]_vars PROVE IInv'
    OBVIOUS
  <1> USE DEF server, exchange, client
  <1>1. TypeInv'
    BY TypeStep DEF IInv
  <1>2. ASSUME NEW s \in Strategies, Drain(s)
        PROVE  IInv'
    BY <1>1, <1>2, IInvIdleSteps
       DEF Drain, ProcessAccountReport, ProcessOrderReport, NextLoop
  <1>3. ASSUME NEW s \in Strategies, NEW v \in Venues, LoseAccount(s, v)
        PROVE  IInv'
    BY <1>1, <1>3, IInvIdleSteps DEF LoseAccount
  <1>4. CASE UNCHANGED vars
    BY <1>1, <1>4, IInvIdleSteps DEF vars
  <1>5. CASE Next
    BY <1>1, <1>2, <1>3, <1>5, IInvSend, IInvHandle, IInvExchange, IInvReply, IInvCrash
       DEF Next
  <1> QED BY <1>4, <1>5

(* The steps of OrderFlow are steps of OrderContract: sending asks,        *)
(* rejections and replies answer, the exchange executes and settles.       *)
Asked == {o \in Orders : owner[o] # NoStrategy}

LEMMA ContractInit == Init => Contract!Init
  BY DEF Init, Contract!Init

LEMMA ContractAnswer ==
  ASSUME IInv, NEW ids \in SUBSET Orders, NEW good \in SUBSET ids, Answered(ids, good),
         \A o \in ids : owner[o] \in Strategies /\ answers[o] = 0,
         \A o \in good : market[o] \in Placed,
         UNCHANGED <<owner, market>>
  PROVE  Contract!Next
  <1>1. ids \subseteq {o \in Asked : answers[o] = 0}
    BY NullsAreFresh DEF Asked
  <1>2. answers' = [o \in Orders |-> IF o \in ids THEN 1 ELSE answers[o]]
    BY DEF Answered
  <1>3. Contract!Answer(ids, good)
    BY <1>1, <1>2 DEF Contract!Answer, Answered, Asked, Contract!Placed, Placed
  <1>4. good \in SUBSET Orders
    OBVIOUS
  <1> QED BY <1>3, <1>4 DEF Contract!Next

LEMMA ContractIdle ==
  UNCHANGED <<owner, market, answers, acked>> => UNCHANGED Contract!vars
  BY DEF Contract!vars

LEMMA ContractSend ==
  ASSUME IInv, NEW s \in Strategies, Send(s)
  PROVE  [Contract!Next]_(Contract!vars)
  <1> USE DEF server, exchange, client
  <1>1. ASSUME NEW ids \in SUBSET Orders, NEW v \in Venues, Track(s, ids, v),
               \A o \in ids : Fresh(o), UNCHANGED <<market, answers, acked>>
        PROVE  Contract!Next
    <2>1. ids \cap Asked = {} /\ Asked' = Asked \cup ids
      BY <1>1, NullsAreFresh DEF Asked, Fresh, Track
    <2>2. Contract!Ask(ids)
      BY <1>1, <2>1 DEF Contract!Ask, Asked
    <2> QED BY <2>2 DEF Contract!Next
  <1>2. ASSUME NEW o \in Orders, NEW v \in Venues, SendOrder(s, o, v)
        PROVE  Contract!Next
    <2>1. {o} \in SUBSET Orders /\ Track(s, {o}, v) /\ (\A p \in {o} : Fresh(p))
          /\ UNCHANGED <<market, answers, acked>>
      BY <1>2 DEF SendOrder
    <2> QED BY <1>1, <2>1
  <1>3. ASSUME NEW ids \in SUBSET Orders, NEW v \in Venues, SendBatch(s, ids, v)
        PROVE  Contract!Next
    BY <1>1, <1>3 DEF SendBatch
  <1>4. ASSUME \/ \E o \in Orders : SendCancel(s, o)
               \/ SendCancelAll(s)
               \/ \E v \in Venues : SendRegister(s, v) \/ SendUnregister(s, v)
        PROVE  UNCHANGED <<owner, market, answers, acked>>
    BY <1>4 DEF SendCancel, SendCancelAll, SendRegister, SendUnregister
  <1> QED BY <1>2, <1>3, <1>4, ContractIdle DEF Send

LEMMA ContractHandle ==
  ASSUME IInv, NEW s \in Strategies, Handle(s)
  PROVE  [Contract!Next]_(Contract!vars)
  <1> USE DEF server, exchange, client
  <1> DEFINE h == Head(toServer[s])
  <1>1. ASSUME NEW kind \in PlaceKinds, Receive(s, kind), Answered(h.ids, {}),
               UNCHANGED <<owner, market>>
        PROVE  Contract!Next
    <2>1. h \in Request /\ \A o \in h.ids : owner[o] = s /\ answers[o] = 0
      BY <1>1, ReceiveShrinks DEF Receive, Placing
    <2>2. h.ids \in SUBSET Orders /\ {} \in SUBSET h.ids
      BY <2>1 DEF Request
    <2> HIDE DEF h
    <2> QED BY <1>1, <2>1, <2>2, ContractAnswer
  <1>2. CASE RejectByRisk(s) \/ RejectNoAccount(s) \/ RejectBatch(s)
    BY <1>1, <1>2 DEF RejectByRisk, RejectNoAccount, RejectBatch, PlaceKinds
  <1>3. CASE PlaceOrder(s) \/ PlaceBatch(s) \/ CallCancel(s) \/ RejectCancel(s)
             \/ DropCancelAll(s) \/ UnregisterAccount(s)
             \/ \E ok \in BOOLEAN : RegisterAccount(s, ok)
    BY <1>3, ContractIdle
       DEF PlaceOrder, PlaceBatch, CallCancel, RejectCancel, DropCancelAll,
           UnregisterAccount, RegisterAccount
  <1> QED BY <1>2, <1>3 DEF Handle

LEMMA ContractExchange ==
  ASSUME IInv, Exchange
  PROVE  Contract!Next
  <1> USE DEF server, client, Placing
  <1>1. ASSUME NEW acc \in SUBSET Orders, NEW ref \in SUBSET Orders, Execute(acc, ref),
               \A o \in acc \cup ref : owner[o] \in Strategies /\ market[o] = "none",
               UNCHANGED <<owner, answers, acked>>
        PROVE  Contract!Next
    <2>1. Contract!Execute(acc, ref)
      BY <1>1, NullsAreFresh DEF Contract!Execute, Execute
    <2> QED BY <2>1 DEF Contract!Next
  <1>2. ASSUME NEW ids \in SUBSET Orders, CancelAtOkx(ids), UNCHANGED <<owner, answers, acked>>
        PROVE  Contract!Next
    <2>1. Cancellable(ids) \in SUBSET Orders
      BY DEF Cancellable
    <2>2. Contract!Settle(Cancellable(ids), "cancelled")
      BY <1>2 DEF Contract!Settle, CancelAtOkx, Cancellable
    <2> QED BY <2>1, <2>2 DEF Contract!Next
  <1>3. ASSUME NEW acc \in SUBSET Orders, NEW ref \in SUBSET Orders, ExchangePlace(acc, ref)
        PROVE  Contract!Next
    <2>1. \A o \in acc \cup ref : Calling(o)
      BY <1>3 DEF ExchangePlace, Calls, Calling
    <2>2. \A o \in acc \cup ref : owner[o] \in Strategies /\ market[o] = "none"
      BY <1>3, <2>1 DEF ExchangePlace, IInv, CallInv
    <2> QED BY <1>1, <1>3, <2>2 DEF ExchangePlace
  <1>4. CASE ExchangeCancel
    <2>1. current.ids \in SUBSET Orders
      BY DEF IInv, TypeInv, TypeOK, Request, NoRequest
    <2> QED BY <1>2, <1>4, <2>1 DEF ExchangeCancel
  <1>5. ASSUME NEW q \in late, NEW acc \in SUBSET Orders, LandLate(q, acc)
        PROVE  Contract!Next
    <2>1. q.ids \in SUBSET Orders
      BY DEF IInv, TypeInv, TypeOK, Request
    <2>2. CASE q.kind \in PlaceKinds
      <3>1. \A o \in acc \cup (q.ids \ acc) : owner[o] \in Strategies /\ market[o] = "none"
        BY <1>5, <2>1, <2>2 DEF LandLate, IInv, LateInv, GivenUp
      <3>2. q.ids \ acc \in SUBSET Orders
        BY <2>1
      <3> QED BY <1>1, <1>5, <2>2, <3>1, <3>2 DEF LandLate
    <2>3. CASE q.kind \notin PlaceKinds
      BY <1>2, <1>5, <2>1, <2>3 DEF LandLate
    <2> QED BY <2>2, <2>3
  <1>6. ASSUME NEW o \in Orders, Fill(o)
        PROVE  Contract!Next
    <2>1. market' = [p \in Orders |-> IF p \in {o} THEN "filled" ELSE market[p]]
      BY <1>6 DEF Fill, IInv, TypeInv, TypeOK
    <2>2. Contract!Settle({o}, "filled")
      BY <1>6, <2>1 DEF Contract!Settle, Fill
    <2>3. {o} \in SUBSET Orders
      OBVIOUS
    <2> QED BY <2>2, <2>3 DEF Contract!Next
  <1> QED BY <1>3, <1>4, <1>5, <1>6 DEF Exchange

LEMMA ContractReply ==
  ASSUME IInv, Reply
  PROVE  [Contract!Next]_(Contract!vars)
  <1>1. UNCHANGED <<owner, market>>
    BY ReplyEnds
  <1>2. CASE UNCHANGED <<answers, acked>>
    BY <1>1, <1>2, ContractIdle
  <1>3. CASE Placing(current) /\ \E good \in SUBSET Accepted : Answered(current.ids, good)
    <2>1. PICK good \in SUBSET Accepted : Answered(current.ids, good)
      BY <1>3
    <2>2. current.ids \in SUBSET Orders
      BY DEF IInv, TypeInv, TypeOK, Request, NoRequest
    <2>3. \A o \in current.ids : owner[o] \in Strategies /\ answers[o] = 0
      BY <1>3, <2>2 DEF IInv, CallInv, Calling
    <2>4. good \in SUBSET current.ids /\ \A o \in good : market[o] \in Placed
      BY DEF Accepted
    <2> QED BY <1>1, <2>1, <2>2, <2>3, <2>4, ContractAnswer
  <1> QED BY <1>2, <1>3, ReplyEnds

LEMMA ContractStep ==
  IInv /\ [Next]_vars => [Contract!Next]_(Contract!vars)
  <1> SUFFICES ASSUME IInv, [Next]_vars PROVE [Contract!Next]_(Contract!vars)
    OBVIOUS
  <1> USE DEF server, exchange, client
  <1>1. ASSUME NEW s \in Strategies, Drain(s) \/ StrategyCrash(s)
        PROVE  UNCHANGED <<owner, market, answers, acked>>
    BY <1>1 DEF Drain, ProcessAccountReport, ProcessOrderReport, NextLoop, StrategyCrash
  <1>2. ASSUME NEW s \in Strategies, NEW v \in Venues, LoseAccount(s, v)
        PROVE  UNCHANGED <<owner, market, answers, acked>>
    BY <1>2 DEF LoseAccount
  <1>3. CASE ServerCrash
    BY <1>3, ContractIdle DEF ServerCrash
  <1>4. CASE UNCHANGED vars
    BY <1>4, ContractIdle DEF vars
  <1>5. CASE Next
    BY <1>1, <1>2, <1>3, <1>5, ContractIdle, ContractSend, ContractHandle,
       ContractExchange, ContractReply DEF Next
  <1> QED BY <1>4, <1>5

(* The order path keeps its contract, for any number of strategies and     *)
(* orders, any batch size, and any crashes, timeouts and late calls: no    *)
(* order is executed or answered twice, none is executed that was not      *)
(* sent, and an order acknowledged is on the books.                        *)
THEOREM ContractKept == Spec => KeepsContract
  <1>1. Spec => []IInv
    BY IInvInit, IInvStep, PTL DEF Spec
  <1> QED BY <1>1, ContractInit, ContractStep, PTL
          DEF Spec, KeepsContract, Contract!Spec

(* No order is answered twice, whatever is lost, delayed or restarted.     *)
THEOREM AnsweredOnce == Spec => []AtMostOneAnswer
  <1>1. Init => AtMostOneAnswer
    BY DEF Init, AtMostOneAnswer
  <1>2. AtMostOneAnswer /\ [Contract!Next]_(Contract!vars) => AtMostOneAnswer'
    BY DEF AtMostOneAnswer, Contract!Next, Contract!Ask, Contract!Execute, Contract!Settle,
           Contract!Answer, Contract!vars
  <1>3. Spec => []IInv
    BY IInvInit, IInvStep, PTL DEF Spec
  <1> QED BY <1>1, <1>2, <1>3, ContractStep, PTL DEF Spec

-----------------------------------------------------------------------------
(* What the messages and calls in flight say is true: of a request, that   *)
(* its orders are its venue's and single or noted as a batch; of a call,   *)
(* that it is risk checked besides; of a report, that what it accepts is   *)
(* on the books of OKX.                                                    *)

Sendable ==
  {q \in Request :
     /\ q.kind = "order_request" => \E o \in Orders : q.ids = {o}
     /\ q.kind = "batch_order_request" => q.ids \subseteq batched
     /\ Placing(q) => \A o \in q.ids : owner[o] # NoStrategy /\ venue[o] = q.venue}

Vouched == {q \in Sendable : q.kind = "order_request" => q.ids \subseteq cleared}

Truthful ==
  {r \in Report :
     r.type # "batch_report" /\ r.status = "accepted" =>
       \A o \in r.good \cup r.bad : market[o] \in Placed /\ venue[o] = Okx}

FlowInv ==
  /\ toServer \in [Strategies -> Seq(Sendable)]
  /\ current \in Vouched \cup {NoRequest}
  /\ late \subseteq Vouched
  /\ inbox \in [Strategies -> Seq(Truthful)]
  /\ AcceptedIsReal /\ SingleOrdersRiskChecked

(* A channel carries what it carried, and what is put on it.               *)
LEMMA TakeFrom ==
  ASSUME NEW M, NEW N, M \subseteq N, NEW q \in [Strategies -> Seq(M)], NEW s \in Strategies,
         q[s] # <<>>
  PROVE  Head(q[s]) \in M /\ [q EXCEPT ![s] = Tail(@)] \in [Strategies -> Seq(N)]
  <1>1. Head(q[s]) \in M /\ Tail(q[s]) \in Seq(M)
    BY HeadTailProperties
  <1>2. Tail(q[s]) \in Seq(N) /\ \A t \in Strategies : q[t] \in Seq(N)
    BY <1>1, SeqMonotonic
  <1> QED BY <1>1, <1>2

LEMMA Carries ==
  ASSUME NEW M, NEW N, M \subseteq N, NEW q \in [Strategies -> Seq(M)]
  PROVE  q \in [Strategies -> Seq(N)]
  <1>1. \A t \in Strategies : q[t] \in Seq(N)
    BY SeqMonotonic
  <1> QED BY <1>1

LEMMA PutOn ==
  ASSUME NEW M, NEW N, M \subseteq N, NEW q \in [Strategies -> Seq(M)], NEW x \in N
  PROVE  \A t \in Strategies : Append(q[t], x) \in Seq(N)
  <1>1. q \in [Strategies -> Seq(N)]
    BY Carries
  <1> QED BY <1>1, AppendProperties

(* No step takes back what the messages in flight rely on: an id that is   *)
(* used keeps its owner and venue, an order on the books stays there, and  *)
(* what was noted or cleared stays so.                                     *)
Kept ==
  /\ batched \subseteq batched' /\ cleared \subseteq cleared'
  /\ \A o \in Orders : owner[o] # NoStrategy => owner'[o] = owner[o] /\ venue'[o] = venue[o]
  /\ \A o \in Orders : market[o] \in Placed => market'[o] \in Placed

LEMMA StepKeeps ==
  ASSUME IInv, Next
  PROVE  Kept
  <1> USE DEF server, exchange, client, Kept
  <1>0. \A o \in Orders : Fresh(o) <=> owner[o] = NoStrategy
    BY DEF Fresh
  <1>1. ASSUME NEW s \in Strategies, Send(s) PROVE Kept
    BY <1>0, <1>1 DEF Send, SendOrder, SendBatch, SendCancel, SendCancelAll, SendRegister,
       SendUnregister, Track
  <1>2. ASSUME NEW s \in Strategies, Handle(s) PROVE Kept
    BY <1>2 DEF Handle, RejectByRisk, RejectNoAccount, PlaceOrder, RejectBatch, PlaceBatch,
       RejectCancel, CallCancel, DropCancelAll, RegisterAccount, UnregisterAccount
  <1>3. ASSUME NEW s \in Strategies, Drain(s) \/ StrategyCrash(s) PROVE Kept
    BY <1>3 DEF Drain, ProcessAccountReport, ProcessOrderReport, NextLoop, StrategyCrash
  <1>4. ASSUME NEW s \in Strategies, NEW v \in Venues, LoseAccount(s, v) PROVE Kept
    BY <1>4 DEF LoseAccount
  <1>5. CASE Exchange
    <2>1. UNCHANGED <<batched, cleared, owner, venue>>
      BY <1>5 DEF Exchange, ExchangePlace, ExchangeCancel, LandLate, Fill
    <2>2. ASSUME NEW acc \in SUBSET Orders, NEW ref \in SUBSET Orders,
                 ExchangePlace(acc, ref), NEW o \in Orders
          PROVE  market[o] \in Placed => market'[o] = market[o]
      <3>1. o \in acc \cup ref => Calling(o)
        BY <2>2 DEF ExchangePlace, Calls, Calling, Placing
      <3>2. o \in acc \cup ref => market[o] = "none"
        BY <2>2, <3>1 DEF ExchangePlace, IInv, CallInv
      <3> QED BY <2>2, <3>2 DEF ExchangePlace, Execute, Placed
    <2>3. ASSUME ExchangeCancel, NEW o \in Orders
          PROVE  market[o] \in Placed => market'[o] \in Placed
      BY <2>3 DEF ExchangeCancel, CancelAtOkx, Placed
    <2>4. ASSUME NEW q \in late, NEW acc \in SUBSET Orders, LandLate(q, acc), NEW o \in Orders
          PROVE  market[o] \in Placed => market'[o] \in Placed
      <3>1. q.kind \in PlaceKinds /\ o \in q.ids => market[o] = "none"
        BY DEF IInv, LateInv, GivenUp, Placing
      <3> QED BY <2>4, <3>1 DEF LandLate, Execute, CancelAtOkx, Placed
    <2>5. ASSUME NEW p \in Orders, Fill(p), NEW o \in Orders
          PROVE  market[o] \in Placed => market'[o] \in Placed
      BY <2>5 DEF Fill, Placed, IInv, TypeInv, TypeOK
    <2> QED BY <1>5, <2>1, <2>2, <2>3, <2>4, <2>5 DEF Exchange
  <1>6. CASE Reply
    <2>1. UNCHANGED <<market, client, cleared>>
      BY <1>6 DEF Reply, ReplyOrder, ReplyOrderFailure, ReplyBatch, ReplyBatchEmpty,
         ReplyBatchFailure, ReplyCancel, FinishBatch
    <2> QED BY <2>1
  <1>7. CASE ServerCrash
    BY <1>7 DEF ServerCrash
  <1> QED BY <1>1, <1>2, <1>3, <1>4, <1>5, <1>6, <1>7 DEF Next

(* So what is in flight stays true.                                        *)
LEMMA KeptTrue ==
  ASSUME IInv, Kept
  PROVE  Sendable \subseteq Sendable' /\ Vouched \subseteq Vouched' /\ Truthful \subseteq Truthful'
  <1>1. Sendable \subseteq Sendable'
    <2> SUFFICES ASSUME NEW q \in Sendable PROVE q \in Sendable'
      OBVIOUS
    <2>1. q \in Request /\ q.ids \subseteq Orders
      BY DEF Sendable, Request
    <2> QED BY <2>1 DEF Sendable, Kept, Placing
  <1>2. Vouched \subseteq Vouched'
    BY <1>1 DEF Vouched, Kept
  <1>3. Truthful \subseteq Truthful'
    <2> SUFFICES ASSUME NEW r \in Truthful PROVE r \in Truthful'
      OBVIOUS
    <2>1. r \in Report /\ r.good \cup r.bad \subseteq Orders
      BY DEF Truthful, Report
    <2>2. \A o \in Orders : market[o] \in Placed => owner[o] # NoStrategy
      BY DEF IInv, FreshInv, Fresh, Placed
    <2> QED BY <2>1, <2>2 DEF Truthful, Kept
  <1> QED BY <1>1, <1>2, <1>3

LEMMA FlowInit == Init => FlowInv
  <1>1. \A M : <<>> \in Seq(M)
    BY EmptySeq
  <1> QED BY <1>1 DEF Init, FlowInv, AcceptedIsReal, SingleOrdersRiskChecked

(* What a step has to show: of each channel what it carries, that no order *)
(* is shown ACCEPTED that was not, and that what reaches the exchange may. *)
LEMMA FlowKeeps ==
  ASSUME IInv, FlowInv, Kept,
         toServer' \in [Strategies -> Seq(Sendable')], current' \in Vouched' \cup {NoRequest},
         late' \subseteq Vouched', inbox' \in [Strategies -> Seq(Truthful')],
         \A o \in Orders : status'[o] = "ACCEPTED" =>
           status[o] = "ACCEPTED" \/ (market'[o] \in Placed /\ venue'[o] = Okx),
         \A o \in Orders : market'[o] # "none" =>
           market[o] # "none" \/ o \in cleared \cup batched
  PROVE  FlowInv'
  <1>1. \A o \in Orders : market[o] \in Placed => owner[o] # NoStrategy
    BY DEF IInv, FreshInv, Fresh, Placed
  <1>2. AcceptedIsReal'
    BY <1>1 DEF FlowInv, AcceptedIsReal, Kept
  <1>3. SingleOrdersRiskChecked'
    BY DEF FlowInv, SingleOrdersRiskChecked, Kept
  <1> QED BY <1>2, <1>3 DEF FlowInv

(* The channels and calls a step leaves alone.                             *)
LEMMA FlowIdle ==
  ASSUME IInv, FlowInv, Kept
  PROVE  /\ UNCHANGED toServer => toServer' \in [Strategies -> Seq(Sendable')]
         /\ UNCHANGED current => current' \in Vouched' \cup {NoRequest}
         /\ UNCHANGED late => late' \subseteq Vouched'
         /\ UNCHANGED inbox => inbox' \in [Strategies -> Seq(Truthful')]
  BY KeptTrue, Carries DEF FlowInv

LEMMA PublishTrue ==
  ASSUME IInv, FlowInv, Kept, NEW r \in Truthful', Publish(r)
  PROVE  inbox' \in [Strategies -> Seq(Truthful')]
  <1>1. /\ inbox \in [Strategies -> Seq(Truthful)] /\ Truthful \subseteq Truthful'
    BY KeptTrue DEF FlowInv
  <1>2. \A t \in Strategies : Append(inbox[t], r) \in Seq(Truthful')
    BY <1>1, PutOn
  <1>3. inbox \in [Strategies -> Seq(Truthful')]
    BY <1>1, Carries
  <1> QED BY <1>2, <1>3 DEF Publish

LEMMA ReceiveTrue ==
  ASSUME IInv, FlowInv, Kept, NEW s \in Strategies, NEW kind, Receive(s, kind)
  PROVE  /\ Head(toServer[s]) \in Sendable /\ Head(toServer[s]).kind = kind
         /\ Head(toServer[s]) \in Sendable'
         /\ toServer' \in [Strategies -> Seq(Sendable')]
  <1>1. /\ toServer \in [Strategies -> Seq(Sendable)] /\ Sendable \subseteq Sendable'
    BY KeptTrue DEF FlowInv
  <1>2. toServer[s] # <<>> /\ toServer' = [toServer EXCEPT ![s] = Tail(@)]
        /\ Head(toServer[s]).kind = kind
    BY DEF Receive
  <1>3. Head(toServer[s]) \in Sendable
        /\ [toServer EXCEPT ![s] = Tail(@)] \in [Strategies -> Seq(Sendable')]
    BY <1>1, <1>2, TakeFrom
  <1> QED BY <1>1, <1>2, <1>3

(* A report that does not say accepted, or is a batch's, claims nothing.   *)
LEMMA Harmless ==
  ASSUME NEW r \in Report, r.type = "batch_report" \/ r.status # "accepted"
  PROVE  r \in Truthful'
  BY DEF Truthful

LEMMA FlowSend ==
  ASSUME IInv, FlowInv, Kept, NEW s \in Strategies, Send(s)
  PROVE  FlowInv'
  <1> USE DEF server, exchange, client
  <1>1. ASSUME NEW r \in Sendable', Push(s, r)
        PROVE  toServer' \in [Strategies -> Seq(Sendable')]
    <2>1. toServer \in [Strategies -> Seq(Sendable)] /\ Sendable \subseteq Sendable'
      BY KeptTrue DEF FlowInv
    <2>2. Append(toServer[s], r) \in Seq(Sendable')
      BY <2>1, PutOn
    <2>3. toServer \in [Strategies -> Seq(Sendable')]
      BY <2>1, Carries
    <2> QED BY <1>1, <2>2, <2>3 DEF Push
  <1>2. ASSUME NEW r \in Sendable', Push(s, r),
               UNCHANGED <<current, late, inbox, market>>,
               \A o \in Orders : status'[o] = "ACCEPTED" => status[o] = "ACCEPTED"
        PROVE  FlowInv'
    BY <1>1, <1>2, FlowIdle, FlowKeeps
  <1>3. ASSUME NEW o \in Orders, NEW v \in Venues, SendOrder(s, o, v)
        PROVE  FlowInv'
    <2> DEFINE r == [kind |-> "order_request", from |-> s, ids |-> {o}, venue |-> v]
    <2>1. r \in Sendable'
      BY <1>3, NullsAreFresh
         DEF SendOrder, Track, Sendable, Placing, PlaceKinds, Request, RequestKinds
    <2>2. Push(s, r) /\ Track(s, {o}, v) /\ UNCHANGED <<current, late, inbox, market>>
      BY <1>3 DEF SendOrder
    <2> HIDE DEF r
    <2> QED BY <1>2, <2>1, <2>2 DEF Track
  <1>4. ASSUME NEW ids \in SUBSET Orders, NEW v \in Venues, SendBatch(s, ids, v)
        PROVE  FlowInv'
    <2> DEFINE r == [kind |-> "batch_order_request", from |-> s, ids |-> ids, venue |-> v]
    <2>1. r \in Sendable'
      BY <1>4, NullsAreFresh
         DEF SendBatch, Track, Sendable, Placing, PlaceKinds, Request, RequestKinds
    <2>2. Push(s, r) /\ Track(s, ids, v) /\ UNCHANGED <<current, late, inbox, market>>
      BY <1>4 DEF SendBatch
    <2> HIDE DEF r
    <2> QED BY <1>2, <2>1, <2>2 DEF Track
  <1>5. ASSUME \/ \E o \in Orders : SendCancel(s, o)
               \/ SendCancelAll(s)
               \/ \E v \in Venues : SendRegister(s, v) \/ SendUnregister(s, v)
        PROVE  \E r \in Request : /\ r.kind \notin PlaceKinds /\ Push(s, r)
                                  /\ UNCHANGED <<current, late, inbox, market, status>>
    BY <1>5, OkxIsVenue
       DEF SendCancel, SendCancelAll, SendRegister, SendUnregister, Request, RequestKinds,
           PlaceKinds
  <1>6. \A r \in Request : r.kind \notin PlaceKinds => r \in Sendable'
    BY DEF Sendable, Placing, PlaceKinds
  <1> QED BY <1>2, <1>3, <1>4, <1>5, <1>6 DEF Send

LEMMA FlowHandle ==
  ASSUME IInv, FlowInv, Kept, NEW s \in Strategies, Handle(s)
  PROVE  FlowInv'
  <1> USE DEF server, exchange, client
  <1> DEFINE h == Head(toServer[s])
  <1>1. ASSUME NEW kind, Receive(s, kind)
        PROVE  h \in Sendable' /\ h \in Request /\ h.ids \in SUBSET Orders
    BY <1>1, ReceiveTrue DEF Sendable, Request
  <1>2. ASSUME NEW kind, Receive(s, kind), NEW r \in Truthful', Publish(r),
               UNCHANGED <<current, market, late, status>>
        PROVE  FlowInv'
    BY <1>2, ReceiveTrue, PublishTrue, FlowIdle, FlowKeeps
  <1>3. ASSUME NEW kind, Receive(s, kind)
        PROVE  Rejection(s, h) \in Truthful'
    <2>1. Rejection(s, h) \in Report /\ Rejection(s, h).status # "accepted"
      BY <1>1, <1>3 DEF Rejection, Report, ReportTypes, ReportStatuses
    <2> QED BY <2>1, Harmless
  <1>4. CASE RejectByRisk(s) \/ RejectNoAccount(s)
    <2>1. /\ Receive(s, "order_request") /\ Publish(Rejection(s, h))
          /\ UNCHANGED <<current, market, late, status>>
      BY <1>4 DEF RejectByRisk, RejectNoAccount
    <2> QED BY <1>2, <1>3, <2>1
  <1>5. ASSUME NEW kind, Receive(s, kind), Call(h), h \in Vouched',
               UNCHANGED <<market, late, inbox, status>>
        PROVE  FlowInv'
    BY <1>5, ReceiveTrue, FlowIdle, FlowKeeps DEF Call
  <1>6. CASE PlaceOrder(s)
    <2>1. h \in Vouched'
      BY <1>1, <1>6 DEF PlaceOrder, Vouched
    <2> QED BY <1>5, <1>6, <2>1 DEF PlaceOrder
  <1>7. CASE PlaceBatch(s) \/ CallCancel(s)
    <2>1. h \in Vouched'
      BY <1>1, <1>7, ReceiveTrue DEF PlaceBatch, CallCancel, Vouched
    <2> QED BY <1>5, <1>7, <2>1 DEF PlaceBatch, CallCancel
  <1>8. CASE RejectBatch(s)
    <2> DEFINE r == [type |-> "batch_report", to |-> s, status |-> "rejected",
                     good |-> {}, bad |-> {}]
    <2>1. r \in Report /\ r.status # "accepted"
      BY DEF Report, ReportTypes, ReportStatuses
    <2>2. Publish(r) /\ Receive(s, "batch_order_request")
          /\ UNCHANGED <<current, market, late, status>>
      BY <1>8 DEF RejectBatch
    <2> HIDE DEF r
    <2> QED BY <1>2, <2>1, <2>2, Harmless
  <1>9. CASE RejectCancel(s)
    <2> DEFINE r == [type |-> "cancel_report", to |-> s, status |-> "rejected",
                     good |-> {}, bad |-> h.ids]
    <2>1. Publish(r) /\ Receive(s, "cancel_request")
          /\ UNCHANGED <<current, market, late, status>>
      BY <1>9 DEF RejectCancel
    <2>2. r \in Report /\ r.status # "accepted"
      BY <1>1, <2>1 DEF Report, ReportTypes, ReportStatuses
    <2> HIDE DEF r
    <2> QED BY <1>2, <2>1, <2>2, Harmless
  <1>10. CASE DropCancelAll(s)
    BY <1>10, ReceiveTrue, FlowIdle, FlowKeeps DEF DropCancelAll
  <1>11. ASSUME NEW type \in ReportTypes, NEW st \in ReportStatuses \ {"accepted"}
         PROVE  AccountReport(s, type, st) \in Truthful'
    <2>1. AccountReport(s, type, st) \in Report /\ AccountReport(s, type, st).status # "accepted"
      BY DEF AccountReport, Report
    <2> QED BY <2>1, Harmless
  <1>12. ASSUME NEW ok \in BOOLEAN, RegisterAccount(s, ok)
         PROVE  FlowInv'
    <2>1. PICK st \in {"registered", "rejected"} :
            Publish(AccountReport(s, "register_report", st))
      BY <1>12 DEF RegisterAccount
    <2>2. AccountReport(s, "register_report", st) \in Truthful'
      BY <1>11 DEF ReportTypes, ReportStatuses
    <2> QED BY <1>2, <1>12, <2>1, <2>2 DEF RegisterAccount
  <1>13. CASE UnregisterAccount(s)
    <2>1. PICK st \in {"unregistered", "rejected"} :
            Publish(AccountReport(s, "unregister_report", st))
      BY <1>13 DEF UnregisterAccount
    <2>2. AccountReport(s, "unregister_report", st) \in Truthful'
      BY <1>11 DEF ReportTypes, ReportStatuses
    <2> QED BY <1>2, <1>13, <2>1, <2>2 DEF UnregisterAccount
  <1> QED
    BY <1>4, <1>6, <1>7, <1>8, <1>9, <1>10, <1>12, <1>13 DEF Handle

(* What reaches the exchange comes from a call vouched for.                *)
LEMMA FlowExchange ==
  ASSUME IInv, FlowInv, Kept, Exchange
  PROVE  FlowInv'
  <1> USE DEF server, exchange, client
  <1>1. UNCHANGED <<toServer, current, inbox, status>> /\ late' \subseteq late
    BY DEF Exchange, ExchangePlace, ExchangeCancel, LandLate, Fill
  <1>2. late' \subseteq Vouched'
    BY <1>1, KeptTrue DEF FlowInv
  <1>3. ASSUME NEW q \in Vouched, Placing(q), NEW o \in q.ids
        PROVE  o \in cleared \cup batched
    BY <1>3 DEF Vouched, Sendable, Placing, PlaceKinds
  <1>4. ASSUME NEW o \in Orders, market[o] = "none", market'[o] # "none"
        PROVE  \E q \in Vouched : Placing(q) /\ o \in q.ids
    <2>1. ASSUME NEW acc \in SUBSET Orders, NEW ref \in SUBSET Orders, ExchangePlace(acc, ref)
          PROVE  \E q \in Vouched : Placing(q) /\ o \in q.ids
      <3>1. current \in Vouched /\ Placing(current)
        BY <2>1 DEF ExchangePlace, FlowInv, Placing, PlaceKinds, NoRequest
      <3>2. o \in acc \cup ref /\ acc \cup ref \subseteq current.ids
        BY <1>4, <2>1 DEF ExchangePlace, Execute, Calls
      <3> QED BY <3>1, <3>2
    <2>2. ~ExchangeCancel
      BY <1>4 DEF ExchangeCancel, CancelAtOkx, Cancellable
    <2>3. ASSUME NEW q \in late, NEW acc \in SUBSET Orders, LandLate(q, acc)
          PROVE  \E p \in Vouched : Placing(p) /\ o \in p.ids
      <3>1. q \in Vouched
        BY DEF FlowInv
      <3>2. Placing(q) /\ o \in q.ids
        BY <1>4, <2>3 DEF LandLate, Execute, CancelAtOkx, Cancellable, Placing
      <3> QED BY <3>1, <3>2
    <2>4. \A p \in Orders : ~Fill(p)
      BY <1>4 DEF Fill, IInv, TypeInv, TypeOK
    <2> QED BY <2>1, <2>2, <2>3, <2>4 DEF Exchange
  <1> QED BY <1>1, <1>2, <1>3, <1>4, FlowIdle, FlowKeeps

(* What the order thread gives up was vouched for, and is still.           *)
LEMMA GiveUpTrue ==
  ASSUME IInv, FlowInv, Kept, current \in Request, GiveUp
  PROVE  late' \subseteq Vouched'
  <1>1. /\ late \subseteq Vouched /\ current \in Vouched
        /\ Vouched \subseteq Vouched'
    BY KeptTrue DEF FlowInv, NoRequest, Request, RequestKinds
  <1>2. CASE ~Placing(current)
    BY <1>1, <1>2 DEF GiveUp, Placing
  <1>3. CASE Placing(current) /\ Unheard = {}
    BY <1>1, <1>3 DEF GiveUp, Placing
  <1>4. CASE Placing(current) /\ Unheard # {}
    <2> DEFINE r == [current EXCEPT !.ids = Unheard]
    <2>1. /\ r \in Request /\ r.kind = current.kind /\ r.venue = current.venue
          /\ r.ids = Unheard /\ Unheard \subseteq current.ids
      BY DEF Request, Unheard
    <2>2. late' = late \cup {r}
      BY <1>4 DEF GiveUp, Placing
    <2> HIDE DEF r
    <2>3. r \in Vouched
      BY <1>1, <1>4, <2>1 DEF Vouched, Sendable, Placing
    <2> QED BY <1>1, <2>2, <2>3
  <1> QED BY <1>2, <1>3, <1>4

LEMMA FlowFinish ==
  ASSUME IInv, FlowInv, Kept, current \in Request, GiveUp \/ UNCHANGED late,
         Finish, UNCHANGED <<toServer, market, status>>,
         NEW r \in Truthful', Publish(r)
  PROVE  FlowInv'
  <1>1. late' \subseteq Vouched'
    BY GiveUpTrue, FlowIdle
  <1>2. inbox' \in [Strategies -> Seq(Truthful')]
    BY PublishTrue
  <1> QED BY <1>1, <1>2, FlowIdle, FlowKeeps DEF Finish

LEMMA FlowReply ==
  ASSUME IInv, FlowInv, Kept, Reply
  PROVE  FlowInv'
  <1> USE DEF exchange, client
  <1>1. ASSUME current.kind \in RequestKinds
        PROVE  /\ current \in Request /\ current \in Sendable /\ current.from \in Strategies
               /\ current.ids \in SUBSET Orders
               /\ Accepted \in SUBSET Orders /\ Refused \in SUBSET Orders
    BY <1>1, ReplyTyped DEF IInv, FlowInv, Vouched, NoRequest, RequestKinds
  <1>2. CASE ReplyOrder
    <2> DEFINE st == IF Accepted = {} THEN "rejected"
                     ELSE IF current.venue = Okx THEN "accepted" ELSE "submitted"
               r == [type |-> "order_report", to |-> current.from, status |-> st,
                     good |-> Accepted, bad |-> Refused]
    <2>1. current.kind = "order_request" /\ current.kind \in RequestKinds
      BY <1>2 DEF ReplyOrder, RequestKinds
    <2>2. r \in Report
      BY <1>1, <2>1 DEF Report, ReportTypes, ReportStatuses
    <2>3. UNCHANGED <<toServer, market, venue, status, late>> /\ Finish /\ Publish(r)
      BY <1>2 DEF ReplyOrder
    <2>4. PICK o \in Orders : current.ids = {o}
      BY <1>1, <2>1 DEF Sendable
    <2>5. venue[o] = current.venue
      BY <1>1, <2>1, <2>4 DEF Sendable, Placing, PlaceKinds
    <2>6. ASSUME st = "accepted", NEW p \in Accepted \cup Refused
          PROVE  market[p] \in Placed /\ venue[p] = Okx
      <3>1. Accepted # {} /\ current.venue = Okx
        BY <2>6
      <3>2. p = o /\ market[o] \in Placed
        BY <2>4, <3>1 DEF Accepted, Refused
      <3> QED BY <2>5, <3>1, <3>2
    <2>7. r \in Truthful'
      BY <2>2, <2>3, <2>6 DEF Truthful
    <2> HIDE DEF r
    <2> QED BY <1>1, <2>1, <2>3, <2>7, FlowFinish
  <1>3. CASE ReplyOrderFailure
    <2>1. current.kind \in RequestKinds
      BY <1>3 DEF ReplyOrderFailure, RequestKinds
    <2>2. Rejection(current.from, current) \in Report
          /\ Rejection(current.from, current).status # "accepted"
      BY <1>1, <2>1 DEF Rejection, Report, ReportTypes, ReportStatuses
    <2> QED BY <1>1, <1>3, <2>1, <2>2, Harmless, FlowFinish DEF ReplyOrderFailure
  <1>4. ASSUME NEW n, NEW good \in SUBSET Orders, NEW bad \in SUBSET Orders,
               NEW st \in ReportStatuses, current.kind = "batch_order_request",
               FinishBatch(n, good, bad, st)
        PROVE  FlowInv'
    <2> DEFINE r == [type |-> "batch_report", to |-> current.from, status |-> st,
                     good |-> good, bad |-> bad]
    <2>1. current.kind \in RequestKinds
      BY <1>4 DEF RequestKinds
    <2>2. r \in Report /\ r.type = "batch_report"
      BY <1>1, <2>1 DEF Report, ReportTypes
    <2>3. Publish(r) /\ GiveUp /\ Finish /\ UNCHANGED <<toServer, market, status>>
      BY <1>4 DEF FinishBatch
    <2> HIDE DEF r
    <2> QED BY <1>1, <2>1, <2>2, <2>3, Harmless, FlowFinish
  <1>5. \A good, bad : BatchStatus(good, bad) \in ReportStatuses
    BY DEF BatchStatus, ReportStatuses
  <1>6. ASSUME NEW lost \in SUBSET Orders, ReplyBatch(lost)
        PROVE  FlowInv'
    <2>1. current.kind = "batch_order_request"
      BY <1>6 DEF ReplyBatch
    <2>2. Accepted \ lost \in SUBSET Orders /\ Refused \cup lost \in SUBSET Orders
      BY <1>1, <2>1 DEF RequestKinds
    <2> QED BY <1>4, <1>5, <1>6, <2>1, <2>2 DEF ReplyBatch
  <1>7. CASE ReplyBatchEmpty
    BY <1>4, <1>5, <1>7 DEF ReplyBatchEmpty
  <1>8. CASE ReplyBatchFailure
    BY <1>4, <1>8 DEF ReplyBatchFailure, ReportStatuses
  <1>9. CASE ReplyCancel
    <2>1. current.kind \in RequestKinds
      BY <1>9 DEF ReplyCancel, RequestKinds
    <2>2. PICK ok \in BOOLEAN :
            Publish([type |-> "cancel_report", to |-> current.from,
                     status |-> IF ok THEN "cancelled" ELSE "rejected",
                     good |-> IF ok THEN current.ids ELSE {},
                     bad |-> IF ok THEN {} ELSE current.ids])
      BY <1>9 DEF ReplyCancel
    <2> DEFINE r == [type |-> "cancel_report", to |-> current.from,
                     status |-> IF ok THEN "cancelled" ELSE "rejected",
                     good |-> IF ok THEN current.ids ELSE {},
                     bad |-> IF ok THEN {} ELSE current.ids]
    <2>3. r \in Report /\ r.status # "accepted" /\ Publish(r)
      BY <1>1, <2>1, <2>2 DEF Report, ReportTypes, ReportStatuses
    <2> HIDE DEF r
    <2> QED BY <1>1, <1>9, <2>1, <2>3, Harmless, FlowFinish DEF ReplyCancel
  <1> QED BY <1>2, <1>3, <1>6, <1>7, <1>8, <1>9 DEF Reply

(* A strategy takes a report at its word, and the word is true.            *)
LEMMA FlowDrain ==
  ASSUME IInv, FlowInv, Kept, NEW s \in Strategies, Drain(s)
  PROVE  FlowInv'
  <1> USE DEF server, exchange, client
  <1> DEFINE r == Head(inbox[s])
  <1>1. ASSUME Take(s)
        PROVE  r \in Truthful /\ r \in Truthful' /\ inbox' \in [Strategies -> Seq(Truthful')]
    <2>1. inbox \in [Strategies -> Seq(Truthful)] /\ Truthful \subseteq Truthful'
      BY KeptTrue DEF FlowInv
    <2>2. inbox[s] # <<>> /\ inbox' = [inbox EXCEPT ![s] = Tail(@)]
      BY <1>1 DEF Take
    <2>3. r \in Truthful /\ [inbox EXCEPT ![s] = Tail(@)] \in [Strategies -> Seq(Truthful')]
      BY <2>1, <2>2, TakeFrom
    <2> QED BY <2>1, <2>2, <2>3
  <1>2. ASSUME Take(s), r.type # "batch_report", UpdateOrder(s, r), NEW o \in Orders,
               status'[o] = "ACCEPTED"
        PROVE  status[o] = "ACCEPTED" \/ (market'[o] \in Placed /\ venue'[o] = Okx)
    <2>1. status[o] = "ACCEPTED" \/ (o \in r.good \cup r.bad /\ r.status = "accepted")
      BY <1>2 DEF UpdateOrder
    <2>2. r \in Truthful'
      BY <1>1, <1>2
    <2> HIDE DEF r
    <2> QED BY <1>2, <2>1, <2>2 DEF Truthful
  <1>3. CASE ProcessAccountReport(s)
    <2>1. Take(s) /\ UNCHANGED <<toServer, current, late, market>>
      BY <1>3 DEF ProcessAccountReport
    <2>2. (r.type = "order_report" /\ UpdateOrder(s, r)) \/ UNCHANGED status
      BY <1>3 DEF ProcessAccountReport
    <2> QED BY <1>1, <1>2, <2>1, <2>2, FlowIdle, FlowKeeps
  <1>4. CASE ProcessOrderReport(s)
    <2>1. Take(s) /\ UNCHANGED <<toServer, current, late, market>>
      BY <1>4 DEF ProcessOrderReport
    <2>2. (r.type # "batch_report" /\ UpdateOrder(s, r)) \/ UNCHANGED status
      BY <1>4 DEF ProcessOrderReport
    <2> QED BY <1>1, <1>2, <2>1, <2>2, FlowIdle, FlowKeeps
  <1>5. CASE NextLoop(s)
    BY <1>5, FlowIdle, FlowKeeps DEF NextLoop
  <1> QED BY <1>3, <1>4, <1>5 DEF Drain

LEMMA FlowCrash ==
  ASSUME IInv, FlowInv, Kept, (\E s \in Strategies : StrategyCrash(s)) \/ ServerCrash
  PROVE  FlowInv'
  <1> USE DEF server, exchange, client
  <1>1. toServer \in [Strategies -> Seq(Sendable')] /\ inbox \in [Strategies -> Seq(Truthful')]
    BY KeptTrue, Carries DEF FlowInv
  <1>2. ASSUME NEW s \in Strategies, StrategyCrash(s)
        PROVE  FlowInv'
    <2>1. PICK n \in 0 .. Len(toServer[s]) :
            toServer' = [toServer EXCEPT ![s] = SubSeq(@, 1, n)]
      BY <1>2 DEF StrategyCrash
    <2>2. SubSeq(toServer[s], 1, n) \in Seq(Sendable')
      BY <1>1, SubSeqTyped
    <2>3. toServer' \in [Strategies -> Seq(Sendable')]
      BY <1>1, <2>1, <2>2
    <2>4. inbox' \in [Strategies -> Seq(Truthful')]
      BY <1>1, <1>2, EmptySeq DEF StrategyCrash
    <2>5. UNCHANGED <<current, late, market>>
          /\ \A o \in Orders : status'[o] = "ACCEPTED" => status[o] = "ACCEPTED"
      BY <1>2 DEF StrategyCrash
    <2> QED BY <2>3, <2>4, <2>5, FlowIdle, FlowKeeps
  <1>3. CASE ServerCrash
    <2>1. PICK lost \in [Strategies -> 0 .. MaxSends] :
            toServer' = [s \in Strategies |->
                           SubSeq(toServer[s], lost[s] + 1, Len(toServer[s]))]
      BY <1>3 DEF ServerCrash
    <2>2. \A s \in Strategies :
            SubSeq(toServer[s], lost[s] + 1, Len(toServer[s])) \in Seq(Sendable')
      <3> TAKE s \in Strategies
      <3>1. toServer[s] \in Seq(Sendable') /\ lost[s] + 1 \in Nat \ {0}
        BY <1>1, BoundsAreNat
      <3>2. Len(toServer[s]) \in 0 .. Len(toServer[s])
        BY <3>1, LenProperties
      <3> QED BY <3>1, <3>2, SubSeqTyped
    <2>3. late' \subseteq Vouched'
      <3>1. CASE stage = "idle"
        BY <1>3, <3>1, FlowIdle DEF ServerCrash
      <3>2. CASE stage # "idle"
        <4>1. current \in Request
          BY <3>2 DEF IInv, TypeInv, TypeOK, Idle
        <4> QED BY <1>3, <3>2, <4>1, GiveUpTrue DEF ServerCrash
      <3> QED BY <3>1, <3>2
    <2>4. current' = NoRequest /\ UNCHANGED <<market, inbox, status>>
      BY <1>3 DEF ServerCrash, Finish
    <2> QED BY <2>1, <2>2, <2>3, <2>4, FlowIdle, FlowKeeps
  <1> QED BY <1>2, <1>3

LEMMA FlowStep == IInv /\ FlowInv /\ [Next]_vars => FlowInv'
  <1> SUFFICES ASSUME IInv, FlowInv, [Next]_vars PROVE FlowInv'
    OBVIOUS
  <1>1. CASE UNCHANGED vars
    <2>1. Kept
      BY <1>1 DEF Kept, vars, server, exchange, client
    <2>2. UNCHANGED <<toServer, current, late, inbox, status, market>>
      BY <1>1 DEF vars, server, exchange, client
    <2> QED BY <2>1, <2>2, FlowIdle, FlowKeeps
  <1>2. ASSUME NEW s \in Strategies, NEW v \in Venues, LoseAccount(s, v), Kept
        PROVE  FlowInv'
    BY <1>2, FlowIdle, FlowKeeps DEF LoseAccount, exchange, client
  <1>3. CASE Next
    <2>1. Kept
      BY <1>3, StepKeeps
    <2> QED BY <1>2, <1>3, <2>1, FlowSend, FlowHandle, FlowDrain, FlowExchange, FlowReply,
               FlowCrash DEF Next
  <1> QED BY <1>1, <1>3

(* An order shown ACCEPTED in a strategy's active_orders_ is on the books  *)
(* of OKX, for any number of strategies, whatever reports are lost or      *)
(* drained by the other loop and whoever restarts.                         *)
THEOREM AcceptedReal == Spec => []AcceptedIsReal
  <1>1. Spec => [](IInv /\ FlowInv)
    BY IInvInit, IInvStep, FlowInit, FlowStep, PTL DEF Spec
  <1>2. FlowInv => AcceptedIsReal
    BY DEF FlowInv
  <1> QED BY <1>1, <1>2, PTL

(* No single order reaches the exchange around check_order_with_value,     *)
(* calls that arrive after the server gave them up included.               *)
THEOREM RiskChecked == Spec => []SingleOrdersRiskChecked
  <1>1. Spec => [](IInv /\ FlowInv)
    BY IInvInit, IInvStep, FlowInit, FlowStep, PTL DEF Spec
  <1>2. FlowInv => SingleOrdersRiskChecked
    BY DEF FlowInv
  <1> QED BY <1>1, <1>2, PTL

-----------------------------------------------------------------------------
(* The counters.                                                           *)

(* The results of a batch are no more than its orders.                     *)
LEMMA ResultsFit ==
  ASSUME NEW ids \in SUBSET Orders, NEW good \in SUBSET ids, NEW bad \in SUBSET ids,
         good \cap bad = {}
  PROVE  Cardinality(good) + Cardinality(bad) <= Cardinality(ids)
  <1>1. IsFiniteSet(ids)
    BY FS_Subset, OrdersAreFinite
  <1>2. IsFiniteSet(good) /\ IsFiniteSet(bad)
    BY <1>1, FS_Subset
  <1>3. Cardinality(good \cup bad)
          = Cardinality(good) + Cardinality(bad) - Cardinality(good \cap bad)
    BY <1>2, FS_Union
  <1>4. good \cup bad \subseteq ids
    OBVIOUS
  <1>5. Cardinality(good \cup bad) <= Cardinality(ids)
    BY <1>1, <1>4, FS_Subset
  <1>6. Cardinality(good \cap bad) = 0
    BY FS_EmptySet
  <1> QED BY <1>2, <1>3, <1>5, <1>6, FS_CardinalityType

(* A step that leaves the counters and what is in flight.                  *)
LEMMA CountIdle ==
  ASSUME CountersAgree, UNCHANGED counters, InFlight' = InFlight
  PROVE  CountersAgree'
  BY DEF CountersAgree, counters

LEMMA CountHandle ==
  ASSUME IInv, CountersAgree, NEW s \in Strategies, Handle(s)
  PROVE  CountersAgree'
  <1> USE DEF server, counters
  <1>1. orderCount \in Nat /\ orderSuccess \in Nat /\ orderFailed \in Nat
    BY DEF IInv, TypeInv, TypeOK
  <1>2. ASSUME NEW kind, Receive(s, kind)
        PROVE  InFlight = 0 /\ Head(toServer[s]).kind = kind
    BY <1>2 DEF Receive, IInv, TypeInv, Idle, InFlight, NoRequest
  <1>3. CASE RejectByRisk(s) \/ RejectNoAccount(s)
    <2>1. /\ orderCount' = orderCount + 1 /\ orderFailed' = orderFailed + 1
          /\ UNCHANGED <<current, orderSuccess>>
      BY <1>3 DEF RejectByRisk, RejectNoAccount
    <2>2. InFlight' = InFlight /\ InFlight \in Nat
      BY <2>1 DEF InFlight
    <2> QED BY <1>1, <2>1, <2>2 DEF CountersAgree
  <1>4. CASE PlaceOrder(s)
    <2>1. orderCount' = orderCount + 1 /\ UNCHANGED <<orderSuccess, orderFailed>>
      BY <1>4 DEF PlaceOrder
    <2>2. InFlight = 0 /\ (InFlight' = 0 \/ InFlight' = 1)
      BY <1>2, <1>4 DEF PlaceOrder, InFlight
    <2> QED BY <1>1, <2>1, <2>2 DEF CountersAgree
  <1>5. CASE PlaceBatch(s) \/ CallCancel(s)
    <2>1. InFlight = 0 /\ current'.kind # "order_request" /\ UNCHANGED counters
      BY <1>2, <1>5 DEF PlaceBatch, CallCancel, Call
    <2>2. InFlight' = InFlight
      BY <2>1 DEF InFlight
    <2> QED BY <2>1, <2>2, CountIdle
  <1>6. CASE RejectBatch(s) \/ RejectCancel(s) \/ DropCancelAll(s) \/ UnregisterAccount(s)
             \/ \E ok \in BOOLEAN : RegisterAccount(s, ok)
    <2>1. UNCHANGED <<counters, current>>
      BY <1>6 DEF RejectBatch, RejectCancel, DropCancelAll, UnregisterAccount, RegisterAccount
    <2>2. InFlight' = InFlight
      BY <2>1 DEF InFlight
    <2> QED BY <2>1, <2>2, CountIdle
  <1> QED BY <1>3, <1>4, <1>5, <1>6 DEF Handle

LEMMA CountReply ==
  ASSUME IInv, CountersAgree, Reply
  PROVE  CountersAgree'
  <1> USE DEF counters
  <1>1. orderCount \in Nat /\ orderSuccess \in Nat /\ orderFailed \in Nat
    BY DEF IInv, TypeInv, TypeOK
  <1>2. InFlight' = 0
    BY ReplyEnds DEF Finish, InFlight, NoRequest
  <1>3. CASE ReplyOrder \/ ReplyOrderFailure
    <2>1. /\ \/ orderSuccess' = orderSuccess + 1 /\ orderFailed' = orderFailed
             \/ orderFailed' = orderFailed + 1 /\ orderSuccess' = orderSuccess
          /\ orderCount' = orderCount /\ InFlight = 1
      BY <1>3 DEF ReplyOrder, ReplyOrderFailure, InFlight
    <2> QED BY <1>1, <1>2, <2>1 DEF CountersAgree
  <1>4. ASSUME NEW n \in Nat, NEW good \in SUBSET Orders, NEW bad \in SUBSET Orders,
               NEW st, current.kind = "batch_order_request", FinishBatch(n, good, bad, st),
               Cardinality(good) + Cardinality(bad) <= n
        PROVE  CountersAgree'
    <2>1. Cardinality(good) \in Nat /\ Cardinality(bad) \in Nat
      BY CountTyped
    <2>2. /\ orderCount' = orderCount + n
          /\ orderSuccess' = orderSuccess + Cardinality(good)
          /\ orderFailed' = orderFailed + Cardinality(bad)
      BY <1>4 DEF FinishBatch
    <2>3. InFlight = 0
      BY <1>4 DEF InFlight
    <2> QED BY <1>1, <1>2, <1>4, <2>1, <2>2, <2>3 DEF CountersAgree
  <1>5. current.ids \in SUBSET Orders
    BY DEF IInv, TypeInv, TypeOK, Request, NoRequest
  <1>6. Cardinality(current.ids) \in Nat /\ Cardinality({}) = 0
    BY <1>5, CountTyped, FS_EmptySet
  <1>7. ASSUME NEW lost \in SUBSET Orders, ReplyBatch(lost)
        PROVE  CountersAgree'
    <2> DEFINE good == Accepted \ lost
               bad == Refused \cup lost
    <2>1. /\ current.kind = "batch_order_request" /\ lost \subseteq current.ids
          /\ FinishBatch(Cardinality(current.ids), good, bad, BatchStatus(good, bad))
      BY <1>7 DEF ReplyBatch, Calls
    <2>2. /\ good \in SUBSET current.ids /\ bad \in SUBSET current.ids
          /\ good \cap bad = {}
      BY <2>1 DEF Accepted, Refused, Placed
    <2>3. good \in SUBSET Orders /\ bad \in SUBSET Orders
      BY <1>5, <2>2
    <2> HIDE DEF good, bad
    <2>4. Cardinality(good) + Cardinality(bad) <= Cardinality(current.ids)
      BY <1>5, <2>2, ResultsFit
    <2> QED BY <1>4, <1>6, <2>1, <2>3, <2>4
  <1>8. CASE ReplyBatchEmpty
    <2>1. /\ current.kind = "batch_order_request"
          /\ FinishBatch(Cardinality(current.ids), {}, {}, BatchStatus({}, {}))
      BY <1>8 DEF ReplyBatchEmpty
    <2> QED BY <1>4, <1>6, <2>1
  <1>9. CASE ReplyBatchFailure
    <2>1. current.kind = "batch_order_request" /\ FinishBatch(0, {}, {}, "rejected")
      BY <1>9 DEF ReplyBatchFailure
    <2> QED BY <1>4, <1>6, <2>1
  <1>10. CASE ReplyCancel
    <2>1. UNCHANGED counters /\ InFlight = 0
      BY <1>10 DEF ReplyCancel, InFlight
    <2> QED BY <1>2, <2>1, CountIdle
  <1> QED BY <1>3, <1>7, <1>8, <1>9, <1>10 DEF Reply

LEMMA CountStep == IInv /\ CountersAgree /\ [Next]_vars => CountersAgree'
  <1> SUFFICES ASSUME IInv, CountersAgree, [Next]_vars PROVE CountersAgree'
    OBVIOUS
  <1>1. ASSUME UNCHANGED <<current, counters>>
        PROVE  CountersAgree'
    <2>1. InFlight' = InFlight
      BY <1>1 DEF InFlight
    <2> QED BY <1>1, <2>1, CountIdle DEF counters
  <1> USE DEF server, counters
  <1>2. ASSUME NEW s \in Strategies, Send(s)
        PROVE  CountersAgree'
    BY <1>1, <1>2 DEF Send, SendOrder, SendBatch, SendCancel, SendCancelAll, SendRegister,
       SendUnregister
  <1>3. ASSUME NEW s \in Strategies, Drain(s) \/ StrategyCrash(s)
        PROVE  CountersAgree'
    BY <1>1, <1>3 DEF Drain, ProcessAccountReport, ProcessOrderReport, NextLoop, StrategyCrash
  <1>4. CASE Exchange
    BY <1>1, <1>4 DEF Exchange, ExchangePlace, ExchangeCancel, LandLate, Fill
  <1>5. ASSUME NEW s \in Strategies, NEW v \in Venues, LoseAccount(s, v)
        PROVE  CountersAgree'
    BY <1>1, <1>5 DEF LoseAccount
  <1>6. CASE ServerCrash
    BY <1>6 DEF ServerCrash, Finish, CountersAgree, InFlight, NoRequest
  <1>7. CASE UNCHANGED vars
    BY <1>1, <1>7 DEF vars
  <1>8. CASE Next
    BY <1>2, <1>3, <1>4, <1>5, <1>6, <1>8, CountHandle, CountReply DEF Next
  <1> QED BY <1>7, <1>8

(* The outcomes counted, with the order in flight, never exceed the orders *)
(* counted, for batches of any size of which any calls may fail alone.     *)
THEOREM CountersConsistent == Spec => []CountersAgree
  <1>1. Init => CountersAgree
    BY DEF Init, CountersAgree, InFlight, NoRequest
  <1>2. Spec => []IInv
    BY IInvInit, IInvStep, PTL DEF Spec
  <1> QED BY <1>1, <1>2, CountStep, PTL DEF Spec

-----------------------------------------------------------------------------
(* Orders that wait.                                                       *)

Waits(o) == Calling(o) \/ \E i \in Nat : Queued(o, owner[o], i)
WaitInv == \A o \in Orders : owner[o] # NoStrategy /\ answers[o] = 0 => Waits(o)

(* A step that disturbs neither the queues nor the call.                   *)
LEMMA WaitIdle ==
  ASSUME WaitInv, UNCHANGED <<toServer, current, owner, answers>>
  PROVE  WaitInv'
  BY DEF WaitInv, Waits, Calling, Queued, Placing, PlaceKinds

(* A request that is pushed brings its own orders, and keeps the others.   *)
LEMMA WaitPush ==
  ASSUME IInv, WaitInv, NEW s \in Strategies, NEW r \in Request, Push(s, r),
         UNCHANGED <<current, answers>>,
         \A o \in Orders : owner'[o] = owner[o] \/ (owner'[o] = s /\ Placing(r) /\ o \in r.ids)
  PROVE  WaitInv'
  <1> SUFFICES ASSUME NEW o \in Orders, owner'[o] # NoStrategy, answers[o] = 0
               PROVE  Waits(o)'
    BY DEF WaitInv
  <1>1. /\ toServer[s] \in Seq(Request) /\ Len(toServer[s]) \in Nat
        /\ toServer' = [toServer EXCEPT ![s] = Append(@, r)]
        /\ toServer \in [Strategies -> Seq(Request)]
    BY LenProperties DEF IInv, TypeInv, TypeOK, Push
  <1>2. /\ Len(toServer'[s]) = Len(toServer[s]) + 1 /\ toServer'[s][Len(toServer[s]) + 1] = r
        /\ \A i \in 1 .. Len(toServer[s]) : toServer'[s][i] = toServer[s][i]
    BY <1>1, AppendProperties
  <1>3. CASE owner'[o] = s /\ Placing(r) /\ o \in r.ids
    <2>1. Len(toServer[s]) + 1 \in 1 .. Len(toServer'[s])
      BY <1>1, <1>2
    <2> PICK n \in Nat : n = Len(toServer[s]) + 1
      BY <1>1
    <2>2. toServer'[s][n] = r /\ n \in 1 .. Len(toServer'[s])
      BY <1>2, <2>1
    <2>3. Placing(toServer'[s][n]) /\ o \in toServer'[s][n].ids
      BY <1>3, <2>2
    <2>4. Queued(o, s, n)'
      BY <2>2, <2>3 DEF Queued, Placing, PlaceKinds
    <2> QED BY <1>3, <2>4 DEF Waits
  <1>4. CASE owner'[o] = owner[o]
    <2>1. Waits(o)
      BY <1>4 DEF WaitInv
    <2>2. CASE Calling(o)
      BY <2>2 DEF Waits, Calling, Placing, PlaceKinds
    <2>3. ASSUME NEW i \in Nat, Queued(o, owner[o], i)
          PROVE  Waits(o)'
      <3>1. owner[o] \in Strategies
        BY <1>4 DEF IInv, TypeInv, TypeOK
      <3>2. CASE owner[o] = s
        <4>1. i \in 1 .. Len(toServer[s]) /\ i \in 1 .. Len(toServer'[s])
          BY <1>1, <1>2, <2>3, <3>2 DEF Queued
        <4>2. Queued(o, s, i)'
          BY <1>2, <2>3, <3>2, <4>1 DEF Queued, Placing, PlaceKinds
        <4> QED BY <1>4, <3>2, <4>2 DEF Waits
      <3>3. CASE owner[o] # s
        <4>1. toServer'[owner[o]] = toServer[owner[o]]
          BY <1>1, <3>1, <3>3
        <4>2. i \in Nat /\ (Queued(o, owner[o], i))'
          BY <1>4, <2>3, <4>1 DEF Queued, Placing, PlaceKinds
        <4> QED BY <4>2 DEF Waits
      <3> QED BY <3>2, <3>3
    <2> QED BY <2>1, <2>2, <2>3 DEF Waits
  <1> QED BY <1>3, <1>4

(* A request that is received leaves the others in its queue.              *)
LEMMA WaitReceive ==
  ASSUME IInv, WaitInv, NEW s \in Strategies, NEW kind, Receive(s, kind), UNCHANGED owner,
         \A o \in Orders : answers'[o] = 0 => answers[o] = 0,
         \A o \in Orders :
           Placing(Head(toServer[s])) /\ o \in Head(toServer[s]).ids =>
             answers'[o] # 0 \/ Calling(o)'
  PROVE  WaitInv'
  <1> SUFFICES ASSUME NEW o \in Orders, owner[o] # NoStrategy, answers'[o] = 0
               PROVE  Waits(o)'
    BY DEF WaitInv
  <1> DEFINE h == Head(toServer[s])
  <1>1. /\ toServer[s] \in Seq(Request) /\ toServer[s] # <<>>
        /\ toServer' = [toServer EXCEPT ![s] = Tail(@)]
        /\ toServer \in [Strategies -> Seq(Request)]
        /\ current = NoRequest
    BY DEF IInv, TypeInv, TypeOK, Receive, Idle
  <1>2. /\ h = toServer[s][1] /\ Len(toServer[s]) \in Nat
        /\ Len(Tail(toServer[s])) = Len(toServer[s]) - 1
        /\ \A i \in 1 .. Len(Tail(toServer[s])) : Tail(toServer[s])[i] = toServer[s][i + 1]
    BY <1>1, HeadTailProperties, LenProperties, EmptySeq
  <1>3. ~Calling(o)
    BY <1>1 DEF Calling, Placing, NoRequest, PlaceKinds
  <1>4. PICK i \in Nat : Queued(o, owner[o], i)
    BY <1>3 DEF WaitInv, Waits
  <1>5. owner[o] \in Strategies
    BY DEF IInv, TypeInv, TypeOK
  <1>6. CASE owner[o] # s
    <2>1. toServer'[owner[o]] = toServer[owner[o]]
      BY <1>1, <1>5, <1>6
    <2>2. Queued(o, owner[o], i)'
      BY <1>4, <2>1 DEF Queued, Placing, PlaceKinds
    <2> QED BY <2>2 DEF Waits
  <1>7. CASE owner[o] = s /\ i = 1
    <2>1. Placing(h) /\ o \in h.ids
      BY <1>2, <1>4, <1>7 DEF Queued
    <2> QED BY <2>1 DEF Waits
  <1>8. CASE owner[o] = s /\ i # 1
    <2>1. i \in 1 .. Len(toServer[s]) /\ Placing(toServer[s][i]) /\ o \in toServer[s][i].ids
      BY <1>4, <1>8 DEF Queued
    <2>2. PICK j \in Nat : i = j + 1 /\ j \in 1 .. Len(Tail(toServer[s]))
      <3>1. i - 1 \in Nat /\ i - 1 \in 1 .. Len(Tail(toServer[s])) /\ i = (i - 1) + 1
        BY <1>2, <1>8, <2>1
      <3> QED BY <3>1
    <2>3. toServer'[s] = Tail(toServer[s]) /\ Tail(toServer[s])[j] = toServer[s][i]
      BY <1>1, <1>2, <2>2
    <2>4. Queued(o, s, j)'
      BY <2>1, <2>2, <2>3 DEF Queued, Placing, PlaceKinds
    <2> QED BY <1>8, <2>4 DEF Waits
  <1> QED BY <1>6, <1>7, <1>8

LEMMA WaitSend ==
  ASSUME IInv, WaitInv, NEW s \in Strategies, Send(s)
  PROVE  WaitInv'
  <1> USE DEF server, exchange, client, counters
  <1>1. ASSUME NEW o \in Orders, NEW v \in Venues, SendOrder(s, o, v)
        PROVE  WaitInv'
    <2> DEFINE r == [kind |-> "order_request", from |-> s, ids |-> {o}, venue |-> v]
    <2>1. r \in Request /\ Placing(r) /\ o \in r.ids
      BY DEF Request, RequestKinds, Placing, PlaceKinds
    <2>2. \A x \in Orders : owner'[x] = owner[x] \/ (owner'[x] = s /\ x \in r.ids)
      BY <1>1 DEF SendOrder, Track
    <2>3. Push(s, r) /\ UNCHANGED <<current, answers>>
      BY <1>1 DEF SendOrder
    <2> HIDE DEF r
    <2> QED BY <2>1, <2>2, <2>3, WaitPush
  <1>2. ASSUME NEW ids \in SUBSET Orders, NEW v \in Venues, SendBatch(s, ids, v)
        PROVE  WaitInv'
    <2> DEFINE r == [kind |-> "batch_order_request", from |-> s, ids |-> ids, venue |-> v]
    <2>1. r \in Request /\ Placing(r)
      BY DEF Request, RequestKinds, Placing, PlaceKinds
    <2>2. \A x \in Orders : owner'[x] = owner[x] \/ (owner'[x] = s /\ x \in r.ids)
      BY <1>2 DEF SendBatch, Track
    <2>3. Push(s, r) /\ UNCHANGED <<current, answers>>
      BY <1>2 DEF SendBatch
    <2> HIDE DEF r
    <2> QED BY <2>1, <2>2, <2>3, WaitPush
  <1>3. ASSUME NEW r \in Request, Push(s, r), UNCHANGED <<current, answers, owner>>
        PROVE  WaitInv'
    BY <1>3, WaitPush
  <1>4. CASE \/ \E o \in Orders : SendCancel(s, o)
             \/ SendCancelAll(s)
             \/ \E v \in Venues : SendRegister(s, v) \/ SendUnregister(s, v)
    <2>1. \E r \in Request : Push(s, r)
      BY <1>4, OkxIsVenue
         DEF SendCancel, SendCancelAll, SendRegister, SendUnregister, Request, RequestKinds
    <2>2. UNCHANGED <<current, answers, owner>>
      BY <1>4 DEF SendCancel, SendCancelAll, SendRegister, SendUnregister
    <2> QED BY <1>3, <2>1, <2>2
  <1> QED BY <1>1, <1>2, <1>4 DEF Send

LEMMA WaitHandle ==
  ASSUME IInv, WaitInv, NEW s \in Strategies, Handle(s)
  PROVE  WaitInv'
  <1> USE DEF server, exchange, client, counters
  <1> DEFINE h == Head(toServer[s])
  <1>0. \A o \in Orders : answers[o] \in Nat
    BY DEF IInv, TypeInv, TypeOK
  <1>1. ASSUME NEW kind, Receive(s, kind), Answered(h.ids, {}), UNCHANGED owner
        PROVE  WaitInv'
    <2>1. \A o \in Orders : answers'[o] = IF o \in h.ids THEN answers[o] + 1 ELSE answers[o]
      BY <1>1 DEF Answered
    <2>2. \A o \in Orders : /\ answers'[o] = 0 => answers[o] = 0
                            /\ o \in h.ids => answers'[o] # 0
      BY <1>0, <2>1
    <2> QED BY <1>1, <2>2, WaitReceive
  <1>2. ASSUME NEW kind, Receive(s, kind), Call(h), UNCHANGED <<owner, answers>>
        PROVE  WaitInv'
    <2>1. \A o \in Orders : Placing(h) /\ o \in h.ids => Calling(o)'
      BY <1>2 DEF Call, Calling, Placing, PlaceKinds
    <2> QED BY <1>2, <2>1, WaitReceive
  <1>3. ASSUME NEW kind, kind \notin PlaceKinds, Receive(s, kind), UNCHANGED <<owner, answers>>
        PROVE  WaitInv'
    <2>1. ~Placing(h)
      BY <1>3 DEF Receive, Placing
    <2> QED BY <1>3, <2>1, WaitReceive
  <1>4. CASE RejectByRisk(s) \/ RejectNoAccount(s) \/ RejectBatch(s)
    BY <1>1, <1>4 DEF RejectByRisk, RejectNoAccount, RejectBatch
  <1>5. CASE PlaceOrder(s) \/ PlaceBatch(s) \/ CallCancel(s)
    BY <1>2, <1>5 DEF PlaceOrder, PlaceBatch, CallCancel
  <1>6. CASE RejectCancel(s) \/ DropCancelAll(s) \/ UnregisterAccount(s)
             \/ \E ok \in BOOLEAN : RegisterAccount(s, ok)
    BY <1>3, <1>6
       DEF RejectCancel, DropCancelAll, UnregisterAccount, RegisterAccount, PlaceKinds
  <1> QED BY <1>4, <1>5, <1>6 DEF Handle

(* A call that ends answers for every order that waited in it.             *)
LEMMA WaitReply ==
  ASSUME IInv, WaitInv, Reply
  PROVE  WaitInv'
  <1> USE DEF exchange, client
  <1>1. ASSUME NEW good, Answered(current.ids, good), UNCHANGED <<toServer, owner>>
        PROVE  WaitInv'
    <2> SUFFICES ASSUME NEW o \in Orders, owner[o] # NoStrategy, answers'[o] = 0
                 PROVE  Waits(o)'
      BY <1>1 DEF WaitInv
    <2>1. answers[o] \in Nat
      BY DEF IInv, TypeInv, TypeOK
    <2>2. o \notin current.ids /\ answers[o] = 0
      BY <1>1, <2>1 DEF Answered
    <2>3. PICK i \in Nat : Queued(o, owner[o], i)
      BY <2>2 DEF WaitInv, Waits, Calling
    <2>4. Queued(o, owner[o], i)'
      BY <1>1, <2>3 DEF Queued, Placing, PlaceKinds
    <2> QED BY <2>4 DEF Waits
  <1>2. CASE ReplyOrder \/ ReplyOrderFailure \/ ReplyBatchEmpty \/ ReplyBatchFailure
             \/ \E lost \in SUBSET Orders : ReplyBatch(lost)
    <2>1. \E good : Answered(current.ids, good)
      BY <1>2, Zenon
         DEF ReplyOrder, ReplyOrderFailure, ReplyBatchEmpty, ReplyBatchFailure, ReplyBatch,
             FinishBatch
    <2>2. UNCHANGED <<toServer, owner>>
      BY <1>2 DEF ReplyOrder, ReplyOrderFailure, ReplyBatchEmpty, ReplyBatchFailure, ReplyBatch,
                  FinishBatch
    <2> QED BY <1>1, <2>1, <2>2
  <1>3. CASE ReplyCancel
    <2>1. \A o \in Orders : ~Calling(o)
      BY <1>3 DEF ReplyCancel, Calling, Placing, PlaceKinds
    <2>2. UNCHANGED <<toServer, owner, answers>>
      BY <1>3 DEF ReplyCancel
    <2> QED BY <2>1, <2>2 DEF WaitInv, Waits, Queued, Placing, PlaceKinds
  <1> QED BY <1>2, <1>3 DEF Reply

LEMMA WaitStep ==
  ASSUME IInv, crashes = 0 => WaitInv, [Next]_vars, crashes' = 0
  PROVE  WaitInv'
  <1> USE DEF server, exchange, client, counters
  <1>1. CASE UNCHANGED vars
    BY <1>1, WaitIdle DEF vars
  <1>2. ASSUME NEW s \in Strategies, Send(s) PROVE WaitInv'
    <2>1. crashes' = crashes
      BY <1>2 DEF Send, SendOrder, SendBatch, SendCancel, SendCancelAll, SendRegister,
         SendUnregister
    <2> QED BY <1>2, <2>1, WaitSend
  <1>3. ASSUME NEW s \in Strategies, Handle(s) PROVE WaitInv'
    <2>1. crashes' = crashes
      BY <1>3 DEF Handle, RejectByRisk, RejectNoAccount, PlaceOrder, RejectBatch, PlaceBatch,
         RejectCancel, CallCancel, DropCancelAll, RegisterAccount, UnregisterAccount
    <2> QED BY <1>3, <2>1, WaitHandle
  <1>4. ASSUME NEW s \in Strategies, Drain(s) PROVE WaitInv'
    BY <1>4, WaitIdle DEF Drain, ProcessAccountReport, ProcessOrderReport, NextLoop
  <1>5. ASSUME NEW s \in Strategies, NEW v \in Venues, LoseAccount(s, v) PROVE WaitInv'
    BY <1>5, WaitIdle DEF LoseAccount
  <1>6. CASE Exchange
    BY <1>6, WaitIdle DEF Exchange, ExchangePlace, ExchangeCancel, LandLate, Fill
  <1>7. CASE Reply
    <2>1. crashes' = crashes
      BY <1>7 DEF Reply, ReplyOrder, ReplyOrderFailure, ReplyBatch, ReplyBatchEmpty,
         ReplyBatchFailure, FinishBatch, ReplyCancel
    <2> QED BY <1>7, <2>1, WaitReply
  <1>8. ASSUME ServerCrash \/ \E s \in Strategies : StrategyCrash(s) PROVE FALSE
    <2>1. crashes' = crashes + 1 /\ crashes \in Nat
      BY <1>8 DEF ServerCrash, StrategyCrash, IInv, TypeInv, TypeOK
    <2> QED BY <2>1
  <1> QED BY <1>1, <1>2, <1>3, <1>4, <1>5, <1>6, <1>7, <1>8 DEF Next

(* An order that was sent is never lost sight of: until it is answered it  *)
(* waits in the queue of its own strategy or in the order thread's call,   *)
(* for any strategies, orders, batches and failures, while no process has  *)
(* died.                                                                   *)
THEOREM OrdersWait == Spec => []OrderWaits
  <1> DEFINE W == crashes = 0 => WaitInv
  <1>1. Init => W
    BY DEF Init, WaitInv
  <1>2. IInv /\ W /\ [Next]_vars => W'
    BY WaitStep
  <1>3. IInv /\ W => OrderWaits
    <2> SUFFICES ASSUME IInv, W, NEW o \in Orders,
                        owner[o] # NoStrategy, answers[o] = 0, crashes = 0
                 PROVE  \/ \E i \in DOMAIN toServer[owner[o]] : Places(toServer[owner[o]][i], o)
                        \/ Places(current, o)
      BY DEF OrderWaits
    <2>1. Waits(o)
      BY DEF WaitInv
    <2>2. owner[o] \in Strategies /\ toServer[owner[o]] \in Seq(Request)
      BY DEF IInv, TypeInv, TypeOK
    <2>3. DOMAIN toServer[owner[o]] = 1 .. Len(toServer[owner[o]])
      BY <2>2
    <2> QED BY <2>1, <2>3 DEF Waits, Queued, Calling, Placing, Places
  <1>4. Spec => []IInv
    BY IInvInit, IInvStep, PTL DEF Spec
  <1> HIDE DEF W
  <1> QED BY <1>1, <1>2, <1>3, <1>4, PTL DEF Spec

-----------------------------------------------------------------------------
(* Reports that wait.                                                      *)

(* The request that is called is of the owner of its orders, and a single  *)
(* order whose call was executed was taken or refused.                     *)
CalledInv ==
  /\ Placing(current) => \A o \in current.ids : owner[o] = current.from
  /\ stage = "executed" /\ current.kind = "order_request" =>
       \A o \in current.ids : market[o] # "none"

LEMMA CalledStep == IInv /\ FlowInv /\ CalledInv /\ [Next]_vars => CalledInv'
  <1> SUFFICES ASSUME IInv, FlowInv, CalledInv, [Next]_vars PROVE CalledInv'
    OBVIOUS
  <1> USE DEF server, exchange, client, counters
  <1>1. CASE UNCHANGED <<current, stage, owner, market>>
    BY <1>1 DEF CalledInv, Placing, PlaceKinds
  <1>2. ASSUME Finish PROVE CalledInv'
    BY <1>2 DEF Finish, CalledInv, NoRequest, Placing, PlaceKinds
  <1>3. ASSUME NEW s \in Strategies, Send(s) PROVE CalledInv'
    <2>1. UNCHANGED <<current, stage, market>>
      BY <1>3 DEF Send, SendOrder, SendBatch, SendCancel, SendCancelAll, SendRegister,
         SendUnregister
    <2>2. \A o \in Orders : owner[o] # NoStrategy => owner'[o] = owner[o]
      BY <1>3 DEF Send, SendOrder, SendBatch, SendCancel, SendCancelAll, SendRegister,
         SendUnregister, Track, Fresh
    <2>3. Placing(current) => \A o \in current.ids : o \in Orders /\ owner[o] # NoStrategy
      BY NullsAreFresh
         DEF IInv, TypeInv, TypeOK, CallInv, Calling, Request, Placing, PlaceKinds, NoRequest
    <2> QED BY <2>1, <2>2, <2>3 DEF CalledInv, Placing, PlaceKinds
  <1>4. ASSUME NEW s \in Strategies, NEW kind, Receive(s, kind), Call(Head(toServer[s])),
               UNCHANGED owner
        PROVE  CalledInv'
    <2> DEFINE h == Head(toServer[s])
    <2>1. h.from = s /\ (Placing(h) => \A o \in h.ids : owner[o] = s)
      BY <1>4, ReceiveShrinks
    <2>2. current' = h /\ stage' = "called"
      BY <1>4 DEF Call
    <2> HIDE DEF h
    <2> QED BY <1>4, <2>1, <2>2 DEF CalledInv, Placing, PlaceKinds
  <1>5. ASSUME NEW s \in Strategies, Handle(s) PROVE CalledInv'
    <2>1. CASE PlaceOrder(s) \/ PlaceBatch(s) \/ CallCancel(s)
      BY <1>4, <2>1 DEF PlaceOrder, PlaceBatch, CallCancel
    <2>2. CASE UNCHANGED <<current, stage, owner, market>>
      BY <1>1, <2>2
    <2>3. PlaceOrder(s) \/ PlaceBatch(s) \/ CallCancel(s) \/ UNCHANGED <<current, stage, owner, market>>
      BY <1>5 DEF Handle, RejectByRisk, RejectNoAccount, RejectBatch, RejectCancel,
         DropCancelAll, RegisterAccount, UnregisterAccount
    <2> QED BY <2>1, <2>2, <2>3
  <1>6. ASSUME NEW s \in Strategies, Drain(s) \/ StrategyCrash(s) PROVE CalledInv'
    BY <1>1, <1>6 DEF Drain, ProcessAccountReport, ProcessOrderReport, NextLoop, StrategyCrash
  <1>7. ASSUME NEW s \in Strategies, NEW v \in Venues, LoseAccount(s, v) PROVE CalledInv'
    BY <1>1, <1>7 DEF LoseAccount
  <1>8. CASE Exchange
    <2>0. UNCHANGED <<current, owner>>
      BY <1>8 DEF Exchange, ExchangePlace, ExchangeCancel, LandLate, Fill
    <2>1. ASSUME NEW acc \in SUBSET Orders, NEW ref \in SUBSET Orders, ExchangePlace(acc, ref)
          PROVE  CalledInv'
      <3>1. current.kind = "order_request" => acc \cup ref = current.ids
        BY <2>1 DEF ExchangePlace, Calls
      <3>2. \A o \in acc \cup ref : market'[o] # "none"
        BY <2>1 DEF ExchangePlace, Execute
      <3> QED BY <2>0, <3>1, <3>2 DEF CalledInv, Placing, PlaceKinds
    <2>2. CASE ExchangeCancel
      BY <2>0, <2>2 DEF ExchangeCancel, CalledInv, Placing, PlaceKinds
    <2>3. ASSUME stage' = stage, \A o \in Orders : market[o] # "none" => market'[o] # "none"
          PROVE  CalledInv'
      <3>1. current.kind = "order_request" => current.ids \subseteq Orders
        BY DEF IInv, TypeInv, TypeOK, Request, NoRequest
      <3> QED BY <2>0, <2>3, <3>1 DEF CalledInv, Placing, PlaceKinds
    <2>4. ASSUME NEW q \in late, NEW acc \in SUBSET Orders, LandLate(q, acc)
          PROVE  CalledInv'
      BY <2>3, <2>4 DEF LandLate, Execute, CancelAtOkx
    <2>5. ASSUME NEW p \in Orders, Fill(p) PROVE CalledInv'
      BY <2>3, <2>5 DEF Fill, IInv, TypeInv, TypeOK
    <2> QED BY <1>8, <2>1, <2>2, <2>4, <2>5 DEF Exchange
  <1>9. CASE Reply
    BY <1>2, <1>9, ReplyEnds
  <1>10. CASE ServerCrash
    BY <1>2, <1>10 DEF ServerCrash
  <1>11. CASE UNCHANGED vars
    BY <1>1, <1>11 DEF vars
  <1> QED BY <1>3, <1>5, <1>6, <1>7, <1>8, <1>9, <1>10, <1>11 DEF Next

(* While no process has died, a report is put into every queue with room,  *)
(* and what waits there is kept.                                           *)
LEMMA PublishReaches ==
  ASSUME IInv, crashes = 0, NEW r \in Report, Publish(r), NEW s \in Strategies
  PROVE  /\ inbox[s] \in Seq(Report)
         /\ inbox'[s] = IF Len(inbox[s]) < Capacity THEN Append(inbox[s], r) ELSE inbox[s]
  BY DEF Publish, IInv, TypeInv, TypeOK

LEMMA ReportArrives ==
  ASSUME IInv, crashes = 0, NEW r \in Report, Publish(r), NEW o \in Orders,
         owner[o] \in Strategies, UNCHANGED owner
  PROVE  /\ Reported(o) => Reported(o)'
         /\ Len(inbox[owner[o]]) < Capacity /\ r.type = "order_report" /\ r.to = owner[o]
              /\ r.good \cup r.bad = {o} => Reported(o)'
  <1> PICK q \in Seq(Report) : q = inbox[owner[o]]
    BY PublishReaches
  <1> PICK n \in Nat : n = Len(q)
    OBVIOUS
  <1>1. /\ Append(q, r) \in Seq(Report) /\ Len(Append(q, r)) = n + 1 /\ Append(q, r)[n + 1] = r
        /\ \A i \in 1 .. n : Append(q, r)[i] = q[i]
        /\ n + 1 \in DOMAIN Append(q, r) /\ \A i \in 1 .. n : i \in DOMAIN Append(q, r)
        /\ DOMAIN q = 1 .. n
    OBVIOUS
  <1>2. inbox'[owner[o]] = IF Len(q) < Capacity THEN Append(q, r) ELSE q
    BY PublishReaches
  <1>3. Reported(o) => Reported(o)'
    <2> SUFFICES ASSUME Reported(o) PROVE Reported(o)'
      OBVIOUS
    <2>1. PICK i \in 1 .. n : /\ q[i].type = "order_report" /\ q[i].to = owner[o]
                              /\ q[i].good \cup q[i].bad = {o}
      BY <1>1 DEF Reported
    <2>2. i \in DOMAIN inbox'[owner[o]] /\ inbox'[owner[o]][i] = q[i]
      BY <1>1, <1>2
    <2> QED BY <2>1, <2>2 DEF Reported
  <1>4. ASSUME Len(q) < Capacity, r.type = "order_report", r.to = owner[o], r.good \cup r.bad = {o}
        PROVE  Reported(o)'
    <2>1. n + 1 \in DOMAIN inbox'[owner[o]] /\ inbox'[owner[o]][n + 1] = r
      BY <1>1, <1>2, <1>4
    <2> QED BY <1>4, <2>1 DEF Reported
  <1> QED BY <1>3, <1>4

(* A step that answers for nobody and publishes nothing.                   *)
LEMMA ReportIdle ==
  ASSUME UNCHANGED <<inbox, owner, answers>>, NEW o \in Orders
  PROVE  answers'[o] = answers[o] /\ (Reported(o) => Reported(o)')
  BY DEF Reported

Reaches(o) ==
  /\ answers'[o] # answers[o] /\ Len(inbox[owner[o]]) < Capacity => Reported(o)'
  /\ Reported(o) => Reported(o)' \/ Learned(o)'

LEMMA ReachHandle ==
  ASSUME IInv, FlowInv, crashes = 0, NEW s \in Strategies, Handle(s),
         NEW o \in Orders \ batched, owner[o] # NoStrategy
  PROVE  Reaches(o)
  <1> USE DEF server, exchange, client, counters
  <1> DEFINE h == Head(toServer[s])
  <1>0. owner[o] \in Strategies
    BY DEF IInv, TypeInv, TypeOK
  <1>1. ASSUME NEW r \in Report, Publish(r), UNCHANGED <<answers, owner>>
        PROVE  Reaches(o)
    BY <1>0, <1>1, ReportArrives DEF Reaches
  <1>2. ASSUME UNCHANGED <<inbox, answers, owner>>
        PROVE  Reaches(o)
    BY <1>2, ReportIdle DEF Reaches
  <1>3. ASSUME NEW kind, Receive(s, kind)
        PROVE  /\ h \in Request /\ h.ids \in SUBSET Orders /\ h \in Sendable /\ h.kind = kind
               /\ Placing(h) => \A x \in h.ids : owner[x] = s
    <2>1. h \in Request /\ (Placing(h) => \A x \in h.ids : owner[x] = s)
      BY <1>3, ReceiveShrinks
    <2>2. h \in Sendable
      BY <1>3, TakeFrom DEF Receive, FlowInv
    <2> QED BY <1>3, <2>1, <2>2 DEF Receive, Request
  <1>4. CASE RejectByRisk(s) \/ RejectNoAccount(s)
    <2>1. /\ Receive(s, "order_request") /\ Publish(Rejection(s, h)) /\ Answered(h.ids, {})
          /\ UNCHANGED owner
      BY <1>4 DEF RejectByRisk, RejectNoAccount
    <2>2. PICK x \in Orders : h.ids = {x} /\ owner[x] = s
      BY <1>3, <2>1 DEF Sendable, Placing, PlaceKinds
    <2> DEFINE r == Rejection(s, h)
    <2>3. r \in Report /\ r.type = "order_report" /\ r.to = s /\ r.good \cup r.bad = {x}
      BY <2>2 DEF Rejection, Report, ReportTypes, ReportStatuses
    <2>4. answers'[o] # answers[o] => o = x
      BY <2>1, <2>2 DEF Answered
    <2> HIDE DEF r, h
    <2>5. Publish(r)
      BY <2>1 DEF r, h
    <2> QED BY <1>0, <2>1, <2>2, <2>3, <2>4, <2>5, ReportArrives DEF Reaches
  <1>5. CASE RejectBatch(s)
    <2>1. Receive(s, "batch_order_request") /\ Answered(h.ids, {}) /\ UNCHANGED owner
      BY <1>5 DEF RejectBatch
    <2>2. PICK r \in Report : Publish(r)
      BY <1>5 DEF RejectBatch, Report, ReportTypes, ReportStatuses
    <2>3. o \notin h.ids
      BY <1>3, <2>1 DEF Sendable
    <2>4. answers'[o] = answers[o]
      BY <2>1, <2>3 DEF Answered
    <2> QED BY <1>0, <2>1, <2>2, <2>4, ReportArrives DEF Reaches
  <1>6. CASE PlaceOrder(s) \/ PlaceBatch(s) \/ CallCancel(s) \/ DropCancelAll(s)
    BY <1>2, <1>6 DEF PlaceOrder, PlaceBatch, CallCancel, DropCancelAll
  <1>7. CASE RejectCancel(s)
    <2>1. Receive(s, "cancel_request") /\ UNCHANGED <<answers, owner>>
      BY <1>7 DEF RejectCancel
    <2>2. \E r \in Report : Publish(r)
      BY <1>3, <1>7, <2>1 DEF RejectCancel, Report, ReportTypes, ReportStatuses
    <2> QED BY <1>1, <2>1, <2>2
  <1>8. CASE UnregisterAccount(s) \/ \E ok \in BOOLEAN : RegisterAccount(s, ok)
    <2>1. \E r \in Report : Publish(r)
      BY <1>8 DEF UnregisterAccount, RegisterAccount, AccountReport, Report, ReportTypes,
                  ReportStatuses
    <2>2. UNCHANGED <<answers, owner>>
      BY <1>8 DEF UnregisterAccount, RegisterAccount
    <2> QED BY <1>1, <2>1, <2>2
  <1> QED BY <1>4, <1>5, <1>6, <1>7, <1>8 DEF Handle

LEMMA ReachReply ==
  ASSUME IInv, FlowInv, CalledInv, crashes = 0, Reply,
         NEW o \in Orders \ batched, owner[o] # NoStrategy
  PROVE  Reaches(o)
  <1> USE DEF exchange, client
  <1>0. owner[o] \in Strategies
    BY DEF IInv, TypeInv, TypeOK
  <1>1. ASSUME current.kind \in RequestKinds
        PROVE  /\ current \in Request /\ current \in Sendable /\ current.from \in Strategies
               /\ current.ids \in SUBSET Orders
               /\ Accepted \in SUBSET Orders /\ Refused \in SUBSET Orders
    BY <1>1, ReplyTyped DEF IInv, FlowInv, Vouched, NoRequest, RequestKinds
  <1>2. ASSUME NEW r \in Report, Publish(r), UNCHANGED owner, NEW good,
               Answered(current.ids, good),
               current.kind = "order_request", r.type = "order_report", r.to = current.from,
               r.good \cup r.bad = current.ids
        PROVE  Reaches(o)
    <2>1. PICK x \in Orders : current.ids = {x} /\ owner[x] = current.from
      BY <1>1, <1>2 DEF Sendable, CalledInv, Placing, PlaceKinds, RequestKinds
    <2>2. answers'[o] # answers[o] => o = x
      BY <1>2, <2>1 DEF Answered
    <2> QED BY <1>0, <1>2, <2>1, <2>2, ReportArrives DEF Reaches
  <1>3. CASE ReplyOrder
    <2> DEFINE r == [type |-> "order_report", to |-> current.from,
                     status |-> IF Accepted = {} THEN "rejected"
                                ELSE IF current.venue = Okx THEN "accepted" ELSE "submitted",
                     good |-> Accepted, bad |-> Refused]
    <2>1. current.kind = "order_request" /\ stage = "executed" /\ current.kind \in RequestKinds
      BY <1>3 DEF ReplyOrder, RequestKinds
    <2>2. Accepted \cup Refused = current.ids
      BY <1>1, <2>1
         DEF Accepted, Refused, CalledInv, IInv, TypeInv, TypeOK, MarketStates, Placed
    <2>3. /\ r \in Report /\ r.type = "order_report" /\ r.to = current.from
          /\ r.good \cup r.bad = current.ids
      BY <1>1, <2>1, <2>2 DEF Report, ReportTypes, ReportStatuses
    <2>4. Publish(r) /\ UNCHANGED owner /\ Answered(current.ids, Accepted)
      BY <1>3 DEF ReplyOrder
    <2> HIDE DEF r
    <2> QED BY <1>2, <2>1, <2>3, <2>4
  <1>4. CASE ReplyOrderFailure
    <2> DEFINE r == Rejection(current.from, current)
    <2>1. current.kind = "order_request" /\ current.kind \in RequestKinds
      BY <1>4 DEF ReplyOrderFailure, RequestKinds
    <2>2. /\ r \in Report /\ r.type = "order_report" /\ r.to = current.from
          /\ r.good \cup r.bad = current.ids
      BY <1>1, <2>1 DEF Rejection, Report, ReportTypes, ReportStatuses
    <2>3. Publish(r) /\ UNCHANGED owner /\ Answered(current.ids, {})
      BY <1>4 DEF ReplyOrderFailure
    <2> HIDE DEF r
    <2> QED BY <1>2, <2>1, <2>2, <2>3
  <1>5. ASSUME NEW n, NEW good \in SUBSET Orders, NEW bad \in SUBSET Orders,
               NEW st \in ReportStatuses, current.kind = "batch_order_request",
               FinishBatch(n, good, bad, st)
        PROVE  Reaches(o)
    <2> DEFINE r == [type |-> "batch_report", to |-> current.from, status |-> st,
                     good |-> good, bad |-> bad]
    <2>1. r \in Report
      BY <1>1, <1>5 DEF Report, ReportTypes, RequestKinds
    <2>2. Publish(r) /\ UNCHANGED owner /\ Answered(current.ids, good)
      BY <1>5 DEF FinishBatch
    <2> HIDE DEF r
    <2>3. o \notin current.ids
      BY <1>1, <1>5 DEF Sendable, RequestKinds
    <2>4. answers'[o] = answers[o]
      BY <2>2, <2>3 DEF Answered
    <2> QED BY <1>0, <2>1, <2>2, <2>4, ReportArrives DEF Reaches
  <1>6. \A good, bad : BatchStatus(good, bad) \in ReportStatuses
    BY DEF BatchStatus, ReportStatuses
  <1>7. ASSUME NEW lost \in SUBSET Orders, ReplyBatch(lost)
        PROVE  Reaches(o)
    <2>1. current.kind = "batch_order_request"
      BY <1>7 DEF ReplyBatch
    <2>2. Accepted \ lost \in SUBSET Orders /\ Refused \cup lost \in SUBSET Orders
      BY <1>1, <2>1 DEF RequestKinds
    <2> QED BY <1>5, <1>6, <1>7, <2>1, <2>2 DEF ReplyBatch
  <1>8. CASE ReplyBatchEmpty
    BY <1>5, <1>6, <1>8 DEF ReplyBatchEmpty
  <1>9. CASE ReplyBatchFailure
    BY <1>5, <1>9 DEF ReplyBatchFailure, ReportStatuses
  <1>10. CASE ReplyCancel
    <2>1. current.kind \in RequestKinds /\ UNCHANGED <<owner, answers>>
      BY <1>10 DEF ReplyCancel, RequestKinds
    <2>2. PICK ok \in BOOLEAN :
            Publish([type |-> "cancel_report", to |-> current.from,
                     status |-> IF ok THEN "cancelled" ELSE "rejected",
                     good |-> IF ok THEN current.ids ELSE {},
                     bad |-> IF ok THEN {} ELSE current.ids])
      BY <1>10 DEF ReplyCancel
    <2> DEFINE r == [type |-> "cancel_report", to |-> current.from,
                     status |-> IF ok THEN "cancelled" ELSE "rejected",
                     good |-> IF ok THEN current.ids ELSE {},
                     bad |-> IF ok THEN {} ELSE current.ids]
    <2>3. r \in Report /\ Publish(r)
      BY <1>1, <2>1, <2>2 DEF Report, ReportTypes, ReportStatuses
    <2> HIDE DEF r
    <2> QED BY <1>0, <2>1, <2>3, ReportArrives DEF Reaches
  <1> QED BY <1>3, <1>4, <1>7, <1>8, <1>9, <1>10 DEF Reply

(* The report that is taken makes the callback, in either loop.            *)
LEMMA ReachDrain ==
  ASSUME IInv, NEW s \in Strategies, Drain(s), NEW o \in Orders, owner[o] # NoStrategy
  PROVE  Reaches(o)
  <1> USE DEF server, exchange, client, counters
  <1>1. UNCHANGED <<answers, owner>> /\ owner[o] \in Strategies
    BY DEF Drain, ProcessAccountReport, ProcessOrderReport, NextLoop, IInv, TypeInv, TypeOK
  <1> SUFFICES ASSUME Reported(o) PROVE Reported(o)' \/ Learned(o)'
    BY <1>1 DEF Reaches
  <1>2. CASE NextLoop(s)
    BY <1>2, ReportIdle DEF NextLoop
  <1>3. CASE ProcessAccountReport(s) \/ ProcessOrderReport(s)
    <2> PICK q \in Seq(Report) : q = inbox[owner[o]]
      BY <1>1 DEF IInv, TypeInv, TypeOK
    <2>1. PICK i \in 1 .. Len(q) : /\ q[i].type = "order_report" /\ q[i].to = owner[o]
                                   /\ q[i].good \cup q[i].bad = {o}
      BY DEF Reported
    <2>2. inbox[s] # <<>> /\ inbox' = [inbox EXCEPT ![s] = Tail(@)]
      BY <1>3 DEF ProcessAccountReport, ProcessOrderReport, Take
    <2>3. CASE owner[o] # s
      <3>1. inbox'[owner[o]] = q
        BY <1>1, <2>2, <2>3 DEF IInv, TypeInv, TypeOK
      <3>2. Reported(o)'
        BY <1>1, <2>1, <3>1 DEF Reported
      <3> QED BY <3>2
    <2>4. CASE owner[o] = s /\ i # 1
      <3>1. inbox'[owner[o]] = Tail(q)
        BY <1>1, <2>2, <2>4 DEF IInv, TypeInv, TypeOK
      <3>2. i - 1 \in DOMAIN Tail(q) /\ Tail(q)[i - 1] = q[i]
        BY <2>4
      <3>3. Reported(o)'
        BY <1>1, <2>1, <3>1, <3>2 DEF Reported
      <3> QED BY <3>3
    <2>5. CASE owner[o] = s /\ i = 1
      <3> DEFINE r == Head(inbox[s])
      <3>1. r.type = "order_report" /\ r.to = s /\ r.good \cup r.bad = {o}
        BY <2>1, <2>5
      <3> HIDE DEF r
      <3>2. AsCallback(r).order = o
        BY <3>1 DEF AsCallback, OrderOf
      <3>3. CallBack(s, {AsCallback(r)})
        <4>1. CASE ProcessAccountReport(s)
          BY <3>1, <4>1 DEF ProcessAccountReport, r
        <4>2. CASE ProcessOrderReport(s)
          BY <3>1, <4>2 DEF ProcessOrderReport, r
        <4> QED BY <1>3, <4>1, <4>2
      <3>4. AsCallback(r) \in seen'[s]
        BY <3>3 DEF CallBack, IInv, TypeInv, TypeOK
      <3>5. Learned(o)'
        BY <1>1, <2>5, <3>2, <3>4 DEF Learned
      <3> QED BY <3>5
    <2> QED BY <2>3, <2>4, <2>5
  <1> QED BY <1>2, <1>3 DEF Drain

LEMMA ReachStep ==
  ASSUME IInv, FlowInv, CalledInv, [Next]_vars, crashes' = 0,
         NEW o \in Orders \ batched, owner[o] # NoStrategy
  PROVE  Reaches(o)
  <1> USE DEF server, exchange, client, counters
  <1>1. ASSUME UNCHANGED <<inbox, owner, answers>> PROVE Reaches(o)
    BY <1>1, ReportIdle DEF Reaches
  <1>2. ASSUME NEW s \in Strategies, Send(s) PROVE Reaches(o)
    <2>1. UNCHANGED <<inbox, answers>>
      BY <1>2 DEF Send, SendOrder, SendBatch, SendCancel, SendCancelAll, SendRegister,
         SendUnregister
    <2>2. owner'[o] = owner[o]
      BY <1>2 DEF Send, SendOrder, SendBatch, SendCancel, SendCancelAll, SendRegister,
         SendUnregister, Track, Fresh
    <2> QED BY <2>1, <2>2 DEF Reaches, Reported
  <1>3. ASSUME NEW s \in Strategies, Handle(s) PROVE Reaches(o)
    <2>1. crashes' = crashes
      BY <1>3 DEF Handle, RejectByRisk, RejectNoAccount, PlaceOrder, RejectBatch, PlaceBatch,
         RejectCancel, CallCancel, DropCancelAll, RegisterAccount, UnregisterAccount
    <2> QED BY <1>3, <2>1, ReachHandle
  <1>4. ASSUME NEW s \in Strategies, Drain(s) PROVE Reaches(o)
    BY <1>4, ReachDrain
  <1>5. ASSUME NEW s \in Strategies, NEW v \in Venues, LoseAccount(s, v) PROVE Reaches(o)
    BY <1>1, <1>5 DEF LoseAccount
  <1>6. CASE Exchange
    BY <1>1, <1>6 DEF Exchange, ExchangePlace, ExchangeCancel, LandLate, Fill
  <1>7. CASE Reply
    <2>1. crashes' = crashes
      BY <1>7 DEF Reply, ReplyOrder, ReplyOrderFailure, ReplyBatch, ReplyBatchEmpty,
         ReplyBatchFailure, FinishBatch, ReplyCancel
    <2> QED BY <1>7, <2>1, ReachReply
  <1>8. ASSUME ServerCrash \/ \E s \in Strategies : StrategyCrash(s) PROVE FALSE
    <2>1. crashes' = crashes + 1 /\ crashes \in Nat
      BY <1>8 DEF ServerCrash, StrategyCrash, IInv, TypeInv, TypeOK
    <2> QED BY <2>1
  <1>9. CASE UNCHANGED vars
    BY <1>1, <1>9 DEF vars
  <1> QED BY <1>2, <1>3, <1>4, <1>5, <1>6, <1>7, <1>8, <1>9 DEF Next

(* The answer to a single order reaches the strategy that sent it, if its  *)
(* subscription has room, and is taken only with a callback that names the *)
(* order, for any number of strategies and whichever loop takes it, while  *)
(* no process has died.                                                    *)
THEOREM ReportsReach == Spec => ReportKept
  <1>1. Init => CalledInv
    BY DEF Init, CalledInv, NoRequest, Placing, PlaceKinds
  <1>2. IInv /\ FlowInv /\ CalledInv /\ [Next]_vars =>
          [\A o \in Orders \ batched :
             owner[o] # NoStrategy /\ crashes' = 0 =>
               /\ answers'[o] # answers[o] /\ Len(inbox[owner[o]]) < Capacity => Reported(o)'
               /\ Reported(o) => Reported(o)' \/ Learned(o)']_vars
    BY ReachStep DEF Reaches
  <1>3. Spec => [](IInv /\ FlowInv)
    BY IInvInit, IInvStep, FlowInit, FlowStep, PTL DEF Spec
  <1> QED BY <1>1, <1>2, <1>3, CalledStep, PTL DEF Spec, ReportKept

=============================================================================
