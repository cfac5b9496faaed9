------------------------- MODULE RiskAndBinanceProofs -------------------------
(***************************************************************************)
(* The risk manager, for any limits, accounts, orders and windows, and any *)
(* interleaving of checks, records, fills and polls: the frequency limits  *)
(* hold; what the check of an order knows of a symbol with one row is      *)
(* sound, and so is the exposure it is cleared with; and an alert of the   *)
(* drawdown check is earned by its readings.                               *)
(*                                                                         *)
(* Binance: no drop of a batch of candles is forgotten, for any number of  *)
(* connection objects and any number of troubles of the network; and no    *)
(* signed request is refused for its timestamp without a reason, for any   *)
(* windows, delays and moves of the clocks.                                *)
(***************************************************************************)
EXTENDS RateLimiter, RiskGate, Drawdown, BinanceFeed, BinanceRest,
        SequenceTheorems, FiniteSetTheorems, WellFoundedInduction, TLAPS

-----------------------------------------------------------------------------
(* The limits on the frequency of orders.                                  *)

Sorted ==
  \A i, j \in 1 .. Len(stamps) : i <= j => stamps[i] <= stamps[j]
Past == \A i \in 1 .. Len(stamps) : stamps[i] <= now

(* What was dropped had expired, and stays so.                             *)
DroppedExpired == \A i \in 1 .. dropped : Expired(i)

(* Between the check and the record: the order about to be recorded keeps  *)
(* its distance from the PerSecond-th and the PerMinute-th before it.      *)
Clear ==
  pc = "passed" =>
    /\ PerSecond > 0 /\ PerMinute > 0
    /\ \A i \in 1 .. Len(stamps) :
         /\ Len(stamps) + 1 = i + PerSecond => now - stamps[i] >= Second
         /\ Len(stamps) + 1 = i + PerMinute => now - stamps[i] >= Keep

RateInv == /\ RateTypeOK /\ Sorted /\ Past /\ DroppedExpired /\ Clear
        /\ PerSecondHeld /\ PerMinuteHeld

-----------------------------------------------------------------------------
LEMMA Segment ==
  ASSUME NEW n \in Nat, NEW d \in 0 .. n, NEW i \in d + 1 .. n
  PROVE  /\ d < n /\ d + 1 \in 1 .. n /\ i \in 1 .. n /\ d + 1 <= i
         /\ \A k \in i .. n : k \in d + 1 .. n /\ k \in 1 .. n /\ i <= k
  OBVIOUS

LEMMA Between ==
  ASSUME NEW n \in Nat, NEW d \in 0 .. n, NEW i \in 1 .. n, i > d
  PROVE  i \in d + 1 .. n
  OBVIOUS

LEMMA RateStarts == RateInit => RateInv
  BY ClockAssumption, LimitAssumption
     DEF RateInit, RateInv, RateTypeOK, Sorted, Past, DroppedExpired, Clear,
         PerSecondHeld, PerMinuteHeld

LEMMA TickKeepsInv == RateInv /\ Tick => RateInv'
  <1> SUFFICES ASSUME RateInv, Tick PROVE RateInv'
    OBVIOUS
  <1> USE ClockAssumption, LimitAssumption
  <1>1. stamps' = stamps /\ dropped' = dropped /\ pc' = pc /\ now' = now + 1
    BY DEF Tick
  <1>2. \A i \in 1 .. Len(stamps) : stamps[i] \in Nat
    BY DEF RateInv, RateTypeOK
  <1>3. RateTypeOK' /\ Sorted' /\ PerSecondHeld' /\ PerMinuteHeld'
    BY <1>1 DEF RateInv, RateTypeOK, Sorted, PerSecondHeld, PerMinuteHeld
  <1>4. Past' /\ DroppedExpired' /\ Clear'
    BY <1>1, <1>2 DEF RateInv, RateTypeOK, Past, DroppedExpired, Expired, Clear
  <1> QED BY <1>3, <1>4 DEF RateInv

(* The entries the check keeps, and those it drops.                        *)
LEMMA PruneDrops ==
  ASSUME RateInv, Prune, now' = now, stamps' = stamps
  PROVE  dropped' \in 0 .. Len(stamps) /\ DroppedExpired'
  BY DEF RateInv, RateTypeOK, Prune, DroppedExpired, Expired

(* Fewer than PerSecond recent entries: the PerSecond-th from the end is   *)
(* not recent, whether it was dropped or not.                              *)
LEMMA NotFull ==
  ASSUME RateInv, Prune, now' = now, stamps' = stamps, ~SecondFull,
         NEW i \in 1 .. Len(stamps), Len(stamps) + 1 = i + PerSecond
  PROVE  now - stamps[i] >= Second
  <1> DEFINE RecentOnes == {k \in dropped' + 1 .. Len(stamps) : Recent(k)}
  <1> USE ClockAssumption, LimitAssumption
  <1>0. /\ Len(stamps) \in Nat /\ now \in Nat
        /\ \A k \in 1 .. Len(stamps) : stamps[k] \in Nat
        /\ dropped' \in 0 .. Len(stamps)
    BY PruneDrops DEF RateInv, RateTypeOK
  <1>1. CASE i <= dropped'
    <2>1. Expired(i)
      BY <1>0, <1>1, PruneDrops DEF DroppedExpired, Expired
    <2> QED BY <1>0, <2>1 DEF Expired
  <1>2. CASE i > dropped'
    <2> SUFFICES ASSUME now - stamps[i] < Second PROVE FALSE
      BY <1>0
    <2>1. ASSUME NEW k \in i .. Len(stamps) PROVE k \in RecentOnes
      <3>1. k \in dropped' + 1 .. Len(stamps) /\ k \in 1 .. Len(stamps) /\ i <= k
        <4>1. i \in dropped' + 1 .. Len(stamps)
          BY <1>0, <1>2, Between
        <4> QED BY <1>0, <2>1, <4>1, Segment
      <3>2. stamps[i] <= stamps[k]
        BY <3>1 DEF RateInv, Sorted
      <3>3. now - stamps[k] < Second
        BY <1>0, <3>1, <3>2
      <3> QED BY <3>1, <3>3 DEF Recent
    <2>2. i .. Len(stamps) \subseteq RecentOnes
      BY <2>1
    <2>3. /\ IsFiniteSet(dropped' + 1 .. Len(stamps))
          /\ Cardinality(i .. Len(stamps)) = PerSecond
      <3>1. dropped' + 1 \in Int /\ Len(stamps) \in Int /\ i \in Int
        BY <1>0
      <3>2. Cardinality(i .. Len(stamps)) =
              IF i > Len(stamps) THEN 0 ELSE Len(stamps) - i + 1
        BY <3>1, FS_Interval
      <3>3. Len(stamps) - i + 1 = PerSecond /\ ~(i > Len(stamps))
        BY <1>0
      <3> QED BY <3>1, <3>2, <3>3, FS_Interval
    <2>4. IsFiniteSet(RecentOnes)
      BY <2>3, FS_Subset
    <2>5. /\ Cardinality(i .. Len(stamps)) <= Cardinality(RecentOnes)
          /\ Cardinality(RecentOnes) \in Nat
      BY <2>2, <2>4, FS_Subset, FS_CardinalityType
    <2>6. Cardinality(RecentOnes) < PerSecond
      BY <2>5 DEF SecondFull
    <2> QED BY <2>3, <2>5, <2>6
  <1> QED BY <1>0, <1>1, <1>2

LEMMA CheckPassedKeepsInv == RateInv /\ CheckPassed => RateInv'
  <1> SUFFICES ASSUME RateInv, CheckPassed PROVE RateInv'
    OBVIOUS
  <1> USE ClockAssumption, LimitAssumption
  <1>1. /\ stamps' = stamps /\ now' = now /\ pc' = "passed"
        /\ Prune /\ ~SecondFull /\ ~MinuteFull
    BY DEF CheckPassed
  <1>2. dropped' \in 0 .. Len(stamps) /\ DroppedExpired'
    BY <1>1, PruneDrops
  <1>3. RateTypeOK' /\ Sorted' /\ Past' /\ PerSecondHeld' /\ PerMinuteHeld'
    BY <1>1, <1>2 DEF RateInv, RateTypeOK, Sorted, Past, PerSecondHeld, PerMinuteHeld
  <1>4. PerSecond > 0 /\ PerMinute > 0
    <2>0. dropped' + 1 \in Int /\ Len(stamps) \in Int
      BY <1>2 DEF RateInv, RateTypeOK
    <2>1. Cardinality({i \in dropped' + 1 .. Len(stamps) : Recent(i)}) \in Nat
      BY <2>0, FS_Interval, FS_Subset, FS_CardinalityType
    <2> QED BY <1>1, <1>2, <2>1 DEF SecondFull, MinuteFull, RateInv, RateTypeOK
  <1>5. ASSUME NEW i \in 1 .. Len(stamps), Len(stamps) + 1 = i + PerMinute
        PROVE  now - stamps[i] >= Keep
    <2>1. i <= dropped'
      BY <1>1, <1>2, <1>5 DEF MinuteFull, RateInv, RateTypeOK
    <2> QED BY <1>1, <1>2, <2>1 DEF DroppedExpired, Expired
  <1>6. Clear'
    BY <1>1, <1>4, <1>5, NotFull DEF Clear
  <1> QED BY <1>2, <1>3, <1>6 DEF RateInv

LEMMA CheckRejectedKeepsInv == RateInv /\ CheckRejected => RateInv'
  <1> SUFFICES ASSUME RateInv, CheckRejected PROVE RateInv'
    OBVIOUS
  <1>1. stamps' = stamps /\ now' = now /\ pc' = "refused" /\ Prune
    BY DEF CheckRejected
  <1>2. dropped' \in 0 .. Len(stamps) /\ DroppedExpired'
    BY <1>1, PruneDrops
  <1> QED
    BY <1>1, <1>2
       DEF RateInv, RateTypeOK, Sorted, Past, Clear, PerSecondHeld, PerMinuteHeld

LEMMA RejectOrderKeepsInv == RateInv /\ RejectOrder => RateInv'
  BY DEF RejectOrder, RateInv, RateTypeOK, Sorted, Past, DroppedExpired, Expired, Clear,
         PerSecondHeld, PerMinuteHeld

LEMMA RecordKeepsInv == RateInv /\ RecordOrderExecution => RateInv'
  <1> SUFFICES ASSUME RateInv, RecordOrderExecution PROVE RateInv'
    OBVIOUS
  <1> USE ClockAssumption, LimitAssumption
  <1> DEFINE n == Len(stamps)
  <1>1. /\ pc = "passed" /\ pc' = "idle" /\ now' = now /\ dropped' = dropped
        /\ stamps' = Append(stamps, now)
    BY DEF RecordOrderExecution
  <1>2. /\ stamps \in Seq(Nat) /\ now \in Nat /\ n \in Nat
        /\ dropped \in 0 .. n
        /\ \A i \in 1 .. n : stamps[i] \in Nat
    BY DEF RateInv, RateTypeOK
  <1>3. /\ stamps' \in Seq(Nat) /\ Len(stamps') = n + 1
        /\ stamps'[n + 1] = now
        /\ \A i \in 1 .. n : stamps'[i] = stamps[i]
    BY <1>1, <1>2, AppendProperties
  <1> HIDE DEF n
  <1>4. RateTypeOK' /\ Clear'
    BY <1>1, <1>2, <1>3 DEF RateTypeOK, Clear
  <1>5. Sorted' /\ Past'
    BY <1>1, <1>2, <1>3 DEF RateInv, Sorted, Past, n
  <1>6. DroppedExpired'
    BY <1>1, <1>2, <1>3 DEF RateInv, DroppedExpired, Expired
  <1>7. /\ PerSecond > 0 /\ PerMinute > 0
        /\ \A i \in 1 .. n :
             /\ n + 1 = i + PerSecond => now - stamps[i] >= Second
             /\ n + 1 = i + PerMinute => now - stamps[i] >= Keep
    BY <1>1 DEF RateInv, Clear, n
  <1>8. PerSecondHeld'
    <2> SUFFICES ASSUME NEW i \in 1 .. n + 1, NEW j \in 1 .. n + 1,
                        j = i + PerSecond
                 PROVE  stamps'[j] - stamps'[i] >= Second
      BY <1>3 DEF PerSecondHeld
    <2>1. i \in 1 .. n
      BY <1>2, <1>7
    <2>2. CASE j = n + 1
      BY <1>2, <1>3, <1>7, <2>1, <2>2
    <2>3. CASE j \in 1 .. n
      BY <1>2, <1>3, <2>1, <2>3 DEF RateInv, PerSecondHeld, n
    <2> QED BY <1>2, <2>2, <2>3
  <1>9. PerMinuteHeld'
    <2> SUFFICES ASSUME NEW i \in 1 .. n + 1, NEW j \in 1 .. n + 1,
                        j = i + PerMinute
                 PROVE  stamps'[j] - stamps'[i] >= Keep
      BY <1>3 DEF PerMinuteHeld
    <2>1. i \in 1 .. n
      BY <1>2, <1>7
    <2>2. CASE j = n + 1
      BY <1>2, <1>3, <1>7, <2>1, <2>2
    <2>3. CASE j \in 1 .. n
      BY <1>2, <1>3, <2>1, <2>3 DEF RateInv, PerMinuteHeld, n
    <2> QED BY <1>2, <2>2, <2>3
  <1> QED BY <1>4, <1>5, <1>6, <1>8, <1>9 DEF RateInv

LEMMA RateAlways == RateSpec => []RateInv
  <1>1. RateInv /\ [RateNext]_rateVars => RateInv'
    <2> SUFFICES ASSUME RateInv, [RateNext]_rateVars PROVE RateInv'
      OBVIOUS
    <2>1. CASE UNCHANGED rateVars
      BY <2>1 DEF rateVars, RateInv, RateTypeOK, Sorted, Past, DroppedExpired, Expired,
                  Clear, PerSecondHeld, PerMinuteHeld
    <2> QED
      BY <2>1, TickKeepsInv, CheckPassedKeepsInv, CheckRejectedKeepsInv,
         RejectOrderKeepsInv, RecordKeepsInv DEF RateNext
  <1> QED BY RateStarts, <1>1, PTL DEF RateSpec

-----------------------------------------------------------------------------
(* No PerSecond + 1 successive orders pass the risk check within a second, *)
(* and no PerMinute + 1 within the time entries are kept, whatever the     *)
(* limits and however late the order thread records an order it cleared.   *)
THEOREM FrequencyLimited == RateSpec => []FrequencyHeld
  <1>1. RateInv => FrequencyHeld
    BY DEF RateInv, FrequencyHeld
  <1> QED BY <1>1, RateAlways, PTL

(* An order is refused for its frequency only when as many orders as the   *)
(* limit allows were recorded in the last second, or in the last Keep      *)
(* ticks: entries dropped or kept too long never decide.                   *)
THEOREM RefusalsJustified == RateSpec => RejectionJustified
  <1>1. ASSUME RateInv, CheckRejected
        PROVE  \/ Cardinality(InLast(Second)) >= PerSecond
               \/ Cardinality(InLast(Keep)) >= PerMinute
    <2> USE ClockAssumption, LimitAssumption
    <2>0. /\ Prune /\ now' = now /\ stamps' = stamps
          /\ SecondFull \/ MinuteFull
      BY <1>1 DEF CheckRejected
    <2>1. /\ Len(stamps) \in Nat /\ dropped' \in 0 .. Len(stamps) /\ now \in Nat
          /\ \A i \in 1 .. Len(stamps) : stamps[i] \in Nat
      BY <1>1, <2>0, PruneDrops DEF RateInv, RateTypeOK
    <2>2. ASSUME NEW d
          PROVE  IsFiniteSet(InLast(d)) /\ Cardinality(InLast(d)) \in Nat
      <3>1. IsFiniteSet(1 .. Len(stamps)) /\ InLast(d) \subseteq 1 .. Len(stamps)
        BY <2>1, FS_Interval DEF InLast
      <3> QED BY <3>1, FS_Subset, FS_CardinalityType
    <2>3. CASE SecondFull
      <3> DEFINE R == {i \in dropped' + 1 .. Len(stamps) : Recent(i)}
      <3>1. R \subseteq InLast(Second)
        BY <2>1 DEF Recent, InLast
      <3>2. Cardinality(R) <= Cardinality(InLast(Second)) /\ Cardinality(R) \in Nat
        BY <2>2, <3>1, FS_Subset, FS_CardinalityType
      <3> QED BY <2>2, <2>3, <3>2 DEF SecondFull
    <2>4. CASE MinuteFull
      <3> DEFINE R == dropped' + 1 .. Len(stamps)
      <3>1. IsFiniteSet(R) /\ Cardinality(R) = Len(stamps) - dropped'
        <4>1. dropped' + 1 \in Int /\ Len(stamps) \in Int
          BY <2>1
        <4>2. IF dropped' + 1 > Len(stamps) THEN 0 = Len(stamps) - dropped'
              ELSE Len(stamps) - (dropped' + 1) + 1 = Len(stamps) - dropped'
          BY <2>1
        <4> QED BY <4>1, <4>2, FS_Interval
      <3>2. ASSUME NEW i \in R PROVE i \in InLast(Keep)
        <4>1. /\ dropped' < Len(stamps) /\ dropped' + 1 \in 1 .. Len(stamps)
              /\ i \in 1 .. Len(stamps) /\ dropped' + 1 <= i
          BY <2>1, <3>2, Segment
        <4>2. ~Expired(dropped' + 1)
          BY <2>0, <4>1 DEF Prune
        <4>3. stamps[dropped' + 1] <= stamps[i]
          BY <1>1, <4>1 DEF RateInv, Sorted
        <4>4. now - stamps[i] < Keep
          BY <2>1, <4>1, <4>2, <4>3 DEF Expired
        <4> QED BY <4>1, <4>4 DEF InLast
      <3>3. R \subseteq InLast(Keep)
        BY <3>2
      <3>4. Cardinality(R) <= Cardinality(InLast(Keep))
        BY <2>2, <3>3, FS_Subset
      <3> QED BY <2>1, <2>2, <2>4, <3>1, <3>4 DEF MinuteFull
    <2> QED BY <2>0, <2>3, <2>4
  <1>2. RateInv /\ [RateNext]_rateVars =>
          [CheckRejected => \/ Cardinality(InLast(Second)) >= PerSecond
                            \/ Cardinality(InLast(Keep)) >= PerMinute]_rateVars
    BY <1>1
  <1> QED BY <1>2, RateAlways, PTL DEF RateSpec, RejectionJustified

-----------------------------------------------------------------------------
(* The check of an order against the position cache.                       *)

(* Rows are waiting to be written only between the reading of an account's *)
(* positions and its last write.                                           *)
NoneWaiting == phase # "writing" => DOMAIN answer = {}

(* A row read and not yet written is as true as the one in the cache.      *)
AnswerNeverUnder ==
  \A r \in DOMAIN answer : Abs(pos[r]) <= Abs(answer[r]) + hidden[r]

FiniteOrders == IsFiniteSet(resting) /\ IsFiniteSet(flying)

GateInv == GateTypeOK /\ FiniteOrders /\ NoneWaiting /\ AnswerNeverUnder /\ CachedNeverUnder

-----------------------------------------------------------------------------
LEMMA AbsType ==
  ASSUME NEW n \in Int
  PROVE  Abs(n) \in Nat
  BY DEF Abs

LEMMA AbsMoves ==
  ASSUME NEW n \in Int, NEW v \in Nat, NEW d \in {1, -1}
  PROVE  n + d * v \in Int /\ Abs(n + d * v) <= Abs(n) + v
  <1>1. CASE d = 1
    BY <1>1 DEF Abs
  <1>2. CASE d = -1
    BY <1>2 DEF Abs
  <1> QED BY <1>1, <1>2

LEMMA CurrentAccount ==
  ASSUME GateTypeOK
  PROVE  turn \in 1 .. Len(PollOrder)
         /\ (turn % Len(PollOrder)) + 1 \in 1 .. Len(PollOrder)
  <1>1. Len(PollOrder) \in Nat /\ Len(PollOrder) > 0
    BY PollAssumption
  <1>2. \A n \in Nat, k \in Nat : n > 0 => k % n \in 0 .. n - 1
    OBVIOUS
  <1>3. turn \in Nat
    BY DEF GateTypeOK
  <1>4. turn % Len(PollOrder) \in 0 .. Len(PollOrder) - 1
    BY <1>1, <1>2, <1>3
  <1> QED BY <1>1, <1>4 DEF GateTypeOK

-----------------------------------------------------------------------------
(* Steps that leave positions, cache, rows and history alone.              *)
LEMMA Aside ==
  ASSUME GateInv, GateTypeOK', FiniteOrders',
         UNCHANGED <<pos, cache, answer, hidden, unseen>>,
         phase' # "writing" => DOMAIN answer = {}
  PROVE  GateInv'
  BY DEF GateInv, NoneWaiting, AnswerNeverUnder, CachedNeverUnder

LEMMA CheckKeepsInv ==
  ASSUME GateInv, NEW o \in Orders({passed}),
         CheckOrder(o)
  PROVE  GateInv'
  <1>1. o \in Order
    BY DEF Order, Orders, GateInv, GateTypeOK
  <1>2. GateTypeOK'
    BY <1>1 DEF CheckOrder, market, polling, GateInv, GateTypeOK, RowsOf, Polled
  <1>3. FiniteOrders'
    BY FS_AddElement DEF CheckOrder, market, GateInv, FiniteOrders
  <1> QED
    BY <1>2, <1>3, Aside DEF CheckOrder, market, polling, GateInv, NoneWaiting

LEMMA ExchangeKeepsInv ==
  ASSUME GateInv, NEW o,
         \/ o \in flying /\ (TakeOrder(o) \/ RefuseOrder(o))
         \/ o \in resting /\ CancelOrder(o)
  PROVE  GateInv'
  <1>1. GateTypeOK'
    BY DEF TakeOrder, RefuseOrder, CancelOrder, market, gate, polling,
           GateInv, GateTypeOK, RowsOf, Polled
  <1>2. FiniteOrders'
    BY FS_AddElement, FS_RemoveElement
       DEF TakeOrder, RefuseOrder, CancelOrder, market, gate, GateInv, FiniteOrders
  <1> QED
    BY <1>1, <1>2, Aside
       DEF TakeOrder, RefuseOrder, CancelOrder, market, gate, polling,
           GateInv, NoneWaiting

LEMMA FillKeepsInv ==
  ASSUME GateInv, NEW o \in resting, FillOrder(o)
  PROVE  GateInv'
  <1> DEFINE s == SymbolOf[o.row]
  <1>1. /\ o.row \in Rows /\ o.value \in Nat /\ o.side \in {1, -1} /\ s \in Symbols
    BY RowsAssumption, LimitsAssumption DEF GateInv, GateTypeOK, Order, Orders
  <1>2. /\ resting' = resting \ {o}
        /\ pos' = [pos EXCEPT ![o.row] = @ + o.side * o.value]
        /\ hidden' = [hidden EXCEPT ![o.row] = @ + o.value]
        /\ unseen' = [unseen EXCEPT ![s] = @ + o.value]
        /\ UNCHANGED <<gate, cache, openCount, polling>>
    BY DEF FillOrder
  <1>3. /\ pos \in [Rows -> Int] /\ hidden \in [Rows -> Nat]
        /\ unseen \in [Symbols -> Nat] /\ cache \in [Symbols -> Nat]
    BY DEF GateInv, GateTypeOK
  <1>4. /\ pos[o.row] + o.side * o.value \in Int
        /\ Abs(pos[o.row] + o.side * o.value) <= Abs(pos[o.row]) + o.value
    BY <1>1, <1>3, AbsMoves
  <1>5. hidden[o.row] + o.value \in Nat /\ unseen[s] + o.value \in Nat
    BY <1>1, <1>3
  <1> HIDE DEF s
  <1>6. /\ pos' \in [Rows -> Int] /\ hidden' \in [Rows -> Nat]
        /\ unseen' \in [Symbols -> Nat]
    BY <1>1, <1>2, <1>3, <1>4, <1>5
  <1>7. GateTypeOK'
    BY <1>2, <1>6 DEF GateInv, GateTypeOK, gate, polling, RowsOf, Polled
  <1>8. NoneWaiting' /\ FiniteOrders'
    BY <1>2, FS_RemoveElement DEF GateInv, NoneWaiting, FiniteOrders, polling, gate
  <1>9. /\ \A r \in Rows : Abs(pos[r]) \in Nat /\ Abs(pos'[r]) \in Nat
        /\ pos'[o.row] = pos[o.row] + o.side * o.value
        /\ \A r \in Rows : r # o.row => pos'[r] = pos[r] /\ hidden'[r] = hidden[r]
        /\ hidden'[o.row] = hidden[o.row] + o.value
        /\ unseen'[s] = unseen[s] + o.value
        /\ \A q \in Symbols : q # s => unseen'[q] = unseen[q]
    BY <1>1, <1>2, <1>3, <1>6, AbsType
  <1>10. AnswerNeverUnder'
    <2> SUFFICES ASSUME NEW r \in DOMAIN answer
                 PROVE  Abs(pos'[r]) <= Abs(answer[r]) + hidden'[r]
      BY <1>2 DEF AnswerNeverUnder, polling
    <2>1. r \in Rows /\ answer[r] \in Int /\ Abs(answer[r]) \in Nat
      BY AbsType DEF GateInv, GateTypeOK, RowsOf
    <2>2. Abs(pos[r]) <= Abs(answer[r]) + hidden[r]
      BY DEF GateInv, AnswerNeverUnder
    <2>3. CASE r = o.row
      BY <1>1, <1>3, <1>4, <1>9, <2>1, <2>2, <2>3
    <2>4. CASE r # o.row
      BY <1>9, <2>1, <2>2, <2>4
    <2> QED BY <2>3, <2>4
  <1>11. CachedNeverUnder'
    <2> SUFFICES ASSUME NEW r \in Rows, Single(SymbolOf[r])
                 PROVE  Abs(pos'[r]) <= cache[SymbolOf[r]] + unseen'[SymbolOf[r]]
      BY <1>2 DEF CachedNeverUnder, Single
    <2>1. Abs(pos[r]) <= cache[SymbolOf[r]] + unseen[SymbolOf[r]]
      BY DEF GateInv, CachedNeverUnder
    <2>2. SymbolOf[r] \in Symbols /\ cache[SymbolOf[r]] \in Nat
          /\ unseen[SymbolOf[r]] \in Nat
      BY <1>3, RowsAssumption
    <2>3. CASE r = o.row
      <3>1. SymbolOf[r] = s
        BY <2>3 DEF s
      <3> QED BY <1>1, <1>4, <1>9, <2>1, <2>2, <2>3, <3>1
    <2>4. CASE r # o.row
      <3>1. SymbolOf[r] # s
        BY <1>1, <2>4 DEF Single, s
      <3> QED BY <1>9, <2>1, <2>2, <2>4, <3>1
    <2> QED BY <2>3, <2>4
  <1> QED BY <1>7, <1>8, <1>10, <1>11 DEF GateInv

-----------------------------------------------------------------------------
LEMMA ReadPositionsKeepsInv ==
  ASSUME GateInv, ReadPositions
  PROVE  GateInv'
  <1> PICK R \in SUBSET RowsOf(Polled) : answer' = [r \in R |-> pos[r]]
    BY DEF ReadPositions
  <1>1. /\ phase' = "writing"
        /\ hidden' = [r \in Rows |-> IF r \in RowsOf(Polled) THEN 0 ELSE hidden[r]]
        /\ UNCHANGED <<market, gate, cache, openCount, turn, listed, failures, unseen>>
    BY DEF ReadPositions
  <1>2. /\ DOMAIN answer' = R /\ R \subseteq Rows
        /\ \A r \in R : answer'[r] = pos[r] /\ pos[r] \in Int /\ hidden'[r] = 0
    BY <1>1 DEF RowsOf, GateInv, GateTypeOK
  <1>3. hidden' \in [Rows -> Nat]
    BY <1>1 DEF GateInv, GateTypeOK
  <1>4. GateTypeOK'
    BY <1>1, <1>2, <1>3 DEF GateInv, GateTypeOK, market, gate, RowsOf, Polled
  <1>5. AnswerNeverUnder'
    <2> SUFFICES ASSUME NEW r \in DOMAIN answer'
                 PROVE  Abs(pos'[r]) <= Abs(answer'[r]) + hidden'[r]
      BY DEF AnswerNeverUnder
    <2>1. pos'[r] = pos[r] /\ answer'[r] = pos[r] /\ pos[r] \in Int /\ hidden'[r] = 0
      BY <1>1, <1>2 DEF market
    <2>2. Abs(pos[r]) \in Nat
      BY <2>1, AbsType
    <2> QED BY <2>1, <2>2
  <1>6. NoneWaiting' /\ CachedNeverUnder' /\ FiniteOrders'
    BY <1>1 DEF GateInv, NoneWaiting, CachedNeverUnder, FiniteOrders, market, gate
  <1> QED BY <1>4, <1>5, <1>6 DEF GateInv

LEMMA UpdatePositionKeepsInv ==
  ASSUME GateInv, NEW r \in DOMAIN answer, UpdatePosition(r)
  PROVE  GateInv'
  <1>1. /\ phase = "writing"
        /\ cache' = [cache EXCEPT ![SymbolOf[r]] = Abs(answer[r])]
        /\ unseen' = [unseen EXCEPT ![SymbolOf[r]] = hidden[r]]
        /\ answer' = [q \in DOMAIN answer \ {r} |-> answer[q]]
        /\ UNCHANGED <<market, gate, openCount, turn, phase, listed, failures, hidden>>
    BY DEF UpdatePosition
  <1>2. /\ r \in Rows /\ SymbolOf[r] \in Symbols
        /\ Abs(answer[r]) \in Nat /\ hidden[r] \in Nat
    BY RowsAssumption, AbsType DEF GateInv, GateTypeOK, RowsOf
  <1>3. cache' \in [Symbols -> Nat] /\ unseen' \in [Symbols -> Nat]
    BY <1>1, <1>2 DEF GateInv, GateTypeOK
  <1>4. /\ DOMAIN answer' \subseteq DOMAIN answer
        /\ \A q \in DOMAIN answer' : answer'[q] = answer[q]
    BY <1>1
  <1>5. GateTypeOK'
    BY <1>1, <1>3, <1>4 DEF GateInv, GateTypeOK, market, gate, RowsOf, Polled
  <1>6. NoneWaiting' /\ AnswerNeverUnder' /\ FiniteOrders'
    BY <1>1, <1>4
       DEF GateInv, NoneWaiting, AnswerNeverUnder, FiniteOrders, market, gate
  <1>7. CachedNeverUnder'
    <2> SUFFICES ASSUME NEW q \in Rows, Single(SymbolOf[q])
                 PROVE  Abs(pos[q]) <= cache'[SymbolOf[q]] + unseen'[SymbolOf[q]]
      BY <1>1 DEF CachedNeverUnder, Single, market
    <2>1. CASE SymbolOf[q] = SymbolOf[r]
      <3>1. q = r
        BY <1>2, <2>1 DEF Single
      <3>2. Abs(pos[r]) <= Abs(answer[r]) + hidden[r]
        BY DEF GateInv, AnswerNeverUnder
      <3>3. cache'[SymbolOf[q]] = Abs(answer[r]) /\ unseen'[SymbolOf[q]] = hidden[r]
        BY <1>1, <1>2, <2>1 DEF GateInv, GateTypeOK
      <3> QED BY <3>1, <3>2, <3>3
    <2>2. CASE SymbolOf[q] # SymbolOf[r]
      <3>1. /\ cache'[SymbolOf[q]] = cache[SymbolOf[q]]
            /\ unseen'[SymbolOf[q]] = unseen[SymbolOf[q]]
        BY <1>1, <2>2, RowsAssumption DEF GateInv, GateTypeOK
      <3> QED BY <3>1 DEF GateInv, CachedNeverUnder
    <2> QED BY <2>1, <2>2
  <1> QED BY <1>5, <1>6, <1>7 DEF GateInv

LEMMA RestOfPollKeepsInv ==
  ASSUME GateInv,
         \/ ReadOpenOrders \/ AccountDone \/ SetOpenOrderCount
         \/ PositionsRefused \/ PollFails
  PROVE  GateInv'
  <1>1. /\ UNCHANGED <<pos, cache, answer, hidden, unseen>>
        /\ UNCHANGED <<resting, flying, passed>>
        /\ DOMAIN answer = {}
    BY DEF ReadOpenOrders, AccountDone, SetOpenOrderCount, PositionsRefused,
           PollFails, NextAccount, market, gate, GateInv, NoneWaiting
  <1>2. turn' \in 1 .. Len(PollOrder)
    BY CurrentAccount DEF ReadOpenOrders, AccountDone, SetOpenOrderCount,
           PositionsRefused, PollFails, NextAccount, GateInv
  <1>3. phase' \in {"positions", "writing", "counting"}
    BY DEF ReadOpenOrders, AccountDone, SetOpenOrderCount, PositionsRefused,
           PollFails, NextAccount
  <1>4. listed' \in Nat
    <2>1. Cardinality({o \in resting : AccountOf[o.row] = Polled}) \in Nat
      BY FS_Subset, FS_CardinalityType DEF GateInv, FiniteOrders
    <2> QED
      BY <2>1 DEF ReadOpenOrders, AccountDone, SetOpenOrderCount,
             PositionsRefused, PollFails, GateInv, GateTypeOK
  <1>5. openCount' \in Nat /\ failures' \in Nat
    BY DEF ReadOpenOrders, AccountDone, SetOpenOrderCount, PositionsRefused,
           PollFails, GateInv, GateTypeOK
  <1>6. GateTypeOK'
    BY <1>1, <1>2, <1>3, <1>4, <1>5 DEF GateInv, GateTypeOK, RowsOf, Polled
  <1>7. FiniteOrders'
    BY <1>1 DEF GateInv, FiniteOrders
  <1> QED BY <1>1, <1>6, <1>7, Aside

-----------------------------------------------------------------------------
(* Sums. SumFunction takes the members of the domain in the order of       *)
(* CHOOSE; IsSum says that for naturals any order will do.                 *)

Chosen(s) == CHOOSE x \in s : TRUE
IsFold(g, f, D) ==
  g = [s \in SUBSET D |-> IF s = {} THEN 0 ELSE f[Chosen(s)] + g[s \ {Chosen(s)}]]
IsSum(g, f, D) ==
  /\ g \in [SUBSET D -> Nat] /\ g[{}] = 0
  /\ \A s \in SUBSET D : \A x \in s : g[s] = f[x] + g[s \ {x}]

LEMMA LeastNat ==
  ASSUME NEW T, T \subseteq Nat, T # {}
  PROVE  \E n \in T : \A k \in T : n <= k
  <1>1. PICK n \in T : \A k \in T : ~(<<k, n>> \in OpToRel(<, Nat))
    BY NatLessThanWellFounded, WFMin
  <1>2. \A k \in T : ~(k < n)
    BY <1>1 DEF OpToRel
  <1> QED BY <1>2

(* Among sets of members of D, if there are any, is one that is no longer  *)
(* among them when one of its members is taken away.                       *)
LEMMA LeastSet ==
  ASSUME NEW D, IsFiniteSet(D), NEW B, B \subseteq SUBSET D, B # {}
  PROVE  \E s \in B : \A x \in s : s \ {x} \notin B
  <1>1. \A s \in B : IsFiniteSet(s) /\ Cardinality(s) \in Nat
    BY FS_Subset, FS_CardinalityType
  <1>2. PICK n \in {Cardinality(s) : s \in B} : \A k \in {Cardinality(s) : s \in B} : n <= k
    <2>1. {Cardinality(s) : s \in B} \subseteq Nat /\ {Cardinality(s) : s \in B} # {}
      BY <1>1
    <2> QED BY <2>1, LeastNat
  <1>3. PICK s \in B : Cardinality(s) = n
    BY <1>2
  <1>4. ASSUME NEW x \in s PROVE s \ {x} \notin B
    <2>1. Cardinality(s \ {x}) = Cardinality(s) - 1
      BY <1>1, FS_RemoveElement
    <2>2. Cardinality(s) - 1 < n
      BY <1>1, <1>3
    <2> QED BY <1>1, <1>2, <2>1, <2>2
  <1> QED BY <1>4

(* The fold is defined: on the sets up to any size, one size at a time.    *)
LEMMA FoldExists ==
  ASSUME NEW D, IsFiniteSet(D), NEW f
  PROVE  \E g : IsFold(g, f, D)
  <1> DEFINE Upto(n) == {s \in SUBSET D : Cardinality(s) <= n}
             Partial(g, n) ==
               g = [s \in Upto(n) |-> IF s = {} THEN 0 ELSE f[Chosen(s)] + g[s \ {Chosen(s)}]]
             Undefined == {n \in Nat : ~ \E g : Partial(g, n)}
  <1>1. \A s \in SUBSET D : IsFiniteSet(s) /\ Cardinality(s) \in Nat
    BY FS_Subset, FS_CardinalityType
  <1>2. \A s \in SUBSET D : s # {} =>
          /\ Chosen(s) \in s /\ s \ {Chosen(s)} \in SUBSET D
          /\ Cardinality(s \ {Chosen(s)}) = Cardinality(s) - 1
    BY <1>1, FS_RemoveElement DEF Chosen
  <1>3. \E g : Partial(g, 0)
    <2>1. \A s \in Upto(0) : s = {}
      BY <1>1, FS_EmptySet
    <2> DEFINE g == [s \in Upto(0) |-> 0]
    <2>2. Partial(g, 0)
      BY <2>1
    <2> QED BY <2>2
  <1>4. ASSUME NEW n \in Nat, NEW g, Partial(g, n) PROVE \E h : Partial(h, n + 1)
    <2> DEFINE h == [s \in Upto(n + 1) |-> IF s = {} THEN 0 ELSE f[Chosen(s)] + g[s \ {Chosen(s)}]]
    <2>1. \A s \in Upto(n + 1) : s # {} => s \ {Chosen(s)} \in Upto(n)
      BY <1>1, <1>2
    <2>2. Upto(n) \subseteq Upto(n + 1)
      BY <1>1
    <2>3. \A s \in Upto(n) : g[s] = IF s = {} THEN 0 ELSE f[Chosen(s)] + g[s \ {Chosen(s)}]
      BY <1>4
    <2> HIDE DEF Upto
    <2>4. \A s \in Upto(n) : h[s] = g[s]
      BY <2>2, <2>3
    <2>5. h = [s \in Upto(n + 1) |-> IF s = {} THEN 0 ELSE f[Chosen(s)] + h[s \ {Chosen(s)}]]
      BY <2>1, <2>4
    <2> QED BY <2>5
  <1> HIDE DEF Partial
  <1>5. Undefined = {}
    <2> SUFFICES ASSUME Undefined # {} PROVE FALSE
      OBVIOUS
    <2>1. PICK n \in Undefined : \A k \in Undefined : n <= k
      <3>1. Undefined \subseteq Nat
        OBVIOUS
      <3> QED BY <3>1, LeastNat
    <2>2. n # 0
      BY <1>3, <2>1
    <2>3. n - 1 \in Nat /\ n - 1 \notin Undefined /\ n = (n - 1) + 1
      BY <2>1, <2>2
    <2>4. \E g : Partial(g, n - 1)
      BY <2>3
    <2> QED BY <1>4, <2>1, <2>3, <2>4
  <1>6. PICK g : Partial(g, Cardinality(D))
    BY <1>1, <1>5
  <1>7. Upto(Cardinality(D)) = SUBSET D
    BY FS_Subset
  <1> QED BY <1>6, <1>7 DEF Partial, IsFold

LEMMA FoldIsSum ==
  ASSUME NEW D, IsFiniteSet(D), NEW f \in [D -> Nat], NEW g, IsFold(g, f, D)
  PROVE  IsSum(g, f, D)
  <1>1. \A s \in SUBSET D : s # {} => Chosen(s) \in s
    BY DEF Chosen
  <1>2. /\ g[{}] = 0
        /\ \A s \in SUBSET D : s # {} => g[s] = f[Chosen(s)] + g[s \ {Chosen(s)}]
    BY DEF IsFold
  <1>3. \A s \in SUBSET D : g[s] \in Nat
    <2> DEFINE B == {s \in SUBSET D : g[s] \notin Nat}
    <2> SUFFICES ASSUME B # {} PROVE FALSE
      OBVIOUS
    <2>1. B \subseteq SUBSET D
      OBVIOUS
    <2> HIDE DEF B
    <2>2. PICK s \in B : \A x \in s : s \ {x} \notin B
      BY <2>1, LeastSet
    <2>3. s # {} /\ Chosen(s) \in s /\ f[Chosen(s)] \in Nat
      <3>1. s \in SUBSET D /\ g[s] \notin Nat
        BY <2>2 DEF B
      <3>2. s # {}
        <4>1. g[{}] \in Nat
          BY <1>2
        <4> QED BY Zenon, <3>1, <4>1
      <3> QED BY <1>1, <3>1, <3>2
    <2>4. g[s \ {Chosen(s)}] \in Nat
      BY <2>2, <2>3 DEF B
    <2> QED BY <1>2, <2>2, <2>3, <2>4 DEF B
  <1>4. g \in [SUBSET D -> Nat]
    BY <1>3 DEF IsFold
  <1>5. \A s \in SUBSET D : \A x \in s : g[s] = f[x] + g[s \ {x}]
    <2> DEFINE B == {s \in SUBSET D : \E x \in s : g[s] # f[x] + g[s \ {x}]}
    <2> SUFFICES ASSUME B # {} PROVE FALSE
      OBVIOUS
    <2>1. B \subseteq SUBSET D
      OBVIOUS
    <2> HIDE DEF B
    <2>2. PICK s \in B : \A x \in s : s \ {x} \notin B
      BY <2>1, LeastSet
    <2>3. PICK x \in s : g[s] # f[x] + g[s \ {x}]
      BY <2>2 DEF B
    <2> DEFINE c == Chosen(s)
    <2>4. s \in SUBSET D /\ c \in s /\ g[s] = f[c] + g[s \ {c}]
      BY <1>1, <1>2, <2>2, <2>3 DEF B
    <2>5. x # c
      BY <2>3, <2>4
    <2>6. g[s \ {c}] = f[x] + g[(s \ {c}) \ {x}] /\ g[s \ {x}] = f[c] + g[(s \ {x}) \ {c}]
      <3>1. s \ {c} \in SUBSET D /\ s \ {x} \in SUBSET D /\ x \in s \ {c} /\ c \in s \ {x}
        BY <2>3, <2>4, <2>5
      <3>2. s \ {c} \notin B /\ s \ {x} \notin B
        BY <2>2, <2>3, <2>4
      <3> QED BY <3>1, <3>2 DEF B
    <2>7. (s \ {c}) \ {x} = (s \ {x}) \ {c}
      OBVIOUS
    <2>8. f[x] \in Nat /\ f[c] \in Nat /\ g[(s \ {x}) \ {c}] \in Nat
      BY <1>3, <2>3, <2>4
    <2> HIDE DEF c
    <2>9. PICK a \in Nat, b \in Nat, d \in Nat :
            a = f[x] /\ b = f[c] /\ d = g[(s \ {x}) \ {c}]
      BY <2>8
    <2>10. g[s \ {c}] = a + d /\ g[s \ {x}] = b + d
      BY <2>6, <2>7, <2>9
    <2>11. g[s] = b + (a + d) /\ f[x] + g[s \ {x}] = a + (b + d)
      BY <2>4, <2>9, <2>10
    <2>12. b + (a + d) = a + (b + d)
      OBVIOUS
    <2> QED BY <2>3, <2>11, <2>12
  <1> QED BY <1>2, <1>4, <1>5 DEF IsSum

LEMMA SumOf ==
  ASSUME NEW D, IsFiniteSet(D), NEW f \in [D -> Nat]
  PROVE  \E g : IsSum(g, f, D) /\ SumFunction(f) = g[D]
  <1> DEFINE h == CHOOSE g : IsFold(g, f, D)
  <1>1. IsFold(h, f, D)
    BY FoldExists
  <1>2. SumFunction(f) = h[D]
    <2>1. DOMAIN f = D
      OBVIOUS
    <2> QED BY <2>1
         DEF IsFold, Chosen, SumFunction, SumFunctionOnSet, FoldFunctionOnSet, MapThenFoldSet
  <1> HIDE DEF h
  <1> QED BY <1>1, <1>2, FoldIsSum

LEMMA SumIsNat ==
  ASSUME NEW D, IsFiniteSet(D), NEW f \in [D -> Nat]
  PROVE  SumFunction(f) \in Nat
  <1>1. PICK g : IsSum(g, f, D) /\ SumFunction(f) = g[D]
    BY SumOf
  <1>2. g \in [SUBSET D -> Nat] /\ D \in SUBSET D
    BY <1>1 DEF IsSum
  <1> QED BY <1>1, <1>2

(* A part of the summands adds up to no more than all.                     *)
LEMMA SumGrows ==
  ASSUME NEW D, IsFiniteSet(D), NEW f \in [D -> Nat], NEW g, IsSum(g, f, D),
         NEW t \in SUBSET D
  PROVE  g[t] <= g[D]
  <1> DEFINE B == {s \in SUBSET D : t \subseteq s /\ ~(g[t] <= g[s])}
  <1>1. g \in [SUBSET D -> Nat] /\ \A s \in SUBSET D : \A x \in s : g[s] = f[x] + g[s \ {x}]
    BY DEF IsSum
  <1>2. B = {}
    <2> SUFFICES ASSUME B # {} PROVE FALSE
      OBVIOUS
    <2>1. B \subseteq SUBSET D
      OBVIOUS
    <2> HIDE DEF B
    <2>2. PICK s \in B : \A x \in s : s \ {x} \notin B
      BY <2>1, LeastSet
    <2>3. s # t
      BY <1>1, <2>2 DEF B
    <2>4. PICK x \in s : x \notin t
      BY <2>2, <2>3 DEF B
    <2>5. g[t] <= g[s \ {x}]
      BY <2>2, <2>4 DEF B
    <2>6. g[s] = f[x] + g[s \ {x}] /\ f[x] \in Nat /\ g[s \ {x}] \in Nat /\ g[t] \in Nat
      BY <1>1, <2>2, <2>4 DEF B
    <2> QED BY <2>2, <2>5, <2>6 DEF B
  <1> QED BY <1>2

-----------------------------------------------------------------------------
(* Nothing is cached at the start, and all that is held counts as unseen.  *)
LEMMA GateStarts == GateInit => GateInv
  <1> SUFFICES ASSUME GateInit PROVE GateInv
    OBVIOUS
  <1>1. 1 \in 1 .. Len(PollOrder)
    BY PollAssumption
  <1>2. pos \in [Rows -> Int] /\ SymbolOf \in [Rows -> Symbols]
    BY RowsAssumption, LimitsAssumption DEF GateInit
  <1>3. ASSUME NEW s \in Symbols
        PROVE  /\ Held(pos, s) \in Nat
               /\ \A r \in Rows : SymbolOf[r] = s => Abs(pos[r]) <= Held(pos, s)
    <2> DEFINE D == {r \in Rows : SymbolOf[r] = s}
               f == [r \in D |-> Abs(pos[r])]
    <2>1. IsFiniteSet(D) /\ f \in [D -> Nat] /\ Held(pos, s) = SumFunction(f)
      BY <1>2, AbsType, FiniteRows, FS_Subset DEF Held
    <2>2. \A r \in D : f[r] = Abs(pos[r]) /\ f[r] \in Nat
      BY <2>1
    <2> HIDE DEF f
    <2>3. PICK g : IsSum(g, f, D) /\ SumFunction(f) = g[D]
      BY <2>1, SumOf
    <2>4. ASSUME NEW r \in D PROVE Abs(pos[r]) <= g[D]
      <3>1. {r} \in SUBSET D /\ r \in {r} /\ {r} \ {r} = {}
        OBVIOUS
      <3>2. g[{r}] = f[r] + g[{}] /\ g[{}] = 0
        BY <2>3, <3>1 DEF IsSum
      <3>3. g[{r}] <= g[D]
        BY <2>1, <2>3, <3>1, SumGrows
      <3> QED BY <2>2, <3>2, <3>3
    <2> QED BY <2>1, <2>3, <2>4, SumIsNat
  <1>4. GateTypeOK
    <2>1. \A r \in Rows : Abs(pos[r]) \in Nat
      BY <1>2, AbsType
    <2>2. hidden \in [Rows -> Nat] /\ unseen \in [Symbols -> Nat]
      BY <1>3, <2>1 DEF GateInit
    <2>3. resting \subseteq Order
      BY DEF GateInit, LeftOver, Order, Orders
    <2> QED BY <1>1, <1>2, <2>2, <2>3 DEF GateInit, GateTypeOK
  <1>5. FiniteOrders /\ NoneWaiting /\ AnswerNeverUnder
    BY FS_EmptySet DEF GateInit, FiniteOrders, NoneWaiting, AnswerNeverUnder
  <1>6. CachedNeverUnder
    <2> SUFFICES ASSUME NEW r \in Rows
                 PROVE  Abs(pos[r]) <= cache[SymbolOf[r]] + unseen[SymbolOf[r]]
      BY DEF CachedNeverUnder
    <2>1. SymbolOf[r] \in Symbols
      BY <1>2
    <2>2. cache[SymbolOf[r]] = 0 /\ unseen[SymbolOf[r]] = Held(pos, SymbolOf[r])
      BY <2>1 DEF GateInit
    <2> QED BY <1>3, <2>1, <2>2
  <1> QED BY <1>4, <1>5, <1>6 DEF GateInv

LEMMA GateAlways == GateSpec => []GateInv
  <1>1. GateInv /\ [GateNext]_gateVars => GateInv'
    <2> SUFFICES ASSUME GateInv, [GateNext]_gateVars PROVE GateInv'
      OBVIOUS
    <2>1. CASE UNCHANGED gateVars
      <3>1. UNCHANGED <<pos, resting, flying, passed, cache, openCount, turn, phase,
                        answer, listed, failures, hidden, unseen>>
        BY <2>1 DEF gateVars, market, gate, polling
      <3> QED
        BY <3>1 DEF GateInv, GateTypeOK, FiniteOrders, NoneWaiting, AnswerNeverUnder,
                    CachedNeverUnder, RowsOf, Polled
    <2>2. ASSUME NEW o \in Orders({passed}),
                 CheckOrder(o)
          PROVE  GateInv'
      BY <2>2, CheckKeepsInv
    <2>3. CASE \E o \in flying : TakeOrder(o) \/ RefuseOrder(o)
      BY <2>3, ExchangeKeepsInv
    <2>4. CASE \E o \in resting : FillOrder(o) \/ CancelOrder(o)
      BY <2>4, ExchangeKeepsInv, FillKeepsInv
    <2>5. CASE PollAccounts
      BY <2>5, ReadPositionsKeepsInv, UpdatePositionKeepsInv, RestOfPollKeepsInv
         DEF PollAccounts
    <2>6. CASE PositionsRefused \/ PollFails
      BY <2>6, RestOfPollKeepsInv
    <2> QED BY <2>1, <2>2, <2>3, <2>4, <2>5, <2>6 DEF GateNext
  <1> QED BY GateStarts, <1>1, PTL DEF GateSpec

-----------------------------------------------------------------------------
(* The cached position of a symbol with one row is never less than the     *)
(* true one minus what was filled since it was read, or was held before    *)
(* the first reading: for any accounts, symbols, limits and orders, and    *)
(* whatever calls of the monitor fail.                                     *)
THEOREM CacheSound == GateSpec => []CachedNeverUnder
  <1>1. GateInv => CachedNeverUnder
    BY DEF GateInv
  <1> QED BY <1>1, GateAlways, PTL

-----------------------------------------------------------------------------
(* Summands that lie under those of others, each under its own, and one    *)
(* that may exceed it by v: so do the sums.                                *)
LEMMA SumsCompare ==
  ASSUME NEW D, IsFiniteSet(D), NEW E, IsFiniteSet(E), NEW m \in [D -> E],
         \A x, y \in D : m[x] = m[y] => x = y,
         NEW h \in [D -> Nat], NEW a \in [E -> Nat], NEW b \in [E -> Nat],
         NEW d \in D, NEW v \in Nat,
         \A x \in D : x # d => h[x] <= a[m[x]] + b[m[x]],
         h[d] <= a[m[d]] + b[m[d]] + v
  PROVE  SumFunction(h) <= SumFunction(a) + SumFunction(b) + v
  <1>1. PICK H : IsSum(H, h, D) /\ SumFunction(h) = H[D]
    BY SumOf
  <1>2. PICK A : IsSum(A, a, E) /\ SumFunction(a) = A[E]
    BY SumOf
  <1>3. PICK C : IsSum(C, b, E) /\ SumFunction(b) = C[E]
    BY SumOf
  <1> DEFINE img(s) == {m[x] : x \in s}
             more(s) == IF d \in s THEN v ELSE 0
             B == {s \in SUBSET D : ~(H[s] <= A[img(s)] + C[img(s)] + more(s))}
  <1>4. \A s \in SUBSET D : img(s) \in SUBSET E /\ more(s) \in Nat
    OBVIOUS
  <1>5. /\ H \in [SUBSET D -> Nat] /\ H[{}] = 0
        /\ \A s \in SUBSET D : \A x \in s : H[s] = h[x] + H[s \ {x}]
        /\ A \in [SUBSET E -> Nat] /\ A[{}] = 0
        /\ \A s \in SUBSET E : \A x \in s : A[s] = a[x] + A[s \ {x}]
        /\ C \in [SUBSET E -> Nat] /\ C[{}] = 0
        /\ \A s \in SUBSET E : \A x \in s : C[s] = b[x] + C[s \ {x}]
    BY <1>1, <1>2, <1>3 DEF IsSum
  <1>6. B = {}
    <2> SUFFICES ASSUME B # {} PROVE FALSE
      OBVIOUS
    <2>1. B \subseteq SUBSET D
      OBVIOUS
    <2> HIDE DEF B
    <2>2. PICK s \in B : \A x \in s : s \ {x} \notin B
      BY <2>1, LeastSet
    <2>3. s \in SUBSET D /\ ~(H[s] <= A[img(s)] + C[img(s)] + more(s))
      BY <2>2 DEF B
    <2>4. /\ H[s] \in Nat /\ A[img(s)] \in Nat /\ C[img(s)] \in Nat /\ more(s) \in Nat
      BY <1>4, <1>5, <2>3
    <2>5. PICK x \in s : TRUE
      <3>1. s # {}
        <4>1. H[{}] <= A[img(s)] + C[img(s)] + more(s)
          BY <1>5, <2>4
        <4> QED BY Zenon, <2>3, <4>1
      <3> QED BY <3>1
    <2> DEFINE t == s \ {x}
    <2>6. x \in D /\ t \in SUBSET D /\ t \notin B
      BY <2>2, <2>3, <2>5
    <2>7. H[t] <= A[img(t)] + C[img(t)] + more(t)
      BY <2>6 DEF B
    <2>8. m[x] \in img(s) /\ img(t) = img(s) \ {m[x]}
      BY <2>3, <2>5, <2>6
    <2>9. H[s] = h[x] + H[t]
      BY <1>5, <2>3, <2>5
    <2>10. A[img(s)] = a[m[x]] + A[img(t)] /\ C[img(s)] = b[m[x]] + C[img(t)]
      <3>1. img(s) \in SUBSET E
        BY <1>4, <2>3
      <3> HIDE DEF img
      <3>2. /\ A[img(s)] = a[m[x]] + A[img(s) \ {m[x]}]
            /\ C[img(s)] = b[m[x]] + C[img(s) \ {m[x]}]
        BY <1>5, <2>8, <3>1
      <3> QED BY <2>8, <3>2
    <2>11. /\ H[t] \in Nat /\ A[img(t)] \in Nat /\ C[img(t)] \in Nat /\ more(t) \in Nat
           /\ h[x] \in Nat /\ m[x] \in E /\ a[m[x]] \in Nat /\ b[m[x]] \in Nat
      BY <1>4, <1>5, <2>6
    <2>12. h[x] + more(t) <= a[m[x]] + b[m[x]] + more(s)
      <3>1. CASE x = d
        <4>1. more(t) = 0 /\ more(s) = v
          BY <2>5, <3>1
        <4> QED BY <2>11, <3>1, <4>1
      <3>2. CASE x # d
        <4>1. more(t) = more(s)
          BY <3>2
        <4> QED BY <2>6, <2>11, <3>2, <4>1
      <3> QED BY <3>1, <3>2
    <2> HIDE DEF img, more, t
    <2> QED BY <2>3, <2>4, <2>7, <2>9, <2>10, <2>11, <2>12
  <1>7. H[D] <= A[img(D)] + C[img(D)] + more(D) /\ more(D) = v
    BY <1>6
  <1>8. A[img(D)] <= A[E] /\ C[img(D)] <= C[E]
    BY <1>2, <1>3, <1>4, SumGrows
  <1>9. /\ H[D] \in Nat /\ A[img(D)] \in Nat /\ C[img(D)] \in Nat
        /\ A[E] \in Nat /\ C[E] \in Nat
    BY <1>4, <1>5
  <1> HIDE DEF img, more
  <1> QED BY <1>1, <1>2, <1>3, <1>7, <1>8, <1>9
-----------------------------------------------------------------------------
(* For any limits, accounts, symbols and orders: if every symbol has one   *)
(* row, an order that passes the check takes the true exposure over the    *)
(* limit by no more than what was filled since the cached rows were read   *)
(* (at the start, what is held) and what the check was not told of it.     *)
THEOREM ExposureCleared == GateSpec => ClearedWithinExposure
  <1>1. ASSUME GateInv, [GateNext]_gateVars, NEW o \in flying' \ flying,
               \A s \in Symbols : Single(s)
        PROVE  TrueExposure([pos EXCEPT ![o.row] = @ + o.side * o.value])
                 <= MaxExposure + SumFunction(unseen) + (o.value - o.checked)
    <2>1. /\ o \in Orders({passed})
          /\ Verdict(o) = "pass"
      <3>1. CASE \E p \in Orders({passed}) :
                   CheckOrder(p)
        BY <1>1, <3>1 DEF CheckOrder
      <3>2. ASSUME flying' \subseteq flying PROVE FALSE
        BY <1>1, <3>2
      <3>3. (\E p \in flying : TakeOrder(p) \/ RefuseOrder(p))
            \/ (\E p \in resting : FillOrder(p) \/ CancelOrder(p))
            \/ PollAccounts \/ PositionsRefused \/ PollFails \/ UNCHANGED gateVars
              => flying' \subseteq flying
        BY DEF TakeOrder, RefuseOrder, FillOrder, CancelOrder, PollAccounts, ReadPositions,
               UpdatePosition, ReadOpenOrders, AccountDone, SetOpenOrderCount, PositionsRefused,
               PollFails, gate, gateVars
      <3> QED BY <1>1, <3>1, <3>2, <3>3 DEF GateNext
    <2> DEFINE p == [pos EXCEPT ![o.row] = @ + o.side * o.value]
               h == [r \in Rows |-> Abs(p[r])]
               a == [s \in Symbols |-> Abs(cache[s])]
    <2>2. /\ o.row \in Rows /\ o.side \in {1, -1} /\ o.value \in Nat /\ o.checked \in Nat
          /\ pos \in [Rows -> Int] /\ cache \in [Symbols -> Nat] /\ unseen \in [Symbols -> Nat]
          /\ SymbolOf \in [Rows -> Symbols] /\ MaxExposure \in Nat
      BY <1>1, <2>1, RowsAssumption, LimitsAssumption DEF Orders, GateInv, GateTypeOK
    <2>3. /\ p[o.row] = pos[o.row] + o.side * o.value /\ p[o.row] \in Int
          /\ Abs(p[o.row]) <= Abs(pos[o.row]) + o.value
          /\ \A r \in Rows : r # o.row => p[r] = pos[r]
          /\ \A r \in Rows : p[r] \in Int
      BY <2>2, AbsMoves
    <2>4. h \in [Rows -> Nat] /\ a \in [Symbols -> Nat] /\ \A s \in Symbols : a[s] = cache[s]
      BY <2>2, <2>3, AbsType DEF Abs
    <2>5. \A r \in Rows : /\ Abs(pos[r]) <= a[SymbolOf[r]] + unseen[SymbolOf[r]]
                          /\ Abs(pos[r]) \in Nat
      BY <1>1, <2>2, <2>4, AbsType DEF GateInv, CachedNeverUnder
    <2>6. /\ \A r \in Rows : r # o.row => h[r] <= a[SymbolOf[r]] + unseen[SymbolOf[r]]
          /\ h[o.row] <= a[SymbolOf[o.row]] + unseen[SymbolOf[o.row]] + o.value
      <3>1. \A r \in Rows : h[r] = Abs(p[r])
        OBVIOUS
      <3> HIDE DEF h, a, p
      <3>2. /\ a[SymbolOf[o.row]] \in Nat /\ unseen[SymbolOf[o.row]] \in Nat /\ h[o.row] \in Nat
        BY <2>2, <2>4
      <3> QED BY <2>2, <2>3, <2>5, <3>1, <3>2
    <2>7. \A r, q \in Rows : SymbolOf[r] = SymbolOf[q] => r = q
      BY <1>1, <2>2 DEF Single
    <2>8. TrueExposure(p) = SumFunction(h) /\ CachedExposure = SumFunction(a)
      BY DEF TrueExposure, CachedExposure
    <2>9. SumFunction(a) + o.checked <= MaxExposure
      <3>1. ~(SumFunction(a) + o.checked > MaxExposure)
        BY <2>1, <2>8 DEF Verdict
      <3>2. SumFunction(a) \in Nat
        BY <2>4, FiniteRows, SumIsNat
      <3> QED BY <2>2, <3>1, <3>2
    <2> HIDE DEF h, a, p
    <2>10. SumFunction(h) <= SumFunction(a) + SumFunction(unseen) + o.value
      BY <2>2, <2>4, <2>6, <2>7, FiniteRows, SumsCompare
    <2>11. SumFunction(h) \in Nat /\ SumFunction(a) \in Nat /\ SumFunction(unseen) \in Nat
      BY <2>2, <2>4, FiniteRows, SumIsNat
    <2>12. SumFunction(h) <= MaxExposure + SumFunction(unseen) + (o.value - o.checked)
      BY <2>2, <2>9, <2>10, <2>11
    <2> QED BY <2>8, <2>12 DEF p
  <1>2. GateInv /\ [GateNext]_gateVars =>
          [\A o \in flying' \ flying :
             (\A s \in Symbols : Single(s)) =>
               TrueExposure([pos EXCEPT ![o.row] = @ + o.side * o.value])
                 <= MaxExposure + SumFunction(unseen) + (o.value - o.checked)]_gateVars
    BY <1>1
  <1> QED BY <1>2, GateAlways, PTL DEF GateSpec, ClearedWithinExposure

-----------------------------------------------------------------------------
(* The drawdown check.                                                     *)

DrawdownTypeOK ==
  /\ dailyInitial \in BOOLEAN /\ day \in Nat \ {0}
  /\ peak \in [Watched -> Nat] /\ initial \in [Watched -> Nat]
  /\ lastReset \in [Watched -> Nat] /\ DOMAIN alarm = Watched
  /\ today \in [Watched -> Seq(Nat)]

(* The date of an account is today's exactly if it was read today.         *)
DayKept == \A s \in Watched :
  lastReset[s] <= day /\ (lastReset[s] = day <=> today[s] # <<>>)

(* The positive readings of the day, the last one too.                     *)
Seen(q) == {i \in 1 .. Len(q) : q[i] > 0}

(* initial and peak are the first and the highest of them.                 *)
TopsKept == \A s \in Watched : today[s] # <<>> =>
  \/ peak[s] = 0 /\ Seen(today[s]) = {}
  \/ /\ \E i \in Seen(today[s]) : /\ initial[s] = today[s][i]
                                  /\ \A j \in Seen(today[s]) : i <= j
     /\ \E i \in Seen(today[s]) : /\ peak[s] = today[s][i]
                                  /\ \A j \in Seen(today[s]) : today[s][j] <= today[s][i]

DrawdownInv == DrawdownTypeOK /\ DayKept /\ TopsKept /\ AlertsExact

LEMMA DrawdownStarts == DrawdownInit => DrawdownInv
  <1> SUFFICES ASSUME DrawdownInit PROVE DrawdownInv
    OBVIOUS
  <1>1. <<>> \in Seq(Nat)
    BY EmptySeq
  <1>2. \A s \in Watched : today[s] = <<>> /\ lastReset[s] = 0
    BY DEF DrawdownInit
  <1>3. dailyInitial \in BOOLEAN
    BY Zenon DEF DrawdownInit
  <1>4. DrawdownTypeOK
    BY <1>1, <1>3 DEF DrawdownInit, DrawdownTypeOK
  <1>5. DayKept
    BY <1>2 DEF DrawdownInit, DayKept
  <1> QED BY <1>2, <1>4, <1>5 DEF DrawdownInv, TopsKept, AlertsExact

LEMMA MidnightKeeps == DrawdownInv /\ Midnight => DrawdownInv'
  <1> SUFFICES ASSUME DrawdownInv, Midnight PROVE DrawdownInv'
    OBVIOUS
  <1>1. <<>> \in Seq(Nat)
    BY EmptySeq
  <1>2. /\ day' = day + 1 /\ today' = [s \in Watched |-> <<>>]
        /\ UNCHANGED <<dailyInitial, peak, initial, lastReset, alarm>>
    BY DEF Midnight
  <1>3. \A s \in Watched : today'[s] = <<>>
    BY <1>2
  <1>4. DrawdownTypeOK'
    <2>1. dailyInitial' \in BOOLEAN
      BY Zenon, <1>2 DEF DrawdownInv, DrawdownTypeOK
    <2> QED BY <1>1, <1>2, <2>1 DEF DrawdownInv, DrawdownTypeOK
  <1>5. DayKept'
    BY <1>2, <1>3 DEF DrawdownInv, DrawdownTypeOK, DayKept
  <1> QED BY <1>3, <1>4, <1>5 DEF DrawdownInv, TopsKept, AlertsExact

(* The reading appended, and what it leaves of the earlier ones.           *)
LEMMA Reading ==
  ASSUME NEW q \in Seq(Nat), NEW e \in Nat
  PROVE  /\ Append(q, e) \in Seq(Nat) /\ Append(q, e) # <<>>
         /\ Last(Append(q, e)) = e
         /\ Len(q) \in Nat /\ Len(Append(q, e)) = Len(q) + 1
         /\ \A i \in 1 .. Len(q) : Append(q, e)[i] = q[i]
         /\ Append(q, e)[Len(q) + 1] = e
         /\ Positive(Append(q, e)) = Seen(q)
         /\ Seen(Append(q, e)) = Seen(q) \cup (IF e > 0 THEN {Len(q) + 1} ELSE {})
  <1>1. /\ Append(q, e) \in Seq(Nat) /\ Append(q, e) # <<>>
        /\ Len(q) \in Nat /\ Len(Append(q, e)) = Len(q) + 1
        /\ \A i \in 1 .. Len(q) : Append(q, e)[i] = q[i]
        /\ Append(q, e)[Len(q) + 1] = e
    BY AppendProperties, LenProperties
  <1>2. Last(Append(q, e)) = e
    BY <1>1 DEF Last
  <1>3. Positive(Append(q, e)) = Seen(q)
    BY <1>1 DEF Positive, Seen
  <1>4. Seen(Append(q, e)) = Seen(q) \cup (IF e > 0 THEN {Len(q) + 1} ELSE {})
    BY <1>1 DEF Seen
  <1> QED BY <1>1, <1>2, <1>3, <1>4

(* What update_account_equity leaves alone: the other accounts.            *)
LEMMA OtherAccounts ==
  ASSUME DrawdownInv, NEW s \in Watched, NEW e \in Equities, UpdateAccountEquity(s, e)
  PROVE  /\ DrawdownTypeOK'
         /\ today'[s] = Append(today[s], e)
         /\ \A t \in Watched : t # s =>
              /\ today'[t] = today[t] /\ peak'[t] = peak[t] /\ initial'[t] = initial[t]
              /\ lastReset'[t] = lastReset[t] /\ alarm'[t] = alarm[t]
  <1>0. e \in Nat
    BY DrawdownAssumption
  <1>1. /\ today' = [today EXCEPT ![s] = Append(@, e)] /\ UNCHANGED <<dailyInitial, day>>
        /\ StartDay(s, e) \/ CompareEquity(s, e)
    BY DEF UpdateAccountEquity
  <1>2. today[s] \in Seq(Nat) /\ Append(today[s], e) \in Seq(Nat)
    BY <1>0, Reading DEF DrawdownInv, DrawdownTypeOK
  <1>3. /\ today' \in [Watched -> Seq(Nat)] /\ today'[s] = Append(today[s], e)
        /\ \A t \in Watched : t # s => today'[t] = today[t]
    BY <1>1, <1>2 DEF DrawdownInv, DrawdownTypeOK
  <1>4. /\ peak' \in [Watched -> Nat] /\ initial' \in [Watched -> Nat]
        /\ lastReset' \in [Watched -> Nat]
        /\ \A t \in Watched : t # s => peak'[t] = peak[t] /\ initial'[t] = initial[t]
                                     /\ lastReset'[t] = lastReset[t]
    BY <1>0, <1>1 DEF StartDay, CompareEquity, DrawdownInv, DrawdownTypeOK
  <1>5. PICK b : alarm' = [alarm EXCEPT ![s] = b]
    BY <1>1 DEF StartDay, CompareEquity
  <1>6. DOMAIN alarm' = Watched /\ \A t \in Watched : t # s => alarm'[t] = alarm[t]
    BY <1>5 DEF DrawdownInv, DrawdownTypeOK
  <1>7. dailyInitial' \in BOOLEAN
    BY Zenon, <1>1 DEF DrawdownInv, DrawdownTypeOK
  <1> QED BY <1>1, <1>3, <1>4, <1>6, <1>7 DEF DrawdownInv, DrawdownTypeOK

(* The first reading of the day, or one that follows zeroes only.          *)
LEMMA StartKeeps ==
  ASSUME DrawdownInv, NEW s \in Watched, NEW e \in Equities, UpdateAccountEquity(s, e),
         StartDay(s, e)
  PROVE  /\ lastReset'[s] = day
         /\ \/ peak'[s] = 0 /\ Seen(today'[s]) = {}
            \/ \E i \in Seen(today'[s]) :
                 /\ initial'[s] = today'[s][i] /\ peak'[s] = today'[s][i]
                 /\ \A j \in Seen(today'[s]) : i <= j /\ today'[s][j] <= today'[s][i]
         /\ Positive(today'[s]) = {} /\ ~alarm'[s]
  <1>0. e \in Nat /\ today[s] \in Seq(Nat)
    BY DrawdownAssumption DEF DrawdownInv, DrawdownTypeOK
  <1>1. /\ peak'[s] = e /\ initial'[s] = e /\ lastReset'[s] = day /\ ~alarm'[s]
        /\ Restarts(s)
    BY DEF StartDay, DrawdownInv, DrawdownTypeOK
  <1>2. Seen(today[s]) = {}
    <2>1. today[s] = <<>> => Len(today[s]) = 0
      BY EmptySeq
    <2>2. today[s] = <<>> => Seen(today[s]) = {}
      BY <2>1 DEF Seen
    <2>3. lastReset[s] # day => today[s] = <<>>
      BY DEF DrawdownInv, DayKept
    <2>4. peak[s] = 0 /\ today[s] # <<>> => Seen(today[s]) = {}
      <3> SUFFICES ASSUME peak[s] = 0, today[s] # <<>>, NEW i \in Seen(today[s]) PROVE FALSE
        OBVIOUS
      <3>1. PICK k \in Seen(today[s]) : peak[s] = today[s][k]
        BY DEF DrawdownInv, TopsKept
      <3> QED BY <3>1 DEF Seen
    <2> QED BY <1>1, <2>2, <2>3, <2>4 DEF Restarts
  <1>3. today'[s] = Append(today[s], e)
    BY OtherAccounts
  <1>4. Positive(today'[s]) = {} /\ Seen(today'[s]) = IF e > 0 THEN {Len(today[s]) + 1} ELSE {}
    <2>1. PICK old \in Seq(Nat) : old = today[s]
      BY <1>0
    <2>2. /\ Positive(Append(old, e)) = Seen(old)
          /\ Seen(Append(old, e)) = Seen(old) \cup (IF e > 0 THEN {Len(old) + 1} ELSE {})
      BY <1>0, Reading
    <2> QED BY <1>2, <1>3, <2>1, <2>2
  <1>5. today'[s][Len(today[s]) + 1] = e /\ Len(today[s]) \in Nat
    BY <1>0, <1>3, Reading
  <1> QED BY <1>0, <1>1, <1>4, <1>5

(* A later reading: it is compared with the top of the earlier ones.       *)
LEMMA CompareKeeps ==
  ASSUME DrawdownInv, NEW s \in Watched, NEW e \in Equities, UpdateAccountEquity(s, e),
         CompareEquity(s, e), NEW q, q = today'[s]
  PROVE  /\ lastReset'[s] = day
         /\ \E i \in Seen(q) : initial'[s] = q[i] /\ \A j \in Seen(q) : i <= j
         /\ \E i \in Seen(q) : peak'[s] = q[i] /\ \A j \in Seen(q) : q[j] <= q[i]
         /\ alarm'[s] <=> \E i \in Positive(q) :
              /\ IF dailyInitial THEN \A j \in Positive(q) : i <= j
                                 ELSE \A j \in Positive(q) : q[j] <= q[i]
              /\ (q[i] - Last(q)) * 100 > DrawdownPct * q[i]
  <1>0. e \in Nat /\ today[s] \in Seq(Nat) /\ DrawdownPct \in Nat
    BY DrawdownAssumption DEF DrawdownInv, DrawdownTypeOK
  <1>1. PICK old \in Seq(Nat) : old = today[s]
    BY <1>0
  <1>2. q = Append(old, e)
    BY <1>1, OtherAccounts
  <1>3. /\ lastReset[s] = day /\ peak[s] # 0 /\ lastReset'[s] = day
        /\ initial'[s] = initial[s] /\ peak'[s] = IF e > peak[s] THEN e ELSE peak[s]
    BY DEF CompareEquity, Restarts, DrawdownInv, DrawdownTypeOK
  <1>4. old # <<>>
    BY <1>1, <1>3 DEF DrawdownInv, DayKept
  <1>5. PICK i \in Seen(old) : initial[s] = old[i] /\ \A j \in Seen(old) : i <= j
    BY <1>1, <1>3, <1>4 DEF DrawdownInv, TopsKept
  <1>6. PICK m \in Seen(old) : peak[s] = old[m] /\ \A j \in Seen(old) : old[j] <= old[m]
    BY <1>1, <1>3, <1>4 DEF DrawdownInv, TopsKept
  <1>7. /\ Len(old) \in Nat /\ Last(q) = e /\ Positive(q) = Seen(old)
        /\ Seen(q) = Seen(old) \cup (IF e > 0 THEN {Len(old) + 1} ELSE {})
        /\ q[Len(old) + 1] = e
        /\ \A j \in Seen(old) : j \in 1 .. Len(old) /\ q[j] = old[j] /\ old[j] \in Nat \ {0}
    <2>1. \A j \in Seen(old) : j \in 1 .. Len(old) /\ old[j] \in Nat \ {0}
      BY <1>1, ElementOfSeq DEF Seen
    <2>2. /\ Len(old) \in Nat /\ Last(q) = e /\ Positive(q) = Seen(old)
          /\ Seen(q) = Seen(old) \cup (IF e > 0 THEN {Len(old) + 1} ELSE {})
          /\ q[Len(old) + 1] = e
          /\ \A j \in 1 .. Len(old) : q[j] = old[j]
      BY <1>0, <1>2, Reading
    <2> QED BY <2>1, <2>2
  <1>8. \E k \in Seen(q) : initial'[s] = q[k] /\ \A j \in Seen(q) : k <= j
    BY <1>3, <1>5, <1>7
  <1>9. \E k \in Seen(q) : peak'[s] = q[k] /\ \A j \in Seen(q) : q[j] <= q[k]
    <2>1. CASE e > peak[s]
      <3>1. Len(old) + 1 \in Seen(q) /\ peak'[s] = q[Len(old) + 1]
        BY <1>0, <1>3, <1>6, <1>7, <2>1
      <3>2. ASSUME NEW j \in Seen(q) PROVE q[j] <= e
        <4>1. CASE j \in Seen(old)
          <5>1. q[j] \in Nat /\ old[m] \in Nat /\ q[j] <= old[m] /\ old[m] = peak[s]
            BY <1>6, <1>7, <4>1
          <5> QED BY <1>0, <2>1, <5>1
        <4>2. CASE j = Len(old) + 1
          BY <1>0, <1>7, <4>2
        <4> QED BY <1>7, <3>2, <4>1, <4>2
      <3> QED BY <1>7, <3>1, <3>2
    <2>2. CASE ~(e > peak[s])
      <3>1. \A j \in Seen(q) : q[j] <= q[m]
        BY <1>0, <1>6, <1>7, <2>2
      <3> QED BY <1>3, <1>6, <1>7, <2>2, <3>1
    <2> QED BY <2>1, <2>2
  <1>10. PICK top \in Nat : top = Reference(s)
    BY <1>5, <1>6, <1>7 DEF Reference
  <1>11. alarm'[s] <=> Below(top, e)
    <2>1. alarm' = [alarm EXCEPT ![s] = Below(Reference(s), e)] /\ s \in DOMAIN alarm
      BY DEF CompareEquity, DrawdownInv, DrawdownTypeOK
    <2> QED BY <1>10, <2>1
  <1>12. Below(top, e) <=> (top - e) * 100 > DrawdownPct * top
    <2>1. DrawdownPct * top \in Nat
      BY <1>0, <1>10
    <2> QED BY <1>0, <1>10, <2>1 DEF Below
  <1>13. \A k \in Positive(q) :
           (IF dailyInitial THEN \A j \in Positive(q) : k <= j
                            ELSE \A j \in Positive(q) : q[j] <= q[k]) => q[k] = top
    <2>1. CASE dailyInitial
      <3>1. top = q[i]
        BY <1>5, <1>7, <1>10, <2>1 DEF Reference
      <3> QED BY <1>5, <1>7, <2>1, <3>1
    <2>2. CASE ~dailyInitial
      <3>1. top = q[m]
        BY <1>6, <1>7, <1>10, <2>2 DEF Reference
      <3> QED BY <1>6, <1>7, <2>2, <3>1
    <2> QED BY <2>1, <2>2
  <1>14. \E k \in Positive(q) :
           IF dailyInitial THEN \A j \in Positive(q) : k <= j
                           ELSE \A j \in Positive(q) : q[j] <= q[k]
    BY <1>5, <1>6, <1>7
  <1> QED BY <1>3, <1>7, <1>8, <1>9, <1>11, <1>12, <1>13, <1>14

LEMMA DrawdownStep == DrawdownInv /\ [DrawdownNext]_drawdownVars => DrawdownInv'
  <1> SUFFICES ASSUME DrawdownInv, [DrawdownNext]_drawdownVars PROVE DrawdownInv'
    OBVIOUS
  <1>1. ASSUME NEW s \in Watched, NEW e \in Equities, UpdateAccountEquity(s, e)
        PROVE  DrawdownInv'
    <2>1. /\ StartDay(s, e) \/ CompareEquity(s, e)
          /\ UNCHANGED <<dailyInitial, day>>
      BY <1>1 DEF UpdateAccountEquity
    <2>2. today'[s] # <<>>
      BY <1>1, OtherAccounts, Reading, DrawdownAssumption DEF DrawdownInv, DrawdownTypeOK
    <2>3. DayKept'
      <3>1. lastReset'[s] = day /\ day \in Nat
        BY <1>1, <2>1, StartKeeps, CompareKeeps DEF DrawdownInv, DrawdownTypeOK
      <3>2. \A t \in Watched : t # s => lastReset'[t] = lastReset[t] /\ today'[t] = today[t]
        BY <1>1, OtherAccounts
      <3> QED BY <2>1, <2>2, <3>1, <3>2 DEF DrawdownInv, DayKept
    <2>4. TopsKept'
      <3>1. ASSUME NEW t \in Watched, today'[t] # <<>>, t # s
            PROVE  \/ peak'[t] = 0 /\ Seen(today'[t]) = {}
                   \/ /\ \E i \in Seen(today'[t]) : /\ initial'[t] = today'[t][i]
                                                   /\ \A j \in Seen(today'[t]) : i <= j
                      /\ \E i \in Seen(today'[t]) :
                            /\ peak'[t] = today'[t][i]
                            /\ \A j \in Seen(today'[t]) : today'[t][j] <= today'[t][i]
        <4>1. today'[t] = today[t] /\ peak'[t] = peak[t] /\ initial'[t] = initial[t]
          BY <1>1, <3>1, OtherAccounts
        <4> QED BY <3>1, <4>1 DEF DrawdownInv, TopsKept
      <3>2. \/ peak'[s] = 0 /\ Seen(today'[s]) = {}
            \/ /\ \E i \in Seen(today'[s]) : /\ initial'[s] = today'[s][i]
                                            /\ \A j \in Seen(today'[s]) : i <= j
               /\ \E i \in Seen(today'[s]) :
                     /\ peak'[s] = today'[s][i]
                     /\ \A j \in Seen(today'[s]) : today'[s][j] <= today'[s][i]
        <4>1. CASE StartDay(s, e)
          BY <1>1, <4>1, StartKeeps
        <4>2. CASE CompareEquity(s, e)
          BY <1>1, <4>2, CompareKeeps
        <4> QED BY <2>1, <4>1, <4>2
      <3> QED BY <3>1, <3>2 DEF TopsKept, Seen
    <2>5. AlertsExact'
      <3>1. ASSUME NEW t \in Watched, today'[t] # <<>>, t # s
            PROVE  alarm'[t] <=> \E i \in Positive(today'[t]) :
                     /\ IsTop(today'[t], i)
                     /\ (today'[t][i] - Last(today'[t])) * 100 > DrawdownPct * today'[t][i]
        <4>1. today'[t] = today[t] /\ alarm'[t] = alarm[t]
          BY <1>1, <3>1, OtherAccounts
        <4> QED BY <3>1, <4>1 DEF DrawdownInv, AlertsExact
      <3>2. alarm'[s] <=> \E i \in Positive(today'[s]) :
              /\ IsTop(today'[s], i)
              /\ (today'[s][i] - Last(today'[s])) * 100 > DrawdownPct * today'[s][i]
        <4>1. CASE StartDay(s, e)
          BY <1>1, <4>1, StartKeeps
        <4>2. CASE CompareEquity(s, e)
          BY <1>1, <4>2, CompareKeeps DEF IsTop
        <4> QED BY <2>1, <4>1, <4>2
      <3> QED BY <2>1, <3>1, <3>2 DEF AlertsExact, IsTop, Positive
    <2> QED BY <1>1, <2>3, <2>4, <2>5, OtherAccounts DEF DrawdownInv
  <1>2. CASE UNCHANGED drawdownVars
    BY <1>2 DEF drawdownVars, DrawdownInv, DrawdownTypeOK, DayKept, TopsKept, AlertsExact, IsTop,
                Seen, Positive
  <1> QED BY <1>1, <1>2, MidnightKeeps DEF DrawdownNext

(* An alert is raised at exactly the readings that are too far below the   *)
(* first or the highest positive reading of their account and day, for any *)
(* limit, any equities and any number of accounts, days and readings.      *)
THEOREM DrawdownAlertsExact == DrawdownSpec => []AlertsExact
  <1>1. DrawdownInv => AlertsExact
    BY DEF DrawdownInv
  <1> QED BY <1>1, DrawdownStarts, DrawdownStep, PTL DEF DrawdownSpec

-----------------------------------------------------------------------------
(* The Binance feed.                                                       *)

(* The adapter is connected, or was when its thread last looked.           *)
MonitorLooks == monitor \in {"watch", "mark"} \/ builder = "mark"

(* DropNoticed also holds between the wait for the connection and its end. *)
Owed == MonitorLooks /\ enabled /\ ~up /\ ~handling => need

(* The callbacks are unset only while the monitor sleeps before it sets    *)
(* them again, or while nobody looks.                                      *)
HookedWhenNeeded ==
  /\ monitor \in {"watch", "pause", "clear", "connect", "wait", "mark"} => hooked
  /\ builder \in {"connect", "wait", "mark"} => hooked

(* A monitor runs only for an adapter that the batch holds.                *)
MonitorOfKept == ~kept => monitor = "none"

Building == builder \in {"build", "connect", "wait", "mark"}

(* The health thread does not build while the batch holds an adapter, nor  *)
(* once main has joined it.                                                *)
BuilderAlone ==
  /\ Building => ~kept
  /\ main \in {"disconnect", "joinMonitor", "done"} => builder = "idle"

IInv == TypeOK /\ Owed /\ HookedWhenNeeded /\ MonitorOfKept /\ BuilderAlone

-----------------------------------------------------------------------------
LEMMA InitInv == Init => IInv
  <1> SUFFICES ASSUME Init PROVE IInv
    OBVIOUS
  <1>1. WsTypeOK
    <2>1. troubles \in 0 .. MaxTroubles
      BY TroubleBound DEF Init
    <2>2. conn \in [Conns -> {"unused", "connecting", "open", "closing"}]
      BY DEF Init
    <2>3. up \in BOOLEAN /\ handling \in BOOLEAN /\ hooked \in BOOLEAN
      BY Zenon DEF Init
    <2> QED BY <2>1, <2>2, <2>3 DEF Init, WsTypeOK
  <1>2. TypeOK
    BY <1>1 DEF Init, TypeOK
  <1>3. Owed /\ HookedWhenNeeded /\ MonitorOfKept /\ BuilderAlone
    BY DEF Init, Owed, MonitorLooks, HookedWhenNeeded, MonitorOfKept, BuilderAlone, Building
  <1> QED BY <1>2, <1>3 DEF IInv

LEMMA StartConnectType ==
  ASSUME WsTypeOK, StartConnect
  PROVE  WsTypeOK'
  <1> DEFINE new == CHOOSE c \in Conns : conn[c] = "unused"
  <1>1. new \in Conns
    BY DEF StartConnect
  <1>2. conn' = [c \in Conns |-> CASE c = new             -> "connecting"
                                   [] c = current /\ up   -> "closing"
                                   [] OTHER               -> conn[c]]
    BY DEF StartConnect
  <1>3. conn' \in [Conns -> {"unused", "connecting", "open", "closing"}]
    <2> HIDE DEF new
    <2>1. \A c \in Conns : conn[c] \in {"unused", "connecting", "open", "closing"}
      BY DEF WsTypeOK
    <2>2. \A c \in Conns :
            (CASE c = new             -> "connecting"
               [] c = current /\ up   -> "closing"
               [] OTHER               -> conn[c])
              \in {"unused", "connecting", "open", "closing"}
      BY <2>1
    <2> QED BY <1>2, <2>2
  <1> QED BY <1>1, <1>3 DEF StartConnect, WsTypeOK

LEMMA TroubleType ==
  ASSUME troubles \in 0 .. MaxTroubles, Trouble \/ UNCHANGED troubles
  PROVE  troubles' \in 0 .. MaxTroubles
  BY TroubleBound DEF Trouble

-----------------------------------------------------------------------------
(* The network and the IO thread.                                          *)

LEMMA OpenKeepsInv ==
  ASSUME IInv, NEW c \in Conns, Open(c)
  PROVE  IInv'
  BY DEF IInv, Open, Opened, flags, batchVars, TypeOK, WsTypeOK, Owed, MonitorLooks,
         HookedWhenNeeded, MonitorOfKept, BuilderAlone, Building

LEMMA LoseKeepsInv ==
  ASSUME IInv, NEW c \in Conns, Lose(c)
  PROVE  IInv'
  <1>1. Gone(c) /\ (Trouble \/ UNCHANGED troubles)
    BY DEF Lose, Failed, Dropped, Closed
  <1>2. troubles' \in 0 .. MaxTroubles
    BY <1>1, TroubleType DEF IInv, TypeOK, WsTypeOK
  <1>3. TypeOK'
    <2>1. conn' \in [Conns -> {"unused", "connecting", "open", "closing"}]
      BY <1>1 DEF Gone, IInv, TypeOK, WsTypeOK
    <2>2. up' \in BOOLEAN /\ handling' \in BOOLEAN /\ hooked' \in BOOLEAN
          /\ current' \in Conns \cup {NoConn}
      BY <1>1, Zenon DEF Gone, IInv, TypeOK, WsTypeOK
    <2>3. WsTypeOK'
      BY <1>2, <2>1, <2>2 DEF WsTypeOK
    <2> QED BY <2>3 DEF IInv, Lose, flags, batchVars, TypeOK
  <1>4. handling' = TRUE
    BY <1>1 DEF Gone
  <1>5. Owed'
    BY <1>4 DEF Owed
  <1> QED BY <1>1, <1>3, <1>5
          DEF IInv, Lose, Gone, flags, batchVars, HookedWhenNeeded, MonitorOfKept,
              BuilderAlone, Building

LEMMA StallKeepsInv ==
  ASSUME IInv, NEW c \in Conns, Stall(c)
  PROVE  IInv'
  <1>1. troubles' \in 0 .. MaxTroubles
    BY TroubleType DEF Stall, IInv, TypeOK, WsTypeOK
  <1> QED BY <1>1
          DEF IInv, Stall, flags, batchVars, TypeOK, WsTypeOK, Owed, MonitorLooks,
              HookedWhenNeeded, MonitorOfKept, BuilderAlone, Building

(* The first half of a handler leaves up false and the second still to     *)
(* come; the second asks for the reconnect, as the callbacks are set.      *)
LEMMA CallbackKeepsInv ==
  ASSUME IInv, Callback
  PROVE  IInv'
  <1>1. CASE hooked
    <2>1. need' = (need \/ enabled) /\ connected' = FALSE
          /\ handling' = FALSE
          /\ UNCHANGED <<conn, current, up, hooked, troubles, enabled, monitor, batchVars,
                         silent>>
      BY <1>1 DEF Callback
    <2>2. TypeOK'
      <3>1. need' \in BOOLEAN /\ connected' \in BOOLEAN /\ handling' \in BOOLEAN
        BY <2>1, Zenon
      <3> QED BY <2>1, <3>1 DEF IInv, batchVars, TypeOK, WsTypeOK
    <2>3. Owed'
      BY <2>1 DEF Owed
    <2> QED BY <2>1, <2>2, <2>3
            DEF IInv, batchVars, HookedWhenNeeded, MonitorOfKept, BuilderAlone, Building
  <1>2. CASE ~hooked
    <2>1. ~MonitorLooks
      BY <1>2 DEF IInv, HookedWhenNeeded, MonitorLooks
    <2>2. UNCHANGED <<need, connected, conn, current, up, hooked, troubles, enabled,
                      monitor, batchVars, silent>>
          /\ handling' = FALSE
      BY <1>2 DEF Callback
    <2>3. TypeOK'
      <3>1. handling' \in BOOLEAN
        BY <2>2, Zenon
      <3> QED BY <2>2, <3>1 DEF IInv, batchVars, TypeOK, WsTypeOK
    <2>4. Owed'
      BY <2>1, <2>2 DEF Owed, MonitorLooks, batchVars
    <2> QED BY <2>2, <2>3, <2>4
            DEF IInv, batchVars, HookedWhenNeeded, MonitorOfKept, BuilderAlone, Building
  <1> QED BY <1>1, <1>2

LEMMA TimeKeepsInv ==
  ASSUME IInv, Candle \/ Silence
  PROVE  IInv'
  <1>1. stale' \in BOOLEAN /\ UNCHANGED <<wsVars, flags, monitor, kept, builder, silent, main>>
    BY DEF Candle, Silence
  <1> QED BY <1>1 DEF IInv, wsVars, flags, TypeOK, WsTypeOK, Owed, MonitorLooks,
         HookedWhenNeeded, MonitorOfKept, BuilderAlone, Building

-----------------------------------------------------------------------------
(* The reconnect monitor. It runs only while the batch holds its adapter,  *)
(* so that no build is under way.                                          *)

LEMMA MonitorKeepsInv ==
  ASSUME IInv, Monitor
  PROVE  IInv'
  <1> USE DEF IInv, Goto, GotoAfterSleep, flags, batchVars, wsVars
  <1>1. monitor # "none" => kept /\ ~Building
    BY DEF MonitorOfKept, BuilderAlone
  <1>2. CASE Watch
    BY <1>2 DEF Watch, TypeOK, WsTypeOK, Owed, MonitorLooks, HookedWhenNeeded,
                MonitorOfKept, BuilderAlone, Building
  <1>3. CASE ExitMonitor
    BY <1>3 DEF ExitMonitor, TypeOK, WsTypeOK, Owed, MonitorLooks, HookedWhenNeeded,
                MonitorOfKept, BuilderAlone, Building
  <1>4. CASE ClearFlag
    BY <1>1, <1>4 DEF ClearFlag, TypeOK, WsTypeOK, Owed, MonitorLooks, HookedWhenNeeded,
                MonitorOfKept, BuilderAlone, Building
  <1>5. CASE ClearCallbacks
    BY <1>1, <1>5 DEF ClearCallbacks, SetHooks, TypeOK, WsTypeOK, Owed, MonitorLooks,
                HookedWhenNeeded, MonitorOfKept, BuilderAlone, Building
  <1>6. CASE SetCallbacks
    BY <1>6 DEF SetCallbacks, SetHooks, TypeOK, WsTypeOK, Owed, MonitorLooks,
                HookedWhenNeeded, MonitorOfKept, BuilderAlone, Building
  <1>7. CASE Connect
    <2>1. StartConnect /\ Goto("connect", "wait") /\ UNCHANGED <<flags, batchVars, silent>>
      BY <1>7 DEF Connect
    <2>2. WsTypeOK'
      BY <2>1, StartConnectType DEF TypeOK
    <2>3. UNCHANGED <<handling, hooked>>
      BY <2>1 DEF StartConnect
    <2> QED BY <1>1, <2>1, <2>2, <2>3 DEF TypeOK, Owed, MonitorLooks, HookedWhenNeeded,
                MonitorOfKept, BuilderAlone, Building
  <1>8. CASE ConnectSucceeds
    BY <1>8 DEF ConnectSucceeds, TypeOK, WsTypeOK, Owed, MonitorLooks, HookedWhenNeeded,
                MonitorOfKept, BuilderAlone, Building
  <1>9. CASE ConnectFails
    <2>1. troubles' \in 0 .. MaxTroubles
      BY <1>9, TroubleType DEF ConnectFails, WaitFailed, TypeOK, WsTypeOK
    <2> QED BY <1>9, <2>1 DEF ConnectFails, WaitFailed, TypeOK, WsTypeOK, Owed,
                MonitorLooks, HookedWhenNeeded, MonitorOfKept, BuilderAlone, Building
  <1>10. CASE MarkConnected
    BY <1>10 DEF MarkConnected, TypeOK, WsTypeOK, Owed, MonitorLooks, HookedWhenNeeded,
                MonitorOfKept, BuilderAlone, Building
  <1> QED BY <1>2, <1>3, <1>4, <1>5, <1>6, <1>7, <1>8, <1>9, <1>10 DEF Monitor

-----------------------------------------------------------------------------
(* Building an adapter, and ending it.                                     *)

LEMMA DisconnectType ==
  ASSUME IInv, Disconnect
  PROVE  WsTypeOK' /\ Owed'
  BY DEF IInv, Disconnect, wsVars, TypeOK, WsTypeOK, Owed

LEMMA DestroyType ==
  ASSUME WsTypeOK, Destroy
  PROVE  WsTypeOK'
  BY DEF Destroy, WsTypeOK

LEMMA BuilderKeepsInv ==
  ASSUME IInv, Builder
  PROVE  IInv'
  <1> USE DEF IInv, Build, flags, wsVars
  <1>1. Building => ~kept /\ monitor = "none"
    BY DEF MonitorOfKept, BuilderAlone
  <1>2. CASE CheckHealth
    <2>1. CASE kept
      <3>1. Build("idle", "join") /\ Disconnect /\ main = "run"
            /\ UNCHANGED <<kept, stale, main>>
        BY <1>2, <2>1 DEF CheckHealth
      <3> QED BY <2>1, <3>1, DisconnectType DEF Disconnect, TypeOK, MonitorLooks,
                  HookedWhenNeeded, MonitorOfKept, BuilderAlone, Building
    <2>2. CASE ~kept
      <3>1. Build("idle", "build") /\ UNCHANGED <<wsVars, flags, monitor, silent>>
            /\ main = "run" /\ UNCHANGED <<kept, stale, main>>
        BY <1>2, <2>2 DEF CheckHealth
      <3> QED BY <2>2, <3>1 DEF TypeOK, WsTypeOK, Owed, MonitorLooks, HookedWhenNeeded,
                  MonitorOfKept, BuilderAlone, Building
    <2> QED BY <2>1, <2>2
  <1>3. CASE JoinOld
    <2>1. WsTypeOK'
      BY <1>3, DestroyType DEF JoinOld, TypeOK
    <2> QED BY <1>3, <2>1 DEF JoinOld, Destroy, TypeOK, Owed, MonitorLooks,
                HookedWhenNeeded, MonitorOfKept, BuilderAlone, Building
  <1>4. CASE NewAdapter
    BY <1>1, <1>4 DEF NewAdapter, TypeOK, WsTypeOK, Owed, MonitorLooks, HookedWhenNeeded,
                MonitorOfKept, BuilderAlone, Building
  <1>5. CASE FirstConnect
    <2>1. WsTypeOK'
      BY <1>5, StartConnectType DEF FirstConnect, TypeOK
    <2>2. UNCHANGED <<handling, hooked>>
      BY <1>5 DEF FirstConnect, StartConnect
    <2> QED BY <1>1, <1>5, <2>1, <2>2 DEF FirstConnect, TypeOK, Owed, MonitorLooks,
                HookedWhenNeeded, MonitorOfKept, BuilderAlone, Building
  <1>6. CASE FirstConnectSucceeds
    BY <1>6 DEF FirstConnectSucceeds, TypeOK, WsTypeOK, Owed, MonitorLooks,
                HookedWhenNeeded, MonitorOfKept, BuilderAlone, Building
  <1>7. CASE KeepAdapter
    BY <1>7 DEF KeepAdapter, TypeOK, WsTypeOK, Owed, MonitorLooks, HookedWhenNeeded,
                MonitorOfKept, BuilderAlone, Building
  <1>8. CASE FirstConnectFails
    <2>1. troubles' \in 0 .. MaxTroubles
      BY <1>8, TroubleType DEF FirstConnectFails, TypeOK, WsTypeOK
    <2> QED BY <1>1, <1>8, <2>1 DEF FirstConnectFails, TypeOK, WsTypeOK, Owed,
                MonitorLooks, HookedWhenNeeded, MonitorOfKept, BuilderAlone, Building
  <1> QED BY <1>2, <1>3, <1>4, <1>5, <1>6, <1>7, <1>8 DEF Builder

LEMMA EndKeepsInv ==
  ASSUME IInv, Stop \/ Ending
  PROVE  IInv'
  <1> USE DEF IInv, flags, wsVars
  <1>1. CASE Stop
    BY <1>1 DEF Stop, TypeOK, WsTypeOK, Owed, MonitorLooks, HookedWhenNeeded,
                MonitorOfKept, BuilderAlone, Building
  <1>2. CASE JoinHealth
    BY <1>2 DEF JoinHealth, TypeOK, WsTypeOK, Owed, MonitorLooks, HookedWhenNeeded,
                MonitorOfKept, BuilderAlone, Building
  <1>3. CASE EndAdapter
    BY <1>3, DisconnectType DEF EndAdapter, Disconnect, TypeOK, MonitorLooks,
                HookedWhenNeeded, MonitorOfKept, BuilderAlone, Building
  <1>4. CASE JoinMonitor
    <2>1. WsTypeOK'
      BY <1>4, DestroyType DEF JoinMonitor, TypeOK
    <2> QED BY <1>4, <2>1 DEF JoinMonitor, Destroy, TypeOK, Owed, MonitorLooks,
                HookedWhenNeeded, MonitorOfKept, BuilderAlone, Building
  <1> QED BY <1>1, <1>2, <1>3, <1>4 DEF Ending

-----------------------------------------------------------------------------
LEMMA StepKeepsInv ==
  ASSUME IInv, [Next]_vars
  PROVE  IInv'
  <1>1. CASE Next
    BY <1>1, OpenKeepsInv, LoseKeepsInv, StallKeepsInv, CallbackKeepsInv, TimeKeepsInv,
       MonitorKeepsInv, BuilderKeepsInv, EndKeepsInv DEF Next
  <1>2. CASE UNCHANGED vars
    BY <1>2 DEF vars, wsVars, flags, batchVars, IInv, TypeOK, WsTypeOK, Owed, MonitorLooks,
                HookedWhenNeeded, MonitorOfKept, BuilderAlone, Building
  <1> QED BY <1>1, <1>2

LEMMA InvAlways == Spec => []IInv
  BY InitInv, StepKeepsInv, PTL DEF Spec

(* Every reachable state of a batch is well typed: whatever the network    *)
(* and the threads do, the flags, program counters and connection objects  *)
(* of BinanceWebSocket and main stay among those the code knows.           *)
THEOREM TypeCorrect == Spec => []TypeOK
  <1>1. IInv => TypeOK
    BY DEF IInv
  <1> QED BY <1>1, InvAlways, PTL

(* A batch that is down while its monitor waits in its loop has            *)
(* need_reconnect_ set, so that the monitor will reconnect it.             *)
THEOREM DropsNoticed == Spec => []DropNoticed
  <1>1. IInv => DropNoticed
    BY DEF IInv, Owed, MonitorLooks, DropNoticed
  <1> QED BY <1>1, InvAlways, PTL

-----------------------------------------------------------------------------
(* Signed requests.                                                        *)

CallState ==
  [doing: {"nothing", "construct", "call", "query"},
   at: {"idle", "ask", "told", "ready", "out"},
   signed: BOOLEAN, lead: Int, slack: Int, elapsed: Int, reading: Int,
   age: Nat, moved: Nat, first: BOOLEAN, retry: Nat]
SyncState == [known: BOOLEAN, moved: Nat, trip: Nat]

RestTyped ==
  /\ skew \in Int /\ offset \in Int
  /\ thread \in [Threads -> CallState] /\ synced \in SyncState

(* While it asks for the time, a thread measures the true age but for the  *)
(* moves of its clock; what it was told was true within that age; and a    *)
(* request is ahead of the exchange by no more than its slack.             *)
ThreadOK(th, k) ==
  /\ th.at \in {"ask", "told"} =>
       th.age - th.elapsed <= th.moved /\ th.elapsed - th.age <= th.moved
  /\ th.at = "told" => 0 <= k + th.elapsed - th.reading /\ k + th.elapsed - th.reading <= th.age
  /\ th.at = "out" /\ th.slack >= 0 => Magnitude(th.lead) <= th.slack
ThreadsOK == \A t \in Threads : ThreadOK(thread[t], skew)

(* Only the order thread synchronises.                                     *)
CallsOnly(th) == th.at \notin {"ask", "told"} /\ th.doing \in {"nothing", "call"}
MonitorCalls == CallsOnly(thread["monitor"])

(* A query's second attempt in a time without trouble has a fresh offset.  *)
Fresh(th, sync) ==
  /\ th.at \in {"ask", "told"} => th.age <= Prompt /\ th.moved = 0
  /\ th.at = "ready" =>
       th.signed /\ th.age = 0 /\ sync.known /\ sync.moved = 0 /\ sync.trip <= Prompt
  /\ th.at = "out" => th.age <= Prompt /\ 0 <= th.slack /\ th.slack <= (Prompt + 1) \div 2
SecondAttempt(th) == th.doing = "query" /\ th.first
SecondFresh == SecondAttempt(thread["order"]) /\ ~disturbed => Fresh(thread["order"], synced)

RestInv == /\ RestTyped /\ ThreadsOK /\ MonitorCalls /\ SecondFresh
           /\ OffsetWithinHalfTrip /\ QueryErrsInTroubleOnly

LEMMA MagnitudeBound ==
  ASSUME NEW n \in Int, NEW b \in Int
  PROVE  /\ Magnitude(n) \in Nat
         /\ Magnitude(n) <= b <=> n <= b /\ -n <= b
  BY DEF Magnitude

LEMMA HalfTrip ==
  ASSUME NEW e \in Int, NEW age \in Nat, NEW mv \in Nat, NEW x \in Int,
         age - e <= mv, e - age <= mv, 0 <= x, x <= age
  PROVE  Magnitude(e - x - e \div 2) <= mv + (age + 1) \div 2
  <1>1. PICK h \in Int, k \in Int : h = e \div 2 /\ k = (age + 1) \div 2
    OBVIOUS
  <1>2. 2 * h <= e /\ e <= 2 * h + 1 /\ 2 * k <= age + 1 /\ age + 1 <= 2 * k + 1
    BY <1>1
  <1>3. e - x - h <= mv + k /\ -(e - x - h) <= mv + k
    BY <1>2
  <1> QED BY <1>1, <1>3, MagnitudeBound

LEMMA NothingIdle ==
  /\ Nothing \in CallState /\ Construct \in CallState
  /\ Nothing.at = "idle" /\ Nothing.doing = "nothing" /\ ~Nothing.first
  /\ Construct.at = "ask" /\ Construct.doing = "construct" /\ ~Construct.first
  /\ Construct.age = 0 /\ Construct.elapsed = 0 /\ Construct.moved = 0
  <1>1. Nothing \in CallState
    BY DEF Nothing, CallState
  <1>2. Construct \in CallState
    BY <1>1 DEF Construct, CallState
  <1> QED BY <1>1, <1>2 DEF Nothing, Construct

LEMMA ReadyState ==
  ASSUME NEW th \in CallState, NEW signed \in BOOLEAN
  PROVE  /\ Ready(th, signed) \in CallState
         /\ Ready(th, signed).at = "ready" /\ Ready(th, signed).doing = th.doing
         /\ Ready(th, signed).first = th.first
         /\ Ready(th, signed).signed = signed /\ Ready(th, signed).age = 0
  <1>1. PICK d \in {"nothing", "construct", "call", "query"}, f \in BOOLEAN, r \in Nat :
          d = th.doing /\ f = th.first /\ r = th.retry
    <2>1. th.first \in BOOLEAN
      BY DEF CallState
    <2>2. th.doing \in {"nothing", "construct", "call", "query"} /\ th.retry \in Nat
      BY DEF CallState
    <2> QED BY <2>1, <2>2
  <1>2. Ready(th, signed) = [Nothing EXCEPT !.doing = d, !.at = "ready", !.signed = signed,
                                            !.first = f, !.retry = r]
    BY <1>1 DEF Ready
  <1>3. Ready(th, signed) \in CallState
    BY <1>2, NothingIdle DEF CallState
  <1>4. /\ Ready(th, signed).at = "ready" /\ Ready(th, signed).doing = th.doing
        /\ Ready(th, signed).age = 0
    BY DEF Ready, Nothing, CallState
  <1>5. Ready(th, signed).first = th.first
    BY DEF Ready, Nothing, CallState
  <1>6. Ready(th, signed).signed = signed
    BY DEF Ready, Nothing, CallState
  <1> QED BY <1>3, <1>4, <1>5, <1>6

LEMMA RestStarts == RestInit => RestInv
  <1> SUFFICES ASSUME RestInit PROVE RestInv
    OBVIOUS
  <1>1. /\ skew \in Int /\ offset = 0 /\ synced = Unsynced /\ reported = "nothing"
        /\ thread["order"] = Construct /\ thread["monitor"] = Nothing
        /\ \A t \in Threads : t = "order" \/ t = "monitor"
    BY WindowAssumption DEF RestInit, Threads
  <1>2. RestTyped
    BY <1>1, NothingIdle DEF RestInit, RestTyped, SyncState, Unsynced
  <1>3. ThreadOK(Construct, skew) /\ ThreadOK(Nothing, skew)
    BY NothingIdle DEF ThreadOK
  <1>4. ThreadsOK /\ MonitorCalls /\ SecondFresh
    BY <1>1, <1>3, NothingIdle DEF ThreadsOK, MonitorCalls, CallsOnly, SecondFresh, SecondAttempt
  <1>5. OffsetWithinHalfTrip /\ QueryErrsInTroubleOnly
    BY <1>1 DEF OffsetWithinHalfTrip, Unsynced, QueryErrsInTroubleOnly
  <1> QED BY <1>2, <1>4, <1>5 DEF RestInv

(* One thread goes on; the clocks stand still.                             *)
LEMMA OneGoes ==
  ASSUME RestInv, NEW t \in Threads, NEW new \in CallState, Goes(t, new),
         skew' = skew, offset' \in Int, synced' \in SyncState, ThreadOK(new, skew),
         t = "monitor" => CallsOnly(new) /\ synced' = synced /\ (disturbed => disturbed'),
         t = "order" => (SecondAttempt(new) /\ ~disturbed' => Fresh(new, synced')),
         OffsetWithinHalfTrip', QueryErrsInTroubleOnly'
  PROVE  RestInv'
  <1>1. /\ thread' \in [Threads -> CallState] /\ thread'[t] = new
        /\ \A u \in Threads : u # t => thread'[u] = thread[u]
    BY DEF Goes, RestInv, RestTyped
  <1>2. RestTyped'
    BY <1>1 DEF RestInv, RestTyped
  <1>3. "order" \in Threads /\ "monitor" \in Threads /\ (t = "order" \/ t = "monitor")
    BY DEF Threads
  <1>4. ThreadsOK'
    <2>1. ASSUME NEW u \in Threads PROVE ThreadOK(thread'[u], skew')
      <3>1. CASE u = t
        BY <1>1, <3>1
      <3>2. CASE u # t
        <4>1. ThreadOK(thread[u], skew)
          BY DEF RestInv, ThreadsOK
        <4> QED BY <1>1, <3>2, <4>1
      <3> QED BY <3>1, <3>2
    <2> QED BY <2>1 DEF ThreadsOK, ThreadOK, Magnitude
  <1>5. MonitorCalls'
    <2>1. CASE t = "monitor"
      BY <1>1, <2>1 DEF MonitorCalls, CallsOnly
    <2>2. CASE t = "order"
      BY <1>1, <1>3, <2>2 DEF RestInv, MonitorCalls, CallsOnly
    <2> QED BY <1>3, <2>1, <2>2
  <1>6. SecondFresh'
    <2>1. CASE t = "order"
      BY <1>1, <2>1 DEF SecondFresh, SecondAttempt, Fresh
    <2>2. CASE t = "monitor"
      <3>1. thread'["order"] = thread["order"] /\ synced' = synced
        BY <1>1, <1>3, <2>2
      <3> QED BY <2>2, <3>1 DEF RestInv, SecondFresh, SecondAttempt, Fresh
    <2> QED BY <1>3, <2>1, <2>2
  <1> QED BY <1>2, <1>4, <1>5, <1>6 DEF RestInv

LEMMA TimeKeepsRest == RestInv /\ TimeTicks => RestInv'
  <1> SUFFICES ASSUME RestInv, TimeTicks PROVE RestInv'
    OBVIOUS
  <1>1. /\ thread' = [t \in Threads |->
              [thread[t] EXCEPT !.age = @ + (IF Flying(t) THEN 1 ELSE 0),
                                !.elapsed = @ + (IF Synchronising(t) THEN 1 ELSE 0)]]
        /\ UNCHANGED <<skew, offset, synced, reported>>
    BY DEF TimeTicks
  <1>2. thread \in [Threads -> CallState] /\ skew \in Int /\ "order" \in Threads
        /\ "monitor" \in Threads
    BY DEF RestInv, RestTyped, Threads
  <1>3. ASSUME NEW t \in Threads
        PROVE  /\ thread'[t] \in CallState
               /\ thread'[t].age = thread[t].age + (IF Flying(t) THEN 1 ELSE 0)
               /\ thread'[t].elapsed = thread[t].elapsed + (IF Synchronising(t) THEN 1 ELSE 0)
               /\ thread'[t].at = thread[t].at /\ thread'[t].doing = thread[t].doing
               /\ thread'[t].moved = thread[t].moved /\ thread'[t].reading = thread[t].reading
               /\ thread'[t].slack = thread[t].slack /\ thread'[t].lead = thread[t].lead
               /\ thread'[t].first = thread[t].first /\ thread'[t].signed = thread[t].signed
    <2>1. PICK th \in CallState : th = thread[t]
      BY <1>2
    <2>2. PICK a \in {0, 1}, b \in {0, 1} :
            /\ a = (IF Flying(t) THEN 1 ELSE 0) /\ b = (IF Synchronising(t) THEN 1 ELSE 0)
      OBVIOUS
    <2>3. thread'[t] = [th EXCEPT !.age = @ + a, !.elapsed = @ + b]
      BY <1>1, <2>1, <2>2
    <2>4. PICK x \in Nat, y \in Int : x = th.age + a /\ y = th.elapsed + b
      BY <2>2 DEF CallState
    <2>5. thread'[t] = [th EXCEPT !.age = x, !.elapsed = y]
      BY <2>3, <2>4
    <2>6. thread'[t] \in CallState
      BY <2>5 DEF CallState
    <2>7. thread'[t].age = x /\ thread'[t].elapsed = y
      BY <2>5 DEF CallState
    <2>8. /\ thread'[t].at = th.at /\ thread'[t].doing = th.doing
          /\ thread'[t].moved = th.moved /\ thread'[t].reading = th.reading
          /\ thread'[t].slack = th.slack /\ thread'[t].lead = th.lead
      BY <2>5 DEF CallState
    <2>9. thread'[t].first = th.first
      BY <2>5 DEF CallState
    <2>10. thread'[t].signed = th.signed
      BY <2>5 DEF CallState
    <2> QED BY <2>1, <2>2, <2>4, <2>6, <2>7, <2>8, <2>9, <2>10
  <1>4. RestTyped'
    <2>1. thread' \in [Threads -> CallState]
      BY <1>1, <1>3
    <2> QED BY <1>1, <2>1 DEF RestInv, RestTyped
  <1>5. ThreadsOK'
    <2> SUFFICES ASSUME NEW t \in Threads PROVE ThreadOK(thread'[t], skew')
      BY DEF ThreadsOK, ThreadOK, Magnitude
    <2>1. ThreadOK(thread[t], skew)
      BY DEF RestInv, ThreadsOK
    <2>2. thread[t] \in CallState
      BY <1>2
    <2>3. CASE thread[t].at \in {"ask", "told"}
      <3>1. Flying(t) /\ Synchronising(t)
        BY <2>3 DEF Flying, Synchronising
      <3>2. /\ thread[t].age \in Nat /\ thread[t].elapsed \in Int
            /\ thread[t].moved \in Nat /\ thread[t].reading \in Int
        BY <2>2 DEF CallState
      <3>3. /\ thread'[t].age = thread[t].age + 1 /\ thread'[t].elapsed = thread[t].elapsed + 1
            /\ thread'[t].at = thread[t].at /\ thread'[t].moved = thread[t].moved
            /\ thread'[t].reading = thread[t].reading
        BY <1>3, <3>1
      <3>4. skew' = skew /\ skew \in Int /\ thread[t].at # "out"
        BY <1>1, <1>2, <2>3
      <3>5. PICK a \in Nat, e \in Int, m \in Nat, r \in Int :
              /\ a = thread[t].age /\ e = thread[t].elapsed
              /\ m = thread[t].moved /\ r = thread[t].reading
        BY <3>2
      <3>6. /\ a - e <= m /\ e - a <= m
            /\ thread[t].at = "told" => 0 <= skew + e - r /\ skew + e - r <= a
        BY <2>1, <2>3, <3>5 DEF ThreadOK
      <3>7. /\ (a + 1) - (e + 1) <= m /\ (e + 1) - (a + 1) <= m
            /\ thread[t].at = "told" => 0 <= skew + (e + 1) - r /\ skew + (e + 1) - r <= a + 1
        BY <3>4, <3>6
      <3> QED BY <3>3, <3>4, <3>5, <3>7 DEF ThreadOK
    <2>4. CASE thread[t].at \notin {"ask", "told"}
      BY <1>3, <2>1, <2>4 DEF ThreadOK
    <2> QED BY <2>3, <2>4
  <1>6. MonitorCalls'
    BY <1>2, <1>3 DEF RestInv, MonitorCalls, CallsOnly
  <1>7. disturbed => disturbed'
    BY DEF TimeTicks, Troubles
  <1>8. SecondFresh'
    <2> SUFFICES ASSUME SecondAttempt(thread["order"]), ~disturbed' PROVE Fresh(thread'["order"], synced)
      BY <1>1, <1>2, <1>3 DEF SecondFresh, SecondAttempt, Fresh
    <2>1. Fresh(thread["order"], synced) /\ thread["order"] \in CallState
      BY <1>2, <1>7 DEF RestInv, SecondFresh
    <2>2. ~Late("order")
      BY DEF TimeTicks, Troubles
    <2>3. Prompt \in Nat
      BY WindowAssumption
    <2>4. Flying("order") => thread["order"].age + 1 <= Prompt
      BY <2>1, <2>2, <2>3 DEF Late, CallState
    <2> QED BY <1>2, <1>3, <2>1, <2>4 DEF Fresh, Flying
  <1>9. OffsetWithinHalfTrip' /\ QueryErrsInTroubleOnly'
    BY <1>1, <1>7 DEF RestInv, OffsetWithinHalfTrip, Slack, QueryErrsInTroubleOnly
  <1> QED BY <1>4, <1>5, <1>6, <1>8, <1>9 DEF RestInv

LEMMA ClocksKeepRest ==
  ASSUME RestInv, NEW d \in {-1, 1}, ClockMoves(d)
  PROVE  RestInv'
  <1>1. /\ skew' = skew + d /\ disturbed'
        /\ thread' = [t \in Threads |->
             IF Synchronising(t) THEN [thread[t] EXCEPT !.elapsed = @ - d, !.moved = @ + 1]
             ELSE thread[t]]
        /\ synced' = [synced EXCEPT !.moved = IF synced.known THEN @ + 1 ELSE @]
        /\ UNCHANGED <<offset, reported>>
    BY DEF ClockMoves
  <1>2. /\ thread \in [Threads -> CallState] /\ skew \in Int /\ offset \in Int
        /\ synced \in SyncState /\ "monitor" \in Threads
    BY DEF RestInv, RestTyped, Threads
  <1>3. ASSUME NEW t \in Threads
        PROVE  thread'[t] \in CallState /\ ThreadOK(thread'[t], skew')
    <2>1. PICK th \in CallState : th = thread[t]
      BY <1>2
    <2>2. ThreadOK(th, skew)
      BY <2>1 DEF RestInv, ThreadsOK
    <2>3. CASE Synchronising(t)
      <3>1. PICK new : new = thread'[t]
        OBVIOUS
      <3>2. new = [th EXCEPT !.elapsed = @ - d, !.moved = @ + 1]
        BY <1>1, <2>1, <2>3, <3>1
      <3>3. /\ new \in CallState /\ new.elapsed = th.elapsed - d /\ new.moved = th.moved + 1
            /\ new.at = th.at /\ new.age = th.age /\ new.reading = th.reading
        <4>1. PICK x \in Int, y \in Nat : x = th.elapsed - d /\ y = th.moved + 1
          BY DEF CallState
        <4>2. new = [th EXCEPT !.elapsed = x, !.moved = y]
          BY <3>2, <4>1
        <4>3. new \in CallState
          BY <4>2 DEF CallState
        <4>4. /\ new.elapsed = x /\ new.moved = y
              /\ new.at = th.at /\ new.age = th.age /\ new.reading = th.reading
          BY <4>2 DEF CallState
        <4> QED BY <4>1, <4>3, <4>4
      <3>4. th.at \in {"ask", "told"}
        BY <2>1, <2>3 DEF Synchronising
      <3>5. ThreadOK(new, skew + d)
        BY <1>2, <2>2, <3>3, <3>4 DEF ThreadOK, CallState
      <3> QED BY <1>1, <3>1, <3>3, <3>5
    <2>4. CASE ~Synchronising(t)
      <3>1. thread'[t] = th /\ th.at \notin {"ask", "told"}
        BY <1>1, <2>1, <2>4 DEF Synchronising
      <3>2. ThreadOK(th, skew')
        BY <2>2, <3>1 DEF ThreadOK
      <3> QED BY <3>1, <3>2
    <2> QED BY <2>3, <2>4
  <1>4. /\ synced' \in SyncState /\ synced'.known = synced.known /\ synced'.trip = synced.trip
        /\ synced'.moved = IF synced.known THEN synced.moved + 1 ELSE synced.moved
    <2>1. PICK sync \in SyncState : sync = synced
      BY <1>2
    <2>2. PICK n \in Nat : n = IF sync.known THEN sync.moved + 1 ELSE sync.moved
      BY DEF SyncState
    <2>3. synced' = [sync EXCEPT !.moved = n]
      BY <1>1, <2>1, <2>2
    <2>4. synced' \in SyncState
      BY <2>3 DEF SyncState
    <2>5. synced'.known = sync.known
      BY <2>3 DEF SyncState
    <2>6. synced'.trip = sync.trip /\ synced'.moved = n
      BY <2>3 DEF SyncState
    <2> QED BY <2>1, <2>2, <2>4, <2>5, <2>6
  <1>5. RestTyped'
    <2>1. thread' \in [Threads -> CallState]
      BY <1>1, <1>3
    <2>2. skew' = skew + d /\ offset' = offset
      BY <1>1
    <2>3. skew' \in Int /\ offset' \in Int
      BY <1>2, <2>2
    <2> QED BY <1>4, <2>1, <2>3 DEF RestTyped
  <1>6. ThreadsOK'
    BY <1>3 DEF ThreadsOK, ThreadOK, Magnitude
  <1>7. MonitorCalls'
    <2>1. thread'["monitor"] = thread["monitor"]
      BY <1>1, <1>2 DEF RestInv, MonitorCalls, CallsOnly, Synchronising
    <2> QED BY <2>1 DEF RestInv, MonitorCalls, CallsOnly
  <1>8. SecondFresh' /\ QueryErrsInTroubleOnly'
    BY <1>1 DEF SecondFresh, QueryErrsInTroubleOnly
  <1>9. OffsetWithinHalfTrip'
    <2> SUFFICES ASSUME synced.known
                 PROVE  Magnitude(offset - (skew + d)) <= synced'.moved + (synced'.trip + 1) \div 2
      BY <1>1, <1>4 DEF OffsetWithinHalfTrip, Slack, Magnitude
    <2>1. PICK n \in Int, k \in Int : n = offset - skew /\ k = synced.moved + (synced.trip + 1) \div 2
      BY <1>2 DEF SyncState
    <2>2. Magnitude(n) <= k
      BY <2>1 DEF RestInv, OffsetWithinHalfTrip, Slack
    <2>3. n <= k /\ -n <= k
      BY <2>1, <2>2, MagnitudeBound
    <2>4. n - d <= k + 1 /\ -(n - d) <= k + 1
      BY <2>1, <2>3
    <2>5. Magnitude(n - d) <= k + 1
      BY <2>1, <2>4, MagnitudeBound
    <2>6. n - d = offset - (skew + d)
      BY <1>2, <2>1
    <2>7. k + 1 = synced'.moved + (synced'.trip + 1) \div 2
      BY <1>2, <1>4, <2>1 DEF SyncState
    <2> QED BY <2>5, <2>6, <2>7
  <1> QED BY <1>5, <1>6, <1>7, <1>8, <1>9 DEF RestInv

LEMMA AskKeepsRest ==
  ASSUME RestInv, NEW t \in Threads, GetServerTime(t)
  PROVE  RestInv'
  <1>1. PICK th \in CallState : th = thread[t]
    BY DEF RestInv, RestTyped
  <1>2. PICK new : new = [th EXCEPT !.at = "told", !.reading = skew + th.elapsed]
    OBVIOUS
  <1>3. /\ th.at = "ask" /\ Goes(t, new)
        /\ UNCHANGED <<skew, offset, synced, disturbed, reported>>
    BY <1>1, <1>2 DEF GetServerTime
  <1>4. skew \in Int /\ offset \in Int /\ synced \in SyncState /\ th.age \in Nat /\ th.elapsed \in Int
    BY DEF RestInv, RestTyped, CallState
  <1>5. PICK x \in Int : x = skew + th.elapsed
    BY <1>4
  <1>6. new = [th EXCEPT !.at = "told", !.reading = x]
    BY <1>2, <1>5
  <1>7. new \in CallState
    BY <1>6 DEF CallState
  <1>8. /\ new.at = "told" /\ new.reading = x /\ new.elapsed = th.elapsed /\ new.age = th.age
        /\ new.moved = th.moved /\ new.doing = th.doing
    BY <1>6 DEF CallState
  <1>9. new.first = th.first
    BY <1>6 DEF CallState
  <1>10. ThreadOK(th, skew)
    BY <1>1 DEF RestInv, ThreadsOK
  <1>11. ThreadOK(new, skew)
    <2>1. skew + th.elapsed - x = 0
      BY <1>4, <1>5
    <2> QED BY <1>3, <1>4, <1>8, <1>10, <2>1 DEF ThreadOK
  <1>12. t = "order"
    BY <1>1, <1>3 DEF RestInv, MonitorCalls, CallsOnly, Threads
  <1>13. SecondAttempt(new) /\ ~disturbed' => Fresh(new, synced')
    <2> SUFFICES ASSUME SecondAttempt(new), ~disturbed' PROVE Fresh(new, synced')
      OBVIOUS
    <2>1. SecondAttempt(th) /\ ~disturbed
      BY <1>3, <1>8, <1>9 DEF SecondAttempt
    <2>2. Fresh(th, synced)
      BY <1>1, <1>12, <2>1 DEF RestInv, SecondFresh
    <2> QED BY <1>3, <1>8, <2>2 DEF Fresh
  <1>14. OffsetWithinHalfTrip' /\ QueryErrsInTroubleOnly'
    BY <1>3 DEF RestInv, OffsetWithinHalfTrip, Slack, QueryErrsInTroubleOnly
  <1> QED BY <1>3, <1>4, <1>7, <1>11, <1>12, <1>13, <1>14, OneGoes

LEMMA SyncKeepsRest ==
  ASSUME RestInv, NEW t \in Threads, SyncServerTime(t)
  PROVE  RestInv'
  <1>1. PICK th \in CallState : th = thread[t]
    BY DEF RestInv, RestTyped
  <1>2. PICK new : new = IF Constructed THEN Ready(th, TRUE) ELSE Nothing
    OBVIOUS
  <1>3. /\ th.at = "told" /\ Goes(t, new) /\ offset' = OffsetOf(th)
        /\ synced' = [known |-> TRUE, moved |-> th.moved, trip |-> th.age]
        /\ UNCHANGED <<skew, disturbed, reported>>
    BY <1>1, <1>2 DEF SyncServerTime
  <1>4. /\ skew \in Int /\ th.age \in Nat /\ th.moved \in Nat
        /\ th.elapsed \in Int /\ th.reading \in Int
    BY DEF RestInv, RestTyped, CallState
  <1>5. PICK e \in Int, age \in Nat, mv \in Nat, r \in Int :
          e = th.elapsed /\ age = th.age /\ mv = th.moved /\ r = th.reading
    BY <1>4
  <1>6. PICK h \in Int : h = e \div 2
    OBVIOUS
  <1>7. offset' = r - h /\ offset' \in Int
    BY <1>3, <1>5, <1>6 DEF OffsetOf
  <1>8. synced' \in SyncState /\ synced'.moved = mv /\ synced'.trip = age /\ synced'.known
    BY <1>3, <1>5 DEF SyncState
  <1>9. t = "order"
    BY <1>1, <1>3 DEF RestInv, MonitorCalls, CallsOnly, Threads
  <1>10. /\ new \in CallState /\ new.at \in {"ready", "idle"}
         /\ new.at = "ready" => new.signed /\ new.age = 0
         /\ SecondAttempt(new) => SecondAttempt(th) /\ new.at = "ready"
    <2>1. CASE Constructed
      <3>1. /\ new \in CallState /\ new.at = "ready" /\ new.doing = th.doing
            /\ new.first = th.first /\ new.signed /\ new.age = 0
        BY <1>2, <2>1, ReadyState
      <3> QED BY <3>1 DEF SecondAttempt
    <2>2. CASE ~Constructed
      BY <1>2, <2>2, NothingIdle DEF SecondAttempt
    <2> QED BY <2>1, <2>2
  <1>11. ThreadOK(new, skew)
    BY <1>10 DEF ThreadOK
  <1>12. SecondAttempt(new) /\ ~disturbed' => Fresh(new, synced')
    <2> SUFFICES ASSUME SecondAttempt(new), ~disturbed' PROVE Fresh(new, synced')
      OBVIOUS
    <2>1. SecondAttempt(th) /\ ~disturbed /\ new.at = "ready" /\ new.signed /\ new.age = 0
      BY <1>3, <1>10
    <2>2. Fresh(th, synced)
      BY <1>1, <1>9, <2>1 DEF RestInv, SecondFresh
    <2> QED BY <1>3, <1>5, <1>8, <2>1, <2>2 DEF Fresh
  <1>13. OffsetWithinHalfTrip'
    <2>1. PICK x \in Int : x = skew + e - r
      BY <1>4
    <2>2. /\ age - e <= mv /\ e - age <= mv /\ 0 <= x /\ x <= age
      BY <1>1, <1>3, <1>5, <2>1 DEF RestInv, ThreadsOK, ThreadOK
    <2>3. Magnitude(e - x - e \div 2) <= mv + (age + 1) \div 2
      BY <2>2, HalfTrip
    <2>4. e - x - e \div 2 = offset' - skew'
      BY <1>3, <1>4, <1>6, <1>7, <2>1
    <2> QED BY <1>8, <2>3, <2>4 DEF OffsetWithinHalfTrip, Slack
  <1>14. QueryErrsInTroubleOnly'
    BY <1>3 DEF RestInv, QueryErrsInTroubleOnly
  <1> QED BY <1>3, <1>7, <1>8, <1>9, <1>10, <1>11, <1>12, <1>13, <1>14, OneGoes

(* A call of either thread begins.                                         *)
LEMMA CallKeepsRest ==
  ASSUME RestInv, NEW t \in Threads, CallBegins(t)
  PROVE  RestInv'
  <1>1. PICK c \in StreamCalls \cup MarketCalls \cup OrderCalls \cup AccountCalls :
          Goes(t, Ready([Nothing EXCEPT !.doing = "call"], Signed(c)))
    BY DEF CallBegins
  <1>2. PICK call : call = [Nothing EXCEPT !.doing = "call"]
    OBVIOUS
  <1>3. call \in CallState /\ call.doing = "call" /\ ~call.first
    BY <1>2, NothingIdle DEF Nothing, CallState
  <1>4. PICK signed \in BOOLEAN : signed = Signed(c)
    <2>1. CASE Signed(c)
      <3>1. TRUE = Signed(c)
        BY <2>1 DEF Signed
      <3> QED BY <3>1
    <2>2. CASE ~Signed(c)
      <3>1. FALSE = Signed(c)
        BY <2>2 DEF Signed
      <3> QED BY <3>1
    <2> QED BY <2>1, <2>2
  <1>5. PICK new : new = Ready(call, signed)
    OBVIOUS
  <1>6. Goes(t, new)
    BY <1>1, <1>2, <1>4, <1>5
  <1>7. new \in CallState /\ new.at = "ready" /\ new.doing = "call"
    BY <1>3, <1>5, ReadyState
  <1>8. UNCHANGED <<skew, offset, synced, disturbed, reported>>
    BY DEF CallBegins
  <1>9. offset \in Int /\ synced \in SyncState
    BY DEF RestInv, RestTyped
  <1>10. ThreadOK(new, skew) /\ CallsOnly(new) /\ ~SecondAttempt(new)
    BY <1>7 DEF ThreadOK, CallsOnly, SecondAttempt
  <1>11. OffsetWithinHalfTrip' /\ QueryErrsInTroubleOnly'
    BY <1>8 DEF RestInv, OffsetWithinHalfTrip, Slack, QueryErrsInTroubleOnly
  <1> QED BY <1>6, <1>7, <1>8, <1>9, <1>10, <1>11, OneGoes

LEMMA SlackTyped ==
  ASSUME RestInv, synced.known
  PROVE  Slack \in Nat /\ synced.moved \in Nat /\ synced.trip \in Nat
  <1>1. PICK m \in Nat, n \in Nat : m = synced.moved /\ n = synced.trip
    BY DEF RestInv, RestTyped, SyncState
  <1>2. PICK k \in Int : k = (n + 1) \div 2
    OBVIOUS
  <1>3. 2 * k <= n + 1 /\ n + 1 <= 2 * k + 1
    BY <1>2
  <1>4. k \in Nat
    BY <1>3
  <1> QED BY <1>1, <1>2, <1>4 DEF Slack

LEMMA SendKeepsRest ==
  ASSUME RestInv, NEW t \in Threads, SendRequest(t)
  PROVE  RestInv'
  <1>1. PICK th \in CallState : th = thread[t]
    BY DEF RestInv, RestTyped
  <1>2. skew \in Int /\ offset \in Int /\ synced \in SyncState
    BY DEF RestInv, RestTyped
  <1>3. PICK lead \in Int : lead = IF th.signed THEN offset - skew ELSE 0
    <2>1. PICK d \in Int : d = offset - skew
      BY <1>2
    <2>2. CASE th.signed
      BY <2>1, <2>2
    <2>3. CASE ~th.signed
      BY <2>3
    <2> QED BY <2>2, <2>3
  <1>4. PICK slack \in Int : slack = IF synced.known THEN Slack ELSE -1
    BY SlackTyped
  <1>5. PICK new : new = [th EXCEPT !.at = "out", !.lead = lead, !.slack = slack]
    OBVIOUS
  <1>6. th.at = "ready" /\ Goes(t, new) /\ UNCHANGED <<skew, offset, synced, disturbed, reported>>
    BY <1>1, <1>3, <1>4, <1>5 DEF SendRequest, GetTimestamp
  <1>7. new \in CallState
    BY <1>5 DEF CallState
  <1>8. /\ new.at = "out" /\ new.lead = lead /\ new.slack = slack
        /\ new.age = th.age /\ new.doing = th.doing
    BY <1>5 DEF CallState
  <1>9. new.first = th.first
    BY <1>5 DEF CallState
  <1>10. ThreadOK(new, skew)
    <2> SUFFICES ASSUME slack >= 0 PROVE Magnitude(lead) <= slack
      BY <1>8 DEF ThreadOK
    <2>1. synced.known /\ slack = Slack
      BY <1>4
    <2>2. Magnitude(offset - skew) <= slack
      BY <2>1 DEF RestInv, OffsetWithinHalfTrip
    <2>3. Magnitude(0) <= slack
      BY DEF Magnitude
    <2> QED BY <1>3, <2>2, <2>3
  <1>11. t = "monitor" => CallsOnly(new)
    BY <1>1, <1>8 DEF RestInv, MonitorCalls, CallsOnly
  <1>12. t = "order" => (SecondAttempt(new) /\ ~disturbed' => Fresh(new, synced'))
    <2> SUFFICES ASSUME t = "order", SecondAttempt(new), ~disturbed' PROVE Fresh(new, synced')
      OBVIOUS
    <2>1. SecondAttempt(th) /\ ~disturbed
      BY <1>6, <1>8, <1>9 DEF SecondAttempt
    <2>2. Fresh(th, synced)
      BY <1>1, <2>1 DEF RestInv, SecondFresh
    <2>3. synced.known /\ synced.moved = 0 /\ synced.trip <= Prompt
      BY <1>6, <2>2 DEF Fresh
    <2>4. slack = Slack /\ Slack \in Nat /\ synced.trip \in Nat
      BY <1>4, <2>3, SlackTyped
    <2>5. slack <= (Prompt + 1) \div 2
      <3>1. PICK p \in Nat, n \in Nat : p = Prompt /\ n = synced.trip
        BY <2>4, WindowAssumption
      <3>2. PICK j \in Int, k \in Int : j = (p + 1) \div 2 /\ k = (n + 1) \div 2
        OBVIOUS
      <3>3. /\ 2 * k <= n + 1 /\ n + 1 <= 2 * k + 1
            /\ 2 * j <= p + 1 /\ p + 1 <= 2 * j + 1
        BY <3>2
      <3>4. n <= p
        BY <2>3, <3>1
      <3>5. k <= j
        BY <3>3, <3>4
      <3>6. slack = k
        BY <2>3, <2>4, <3>1, <3>2 DEF Slack
      <3> QED BY <3>1, <3>2, <3>5, <3>6
    <2>6. new.age <= Prompt
      BY <1>6, <1>8, <2>2, WindowAssumption DEF Fresh
    <2> QED BY <1>8, <2>4, <2>5, <2>6 DEF Fresh
  <1>13. OffsetWithinHalfTrip' /\ QueryErrsInTroubleOnly'
    BY <1>6 DEF RestInv, OffsetWithinHalfTrip, Slack, QueryErrsInTroubleOnly
  <1> QED BY <1>2, <1>6, <1>7, <1>10, <1>11, <1>12, <1>13, OneGoes

(* A thread that is done does nothing.                                     *)
LEMMA NothingOK ==
  ASSUME NEW k
  PROVE  ThreadOK(Nothing, k) /\ CallsOnly(Nothing) /\ ~SecondAttempt(Nothing)
  BY NothingIdle DEF ThreadOK, CallsOnly, SecondAttempt

LEMMA DoneKeepsRest ==
  ASSUME RestInv, NEW t \in Threads, CallEnds(t) \/ CallFails(t)
  PROVE  RestInv'
  <1>1. /\ Goes(t, Nothing) /\ UNCHANGED <<skew, offset, synced, reported>>
        /\ disturbed => disturbed'
    <2>1. CASE CallEnds(t)
      BY <2>1 DEF CallEnds
    <2>2. CASE CallFails(t)
      <3>1. Goes(t, Nothing) /\ UNCHANGED <<skew, offset, synced, reported>>
        BY <2>2 DEF CallFails
      <3>2. disturbed => disturbed'
        BY Zenon, <2>2 DEF CallFails, Troubles
      <3> QED BY <3>1, <3>2
    <2> QED BY <2>1, <2>2
  <1>2. offset \in Int /\ synced \in SyncState
    BY DEF RestInv, RestTyped
  <1>3. OffsetWithinHalfTrip' /\ QueryErrsInTroubleOnly'
    BY <1>1 DEF RestInv, OffsetWithinHalfTrip, Slack, QueryErrsInTroubleOnly
  <1> QED BY <1>1, <1>2, <1>3, NothingIdle, NothingOK, OneGoes

-----------------------------------------------------------------------------
(* The queries.                                                            *)

LEMMA QueryBeginKeepsRest == RestInv /\ QueryBegins => RestInv'
  <1> SUFFICES ASSUME RestInv, QueryBegins PROVE RestInv'
    OBVIOUS
  <1>1. PICK query : query = [Nothing EXCEPT !.doing = "query"]
    OBVIOUS
  <1>2. query \in CallState /\ ~query.first
    BY <1>1, NothingIdle DEF Nothing, CallState
  <1>3. PICK new : new = Ready(query, TRUE)
    OBVIOUS
  <1>4. new \in CallState /\ new.at = "ready" /\ ~SecondAttempt(new)
    BY <1>2, <1>3, ReadyState DEF SecondAttempt
  <1>5. /\ Goes("order", new) /\ reported' = "nothing"
        /\ UNCHANGED <<skew, offset, synced>>
    BY <1>1, <1>3 DEF QueryBegins
  <1>6. offset \in Int /\ synced \in SyncState /\ "order" \in Threads
    BY DEF RestInv, RestTyped, Threads
  <1>7. ThreadOK(new, skew)
    BY <1>4 DEF ThreadOK
  <1>8. OffsetWithinHalfTrip' /\ QueryErrsInTroubleOnly'
    BY <1>5 DEF RestInv, OffsetWithinHalfTrip, Slack, QueryErrsInTroubleOnly
  <1> QED BY <1>4, <1>5, <1>6, <1>7, <1>8, OneGoes

(* What query_positions_once does next keeps the invariant, when the       *)
(* trouble it may report is noted.                                         *)
LEMMA EndKeepsRest ==
  ASSUME RestInv, NEW with, QueryEnds(with), UNCHANGED <<skew, offset, synced>>,
         with = "error" => disturbed'
  PROVE  RestInv'
  <1>1. Goes("order", Nothing) /\ reported' = with /\ "order" \in Threads
    BY DEF QueryEnds, Threads
  <1>2. offset \in Int /\ synced \in SyncState
    BY DEF RestInv, RestTyped
  <1>3. OffsetWithinHalfTrip' /\ QueryErrsInTroubleOnly'
    BY <1>1 DEF RestInv, OffsetWithinHalfTrip, Slack, QueryErrsInTroubleOnly
  <1> QED BY <1>1, <1>2, <1>3, NothingIdle, NothingOK, OneGoes

LEMMA OnceKeepsRest ==
  ASSUME RestInv, NEW again \in Nat, Once(again), UNCHANGED <<skew, offset, synced>>,
         disturbed => disturbed'
  PROVE  RestInv'
  <1>1. PICK new : new = [Nothing EXCEPT !.doing = "query", !.at = "ask",
                                         !.first = TRUE, !.retry = again]
    OBVIOUS
  <1>2. new \in CallState
    BY <1>1, NothingIdle DEF CallState
  <1>3. new.at = "ask" /\ new.age = 0 /\ new.elapsed = 0 /\ new.moved = 0
    BY <1>1 DEF Nothing
  <1>4. Goes("order", new) /\ reported' = reported /\ "order" \in Threads
    BY <1>1 DEF Once, Threads
  <1>5. offset \in Int /\ synced \in SyncState /\ Prompt \in Nat
    BY WindowAssumption DEF RestInv, RestTyped
  <1>6. ThreadOK(new, skew) /\ Fresh(new, synced')
    BY <1>3, <1>5 DEF ThreadOK, Fresh
  <1>7. OffsetWithinHalfTrip' /\ QueryErrsInTroubleOnly'
    BY <1>4 DEF RestInv, OffsetWithinHalfTrip, Slack, QueryErrsInTroubleOnly
  <1> QED BY <1>2, <1>4, <1>5, <1>6, <1>7, OneGoes

LEMMA RetryKeepsRest ==
  ASSUME RestInv, NEW th \in CallState, NextRetry(th), UNCHANGED <<skew, offset, synced>>,
         disturbed => disturbed'
  PROVE  RestInv'
  <1>1. PICK n \in Nat : n = th.retry + 1
    BY DEF CallState
  <1>2. Once(n) \/ QueryEnds("positions")
    BY <1>1 DEF NextRetry
  <1> QED BY <1>2, OnceKeepsRest, EndKeepsRest

(* A query's second attempt, made in a time without trouble, is not        *)
(* refused: its offset was taken just before.                              *)
LEMMA SecondNotRefused ==
  ASSUME RestInv, NEW th \in CallState, th = thread["order"], th.at = "out",
         SecondAttempt(th), ~disturbed
  PROVE  ~Refused(th)
  <1>1. th.age <= Prompt /\ 0 <= th.slack /\ th.slack <= (Prompt + 1) \div 2
    BY DEF RestInv, SecondFresh, Fresh
  <1>2. Magnitude(th.lead) <= th.slack
    BY <1>1 DEF RestInv, ThreadsOK, ThreadOK, Threads, CallState
  <1>3. PICK a \in Nat, l \in Int, s \in Int, p \in Nat, h \in Int, r \in Nat, w \in Nat :
          /\ a = th.age /\ l = th.lead /\ s = th.slack /\ p = Prompt
          /\ h = (Prompt + 1) \div 2 /\ r = RecvWindow /\ w = Ahead
    BY WindowAssumption DEF CallState
  <1>4. l <= s /\ -l <= s
    BY <1>2, <1>3, MagnitudeBound
  <1>5. a - l <= r /\ l - a < w
    BY <1>1, <1>3, <1>4, PromptAssumption
  <1> QED BY <1>3, <1>5 DEF Refused

LEMMA AnswerKeepsRest == RestInv /\ QueryAnswered => RestInv'
  <1> SUFFICES ASSUME RestInv, QueryAnswered PROVE RestInv'
    OBVIOUS
  <1>1. PICK th \in CallState : th = thread["order"]
    BY DEF RestInv, RestTyped, Threads
  <1>2. /\ th.doing = "query" /\ th.at = "out"
        /\ IF Refused(th) THEN AttemptRefused(th) ELSE QueryEnds("positions") \/ NextRetry(th)
        /\ UNCHANGED <<skew, offset, synced, disturbed>>
    BY <1>1 DEF QueryAnswered, Querying
  <1>3. CASE Refused(th) /\ th.first
    <2>1. disturbed'
      BY <1>1, <1>2, <1>3, SecondNotRefused DEF SecondAttempt
    <2>2. QueryEnds("error") \/ NextRetry(th)
      BY <1>2, <1>3 DEF AttemptRefused, AttemptFails
    <2> QED BY <1>2, <2>1, <2>2, EndKeepsRest, RetryKeepsRest
  <1>4. CASE Refused(th) /\ ~th.first
    <2>1. Once(th.retry) /\ th.retry \in Nat
      BY <1>2, <1>4 DEF AttemptRefused, CallState
    <2> QED BY <1>2, <2>1, OnceKeepsRest
  <1>5. CASE ~Refused(th)
    BY <1>2, <1>5, EndKeepsRest, RetryKeepsRest
  <1> QED BY <1>3, <1>4, <1>5

LEMMA FailureKeepsRest == RestInv /\ QueryFails => RestInv'
  <1> SUFFICES ASSUME RestInv, QueryFails PROVE RestInv'
    OBVIOUS
  <1>1. PICK th \in CallState : th = thread["order"]
    BY DEF RestInv, RestTyped, Threads
  <1>2. /\ QueryEnds("error") \/ NextRetry(th)
        /\ disturbed' /\ UNCHANGED <<skew, offset, synced>>
    BY <1>1 DEF QueryFails, Troubles, AttemptFails
  <1> QED BY <1>2, EndKeepsRest, RetryKeepsRest

LEMMA RestStep == RestInv /\ [RestNext]_restVars => RestInv'
  <1> SUFFICES ASSUME RestInv, [RestNext]_restVars PROVE RestInv'
    OBVIOUS
  <1>1. CASE TimeTicks \/ \E d \in {-1, 1} : ClockMoves(d)
    BY <1>1, TimeKeepsRest, ClocksKeepRest
  <1>2. ASSUME NEW t \in Threads, GetServerTime(t) \/ SyncServerTime(t) PROVE RestInv'
    BY <1>2, AskKeepsRest, SyncKeepsRest
  <1>3. ASSUME NEW t \in Threads, CallBegins(t) \/ SendRequest(t) \/ CallEnds(t) \/ CallFails(t)
        PROVE  RestInv'
    BY <1>3, CallKeepsRest, SendKeepsRest, DoneKeepsRest
  <1>4. CASE QueryBegins \/ QueryAnswered \/ QueryFails
    BY <1>4, QueryBeginKeepsRest, AnswerKeepsRest, FailureKeepsRest
  <1>5. CASE UNCHANGED restVars
    BY <1>5 DEF restVars, RestInv, RestTyped, ThreadsOK, ThreadOK, MonitorCalls, CallsOnly,
       SecondFresh, SecondAttempt, Fresh, OffsetWithinHalfTrip, Slack, Magnitude, QueryErrsInTroubleOnly
  <1> QED BY <1>1, <1>2, <1>3, <1>4, <1>5 DEF RestNext

(* A refused request was stamped with an offset that had gone bad, or took *)
(* long itself.                                                            *)
LEMMA RefusalExplained == RestInv => RefusedExplained
  <1> SUFFICES ASSUME RestInv, NEW t \in Threads, thread[t].at = "out", thread[t].slack >= 0,
                      Refused(thread[t])
               PROVE  \/ thread[t].slack + thread[t].age > RecvWindow
                      \/ thread[t].slack >= Ahead
    BY DEF RefusedExplained
  <1>1. PICK th \in CallState : th = thread[t]
    BY DEF RestInv, RestTyped
  <1>2. Magnitude(th.lead) <= th.slack
    BY <1>1 DEF RestInv, ThreadsOK, ThreadOK
  <1>3. PICK a \in Nat, l \in Int, s \in Int, r \in Nat, w \in Nat :
          a = th.age /\ l = th.lead /\ s = th.slack /\ r = RecvWindow /\ w = Ahead
    BY WindowAssumption DEF CallState
  <1>4. l <= s /\ -l <= s
    BY <1>2, <1>3, MagnitudeBound
  <1>5. a - l > r \/ l - a >= w
    BY <1>1, <1>3 DEF Refused
  <1>6. s + a > r \/ s >= w
    BY <1>3, <1>4, <1>5
  <1> QED BY <1>1, <1>3, <1>6

(* The offset of one account's REST client (sync_server_time) is off by no *)
(* more than half the round trip and the moves of the clock since; a       *)
(* signed request is refused for its timestamp only when the               *)
(* synchronisation was slow, the clock moved or the request was late; and  *)
(* query_positions_once reports an error only for a trouble of its own     *)
(* time, since its second attempt is stamped anew.                         *)
THEOREM ClockTroubles == RestSpec => []ClockTroubleOnly
  <1>1. RestInv => ClockTroubleOnly
    BY RefusalExplained DEF RestInv, ClockTroubleOnly
  <1> QED BY <1>1, RestStarts, RestStep, PTL DEF RestSpec

=============================================================================
