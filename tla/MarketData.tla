------------------------------ MODULE MarketData ------------------------------
(***************************************************************************)
(* The market data module of a strategy: subscriptions to kline series, the *)
(* channel the server publishes closed bars on, and a ring buffer per       *)
(* series. A series is a symbol at an interval. A bar is its timestamp t    *)
(* and its prices v. The server also publishes what other strategies asked  *)
(* for, so any bar may come; what it subscribes at the exchange is OkxFeed. *)
(***************************************************************************)
EXTENDS Integers, Sequences, SequencesExt, FiniteSets

CONSTANTS
  Series,
  MaxKlineBars,  \* max_kline_bars_, capacity of a ring
  MaxClosed,     \* bound: bars a series closes
  MaxTroubles    \* bound: bars that are not published, or published twice

ASSUME RingAssumption == MaxKlineBars \in Nat \ {0}
ASSUME FeedAssumption == MaxClosed \in Nat /\ MaxTroubles \in Nat

Bars == [t: 1..MaxClosed, v: 0..MaxTroubles]
NoBar == [t |-> 0, v |-> 0]
Slots == 0..(MaxKlineBars - 1)
Rings == [data: [Slots -> Bars \cup {NoBar}], head: Slots, size: 0..MaxKlineBars]

VARIABLES
  closed,      \* [s] bars the exchange has closed
  channel,     \* bars published, not yet received
  subscribed,  \* subscribed_klines_
  managed,     \* series whose interval has a KlineManager
  rings,       \* [s] KlineBuffer
  missing,     \* history: [s] timestamps that were never stored
  troubles

feed == <<closed, troubles>>
store == <<managed, rings>>
marketVars == <<feed, channel, subscribed, store, missing>>

EmptyRing == [data |-> [i \in Slots |-> NoBar], head |-> 0, size |-> 0]

MarketInit ==
  /\ closed = [s \in Series |-> 0] /\ channel = <<>>
  /\ subscribed = {} /\ managed = {}
  /\ rings = [s \in Series |-> EmptyRing]
  /\ missing = [s \in Series |-> {}] /\ troubles = 0

-----------------------------------------------------------------------------
(* The ring buffer.                                                        *)

Slot(r, i) == (r.head + i) % MaxKlineBars
LastBar(r) == r.data[Slot(r, r.size - 1)]

Put(r, i, bar) == [r EXCEPT !.data[i] = bar]

(* Mutant: a full ring is overwritten without moving its head.             *)
UpdateHeadStays(r, bar) ==
  IF r.size = 0 THEN [Put(r, 0, bar) EXCEPT !.size = 1]
  ELSE IF LastBar(r).t = bar.t THEN Put(r, Slot(r, r.size - 1), bar)
  ELSE IF r.size < MaxKlineBars THEN [Put(r, Slot(r, r.size), bar) EXCEPT !.size = @ + 1]
  ELSE Put(r, r.head, bar)

(* Mutant: a bar that comes again is appended.                             *)
UpdateAppends(r, bar) ==
  IF r.size = 0 THEN [Put(r, 0, bar) EXCEPT !.size = 1]
  ELSE IF r.size < MaxKlineBars THEN [Put(r, Slot(r, r.size), bar) EXCEPT !.size = @ + 1]
  ELSE [Put(r, r.head, bar) EXCEPT !.head = Slot(r, 1)]

Update(r, bar) ==
  IF r.size = 0 THEN [Put(r, 0, bar) EXCEPT !.size = 1]
  ELSE IF LastBar(r).t = bar.t THEN Put(r, Slot(r, r.size - 1), bar)
  ELSE IF r.size < MaxKlineBars THEN [Put(r, Slot(r, r.size), bar) EXCEPT !.size = @ + 1]
  ELSE [Put(r, r.head, bar) EXCEPT !.head = Slot(r, 1)]

(* get_all; get_closes and its siblings take one field of each bar.        *)
GetAll(r) == [i \in 1..r.size |-> r.data[Slot(r, i - 1)]]
GetTimestamps(r) == [i \in 1..r.size |-> r.data[Slot(r, i - 1)].t]

GetRecent(r, n) ==
  LET m == IF n < r.size THEN n ELSE r.size
  IN  [i \in 1..m |-> r.data[Slot(r, r.size - m + i - 1)]]

(* What a strategy reads of a series; an interval never subscribed to has  *)
(* no manager.                                                             *)
GetKlines(s) == IF s \in managed THEN GetAll(rings[s]) ELSE <<>>
GetColumn(s) == IF s \in managed THEN GetTimestamps(rings[s]) ELSE <<>>
GetRecentKlines(s, n) == IF s \in managed THEN GetRecent(rings[s], n) ELSE <<>>

-----------------------------------------------------------------------------
(* The exchange and the server.                                            *)

Close(s) == closed[s] < MaxClosed /\ closed' = [closed EXCEPT ![s] = @ + 1]
Publish(k) == channel' = Append(channel, [series |-> k.series, bar |-> k.bar])

(* Only a bar the exchange confirms as complete is published.              *)
KlineCallback(k) == IF k.confirm THEN Publish(k) ELSE UNCHANGED channel

ParseKline(s, t, v, confirm) == [series |-> s, bar |-> [t |-> t, v |-> v], confirm |-> confirm]
OnMessage(s, t, v, confirm) == KlineCallback(ParseKline(s, t, v, confirm))
Trouble == troubles < MaxTroubles /\ troubles' = troubles + 1

BarCloses(s) ==
  /\ Close(s) /\ OnMessage(s, closed[s] + 1, 0, TRUE)
  /\ UNCHANGED <<subscribed, store, missing, troubles>>

(* An update of the bar that is being formed.                              *)
BarForms(s) ==
  /\ closed[s] < MaxClosed /\ OnMessage(s, closed[s] + 1, 0, FALSE)
  /\ UNCHANGED <<closed, subscribed, store, missing, troubles>>

(* The feed is down, or the server has not handled the subscription yet.   *)
BarLost(s) ==
  /\ Close(s) /\ Trouble
  /\ missing' = [missing EXCEPT ![s] = @ \cup {closed'[s]}]
  /\ UNCHANGED <<channel, subscribed, store>>

(* After a reconnection the exchange pushes the last closed bar again.     *)
BarAgain(s) ==
  /\ closed[s] > 0 /\ Trouble
  /\ OnMessage(s, closed[s], troubles + 1, TRUE)
  /\ UNCHANGED <<closed, subscribed, store, missing>>

Exchange == \E s \in Series : BarCloses(s) \/ BarForms(s) \/ BarLost(s) \/ BarAgain(s)

-----------------------------------------------------------------------------
(* The strategy's calls, and the messages it takes.                        *)

SubscribeKline(s) ==
  /\ managed' = managed \cup {s}
  /\ subscribed' = subscribed \cup {s}
  /\ UNCHANGED <<feed, channel, rings, missing>>

(* The bars already stored stay.                                           *)
UnsubscribeKline(s) ==
  /\ subscribed' = subscribed \ {s}
  /\ UNCHANGED <<feed, channel, store, missing>>

(* KlineManager::update; the ring is made with its first bar.              *)
Store(s, bar) == rings' = [rings EXCEPT ![s] = Update(@, bar)]

HandleKline ==
  /\ channel # <<>> /\ channel' = Tail(channel)
  /\ LET m == Head(channel)
     IN  IF m.series \in subscribed
         THEN /\ Store(m.series, m.bar)
              /\ UNCHANGED missing
         ELSE /\ missing' = [missing EXCEPT ![m.series] = @ \cup {m.bar.t}]
              /\ UNCHANGED rings
  /\ UNCHANGED <<feed, subscribed, managed>>

-----------------------------------------------------------------------------
MarketTypeOK ==
  /\ closed \in [Series -> 0..MaxClosed]
  /\ \A i \in DOMAIN channel : channel[i] \in [series: Series, bar: Bars]
  /\ subscribed \subseteq managed /\ managed \subseteq Series
  /\ rings \in [Series -> Rings]
  /\ missing \in [Series -> SUBSET (1..MaxClosed)]
  /\ troubles \in 0..MaxTroubles

(* What a strategy computes its factors from has no silent hole: the bars  *)
(* it reads ascend, and a timestamp between two of them is absent only     *)
(* because the feed lost that bar or the strategy was not subscribed when  *)
(* it came. A ring that wraps, is amended by a bar that comes again, or is *)
(* kept over an unsubscription (KlineBuffer, handle_kline) must not lose   *)
(* or shuffle any.                                                         *)
HolesExplained ==
  \A s \in Series : LET bars == GetKlines(s) IN
    \A i \in 1..(Len(bars) - 1) :
      /\ bars[i].t < bars[i + 1].t
      /\ (bars[i].t + 1)..(bars[i + 1].t - 1) \subseteq missing[s]

(* A strategy computes on complete bars only: what it reads has been closed *)
(* by the exchange (the confirm filter of the kline callback; no reader    *)
(* looks at that field again).                                             *)
OnlyClosedBars ==
  \A s \in Series : \A i \in DOMAIN GetKlines(s) : GetKlines(s)[i].t <= closed[s]

(* The readers of a buffer agree whatever its head is: the recent bars are *)
(* the tail of all of them (get_recent, get_all), and the columns line up  *)
(* with the bars (get_timestamps).                                         *)
GettersAgree ==
  \A s \in Series : LET all == GetKlines(s) IN
    /\ \A n \in 1..(MaxKlineBars + 1) :
         IsSuffix(GetRecentKlines(s, n), all) /\ Len(GetRecentKlines(s, n)) = Min({n, Len(all)})
    /\ GetColumn(s) = [i \in DOMAIN all |-> all[i].t]

(* What a strategy reads of a series, whichever getter it uses, is what    *)
(* came of it, in order.                                                   *)
ReadsExplained == HolesExplained /\ OnlyClosedBars /\ GettersAgree

(* Every buffer implements the window of the newest bars: it starts empty  *)
(* and each step of the module stores one bar in it or leaves it alone     *)
(* (KlineBuffer::update over head, size and the slots).                    *)
Window(s) == INSTANCE KlineWindow WITH window <- GetAll(rings[s])
WindowKept ==
  /\ \A s \in Series : Window(s)!Init
  /\ [][\A s \in Series : [Window(s)!Next]_(GetAll(rings[s]))]_marketVars
=============================================================================
