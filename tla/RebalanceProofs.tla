---------------------------- MODULE RebalanceProofs ----------------------------
(***************************************************************************)
(* Rebalancing for any portfolio, targets, delistings and bounds: it ends  *)
(* at its target, but for changes too small to trade and for symbols whose *)
(* target has no quantity; happens once per candle; never trades too much. *)
(*                                                                         *)
(* Three arguments. A candle that was traded on is one that most symbols   *)
(* have, so that a restarted strategy, which needs half of them, loads it  *)
(* and counts it as handled (Candles). Positions are asked for only when   *)
(* the orders of earlier candles have been answered, so that every answer  *)
(* on its way tells the positions that are held (Planning). The orders     *)
(* that wait, in the channel or in a later stage, are at most one for a    *)
(* leg, and it takes the leg where the plan aims (Trading), which is near  *)
(* the target when the plan is made (KeepingIs).                           *)
(***************************************************************************)
EXTENDS Rebalance, FiniteSetTheorems, SequenceTheorems, WellFoundedInduction, TLAPS

Request == [type: {"register", "account", "query"}] \cup [type: {"batch"}, orders: SUBSET Order]
Report ==
  [type: {"register"}, ok: BOOLEAN] \cup [type: {"account"}]
    \cup [type: {"positions"}, error: BOOLEAN, data: Legs]
    \cup [type: {"batch"}, n: {0} \cup {Cardinality(o) : o \in SUBSET Order}]

(* The fields of the strategy; three are only counted with.                *)
Fields(m) ==
  m \in [ready: BOOLEAN, data: BOOLEAN, known: [Symbols -> 0..MaxPeriod],
         lastPeriod: 0..MaxPeriod, lastKnown: {m.lastKnown},
         positions: Legs, done: BOOLEAN, error: BOOLEAN,
         attempt: {0, 1, 2}, why: {"initial", "rebalance"},
         target: Targets \cup {NoTarget}, delisted: SUBSET Symbols,
         stages: Seq(Seq(SUBSET Order)), expected: {m.expected}, answered: {m.answered}]

Typed ==
  /\ legs \in Legs /\ monitored \in Legs
  /\ requests \in Seq(Request) /\ reports \in Seq(Report)
  /\ period \in 1..MaxPeriod /\ latest \in [Symbols -> 1..MaxPeriod]
  /\ pc \in {"down", "loop", "await", "fills"} /\ poll \in {"account", "trading", "done"}
  /\ Fields(mem)
  /\ executed \in [1..MaxPeriod -> Nat]
  /\ goal \in [Symbols -> Int] /\ aim \in [Symbols -> Int]
  /\ \A s \in Symbols : Near(aim[s], goal[s])
  /\ \A s \in Symbols : mem.known[s] <= latest[s] /\ latest[s] <= period
  /\ pc = "down" => mem = Fresh
  /\ pc \in {"await", "fills"} => mem.ready /\ mem.data
  /\ mem.stages # <<>> => pc = "fills"

-----------------------------------------------------------------------------
(* Candles.                                                                *)

(* The account is being asked for.                                         *)
Registering ==
  \E x \in Range(requests) \cup Range(reports) : x.type \in {"register", "account"}

(* The initial check has been made.                                        *)
Checked == mem.ready /\ mem.data /\ ~(pc = "await" /\ mem.why = "initial")

TradedOnce ==
  \A p \in 1..MaxPeriod :
    /\ executed[p] <= 1
    /\ executed[p] > 0 => p <= period /\ Enough(latest, p)

HalfLoaded ==
  mem.data =>
    /\ 2 * Cardinality({s \in Symbols : mem.known[s] > 0}) >= Cardinality(Symbols)
    /\ \A p \in 1..MaxPeriod : executed[p] > 0 => \E s \in Symbols : mem.known[s] >= p

(* What has been read and then changed is of the candle that is on.        *)
ChangesAreNew ==
  mem.data /\ (mem.ready \/ Registering) =>
    \A s \in Symbols : mem.known[s] > 0 /\ mem.known[s] < latest[s] => latest[s] = period

HandledCounted ==
  Checked =>
    /\ \A p \in 1..MaxPeriod : executed[p] > 0 => p <= mem.lastPeriod
    /\ \/ \A s \in Symbols : mem.known[s] > 0
       \/ \A s \in Symbols : mem.known[s] <= mem.lastPeriod

CandlesCounted == TradedOnce /\ HalfLoaded /\ ChangesAreNew /\ HandledCounted

-----------------------------------------------------------------------------
(* Planning.                                                               *)

(* No order is on its way, and whoever answers knows the positions.        *)
Settled ==
  /\ \A x \in Range(requests) : x.type # "batch"
  /\ monitored = legs
  /\ \A x \in Range(reports) : x.type = "positions" /\ ~x.error => x.data = legs

Fetching == pc = "await" /\ mem.why = "rebalance"

SettledBefore ==
  /\ executed[period] = 0 \/ Fetching => Settled
  /\ pc = "fills" \/ Fetching => executed[period] > 0

PositionsTrue ==
  Fetching =>
    /\ mem.positions \in {Flat, legs}
    /\ mem.done /\ ~mem.error => mem.positions = legs
    /\ mem.target \in Targets /\ \A s \in mem.delisted : mem.target[s] = 0

Planning == SettledBefore /\ PositionsTrue

-----------------------------------------------------------------------------
(* Trading.                                                                *)

SameLeg(o, r) == o.s = r.s /\ o.side = r.side
Sent(rq, i, o) == i \in DOMAIN rq /\ rq[i].type = "batch" /\ o \in rq[i].orders
Staged(st, j, k, o) == j \in DOMAIN st /\ k \in DOMAIN st[j] /\ o \in st[j][k]

Waiting(rq, st, o) ==
  (\E i \in Nat : Sent(rq, i, o)) \/ (\E j \in Nat, k \in Nat : Staged(st, j, k, o))

OnePerLeg(rq, st) ==
  \A o \in Order, r \in Order : SameLeg(o, r) =>
    /\ \A i \in Nat, l \in Nat : Sent(rq, i, o) /\ Sent(rq, l, r) => i = l /\ o = r
    /\ \A i \in Nat, j \in Nat, k \in Nat : ~(Sent(rq, i, o) /\ Staged(st, j, k, r))
    /\ \A j \in Nat, k \in Nat, l \in Nat, n \in Nat :
         Staged(st, j, k, o) /\ Staged(st, l, n, r) => j = l /\ k = n /\ o = r

(* What a leg is to hold.                                                  *)
Want(g, s, d) == IF Side(g[s]) = d THEN Abs(g[s]) ELSE 0

Aimed(rq, st) ==
  /\ \A o \in Order : Waiting(rq, st, o) => legs[o.s][o.side] + Signed(o) = Want(aim, o.s, o.side)
  /\ \A s \in Symbols, d \in Sides :
       (\A o \in Order : OnLeg(o, s, d) => ~Waiting(rq, st, o)) => legs[s][d] = Want(aim, s, d)

Bounded(rq, st) ==
  /\ \A s \in Symbols, d \in Sides : legs[s][d] <= MaxLeg
  /\ \A o \in Order : Waiting(rq, st, o) /\ o.open => legs[o.s][o.side] + o.qty <= MaxLeg

Trading ==
  /\ OnePerLeg(requests, mem.stages)
  /\ excuse = {} => Aimed(requests, mem.stages)
  /\ excuse \cap {"assumed", "hedged", "inherited"} = {} => Bounded(requests, mem.stages)

RebalanceInv == Typed /\ CandlesCounted /\ Planning /\ Trading

-----------------------------------------------------------------------------
(* Helpers.                                                                *)

(* Of a set of natural numbers that is not empty one is the smallest.      *)
LEMMA SmallestNat ==
  ASSUME NEW T, T \subseteq Nat, T # {}
  PROVE  \E n \in T : \A k \in T : n <= k
  <1>1. PICK n \in T : \A k \in T : ~(<<k, n>> \in OpToRel(<, Nat))
    BY NatLessThanWellFounded, WFMin
  <1>2. \A k \in T : ~(k < n)
    BY <1>1 DEF OpToRel
  <1> QED BY <1>2

(* A finite set of natural numbers that is not empty has a greatest one.   *)
LEMMA MaxIs ==
  ASSUME NEW S, S \subseteq Nat, IsFiniteSet(S), S # {}
  PROVE  Max(S) \in S /\ \A n \in S : n <= Max(S)
  <1> DEFINE Topless(U) == U # {} /\ ~(\E x \in U : \A y \in U : x >= y)
             Sizes == {n \in Nat : \E U \in SUBSET S : Topless(U) /\ Cardinality(U) = n}
  <1>1. SUFFICES ~Topless(S)
    BY DEF Max
  <1>2. SUFFICES ASSUME Topless(S) PROVE FALSE
    OBVIOUS
  <1> HIDE DEF Topless
  <1>3. Cardinality(S) \in Sizes
    BY <1>2, FS_CardinalityType
  <1>4. PICK n \in Sizes : \A k \in Sizes : n <= k
    BY <1>3, SmallestNat
  <1>5. PICK U \in SUBSET S : Topless(U) /\ Cardinality(U) = n
    BY <1>4
  <1>6. PICK x \in U : TRUE
    BY <1>5 DEF Topless
  <1> DEFINE V == U \ {x}
  <1>7. IsFiniteSet(U) /\ IsFiniteSet(V) /\ Cardinality(V) = n - 1 /\ V \in SUBSET S
    BY <1>5, <1>6, FS_Subset, FS_RemoveElement
  <1>8. Cardinality(V) \in Nat
    BY <1>7, FS_CardinalityType
  <1>9. ~Topless(V)
    BY <1>4, <1>7, <1>8
  <1>10. CASE V = {}
    BY <1>5, <1>6, <1>10 DEF Topless
  <1>11. CASE V # {}
    <2>1. PICK z \in V : \A y \in V : z >= y
      BY <1>9, <1>11 DEF Topless
    <2>2. x \in Nat /\ z \in Nat /\ U = V \cup {x}
      BY <1>5, <1>6
    <2>3. \E w \in U : \A y \in U : w >= y
      <3>1. CASE x >= z
        BY <2>1, <2>2, <3>1
      <3>2. CASE ~(x >= z)
        BY <2>1, <2>2, <3>2
      <3> QED BY <3>1, <3>2
    <2> QED BY <1>5, <2>3 DEF Topless
  <1> QED BY <1>10, <1>11

LEMMA Sgn ==
  ASSUME NEW c \in Int, NEW t \in Int
  PROVE  /\ Reverses(c, t) <=> (c < 0 /\ t > 0) \/ (c > 0 /\ t < 0)
         /\ Abs(c) \in Nat /\ Side(c) \in Sides
         /\ c > 0 => Abs(c) = c /\ Side(c) = "LONG"
         /\ c <= 0 => Abs(c) = -c /\ Side(c) = "SHORT"
  <1>1. Reverses(c, t) <=> (c < 0 /\ t > 0) \/ (c > 0 /\ t < 0)
    BY SMT DEF Reverses
  <1> QED BY <1>1 DEF Abs, Side, Sides

-----------------------------------------------------------------------------
(* What waits, as requests come and go.                                    *)

Simple == [type: {"register", "account", "query"}]

LEMMA RequestIs ==
  /\ Simple \subseteq Request
  /\ \A r \in Request : /\ r.type \in {"register", "account", "query", "batch"}
                        /\ r.type = "batch" => r.orders \in SUBSET Order
                        /\ r.type # "batch" => r \in Simple
  BY DEF Request, Simple

LEMMA PushKeeps ==
  ASSUME NEW rq \in Seq(Request), NEW r \in Simple
  PROVE  /\ Append(rq, r) \in Seq(Request)
         /\ \A i \in Nat : \A o : Sent(Append(rq, r), i, o) <=> Sent(rq, i, o)
  <1>1. r \in Request /\ r.type # "batch"
    BY RequestIs DEF Simple
  <1> QED BY <1>1 DEF Sent

LEMMA PushTrading ==
  ASSUME NEW rq \in Seq(Request), NEW r \in Simple, NEW st, OnePerLeg(rq, st)
  PROVE  /\ OnePerLeg(Append(rq, r), st)
         /\ \A o \in Order : Waiting(Append(rq, r), st, o) <=> Waiting(rq, st, o)
  BY PushKeeps DEF OnePerLeg, Waiting

LEMMA TakeIs ==
  ASSUME NEW rq \in Seq(Request), rq # <<>>
  PROVE  /\ Tail(rq) \in Seq(Request) /\ Head(rq) \in Request
         /\ \A i \in Nat : \A o : Sent(Tail(rq), i, o) <=> i > 0 /\ Sent(rq, i + 1, o)
         /\ \A o : Sent(rq, 1, o) <=> Head(rq).type = "batch" /\ o \in Head(rq).orders
         /\ \A o : ~Sent(rq, 0, o)
  BY DEF Sent

LEMMA TakeTrading ==
  ASSUME NEW rq \in Seq(Request), rq # <<>>, NEW st, OnePerLeg(rq, st)
  PROVE  /\ OnePerLeg(Tail(rq), st)
         /\ \A o \in Order :
              Waiting(rq, st, o) <=>
                Waiting(Tail(rq), st, o) \/ (Head(rq).type = "batch" /\ o \in Head(rq).orders)
  <1>1. OnePerLeg(Tail(rq), st)
    <2> SUFFICES ASSUME NEW o \in Order, NEW r \in Order, SameLeg(o, r)
                 PROVE  /\ \A i \in Nat, l \in Nat : Sent(Tail(rq), i, o) /\ Sent(Tail(rq), l, r) => i = l /\ o = r
                        /\ \A i \in Nat, j \in Nat, k \in Nat : ~(Sent(Tail(rq), i, o) /\ Staged(st, j, k, r))
                        /\ \A j \in Nat, k \in Nat, l \in Nat, n \in Nat :
                             Staged(st, j, k, o) /\ Staged(st, l, n, r) => j = l /\ k = n /\ o = r
      BY DEF OnePerLeg
    <2>1. ASSUME NEW i \in Nat, NEW l \in Nat, Sent(Tail(rq), i, o), Sent(Tail(rq), l, r) PROVE i = l /\ o = r
      <3>1. i + 1 \in Nat /\ l + 1 \in Nat /\ Sent(rq, i + 1, o) /\ Sent(rq, l + 1, r)
        BY <2>1, TakeIs
      <3>2. i + 1 = l + 1 /\ o = r
        BY <3>1 DEF OnePerLeg
      <3> QED BY <3>2
    <2>2. ASSUME NEW i \in Nat, NEW j \in Nat, NEW k \in Nat, Sent(Tail(rq), i, o), Staged(st, j, k, r) PROVE FALSE
      <3>1. i + 1 \in Nat /\ Sent(rq, i + 1, o)
        BY <2>2, TakeIs
      <3> QED BY <3>1, <2>2 DEF OnePerLeg
    <2> QED BY <2>1, <2>2 DEF OnePerLeg
  <1>2. ASSUME NEW o \in Order, Waiting(rq, st, o)
        PROVE  Waiting(Tail(rq), st, o) \/ (Head(rq).type = "batch" /\ o \in Head(rq).orders)
    <2>1. CASE \E i \in Nat : Sent(rq, i, o)
      <3>1. PICK i \in Nat : Sent(rq, i, o)
        BY <2>1
      <3>2. CASE i > 1
        <4>1. i - 1 \in Nat /\ i - 1 > 0 /\ (i - 1) + 1 = i
          BY <3>2
        <4>2. Sent(Tail(rq), i - 1, o)
          BY <3>1, <4>1, TakeIs
        <4> QED BY <4>1, <4>2 DEF Waiting
      <3>3. CASE ~(i > 1)
        <4>1. i = 0 \/ i = 1
          BY <3>3
        <4> QED BY <3>1, <4>1, TakeIs
      <3> QED BY <3>2, <3>3
    <2> QED BY <1>2, <2>1 DEF Waiting
  <1>3. ASSUME NEW o \in Order, Waiting(Tail(rq), st, o) PROVE Waiting(rq, st, o)
    <2>1. ASSUME NEW i \in Nat, Sent(Tail(rq), i, o) PROVE \E l \in Nat : Sent(rq, l, o)
      BY <2>1, TakeIs
    <2> QED BY <1>3, <2>1 DEF Waiting
  <1>4. ASSUME NEW o \in Order, Head(rq).type = "batch", o \in Head(rq).orders PROVE Waiting(rq, st, o)
    BY <1>4, TakeIs DEF Waiting
  <1>5. \A o \in Order : Waiting(rq, st, o) <=>
                Waiting(Tail(rq), st, o) \/ (Head(rq).type = "batch" /\ o \in Head(rq).orders)
    BY <1>2, <1>3, <1>4
  <1> QED BY <1>1, <1>5

(* The next stage is sent.                                                 *)
Sending(rq, st) == rq \o [i \in DOMAIN Head(st) |-> BatchOf(Head(st)[i])]

LEMMA Concatenated ==
  ASSUME NEW S, NEW q \in Seq(S), NEW n \in Nat, NEW f \in [1..n -> S]
  PROVE  /\ q \o f \in Seq(S) /\ Len(q \o f) = Len(q) + n
         /\ \A i \in 1..Len(q) : (q \o f)[i] = q[i]
         /\ \A i \in 1..n : (q \o f)[Len(q) + i] = f[i]
  <1>1. f \in Seq(S) /\ Len(f) = n
    BY SeqDef, LenProperties
  <1>2. \A i \in 1 .. Len(q) + n : (q \o f)[i] = IF i <= Len(q) THEN q[i] ELSE f[i - Len(q)]
    BY <1>1, ConcatProperties
  <1>3. Len(q) \in Nat
    BY LenProperties
  <1>4. ASSUME NEW i \in 1..n PROVE (q \o f)[Len(q) + i] = f[i]
    <2>1. Len(q) + i \in 1 .. Len(q) + n /\ ~(Len(q) + i <= Len(q)) /\ (Len(q) + i) - Len(q) = i
      BY <1>3
    <2> QED BY <1>2, <2>1
  <1>5. ASSUME NEW i \in 1..Len(q) PROVE (q \o f)[i] = q[i]
    BY <1>2, <1>3
  <1> QED BY <1>1, <1>4, <1>5, ConcatProperties

LEMMA SendingIs ==
  ASSUME NEW rq \in Seq(Request), NEW st \in Seq(Seq(SUBSET Order)), st # <<>>
  PROVE  /\ Sending(rq, st) \in Seq(Request)
         /\ \A i \in Nat : \A o : Sent(Sending(rq, st), i, o)
              <=> Sent(rq, i, o) \/ (i > Len(rq) /\ Staged(st, 1, i - Len(rq), o))
         /\ Tail(st) \in Seq(Seq(SUBSET Order))
         /\ \A j \in Nat, k \in Nat : \A o : Staged(Tail(st), j, k, o) <=> j > 0 /\ Staged(st, j + 1, k, o)
         /\ \A k \in Nat : \A o : ~Staged(st, 0, k, o)
         /\ \A j \in Nat : \A o : ~Staged(st, j, 0, o)
  <1>1. Head(st) \in Seq(SUBSET Order) /\ st[1] = Head(st) /\ 1 \in DOMAIN st
    OBVIOUS
  <1> DEFINE H == Head(st)
             B == [i \in DOMAIN H |-> BatchOf(H[i])]
  <1>2. /\ DOMAIN H = 1..Len(H) /\ Len(H) \in Nat /\ B \in [1..Len(H) -> Request]
        /\ \A i \in 1..Len(H) : B[i] = BatchOf(H[i])
    <2>1. DOMAIN H = 1..Len(H) /\ Len(H) \in Nat /\ \A i \in 1..Len(H) : H[i] \in SUBSET Order
      BY <1>1
    <2>2. \A i \in 1..Len(H) : BatchOf(H[i]) \in Request
      BY <2>1 DEF BatchOf, Request
    <2> QED BY <2>1, <2>2
  <1> HIDE DEF B
  <1>3. /\ rq \o B \in Seq(Request) /\ Len(rq \o B) = Len(rq) + Len(H)
        /\ \A i \in 1..Len(rq) : (rq \o B)[i] = rq[i]
        /\ \A i \in 1..Len(H) : (rq \o B)[Len(rq) + i] = B[i]
    <2>1. PICK n \in Nat : n = Len(H)
      BY <1>2
    <2>2. PICK f \in [1..n -> Request] : f = B
      BY <1>2, <2>1
    <2>3. /\ rq \o f \in Seq(Request) /\ Len(rq \o f) = Len(rq) + n
          /\ \A i \in 1..Len(rq) : (rq \o f)[i] = rq[i]
          /\ \A i \in 1..n : (rq \o f)[Len(rq) + i] = f[i]
      BY Concatenated
    <2> QED BY <2>1, <2>2, <2>3
  <1>4. ASSUME NEW i \in Nat, NEW o
        PROVE  Sent(rq \o B, i, o) <=> Sent(rq, i, o) \/ (i > Len(rq) /\ Staged(st, 1, i - Len(rq), o))
    <2>1. CASE i \in 1..Len(rq)
      BY <1>3, <2>1 DEF Sent
    <2>2. CASE i \in Len(rq)+1 .. Len(rq) + Len(H)
      <3>1. i - Len(rq) \in 1..Len(H) /\ i \notin DOMAIN rq /\ i \in DOMAIN (rq \o B)
        BY <1>1, <1>3, <2>2
      <3>2. (rq \o B)[i] = BatchOf(H[i - Len(rq)])
        <4>1. i = Len(rq) + (i - Len(rq))
          BY <2>2
        <4> QED BY <1>2, <1>3, <3>1, <4>1
      <3>3. i - Len(rq) \in DOMAIN st[1]
        BY <1>1, <3>1
      <3> QED BY <1>1, <3>1, <3>2, <3>3, <2>2 DEF Sent, Staged, BatchOf
    <2>3. CASE i \notin 1 .. Len(rq) + Len(H)
      BY <1>1, <1>3, <2>3 DEF Sent, Staged
    <2> QED BY <2>1, <2>2, <2>3, <1>1
  <1>5. Sending(rq, st) = rq \o B
    BY DEF Sending, B
  <1>6. \A j \in Nat, k \in Nat : \A o : Staged(Tail(st), j, k, o) <=> j > 0 /\ Staged(st, j + 1, k, o)
    BY DEF Staged
  <1>7. /\ \A k \in Nat : \A o : ~Staged(st, 0, k, o)
        /\ \A j \in Nat : \A o : ~Staged(st, j, 0, o)
    BY DEF Staged
  <1> QED BY <1>3, <1>4, <1>5, <1>6, <1>7


LEMMA SendingTrading ==
  ASSUME NEW rq \in Seq(Request), NEW st \in Seq(Seq(SUBSET Order)), st # <<>>, OnePerLeg(rq, st)
  PROVE  /\ OnePerLeg(Sending(rq, st), Tail(st))
         /\ \A o \in Order : Waiting(Sending(rq, st), Tail(st), o) <=> Waiting(rq, st, o)
  <1> DEFINE n == Len(rq)
             S(i, o) == Sent(Sending(rq, st), i, o)
             G(j, k, o) == Staged(Tail(st), j, k, o)
  <1>1. n \in Nat
    BY LenProperties
  <1>2. ASSUME NEW i \in Nat, NEW o, S(i, o)
        PROVE  Sent(rq, i, o) \/ (i > n /\ i - n \in Nat /\ Staged(st, 1, i - n, o))
    BY <1>1, <1>2, SendingIs
  <1>3. ASSUME NEW j \in Nat, NEW k \in Nat, NEW o, G(j, k, o)
        PROVE  j > 0 /\ j + 1 \in Nat /\ Staged(st, j + 1, k, o)
    BY <1>3, SendingIs
  <1>4. OnePerLeg(Sending(rq, st), Tail(st))
    <2> SUFFICES ASSUME NEW o \in Order, NEW r \in Order, SameLeg(o, r)
                 PROVE  /\ \A i \in Nat, l \in Nat : S(i, o) /\ S(l, r) => i = l /\ o = r
                        /\ \A i \in Nat, j \in Nat, k \in Nat : ~(S(i, o) /\ G(j, k, r))
                        /\ \A j \in Nat, k \in Nat, l \in Nat, m \in Nat :
                             G(j, k, o) /\ G(l, m, r) => j = l /\ k = m /\ o = r
      BY DEF OnePerLeg
    <2> HIDE DEF S, G
    <2>1. /\ \A i \in Nat, l \in Nat : Sent(rq, i, o) /\ Sent(rq, l, r) => i = l /\ o = r
          /\ \A i \in Nat, j \in Nat, k \in Nat : ~(Sent(rq, i, o) /\ Staged(st, j, k, r))
          /\ \A i \in Nat, j \in Nat, k \in Nat : ~(Sent(rq, i, r) /\ Staged(st, j, k, o))
          /\ \A j \in Nat, k \in Nat, l \in Nat, m \in Nat :
                  Staged(st, j, k, o) /\ Staged(st, l, m, r) => j = l /\ k = m /\ o = r
      <3>1. SameLeg(r, o)
        BY DEF SameLeg
      <3> QED BY <3>1 DEF OnePerLeg
    <2>2. ASSUME NEW i \in Nat, NEW l \in Nat, S(i, o), S(l, r) PROVE i = l /\ o = r
      <3>1. CASE Sent(rq, i, o) /\ Sent(rq, l, r)
        BY <2>1, <3>1
      <3>2. CASE ~Sent(rq, i, o) /\ ~Sent(rq, l, r)
        <4>1. i - n \in Nat /\ l - n \in Nat /\ Staged(st, 1, i - n, o) /\ Staged(st, 1, l - n, r)
          BY <1>2, <2>2, <3>2
        <4>2. i - n = l - n /\ o = r
          BY <2>1, <4>1
        <4> QED BY <1>1, <4>2
      <3>3. CASE Sent(rq, i, o) /\ ~Sent(rq, l, r)
        <4>1. l - n \in Nat /\ Staged(st, 1, l - n, r)
          BY <1>2, <2>2, <3>3
        <4> QED BY <2>1, <3>3, <4>1
      <3>4. CASE ~Sent(rq, i, o) /\ Sent(rq, l, r)
        <4>1. i - n \in Nat /\ Staged(st, 1, i - n, o)
          BY <1>2, <2>2, <3>4
        <4> QED BY <2>1, <3>4, <4>1
      <3> QED BY <3>1, <3>2, <3>3, <3>4
    <2>3. ASSUME NEW i \in Nat, NEW j \in Nat, NEW k \in Nat, S(i, o), G(j, k, r) PROVE FALSE
      <3>1. j > 0 /\ j + 1 \in Nat /\ Staged(st, j + 1, k, r)
        BY <1>3, <2>3
      <3>2. CASE Sent(rq, i, o)
        BY <2>1, <3>1, <3>2
      <3>3. CASE i - n \in Nat /\ Staged(st, 1, i - n, o)
        <4>1. 1 = j + 1
          BY <2>1, <3>1, <3>3
        <4> QED BY <3>1, <4>1
      <3> QED BY <1>2, <2>3, <3>2, <3>3
    <2>4. ASSUME NEW j \in Nat, NEW k \in Nat, NEW l \in Nat, NEW m \in Nat, G(j, k, o), G(l, m, r)
          PROVE  j = l /\ k = m /\ o = r
      <3>1. /\ j + 1 \in Nat /\ Staged(st, j + 1, k, o)
            /\ l + 1 \in Nat /\ Staged(st, l + 1, m, r)
        BY <1>3, <2>4
      <3>2. j + 1 = l + 1 /\ k = m /\ o = r
        BY <2>1, <3>1
      <3> QED BY <3>2
    <2> QED BY <2>2, <2>3, <2>4
  <1>5. ASSUME NEW o \in Order, Waiting(Sending(rq, st), Tail(st), o) PROVE Waiting(rq, st, o)
    <2>1. CASE \E i \in Nat : S(i, o)
      <3>1. PICK i \in Nat : S(i, o)
        BY <2>1
      <3> QED BY <1>2, <3>1 DEF Waiting
    <2>2. CASE \E j \in Nat, k \in Nat : G(j, k, o)
      <3>1. PICK j \in Nat, k \in Nat : G(j, k, o)
        BY <2>2
      <3> QED BY <1>3, <3>1 DEF Waiting
    <2> QED BY <1>5, <2>1, <2>2 DEF Waiting
  <1>6. ASSUME NEW o \in Order, Waiting(rq, st, o) PROVE Waiting(Sending(rq, st), Tail(st), o)
    <2>1. CASE \E i \in Nat : Sent(rq, i, o)
      BY <2>1, SendingIs DEF Waiting
    <2>2. CASE \E j \in Nat, k \in Nat : Staged(st, j, k, o)
      <3>1. PICK j \in Nat, k \in Nat : Staged(st, j, k, o)
        BY <2>2
      <3>2. j # 0 /\ k # 0
        <4>1. ~Staged(st, 0, k, o) /\ ~Staged(st, j, 0, o)
          BY SendingIs
        <4> QED BY <3>1, <4>1
      <3>3. CASE j = 1
        <4>1. k + n \in Nat /\ k + n > n /\ (k + n) - n = k
          BY <1>1, <3>2
        <4>2. S(k + n, o)
          BY <3>1, <3>3, <4>1, SendingIs
        <4> QED BY <4>1, <4>2 DEF Waiting
      <3>4. CASE j # 1
        <4>1. j - 1 \in Nat /\ j - 1 > 0 /\ (j - 1) + 1 = j
          BY <3>2, <3>4
        <4>2. G(j - 1, k, o)
          BY <3>1, <4>1, SendingIs
        <4> QED BY <4>1, <4>2 DEF Waiting
      <3> QED BY <3>3, <3>4
    <2> QED BY <1>6, <2>1, <2>2 DEF Waiting
  <1> QED BY <1>4, <1>5, <1>6


-----------------------------------------------------------------------------
(* The stages of a plan.                                                   *)

StageSeq == Seq(Seq(SUBSET Order))
Holds(st, o) == \E j \in Nat, k \in Nat : Staged(st, j, k, o)
OneEach(X) == \A o \in X, r \in X : SameLeg(o, r) => o = r
Apart(X, Y) == \A o \in X, r \in Y : ~SameLeg(o, r)
OnePerStage(st) ==
  \A o \in Order, r \in Order : SameLeg(o, r) =>
    \A j \in Nat, k \in Nat, l \in Nat, n \in Nat :
      Staged(st, j, k, o) /\ Staged(st, l, n, r) => j = l /\ k = n /\ o = r

LEMMA StagesJoined ==
  ASSUME NEW P \in StageSeq, NEW Q \in StageSeq, OnePerStage(P), OnePerStage(Q),
         NEW X \in SUBSET Order, NEW Y \in SUBSET Order, Apart(X, Y),
         \A o : Holds(P, o) <=> o \in X, \A o : Holds(Q, o) <=> o \in Y
  PROVE  /\ P \o Q \in StageSeq /\ OnePerStage(P \o Q)
         /\ \A o : Holds(P \o Q, o) <=> o \in X \cup Y
  <1>1. /\ P \o Q \in StageSeq /\ Len(P) \in Nat /\ Len(Q) \in Nat
        /\ DOMAIN P = 1..Len(P) /\ DOMAIN Q = 1..Len(Q)
        /\ DOMAIN (P \o Q) = 1 .. Len(P) + Len(Q)
        /\ \A i \in 1 .. Len(P) + Len(Q) : (P \o Q)[i] = IF i <= Len(P) THEN P[i] ELSE Q[i - Len(P)]
    BY ConcatProperties, LenProperties DEF StageSeq
  <1>2. ASSUME NEW j \in Nat, NEW k \in Nat, NEW o
        PROVE  Staged(P \o Q, j, k, o) <=>
                 Staged(P, j, k, o) \/ (j > Len(P) /\ Staged(Q, j - Len(P), k, o))
    <2>1. CASE j \in 1..Len(P)
      BY <1>1, <2>1 DEF Staged
    <2>2. CASE j > Len(P)
      BY <1>1, <2>2 DEF Staged
    <2>3. CASE j = 0
      BY <1>1, <2>3 DEF Staged
    <2> QED BY <1>1, <2>1, <2>2, <2>3
  <1>3. ASSUME NEW o PROVE Holds(P \o Q, o) <=> o \in X \cup Y
    <2>1. ASSUME Holds(P \o Q, o) PROVE o \in X \cup Y
      <3>1. PICK j \in Nat, k \in Nat : Staged(P \o Q, j, k, o)
        BY <2>1 DEF Holds
      <3>2. CASE Staged(P, j, k, o)
        BY <3>2 DEF Holds
      <3>3. CASE j > Len(P) /\ Staged(Q, j - Len(P), k, o)
        <4>1. j - Len(P) \in Nat
          BY <1>1, <3>3
        <4> QED BY <3>3, <4>1 DEF Holds
      <3> QED BY <1>2, <3>1, <3>2, <3>3
    <2>2. ASSUME o \in X PROVE Holds(P \o Q, o)
      <3>1. PICK j \in Nat, k \in Nat : Staged(P, j, k, o)
        BY <2>2 DEF Holds
      <3> QED BY <1>2, <3>1 DEF Holds
    <2>3. ASSUME o \in Y PROVE Holds(P \o Q, o)
      <3>1. PICK j \in Nat, k \in Nat : Staged(Q, j, k, o)
        BY <2>3 DEF Holds
      <3>2. j > 0
        <4>1. j \in DOMAIN Q
          BY <3>1 DEF Staged
        <4> QED BY <1>1, <4>1
      <3>3. j + Len(P) \in Nat /\ j + Len(P) > Len(P) /\ (j + Len(P)) - Len(P) = j
        BY <1>1, <3>2
      <3>4. Staged(P \o Q, j + Len(P), k, o)
        BY <1>2, <3>1, <3>3
      <3> QED BY <3>3, <3>4 DEF Holds
    <2> QED BY <2>1, <2>2, <2>3
  <1>4. ASSUME NEW o \in Order, NEW r \in Order, SameLeg(o, r),
               NEW j \in Nat, NEW k \in Nat, NEW l \in Nat, NEW n \in Nat,
               Staged(P \o Q, j, k, o), Staged(P \o Q, l, n, r)
        PROVE  j = l /\ k = n /\ o = r
    <2>1. \/ Staged(P, j, k, o)
          \/ j > Len(P) /\ j - Len(P) \in Nat /\ Staged(Q, j - Len(P), k, o)
      <3>1. Staged(P, j, k, o) \/ (j > Len(P) /\ Staged(Q, j - Len(P), k, o))
        BY <1>2, <1>4
      <3> QED BY <1>1, <3>1
    <2>2. \/ Staged(P, l, n, r)
          \/ l > Len(P) /\ l - Len(P) \in Nat /\ Staged(Q, l - Len(P), n, r)
      <3>1. Staged(P, l, n, r) \/ (l > Len(P) /\ Staged(Q, l - Len(P), n, r))
        BY <1>2, <1>4
      <3> QED BY <1>1, <3>1
    <2>3. CASE Staged(P, j, k, o) /\ Staged(P, l, n, r)
      BY <1>4, <2>3 DEF OnePerStage
    <2>4. CASE /\ j - Len(P) \in Nat /\ Staged(Q, j - Len(P), k, o)
               /\ l - Len(P) \in Nat /\ Staged(Q, l - Len(P), n, r)
      <3>1. j - Len(P) = l - Len(P) /\ k = n /\ o = r
        BY <1>4, <2>4 DEF OnePerStage
      <3> QED BY <1>1, <3>1
    <2>5. CASE Staged(P, j, k, o) /\ l - Len(P) \in Nat /\ Staged(Q, l - Len(P), n, r)
      <3>1. o \in X /\ r \in Y
        BY <2>5 DEF Holds
      <3> QED BY <1>4, <3>1 DEF Apart
    <2>6. CASE Staged(P, l, n, r) /\ j - Len(P) \in Nat /\ Staged(Q, j - Len(P), k, o)
      <3>1. r \in X /\ o \in Y /\ SameLeg(r, o)
        BY <1>4, <2>6 DEF Holds, SameLeg
      <3> QED BY <3>1 DEF Apart
    <2> QED BY <2>1, <2>2, <2>3, <2>4, <2>5, <2>6
  <1>5. OnePerStage(P \o Q)
    BY <1>4 DEF OnePerStage
  <1> QED BY <1>1, <1>3, <1>5

LEMMA StageIs ==
  ASSUME NEW X \in SUBSET Order, NEW Y \in SUBSET Order, OneEach(X), OneEach(Y), Apart(X, Y)
  PROVE  LET st == Stage(NonEmpty(X) \o NonEmpty(Y))
         IN  st \in StageSeq /\ OnePerStage(st) /\ \A o : Holds(st, o) <=> o \in X \cup Y
  <1> DEFINE B == NonEmpty(X) \o NonEmpty(Y)
             st == Stage(B)
  <1>1. /\ B \in Seq(SUBSET Order)
        /\ \/ X = {} /\ Y = {} /\ B = <<>>
           \/ X # {} /\ Y = {} /\ B = <<X>>
           \/ X = {} /\ Y # {} /\ B = <<Y>>
           \/ X # {} /\ Y # {} /\ B = <<X, Y>>
    <2>1. <<X>> \in Seq(SUBSET Order) /\ <<Y>> \in Seq(SUBSET Order) /\ <<>> \in Seq(SUBSET Order)
      OBVIOUS
    <2>2. <<X>> \o <<>> = <<X>> /\ <<>> \o <<Y>> = <<Y>> /\ <<>> \o <<>> = <<>>
      BY <2>1, ConcatEmptySeq
    <2>3. <<X>> \o <<Y>> = <<X, Y>> /\ <<X, Y>> \in Seq(SUBSET Order)
      <3>1. <<X, Y>> \in Seq(SUBSET Order) /\ Len(<<X, Y>>) = 2 /\ Len(<<X>>) = 1 /\ Len(<<Y>>) = 1
        OBVIOUS
      <3>2. /\ <<X>> \o <<Y>> \in Seq(SUBSET Order) /\ Len(<<X>> \o <<Y>>) = 2
            /\ \A i \in 1..2 : (<<X>> \o <<Y>>)[i] = IF i <= 1 THEN <<X>>[i] ELSE <<Y>>[i - 1]
        BY <2>1, <3>1, ConcatProperties
      <3>3. \A i \in 1..2 : (<<X>> \o <<Y>>)[i] = <<X, Y>>[i]
        BY <3>2
      <3> QED BY <3>1, <3>2, <3>3, SeqEqual
    <2>4. /\ NonEmpty(X) = IF X = {} THEN <<>> ELSE <<X>>
          /\ NonEmpty(Y) = IF Y = {} THEN <<>> ELSE <<Y>>
      BY DEF NonEmpty
    <2>5. CASE X = {} /\ Y = {}
      <3>1. B = <<>> \o <<>>
        BY <2>4, <2>5
      <3> QED BY <2>1, <2>2, <2>5, <3>1
    <2>6. CASE X # {} /\ Y = {}
      <3>1. B = <<X>> \o <<>>
        BY <2>4, <2>6
      <3> QED BY <2>1, <2>2, <2>6, <3>1
    <2>7. CASE X = {} /\ Y # {}
      <3>1. B = <<>> \o <<Y>>
        BY <2>4, <2>7
      <3> QED BY <2>1, <2>2, <2>7, <3>1
    <2>8. CASE X # {} /\ Y # {}
      <3>1. B = <<X>> \o <<Y>>
        BY <2>4, <2>8
      <3> QED BY <2>3, <2>8, <3>1
    <2> QED BY <2>5, <2>6, <2>7, <2>8
  <1>2. (B = <<>> /\ st = <<>>) \/ (B # <<>> /\ st = <<B>>)
    BY DEF Stage
  <1> HIDE DEF B, st
  <1>3. st \in StageSeq
    <2>1. CASE B = <<>>
      BY <1>2, <2>1 DEF StageSeq
    <2>2. CASE B # <<>>
      <3>1. <<B>> \in Seq(Seq(SUBSET Order))
        BY <1>1
      <3> QED BY <1>2, <2>2, <3>1 DEF StageSeq
    <2> QED BY <2>1, <2>2
  <1>4. ASSUME NEW j \in Nat, NEW k \in Nat, NEW o
        PROVE  Staged(st, j, k, o) <=> j = 1 /\ k \in DOMAIN B /\ o \in B[k]
    BY <1>1, <1>2 DEF Staged
  <1>5. ASSUME NEW o PROVE Holds(st, o) <=> o \in X \cup Y
    <2>1. Holds(st, o) <=> \E k \in Nat : k \in DOMAIN B /\ o \in B[k]
      BY <1>4 DEF Holds
    <2> QED BY <1>1, <2>1
  <1>6. ASSUME NEW o \in Order, NEW r \in Order, SameLeg(o, r), NEW k \in Nat, NEW n \in Nat,
               k \in DOMAIN B, n \in DOMAIN B, o \in B[k], r \in B[n]
        PROVE  k = n /\ o = r
    <2>1. SameLeg(r, o)
      BY <1>6 DEF SameLeg
    <2>2. CASE B = <<X>>
      BY <1>6, <2>2 DEF OneEach
    <2>3. CASE B = <<Y>>
      BY <1>6, <2>3 DEF OneEach
    <2>4. CASE B = <<X, Y>>
      <3>1. (k = 1 \/ k = 2) /\ (n = 1 \/ n = 2)
        BY <1>6, <2>4
      <3> QED BY <1>6, <2>1, <2>4, <3>1 DEF OneEach, Apart
    <2>5. CASE B = <<>>
      BY <1>6, <2>5
    <2> QED BY <1>1, <2>2, <2>3, <2>4, <2>5
  <1>7. OnePerStage(st)
    BY <1>4, <1>6 DEF OnePerStage
  <1> QED BY <1>3, <1>5, <1>7 DEF st, B

LEMMA SingleStageIs ==
  ASSUME NEW X \in SUBSET Order, OneEach(X)
  PROVE  LET st == Stage(NonEmpty(X))
         IN  st \in StageSeq /\ OnePerStage(st) /\ \A o : Holds(st, o) <=> o \in X
  <1>1. OneEach({}) /\ Apart(X, {})
    BY DEF OneEach, Apart
  <1>2. NonEmpty(X) \o NonEmpty({}) = NonEmpty(X)
    BY DEF NonEmpty
  <1>3. X \cup {} = X
    OBVIOUS
  <1> QED BY <1>1, <1>2, <1>3, StageIs


(* What a plan that starts from cur does to the legs of a symbol.          *)
LEMMA OrdersAre ==
  ASSUME NEW cur \in [Symbols -> Int], NEW t \in [Symbols -> Int], NEW gone \in SUBSET Symbols
  PROVE  /\ DelistCloses(cur, gone) \in SUBSET Order /\ ReverseCloses(cur, t) \in SUBSET Order
         /\ NormalCloses(cur, t) \in SUBSET Order /\ NormalOpens(cur, t) \in SUBSET Order
         /\ ReverseOpens(cur, t) \in SUBSET Order
         /\ OneEach(DelistCloses(cur, gone)) /\ OneEach(ReverseCloses(cur, t))
         /\ OneEach(NormalCloses(cur, t)) /\ OneEach(NormalOpens(cur, t))
         /\ OneEach(ReverseOpens(cur, t))
  <1>1. ASSUME NEW s \in Symbols
        PROVE  /\ cur[s] \in Int /\ t[s] \in Int
               /\ Abs(cur[s]) \in Nat /\ Side(cur[s]) \in Sides
               /\ Abs(t[s]) \in Nat /\ Side(t[s]) \in Sides
               /\ Abs(t[s]) < Abs(cur[s]) => Abs(cur[s]) - Abs(t[s]) \in Nat
               /\ Abs(t[s]) > Abs(cur[s]) => Abs(t[s]) - Abs(cur[s]) \in Nat
    BY DEF Abs, Side, Sides
  <1>2. \A s \in Symbols, c \in Int, n \in Nat : Close(s, c, n) \in Order /\ Open(s, c, n) \in Order
    BY DEF Close, Open, Order, Side, Sides
  <1>3. /\ DelistCloses(cur, gone) \in SUBSET Order /\ ReverseCloses(cur, t) \in SUBSET Order
        /\ NormalCloses(cur, t) \in SUBSET Order /\ NormalOpens(cur, t) \in SUBSET Order
        /\ ReverseOpens(cur, t) \in SUBSET Order
    BY <1>1, <1>2 DEF DelistCloses, ReverseCloses, NormalCloses, NormalOpens, ReverseOpens
  <1>4. \A s, c, n : Close(s, c, n).s = s /\ Open(s, c, n).s = s
    BY DEF Close, Open
  <1>5. /\ \A o \in DelistCloses(cur, gone) : o = Close(o.s, cur[o.s], Abs(cur[o.s]))
        /\ \A o \in ReverseCloses(cur, t) : o = Close(o.s, cur[o.s], Abs(cur[o.s]))
        /\ \A o \in NormalCloses(cur, t) : o = Close(o.s, cur[o.s], Abs(cur[o.s]) - Abs(t[o.s]))
        /\ \A o \in NormalOpens(cur, t) : o = Open(o.s, t[o.s], Abs(t[o.s]) - Abs(cur[o.s]))
        /\ \A o \in ReverseOpens(cur, t) : o = Open(o.s, t[o.s], Abs(t[o.s]))
    BY <1>4 DEF DelistCloses, ReverseCloses, NormalCloses, NormalOpens, ReverseOpens
  <1>6. /\ OneEach(DelistCloses(cur, gone)) /\ OneEach(ReverseCloses(cur, t))
        /\ OneEach(NormalCloses(cur, t)) /\ OneEach(NormalOpens(cur, t))
        /\ OneEach(ReverseOpens(cur, t))
    <2>1. ASSUME NEW o, NEW r, SameLeg(o, r) PROVE o.s = r.s
      BY <2>1 DEF SameLeg
    <2> QED BY <1>5, <2>1 DEF OneEach
  <1> QED BY <1>3, <1>6

Rest(cur, gone) == [s \in Symbols |-> IF s \in gone THEN 0 ELSE cur[s]]

LEMMA OrdersApart ==
  ASSUME NEW cur \in [Symbols -> Int], NEW t \in [Symbols -> Int], NEW gone \in SUBSET Symbols,
         \A s \in gone : t[s] = 0
  PROVE  LET c == Rest(cur, gone)
         IN  /\ Apart(DelistCloses(cur, gone), ReverseCloses(c, t))
             /\ Apart(DelistCloses(cur, gone), NormalCloses(c, t))
             /\ Apart(DelistCloses(cur, gone), NormalOpens(c, t))
             /\ Apart(DelistCloses(cur, gone), ReverseOpens(c, t))
             /\ Apart(ReverseCloses(c, t), NormalCloses(c, t))
             /\ Apart(ReverseCloses(c, t), NormalOpens(c, t))
             /\ Apart(ReverseCloses(c, t), ReverseOpens(c, t))
             /\ Apart(NormalCloses(c, t), NormalOpens(c, t))
             /\ Apart(NormalCloses(c, t), ReverseOpens(c, t))
             /\ Apart(NormalOpens(c, t), ReverseOpens(c, t))
  <1> DEFINE c == Rest(cur, gone)
  <1>1. c \in [Symbols -> Int] /\ \A s \in gone : c[s] = 0
    BY DEF Rest
  <1> HIDE DEF c
  <1>2. ASSUME NEW s \in Symbols
        PROVE  /\ s \in gone => ~Reverses(c[s], t[s]) /\ Abs(t[s]) = Abs(c[s])
               /\ Reverses(c[s], t[s]) => Side(c[s]) # Side(t[s])
               /\ Abs(c[s]) \in Nat /\ Abs(t[s]) \in Nat
    <2>1. c[s] \in Int /\ t[s] \in Int
      BY <1>1
    <2> QED BY <1>1, <2>1, Sgn DEF Abs, Side
  <1>3. \A o \in DelistCloses(cur, gone) : o.s \in gone
    BY DEF DelistCloses, Close
  <1>4. \A o \in ReverseCloses(c, t) : o.s \in Symbols /\ Reverses(c[o.s], t[o.s]) /\ o.side = Side(c[o.s])
    BY DEF ReverseCloses, Close
  <1>5. \A o \in NormalCloses(c, t) : o.s \in Symbols /\ ~Reverses(c[o.s], t[o.s]) /\ Abs(t[o.s]) < Abs(c[o.s])
    BY DEF NormalCloses, Close
  <1>6. \A o \in NormalOpens(c, t) : o.s \in Symbols /\ ~Reverses(c[o.s], t[o.s]) /\ Abs(t[o.s]) > Abs(c[o.s])
    BY DEF NormalOpens, Open
  <1>7. \A o \in ReverseOpens(c, t) : o.s \in Symbols /\ Reverses(c[o.s], t[o.s]) /\ o.side = Side(t[o.s])
    BY DEF ReverseOpens, Open
  <1>8. /\ Apart(DelistCloses(cur, gone), ReverseCloses(c, t))
        /\ Apart(DelistCloses(cur, gone), NormalCloses(c, t))
        /\ Apart(DelistCloses(cur, gone), NormalOpens(c, t))
        /\ Apart(DelistCloses(cur, gone), ReverseOpens(c, t))
    BY <1>2, <1>3, <1>4, <1>5, <1>6, <1>7 DEF Apart, SameLeg
  <1>9. /\ Apart(ReverseCloses(c, t), NormalCloses(c, t))
        /\ Apart(ReverseCloses(c, t), NormalOpens(c, t))
        /\ Apart(ReverseCloses(c, t), ReverseOpens(c, t))
    BY <1>2, <1>4, <1>5, <1>6, <1>7 DEF Apart, SameLeg
  <1>10. /\ Apart(NormalCloses(c, t), NormalOpens(c, t))
         /\ Apart(NormalCloses(c, t), ReverseOpens(c, t))
         /\ Apart(NormalOpens(c, t), ReverseOpens(c, t))
    BY <1>2, <1>5, <1>6, <1>7 DEF Apart, SameLeg
  <1> QED BY <1>8, <1>9, <1>10 DEF c

Planned(cur, t, gone) ==
  DelistCloses(cur, gone) \cup ReverseCloses(Rest(cur, gone), t) \cup NormalCloses(Rest(cur, gone), t)
    \cup NormalOpens(Rest(cur, gone), t) \cup ReverseOpens(Rest(cur, gone), t)

LEMMA PlanStages ==
  ASSUME NEW cur \in [Symbols -> Int], NEW t \in [Symbols -> Int], NEW gone \in SUBSET Symbols,
         \A s \in gone : t[s] = 0
  PROVE  /\ Stages(cur, t, gone) \in StageSeq /\ OnePerStage(Stages(cur, t, gone))
         /\ \A o : Holds(Stages(cur, t, gone), o) <=> o \in Planned(cur, t, gone)
  <1> DEFINE c == Rest(cur, gone)
             D == DelistCloses(cur, gone)
             E == ReverseCloses(c, t)
             F == NormalCloses(c, t)
             G == NormalOpens(c, t)
             H == ReverseOpens(c, t)
             s1 == Stage(NonEmpty(D))
             s2 == Stage(NonEmpty(E))
             s3 == Stage(NonEmpty(F))
             s4 == Stage(NonEmpty(G) \o NonEmpty(H))
  <1>1. c \in [Symbols -> Int]
    BY DEF Rest
  <1>2. /\ D \in SUBSET Order /\ E \in SUBSET Order /\ F \in SUBSET Order
        /\ G \in SUBSET Order /\ H \in SUBSET Order
        /\ OneEach(D) /\ OneEach(E) /\ OneEach(F) /\ OneEach(G) /\ OneEach(H)
    <2> HIDE DEF c
    <2> QED BY <1>1, OrdersAre
  <1>3. /\ Apart(D, E) /\ Apart(D, F) /\ Apart(D, G) /\ Apart(D, H)
        /\ Apart(E, F) /\ Apart(E, G) /\ Apart(E, H)
        /\ Apart(F, G) /\ Apart(F, H) /\ Apart(G, H)
    BY OrdersApart
  <1>4. Stages(cur, t, gone) = ((s1 \o s2) \o s3) \o s4
    BY DEF Stages, Rest
  <1>5. Planned(cur, t, gone) = ((D \cup E) \cup F) \cup (G \cup H)
    BY DEF Planned
  <1> HIDE DEF D, E, F, G, H
  <1>6. /\ s1 \in StageSeq /\ OnePerStage(s1) /\ \A o : Holds(s1, o) <=> o \in D
        /\ s2 \in StageSeq /\ OnePerStage(s2) /\ \A o : Holds(s2, o) <=> o \in E
        /\ s3 \in StageSeq /\ OnePerStage(s3) /\ \A o : Holds(s3, o) <=> o \in F
    BY <1>2, SingleStageIs
  <1>7. s4 \in StageSeq /\ OnePerStage(s4) /\ \A o : Holds(s4, o) <=> o \in G \cup H
    BY <1>2, <1>3, StageIs
  <1> HIDE DEF s1, s2, s3, s4
  <1>8. /\ s1 \o s2 \in StageSeq /\ OnePerStage(s1 \o s2)
        /\ \A o : Holds(s1 \o s2, o) <=> o \in D \cup E
    BY <1>2, <1>3, <1>6, StagesJoined
  <1>9. /\ (s1 \o s2) \o s3 \in StageSeq /\ OnePerStage((s1 \o s2) \o s3)
        /\ \A o : Holds((s1 \o s2) \o s3, o) <=> o \in (D \cup E) \cup F
    <2>1. Apart(D \cup E, F) /\ D \cup E \in SUBSET Order
      BY <1>2, <1>3 DEF Apart
    <2> QED BY <1>2, <1>6, <1>8, <2>1, StagesJoined
  <1>10. Apart((D \cup E) \cup F, G \cup H) /\ (D \cup E) \cup F \in SUBSET Order /\ G \cup H \in SUBSET Order
    BY <1>2, <1>3 DEF Apart
  <1>11. /\ ((s1 \o s2) \o s3) \o s4 \in StageSeq /\ OnePerStage(((s1 \o s2) \o s3) \o s4)
         /\ \A o : Holds(((s1 \o s2) \o s3) \o s4, o) <=> o \in ((D \cup E) \cup F) \cup (G \cup H)
    BY <1>7, <1>9, <1>10, StagesJoined
  <1> QED BY <1>4, <1>5, <1>11


(* After the orders of a plan every leg is as the plan wants it, if the    *)
(* positions are what the plan starts from.                                *)
LEMMA PlanAims ==
  ASSUME NEW cur \in [Symbols -> Int], NEW t \in [Symbols -> Int], NEW gone \in SUBSET Symbols,
         \A s \in gone : t[s] = 0
  PROVE  /\ \A o \in Planned(cur, t, gone) : Want(cur, o.s, o.side) + Signed(o) = Want(t, o.s, o.side)
         /\ \A s \in Symbols, d \in Sides :
              (\A o \in Planned(cur, t, gone) : ~OnLeg(o, s, d)) => Want(cur, s, d) = Want(t, s, d)
  <1> DEFINE c == Rest(cur, gone)
  <1>1. /\ c \in [Symbols -> Int]
        /\ \A s \in gone : c[s] = 0 /\ t[s] = 0
        /\ \A s \in Symbols \ gone : c[s] = cur[s]
    BY DEF Rest
  <1> HIDE DEF c
  <1>2. \A s, n, q : /\ Close(s, n, q).s = s /\ Close(s, n, q).side = Side(n) /\ Signed(Close(s, n, q)) = -q
                     /\ Open(s, n, q).s = s /\ Open(s, n, q).side = Side(n) /\ Signed(Open(s, n, q)) = q
    BY DEF Close, Open, Signed
  <1>3. ASSUME NEW s \in Symbols
        PROVE  /\ cur[s] \in Int /\ t[s] \in Int /\ c[s] \in Int
               /\ Reverses(c[s], t[s]) <=> (c[s] < 0 /\ t[s] > 0) \/ (c[s] > 0 /\ t[s] < 0)
    <2>1. cur[s] \in Int /\ t[s] \in Int /\ c[s] \in Int
      BY <1>1
    <2> QED BY <2>1, Sgn
  <1>4. ASSUME NEW o \in Planned(cur, t, gone)
        PROVE  Want(cur, o.s, o.side) + Signed(o) = Want(t, o.s, o.side)
    <2>1. CASE o \in DelistCloses(cur, gone)
      <3>1. PICK s \in gone : cur[s] # 0 /\ o = Close(s, cur[s], Abs(cur[s]))
        BY <2>1 DEF DelistCloses
      <3>2. o.s = s /\ o.side = Side(cur[s]) /\ Signed(o) = -Abs(cur[s])
        BY <1>2, <3>1
      <3> QED BY <1>1, <1>3, <3>1, <3>2 DEF Want, Abs, Side
    <2>2. CASE o \in ReverseCloses(c, t)
      <3>1. PICK s \in Symbols : Reverses(c[s], t[s]) /\ o = Close(s, c[s], Abs(c[s]))
        BY <2>2 DEF ReverseCloses
      <3>2. o.s = s /\ o.side = Side(c[s]) /\ Signed(o) = -Abs(c[s])
        BY <1>2, <3>1
      <3>3. c[s] = cur[s]
        BY <1>1, <1>3, <3>1
      <3> QED BY <1>3, <3>1, <3>2, <3>3 DEF Want, Abs, Side
    <2>3. CASE o \in NormalCloses(c, t)
      <3>1. PICK s \in Symbols : ~Reverses(c[s], t[s]) /\ Abs(t[s]) < Abs(c[s])
                                 /\ o = Close(s, c[s], Abs(c[s]) - Abs(t[s]))
        BY <2>3 DEF NormalCloses
      <3>2. o.s = s /\ o.side = Side(c[s]) /\ Signed(o) = -(Abs(c[s]) - Abs(t[s]))
        BY <1>2, <3>1
      <3>3. c[s] = cur[s]
        <4>1. CASE s \in gone
          <5>1. c[s] = 0 /\ t[s] = 0
            BY <1>1, <4>1
          <5> QED BY <3>1, <5>1 DEF Abs
        <4> QED BY <1>1, <4>1
      <3> QED BY <1>3, <3>1, <3>2, <3>3 DEF Want, Abs, Side
    <2>4. CASE o \in NormalOpens(c, t)
      <3>1. PICK s \in Symbols : ~Reverses(c[s], t[s]) /\ Abs(t[s]) > Abs(c[s])
                                 /\ o = Open(s, t[s], Abs(t[s]) - Abs(c[s]))
        BY <2>4 DEF NormalOpens
      <3>2. o.s = s /\ o.side = Side(t[s]) /\ Signed(o) = Abs(t[s]) - Abs(c[s])
        BY <1>2, <3>1
      <3>3. c[s] = cur[s]
        <4>1. CASE s \in gone
          <5>1. c[s] = 0 /\ t[s] = 0
            BY <1>1, <4>1
          <5> QED BY <3>1, <5>1 DEF Abs
        <4> QED BY <1>1, <4>1
      <3> QED BY <1>3, <3>1, <3>2, <3>3 DEF Want, Abs, Side
    <2>5. CASE o \in ReverseOpens(c, t)
      <3>1. PICK s \in Symbols : Reverses(c[s], t[s]) /\ o = Open(s, t[s], Abs(t[s]))
        BY <2>5 DEF ReverseOpens
      <3>2. o.s = s /\ o.side = Side(t[s]) /\ Signed(o) = Abs(t[s])
        BY <1>2, <3>1
      <3>3. c[s] = cur[s]
        BY <1>1, <1>3, <3>1
      <3> QED BY <1>3, <3>1, <3>2, <3>3 DEF Want, Abs, Side
    <2> QED BY <1>4, <2>1, <2>2, <2>3, <2>4, <2>5 DEF Planned, c
  <1>5. ASSUME NEW s \in Symbols, NEW d \in Sides, \A o \in Planned(cur, t, gone) : ~OnLeg(o, s, d)
        PROVE  Want(cur, s, d) = Want(t, s, d)
    <2>1. \A n, q : OnLeg(Close(s, n, q), s, Side(n)) /\ OnLeg(Open(s, n, q), s, Side(n))
      BY <1>2 DEF OnLeg
    <2>2. CASE s \in gone
      <3>1. CASE cur[s] = 0
        BY <1>1, <2>2, <3>1 DEF Want
      <3>2. CASE cur[s] # 0
        <4>1. Close(s, cur[s], Abs(cur[s])) \in Planned(cur, t, gone)
          BY <2>2, <3>2 DEF Planned, DelistCloses
        <4>2. d # Side(cur[s])
          BY <1>5, <2>1, <4>1
        <4> QED BY <1>1, <2>2, <4>2 DEF Want, Abs, Side, Sides
      <3> QED BY <3>1, <3>2
    <2>3. CASE s \notin gone /\ Reverses(c[s], t[s])
      <3>1. /\ Close(s, c[s], Abs(c[s])) \in Planned(cur, t, gone)
            /\ Open(s, t[s], Abs(t[s])) \in Planned(cur, t, gone)
        BY <2>3 DEF Planned, ReverseCloses, ReverseOpens, c
      <3>2. d # Side(c[s]) /\ d # Side(t[s])
        BY <1>5, <2>1, <3>1
      <3>3. c[s] = cur[s]
        BY <1>1, <2>3
      <3> QED BY <3>2, <3>3 DEF Want
    <2>4. CASE s \notin gone /\ ~Reverses(c[s], t[s])
      <3>1. c[s] = cur[s]
        BY <1>1, <2>4
      <3>2. CASE Abs(t[s]) < Abs(c[s])
        <4>1. Close(s, c[s], Abs(c[s]) - Abs(t[s])) \in Planned(cur, t, gone)
          BY <2>4, <3>2 DEF Planned, NormalCloses, c
        <4>2. d # Side(c[s])
          BY <1>5, <2>1, <4>1
        <4> QED BY <1>3, <2>4, <3>1, <3>2, <4>2 DEF Want, Abs, Side, Sides
      <3>3. CASE Abs(t[s]) > Abs(c[s])
        <4>1. Open(s, t[s], Abs(t[s]) - Abs(c[s])) \in Planned(cur, t, gone)
          BY <2>4, <3>3 DEF Planned, NormalOpens, c
        <4>2. d # Side(t[s])
          BY <1>5, <2>1, <4>1
        <4> QED BY <1>3, <2>4, <3>1, <3>3, <4>2 DEF Want, Abs, Side, Sides
      <3>4. CASE Abs(t[s]) = Abs(c[s])
        BY <1>3, <2>4, <3>1, <3>4 DEF Want, Abs, Side, Sides
      <3>5. Abs(t[s]) \in Int /\ Abs(c[s]) \in Int
        BY <1>3 DEF Abs
      <3> QED BY <3>2, <3>3, <3>4, <3>5
    <2> QED BY <2>2, <2>3, <2>4
  <1> QED BY <1>4, <1>5


-----------------------------------------------------------------------------
(* The largest leg.                                                        *)

LEMMA ImageFinite ==
  ASSUME NEW S, IsFiniteSet(S), NEW f, DOMAIN f = S, f = [x \in S |-> f[x]]
  PROVE  IsFiniteSet({f[x] : x \in S})
  <1>1. f \in Surjection(S, {f[x] : x \in S})
    BY DEF Surjection
  <1> QED BY <1>1, FS_Surjection

LEMMA MaxLegIs ==
  /\ MaxLeg \in Nat
  /\ \A t \in Targets, s \in Symbols, d \in Sides : Want(t, s, d) <= MaxLeg
  /\ \A l \in InitialLegs, s \in Symbols, d \in Sides : l[s][d] <= MaxLeg
  <1> DEFINE A == {Abs(t[s]) : t \in Targets, s \in Symbols}
             B(l) == {l[s][d] : s \in Symbols, d \in Sides}
             C == UNION {B(l) : l \in InitialLegs}
             All == {1} \cup A \cup C
  <1>1. /\ IsFiniteSet(Symbols) /\ IsFiniteSet(Targets) /\ IsFiniteSet(InitialLegs)
        /\ Targets \subseteq [Symbols -> Int] /\ InitialLegs \subseteq [Symbols -> [Sides -> Nat]]
    BY PortfolioAssumption DEF Legs
  <1>2. IsFiniteSet(Sides)
    <2>1. Sides = {"LONG"} \cup {"SHORT"}
      BY DEF Sides
    <2> QED BY <2>1, FS_Singleton, FS_AddElement
  <1>3. IsFiniteSet(A)
    <2> DEFINE f == [x \in Targets \X Symbols |-> Abs(x[1][x[2]])]
    <2>1. IsFiniteSet(Targets \X Symbols)
      BY <1>1, FS_Product
    <2>2. DOMAIN f = Targets \X Symbols /\ f = [x \in Targets \X Symbols |-> f[x]]
      OBVIOUS
    <2>3. A = {f[x] : x \in Targets \X Symbols}
      <3>1. \A t \in Targets, s \in Symbols : <<t, s>> \in Targets \X Symbols /\ f[<<t, s>>] = Abs(t[s])
        OBVIOUS
      <3>2. \A x \in Targets \X Symbols : x[1] \in Targets /\ x[2] \in Symbols /\ f[x] = Abs(x[1][x[2]])
        OBVIOUS
      <3> HIDE DEF f
      <3>3. ASSUME NEW v \in A PROVE v \in {f[x] : x \in Targets \X Symbols}
        <4>1. PICK t \in Targets, s \in Symbols : v = Abs(t[s])
          OBVIOUS
        <4> HIDE DEF A
        <4>2. PICK x \in Targets \X Symbols : x = <<t, s>>
          OBVIOUS
        <4>3. v = f[x]
          BY <3>1, <4>1, <4>2
        <4> QED BY <4>3
      <3>4. ASSUME NEW x \in Targets \X Symbols PROVE f[x] \in A
        BY <3>2
      <3> HIDE DEF A
      <3> QED BY <3>3, <3>4
    <2> HIDE DEF f, A
    <2> QED BY <2>1, <2>2, <2>3, ImageFinite
  <1>4. ASSUME NEW l \in InitialLegs PROVE IsFiniteSet(B(l))
    <2> DEFINE f == [x \in Symbols \X Sides |-> l[x[1]][x[2]]]
    <2>1. IsFiniteSet(Symbols \X Sides)
      BY <1>1, <1>2, FS_Product
    <2>2. DOMAIN f = Symbols \X Sides /\ f = [x \in Symbols \X Sides |-> f[x]]
      OBVIOUS
    <2>3. B(l) = {f[x] : x \in Symbols \X Sides}
      <3>1. \A s \in Symbols, d \in Sides : <<s, d>> \in Symbols \X Sides /\ f[<<s, d>>] = l[s][d]
        OBVIOUS
      <3>2. \A x \in Symbols \X Sides : x[1] \in Symbols /\ x[2] \in Sides /\ f[x] = l[x[1]][x[2]]
        OBVIOUS
      <3> HIDE DEF f
      <3>3. ASSUME NEW v \in B(l) PROVE v \in {f[x] : x \in Symbols \X Sides}
        <4>1. PICK s \in Symbols, d \in Sides : v = l[s][d]
          OBVIOUS
        <4> HIDE DEF B
        <4>2. PICK x \in Symbols \X Sides : x = <<s, d>>
          OBVIOUS
        <4>3. v = f[x]
          BY <3>1, <4>1, <4>2
        <4> QED BY <4>3
      <3>4. ASSUME NEW x \in Symbols \X Sides PROVE f[x] \in B(l)
        BY <3>2
      <3> HIDE DEF B
      <3> QED BY <3>3, <3>4
    <2> HIDE DEF f, B
    <2> QED BY <2>1, <2>2, <2>3, ImageFinite
  <1>5. IsFiniteSet(C)
    <2> DEFINE f == [l \in InitialLegs |-> B(l)]
    <2>1. DOMAIN f = InitialLegs /\ f = [l \in InitialLegs |-> f[l]]
      OBVIOUS
    <2>2. {f[l] : l \in InitialLegs} = {B(l) : l \in InitialLegs}
      OBVIOUS
    <2>3. IsFiniteSet({f[l] : l \in InitialLegs})
      <3> HIDE DEF f
      <3> QED BY <1>1, <2>1, ImageFinite
    <2> HIDE DEF f, B
    <2>4. \A T \in {B(l) : l \in InitialLegs} : IsFiniteSet(T)
      BY <1>4
    <2>5. IsFiniteSet({B(l) : l \in InitialLegs})
      BY <2>2, <2>3
    <2> QED BY <2>4, <2>5, FS_UNION
  <1>6. IsFiniteSet(All)
    <2> HIDE DEF A, C
    <2>1. IsFiniteSet({1}) /\ IsFiniteSet({1} \cup A)
      BY <1>3, FS_Union, FS_Singleton
    <2> QED BY <1>5, <2>1, FS_Union
  <1>7. A \subseteq Nat /\ \A t \in Targets, s \in Symbols : t[s] \in Int /\ Abs(t[s]) \in Nat
    BY <1>1 DEF Abs
  <1>8. C \subseteq Nat
    BY <1>1
  <1>9. All \subseteq Nat /\ 1 \in All
    BY <1>7, <1>8
  <1>10. Max(All) \in All /\ \A n \in All : n <= Max(All)
    <2> HIDE DEF All
    <2> QED BY <1>6, <1>9, MaxIs
  <1>11. MaxLeg = Max(All)
    BY DEF MaxLeg
  <1>12. MaxLeg \in Nat /\ \A n \in All : n <= MaxLeg
    <2> HIDE DEF All
    <2> QED BY <1>9, <1>10, <1>11
  <1>13. ASSUME NEW t \in Targets, NEW s \in Symbols, NEW d \in Sides PROVE Want(t, s, d) <= MaxLeg
    <2>1. Abs(t[s]) \in All
      OBVIOUS
    <2>2. Abs(t[s]) <= MaxLeg
      <3> HIDE DEF All
      <3> QED BY <1>12, <2>1
    <2> QED BY <1>12, <2>2 DEF Want
  <1>14. ASSUME NEW l \in InitialLegs, NEW s \in Symbols, NEW d \in Sides PROVE l[s][d] <= MaxLeg
    <2>1. l[s][d] \in All
      OBVIOUS
    <2> HIDE DEF All
    <2> QED BY <1>12, <2>1
  <1> QED BY <1>12, <1>13, <1>14


-----------------------------------------------------------------------------
(* The strategy's fields as its handlers set them.                         *)

LEMMA FreshIs ==
  /\ Fields(Fresh) /\ ~Fresh.ready /\ ~Fresh.data /\ Fresh.stages = <<>>
  /\ Flat \in Legs
  /\ \A s \in Symbols : Fresh.known[s] = 0
  <1>1. Flat \in Legs
    BY DEF Flat, Legs
  <1>2. MaxPeriod \in Nat /\ MaxPeriod > 0
    BY PeriodAssumption
  <1> QED BY <1>1, <1>2 DEF Fields, Fresh

LEMMA LoadedCandlesIs ==
  ASSUME Typed, NEW loaded \in SUBSET Symbols, NEW m, m = LoadedCandles(loaded)
  PROVE  /\ Fields(m) /\ ~m.ready /\ m.stages = <<>>
         /\ m.data <=> 2 * Cardinality(loaded) >= Cardinality(Symbols)
         /\ \A s \in Symbols : m.known[s] = IF s \in loaded THEN latest[s] ELSE 0
  <1>1. Fields(Fresh) /\ ~Fresh.ready /\ Fresh.stages = <<>>
    BY FreshIs
  <1>2. latest \in [Symbols -> 1..MaxPeriod] /\ MaxPeriod \in Nat
    BY PeriodAssumption DEF Typed
  <1> HIDE DEF Fresh
  <1>3. [s \in Symbols |-> IF s \in loaded THEN latest[s] ELSE 0] \in [Symbols -> 0..MaxPeriod]
    BY <1>2
  <1>4. (2 * Cardinality(loaded) >= Cardinality(Symbols)) \in BOOLEAN
    OBVIOUS
  <1> QED BY <1>1, <1>3, <1>4 DEF Fields, LoadedCandles

Fetched(m, a, w) == [Cleared(m) EXCEPT !.attempt = a, !.why = w]

LEMMA FetchIs ==
  ASSUME NEW m, Fields(m), NEW a \in {0, 1, 2}, NEW w \in {"initial", "rebalance"},
         NEW n, n = Fetched(m, a, w)
  PROVE  /\ Fields(n) /\ n.ready = m.ready /\ n.data = m.data /\ n.known = m.known
         /\ n.lastPeriod = m.lastPeriod /\ n.positions = Flat /\ ~n.done /\ n.why = w
         /\ n.target = m.target /\ n.delisted = m.delisted /\ n.stages = m.stages
  BY FreshIs DEF Fields, Cleared, Fetched

LEMMA ReadyIs ==
  ASSUME NEW m, Fields(m), NEW n, n = [m EXCEPT !.ready = TRUE]
  PROVE  /\ Fields(n) /\ n.ready /\ n.data = m.data /\ n.known = m.known
         /\ n.lastPeriod = m.lastPeriod /\ n.positions = m.positions /\ n.why = m.why
         /\ n.done = m.done /\ n.error = m.error
         /\ n.target = m.target /\ n.delisted = m.delisted /\ n.stages = m.stages
  BY DEF Fields

LEMMA ErrorIs ==
  ASSUME NEW m, Fields(m), NEW n, n = [m EXCEPT !.error = TRUE, !.done = TRUE]
  PROVE  /\ Fields(n) /\ n.ready = m.ready /\ n.data = m.data /\ n.known = m.known
         /\ n.lastPeriod = m.lastPeriod /\ n.positions = m.positions /\ n.why = m.why
         /\ n.error /\ n.target = m.target /\ n.delisted = m.delisted /\ n.stages = m.stages
  BY DEF Fields

LEMMA AnswerIs ==
  ASSUME NEW m, Fields(m), NEW data \in Legs,
         NEW n, n = [m EXCEPT !.positions = Merged(@, data), !.done = TRUE]
  PROVE  /\ Fields(n) /\ n.ready = m.ready /\ n.data = m.data /\ n.known = m.known
         /\ n.lastPeriod = m.lastPeriod /\ n.positions = Merged(m.positions, data) /\ n.why = m.why
         /\ n.target = m.target /\ n.delisted = m.delisted /\ n.stages = m.stages
  <1>1. m.positions \in Legs
    BY DEF Fields
  <1>2. Merged(m.positions, data) \in Legs
    BY <1>1 DEF Merged, Legs
  <1> QED BY <1>2 DEF Fields

Counted(m, c) == [m EXCEPT !.answered = c]

LEMMA CountedIs ==
  ASSUME NEW m, Fields(m), NEW c, NEW n, n = Counted(m, c)
  PROVE  /\ Fields(n) /\ n.ready = m.ready /\ n.data = m.data /\ n.known = m.known
         /\ n.lastPeriod = m.lastPeriod /\ n.positions = m.positions /\ n.why = m.why
         /\ n.done = m.done /\ n.error = m.error
         /\ n.target = m.target /\ n.delisted = m.delisted /\ n.stages = m.stages
  BY DEF Fields, Counted

KnownCounted(m, c) == [m EXCEPT !.lastKnown = c]

LEMMA KnownCountedIs ==
  ASSUME NEW m, Fields(m), NEW c, NEW n, n = KnownCounted(m, c)
  PROVE  /\ Fields(n) /\ n.ready = m.ready /\ n.data = m.data /\ n.known = m.known
         /\ n.lastPeriod = m.lastPeriod /\ n.positions = m.positions /\ n.why = m.why
         /\ n.target = m.target /\ n.delisted = m.delisted /\ n.stages = m.stages
  BY DEF Fields, KnownCounted

LEMMA LearntIs ==
  ASSUME Typed
  PROVE  /\ Fields(Learnt) /\ Learnt.ready = mem.ready /\ Learnt.data = mem.data
         /\ \A s \in Symbols : Learnt.known[s] = latest[s]
         /\ Learnt.lastPeriod = mem.lastPeriod /\ Learnt.why = mem.why /\ Learnt.stages = mem.stages
         /\ Learnt.positions = mem.positions /\ Learnt.done = mem.done /\ Learnt.error = mem.error
         /\ Learnt.target = mem.target /\ Learnt.delisted = mem.delisted
  <1>1. latest \in [Symbols -> 1..MaxPeriod] /\ MaxPeriod \in Nat /\ Fields(mem)
    BY PeriodAssumption DEF Typed
  <1>2. [s \in Symbols |-> latest[s]] \in [Symbols -> 0..MaxPeriod]
    BY <1>1
  <1> QED BY <1>1, <1>2 DEF Fields, Learnt

Targeted(m, p, t, g) == [m EXCEPT !.lastPeriod = p, !.target = t, !.delisted = g, !.answered = 0]

LEMMA TargetedIs ==
  ASSUME NEW m, Fields(m), NEW p \in 0..MaxPeriod, NEW t \in Targets \cup {NoTarget}, NEW g \in SUBSET Symbols,
         NEW n, n = Targeted(m, p, t, g)
  PROVE  /\ Fields(n) /\ n.ready = m.ready /\ n.data = m.data /\ n.known = m.known
         /\ n.lastPeriod = p /\ n.why = m.why /\ n.stages = m.stages
         /\ n.target = t /\ n.delisted = g
  BY DEF Fields, Targeted

Handled(m, p) == [m EXCEPT !.lastPeriod = p]

LEMMA HandledIs ==
  ASSUME NEW m, Fields(m), NEW p \in 0..MaxPeriod, NEW n, n = Handled(m, p)
  PROVE  /\ Fields(n) /\ n.ready = m.ready /\ n.data = m.data /\ n.known = m.known
         /\ n.lastPeriod = p /\ n.why = m.why /\ n.stages = m.stages
  BY DEF Fields, Handled

WithStages(m, st) == [m EXCEPT !.stages = st]

LEMMA PlannedIs ==
  ASSUME NEW m, Fields(m), NEW st \in StageSeq, NEW n, n = WithStages(m, st)
  PROVE  /\ Fields(n) /\ n.ready = m.ready /\ n.data = m.data /\ n.known = m.known
         /\ n.lastPeriod = m.lastPeriod /\ n.why = m.why /\ n.stages = st
         /\ n.target = m.target
  BY DEF Fields, WithStages, StageSeq

LEMMA EndedIs ==
  ASSUME NEW m, Fields(m), NEW n, n = [m EXCEPT !.target = NoTarget, !.delisted = {}, !.expected = 0]
  PROVE  /\ Fields(n) /\ n.ready = m.ready /\ n.data = m.data /\ n.known = m.known
         /\ n.lastPeriod = m.lastPeriod /\ n.why = m.why /\ n.stages = m.stages
  BY DEF Fields

NextStage(m, c) == [m EXCEPT !.stages = Tail(@), !.expected = c]

LEMMA NextStageIs ==
  ASSUME NEW m, Fields(m), m.stages # <<>>, NEW c, NEW n, n = NextStage(m, c)
  PROVE  /\ Fields(n) /\ n.ready = m.ready /\ n.data = m.data /\ n.known = m.known
         /\ n.lastPeriod = m.lastPeriod /\ n.why = m.why /\ n.stages = Tail(m.stages)
  <1>1. m.stages \in Seq(Seq(SUBSET Order))
    BY DEF Fields
  <1>2. Tail(m.stages) \in Seq(Seq(SUBSET Order))
    BY <1>1, HeadTailProperties
  <1> QED BY <1>2 DEF Fields, NextStage


LEMMA RangeIs ==
  ASSUME NEW S, NEW q \in Seq(S)
  PROVE  /\ Range(q) \subseteq S
         /\ q # <<>> => /\ Head(q) \in Range(q) /\ Range(Tail(q)) \subseteq Range(q)
                        /\ Head(q) \in S /\ Tail(q) \in Seq(S)
         /\ \A x \in S : Append(q, x) \in Seq(S) /\ Range(Append(q, x)) = Range(q) \cup {x}
         /\ q = <<>> => Range(q) = {}
  <1>1. DOMAIN q = 1..Len(q) /\ Len(q) \in Nat /\ \A i \in 1..Len(q) : q[i] \in S
    BY LenProperties, ElementOfSeq
  <1>2. Range(q) \subseteq S /\ (q = <<>> => Range(q) = {})
    BY <1>1 DEF Range
  <1>3. ASSUME q # <<>>
        PROVE  /\ Head(q) \in Range(q) /\ Range(Tail(q)) \subseteq Range(q)
               /\ Head(q) \in S /\ Tail(q) \in Seq(S)
    <2>1. /\ Head(q) \in S /\ Tail(q) \in Seq(S) /\ Len(Tail(q)) = Len(q) - 1
          /\ \A i \in 1..Len(Tail(q)) : Tail(q)[i] = q[i + 1]
      BY <1>3, HeadTailProperties
    <2>2. Head(q) = q[1] /\ 1 \in DOMAIN q
      BY <1>1, <1>3
    <2>3. DOMAIN Tail(q) = 1..Len(Tail(q)) /\ \A i \in 1..Len(Tail(q)) : i + 1 \in DOMAIN q
      BY <1>1, <2>1, LenProperties
    <2>4. Range(Tail(q)) \subseteq Range(q)
      BY <2>1, <2>3 DEF Range
    <2> QED BY <2>1, <2>2, <2>4 DEF Range
  <1>4. ASSUME NEW x \in S PROVE Append(q, x) \in Seq(S) /\ Range(Append(q, x)) = Range(q) \cup {x}
    <2> DEFINE a == Append(q, x)
    <2>1. /\ a \in Seq(S) /\ DOMAIN a = 1 .. Len(q) + 1 /\ a[Len(q) + 1] = x
          /\ \A i \in 1..Len(q) : a[i] = q[i]
      BY <1>1
    <2> HIDE DEF a
    <2>2. ASSUME NEW i \in DOMAIN a PROVE a[i] \in Range(q) \cup {x}
      <3>1. i \in 1..Len(q) \/ i = Len(q) + 1
        BY <1>1, <2>1
      <3> QED BY <1>1, <2>1, <3>1 DEF Range
    <2>3. Range(q) \subseteq Range(a)
      <3>1. \A i \in 1..Len(q) : i \in DOMAIN a /\ a[i] = q[i]
        BY <1>1, <2>1
      <3> QED BY <1>1, <3>1 DEF Range
    <2>4. x \in Range(a)
      <3>1. Len(q) + 1 \in DOMAIN a
        BY <1>1, <2>1
      <3> QED BY <2>1, <3>1 DEF Range
    <2>5. Range(a) \subseteq Range(q) \cup {x}
      BY <2>2 DEF Range
    <2> QED BY <2>1, <2>3, <2>4, <2>5 DEF a
  <1> QED BY <1>2, <1>3, <1>4

LEMMA ContinueIs ==
  ASSUME NEW m, Fields(m), requests \in Seq(Request), Continue(m)
  PROVE  /\ Fields(mem') /\ requests' \in Seq(Request)
         /\ mem'.ready = m.ready /\ mem'.data = m.data /\ mem'.known = m.known
         /\ mem'.lastPeriod = m.lastPeriod /\ mem'.why = m.why
         /\ \/ /\ m.stages = <<>> /\ pc' = "loop" /\ mem'.stages = <<>> /\ requests' = requests
            \/ /\ m.stages # <<>> /\ pc' = "fills" /\ mem'.stages = Tail(m.stages)
               /\ requests' = Sending(requests, m.stages)
         /\ \A x \in Range(requests') : x.type # "batch" => x \in Range(requests)
  <1>1. CASE m.stages = <<>>
    <2>1. pc' = "loop" /\ requests' = requests
          /\ mem' = [m EXCEPT !.target = NoTarget, !.delisted = {}, !.expected = 0]
      BY <1>1 DEF Continue
    <2> QED BY <1>1, <2>1, EndedIs
  <1>2. CASE m.stages # <<>>
    <2>1. /\ pc' = "fills" /\ requests' = Sending(requests, m.stages)
          /\ mem' = [m EXCEPT !.stages = Tail(@), !.expected = Count(Head(m.stages))]
      BY <1>2 DEF Continue, Sending
    <2>2. m.stages \in Seq(Seq(SUBSET Order))
      BY DEF Fields
    <2>3. requests' \in Seq(Request)
      BY <1>2, <2>1, <2>2, SendingIs
    <2> DEFINE H == Head(m.stages)
               B == [i \in DOMAIN H |-> BatchOf(H[i])]
    <2>4. /\ DOMAIN H = 1..Len(H) /\ Len(H) \in Nat /\ B \in [1..Len(H) -> Request]
          /\ \A i \in 1..Len(H) : B[i].type = "batch"
      <3>1. H \in Seq(SUBSET Order)
        BY <1>2, <2>2
      <3>2. DOMAIN H = 1..Len(H) /\ Len(H) \in Nat /\ \A i \in 1..Len(H) : H[i] \in SUBSET Order
        BY <3>1
      <3>3. \A i \in 1..Len(H) : BatchOf(H[i]) \in Request /\ BatchOf(H[i]).type = "batch"
        BY <3>2 DEF BatchOf, Request
      <3> QED BY <3>2, <3>3
    <2>5. requests' = requests \o B
      BY <2>1 DEF Sending
    <2> HIDE DEF B
    <2>6. PICK n \in Nat : n = Len(H)
      BY <2>4
    <2>7. PICK f \in [1..n -> Request] : f = B
      BY <2>4, <2>6
    <2>8. /\ Len(requests \o f) = Len(requests) + n /\ requests \o f \in Seq(Request)
          /\ \A i \in 1..Len(requests) : (requests \o f)[i] = requests[i]
          /\ \A i \in 1..n : (requests \o f)[Len(requests) + i] = f[i]
      BY Concatenated
    <2>9. /\ DOMAIN requests = 1..Len(requests) /\ Len(requests) \in Nat
          /\ DOMAIN (requests \o f) = 1 .. Len(requests) + n
      BY <2>8, LenProperties
    <2>10. \A i \in 1..n : f[i].type = "batch"
      BY <2>4, <2>6, <2>7
    <2>11. ASSUME NEW i \in DOMAIN requests', requests'[i].type # "batch"
          PROVE  i \in DOMAIN requests /\ requests'[i] = requests[i]
      <3>1. i \in 1 .. Len(requests) + n /\ requests' = requests \o f
        BY <2>5, <2>7, <2>9
      <3>2. CASE i \in 1..Len(requests)
        BY <2>8, <2>9, <3>1, <3>2
      <3>3. CASE i \notin 1..Len(requests)
        <4>1. i - Len(requests) \in 1..n /\ Len(requests) + (i - Len(requests)) = i
          BY <2>9, <3>1, <3>3
        <4>2. requests'[i] = f[i - Len(requests)]
          BY <2>8, <3>1, <4>1
        <4> QED BY <2>10, <2>11, <4>1, <4>2
      <3> QED BY <3>2, <3>3
    <2>12. \A x \in Range(requests') : x.type # "batch" => x \in Range(requests)
      BY <2>11 DEF Range
    <2>13. /\ Fields(mem') /\ mem'.ready = m.ready /\ mem'.data = m.data /\ mem'.known = m.known
           /\ mem'.lastPeriod = m.lastPeriod /\ mem'.why = m.why /\ mem'.stages = Tail(m.stages)
      <3>1. PICK c : mem' = NextStage(m, c)
        BY <2>1 DEF NextStage
      <3> QED BY <1>2, <3>1, NextStageIs
    <2> QED BY <1>2, <2>1, <2>3, <2>11, <2>12, <2>13
  <1> QED BY <1>1, <1>2


-----------------------------------------------------------------------------
(* Which candle is traded on.                                              *)

LEMMA MaxOfCandles ==
  ASSUME NEW S, S \subseteq 0..MaxPeriod, S # {}
  PROVE  Max(S) \in S /\ \A n \in S : n <= Max(S)
  <1>1. MaxPeriod \in Nat
    BY PeriodAssumption
  <1>2. IsFiniteSet(0..MaxPeriod)
    BY <1>1, FS_Interval
  <1>3. IsFiniteSet(S) /\ S \subseteq Nat
    <2>1. PICK T : T = 0..MaxPeriod
      OBVIOUS
    <2>2. IsFiniteSet(T) /\ S \in SUBSET T
      BY <1>2, <2>1
    <2>3. IsFiniteSet(S)
      BY <2>2, FS_Subset
    <2> QED BY <1>1, <2>3
  <1> QED BY <1>3, MaxIs

LEMMA LoadedIs ==
  ASSUME Typed
  PROVE  /\ Loaded \in 0..MaxPeriod
         /\ \A s \in Symbols : mem.known[s] <= Loaded
  <1>1. mem.known \in [Symbols -> 0..MaxPeriod] /\ Symbols # {}
    BY PortfolioAssumption DEF Typed, Fields
  <1>2. /\ Range(mem.known) \subseteq 0..MaxPeriod /\ Range(mem.known) # {}
        /\ \A s \in Symbols : mem.known[s] \in Range(mem.known)
    BY <1>1 DEF Range
  <1> QED BY <1>2, MaxOfCandles DEF Loaded

LEMMA NewestIs ==
  ASSUME Typed, Changed # {}
  PROVE  /\ Newest \in 1..MaxPeriod
         /\ \E s \in Changed : latest[s] = Newest
         /\ \A s \in Changed : latest[s] <= Newest
  <1> DEFINE S == {latest[s] : s \in Changed}
  <1>1. latest \in [Symbols -> 1..MaxPeriod] /\ MaxPeriod \in Nat /\ Changed \subseteq Symbols
    BY PeriodAssumption DEF Typed, Changed
  <1>2. S \subseteq 0..MaxPeriod /\ S # {} /\ \A n \in S : n \in 1..MaxPeriod
    BY <1>1
  <1>3. Max(S) \in S /\ \A n \in S : n <= Max(S)
    <2> HIDE DEF S
    <2> QED BY <1>2, MaxOfCandles
  <1>4. Newest = Max(S)
    BY DEF Newest
  <1> QED BY <1>2, <1>3, <1>4

(* Half of the symbols and four fifths of them have one in common.         *)
LEMMA HalfMeetsMost ==
  ASSUME NEW A \in SUBSET Symbols, NEW B \in SUBSET Symbols,
         2 * Cardinality(A) >= Cardinality(Symbols), 5 * Cardinality(B) >= 4 * Cardinality(Symbols)
  PROVE  \E s \in Symbols : s \in A /\ s \in B
  <1>1. IsFiniteSet(Symbols) /\ Symbols # {}
    BY PortfolioAssumption
  <1>2. /\ Cardinality(Symbols) \in Nat /\ Cardinality(Symbols) # 0
        /\ Cardinality(A) \in Nat /\ Cardinality(B) \in Nat
    BY <1>1, FS_CardinalityType, FS_EmptySet, FS_Subset
  <1>3. Cardinality(A) + Cardinality(B) > Cardinality(Symbols)
    BY <1>2
  <1> QED BY <1>1, <1>3, FS_MajoritiesIntersect

LEMMA MoreIsEnough ==
  ASSUME NEW A \in SUBSET Symbols, NEW B \in SUBSET A
  PROVE  Cardinality(B) \in Nat /\ Cardinality(A) \in Nat /\ Cardinality(B) <= Cardinality(A)
  <1>1. IsFiniteSet(A)
    BY PortfolioAssumption, FS_Subset
  <1> QED BY <1>1, FS_Subset, FS_CardinalityType

(* A candle is traded on only while it is on, and for the first time.      *)
LEMMA TriggersOnce ==
  ASSUME Typed, CandlesCounted, Checked, Changed # {}, Newest > mem.lastPeriod, Enough(latest, Newest)
  PROVE  Newest = period /\ executed[period] = 0
  <1>1. /\ latest \in [Symbols -> 1..MaxPeriod] /\ MaxPeriod \in Nat /\ period \in 1..MaxPeriod
        /\ mem.known \in [Symbols -> 0..MaxPeriod] /\ mem.lastPeriod \in 0..MaxPeriod
        /\ executed \in [1..MaxPeriod -> Nat]
        /\ \A s \in Symbols : mem.known[s] <= latest[s] /\ latest[s] <= period
    BY PeriodAssumption DEF Typed, Fields
  <1>2. PICK s \in Changed : latest[s] = Newest
    BY NewestIs
  <1>3. Newest \in 1..MaxPeriod /\ \A r \in Changed : latest[r] <= Newest
    BY NewestIs
  <1>4. \A r \in Symbols : mem.known[r] > 0 /\ mem.known[r] < latest[r] => latest[r] = period
    BY DEF CandlesCounted, ChangesAreNew, Checked
  <1>5. s \in Symbols /\ mem.known[s] < latest[s] /\ latest[s] = Newest /\ Newest <= period
    BY <1>1, <1>2 DEF Changed
  <1>6. ASSUME mem.known[s] > 0 PROVE Newest = period
    BY <1>4, <1>5, <1>6
  <1>7. ASSUME mem.known[s] = 0 PROVE Newest = period
    <2>1. \A r \in Symbols : mem.known[r] <= mem.lastPeriod
      BY <1>5, <1>7 DEF CandlesCounted, HandledCounted
    <2> DEFINE A == {r \in Symbols : mem.known[r] > 0}
               B == {r \in Symbols : latest[r] >= Newest}
    <2>2. 2 * Cardinality(A) >= Cardinality(Symbols)
      BY DEF CandlesCounted, HalfLoaded, Checked
    <2>3. 5 * Cardinality(B) >= 4 * Cardinality(Symbols)
      BY DEF Enough
    <2>4. PICK r \in Symbols : r \in A /\ r \in B
      <3> HIDE DEF A, B
      <3>1. A \in SUBSET Symbols /\ B \in SUBSET Symbols
        BY DEF A, B
      <3> QED BY <2>2, <2>3, <3>1, HalfMeetsMost
    <2>5. mem.known[r] > 0 /\ mem.known[r] <= mem.lastPeriod /\ latest[r] >= Newest
      BY <2>1, <2>4
    <2>6. mem.known[r] < latest[r] /\ mem.known[r] \in Nat /\ latest[r] \in Nat
      BY <1>1, <1>3, <2>5
    <2>7. latest[r] = period /\ latest[r] <= Newest
      BY <1>3, <1>4, <2>5, <2>6 DEF Changed
    <2> QED BY <1>1, <1>3, <1>5, <2>5, <2>7
  <1>8. Newest = period
    <2>1. mem.known[s] \in Nat
      BY <1>1, <1>5
    <2> QED BY <1>6, <1>7, <2>1, <1>5, <1>4
  <1>9. executed[period] = 0
    <2>1. executed[period] > 0 => period <= mem.lastPeriod
      BY <1>1 DEF CandlesCounted, HandledCounted
    <2> QED BY <1>1, <1>8, <2>1
  <1> QED BY <1>8, <1>9

-----------------------------------------------------------------------------
(* What an invariant need not be shown of again.                           *)

LEMMA CandlesFrame ==
  ASSUME CandlesCounted, UNCHANGED <<executed, latest, period>>,
         mem'.data = mem.data, mem'.ready = mem.ready, mem'.known = mem.known,
         mem'.lastPeriod = mem.lastPeriod, Checked' => Checked, Registering' => Registering
  PROVE  CandlesCounted'
  <1>1. TradedOnce' /\ HalfLoaded'
    BY DEF CandlesCounted, TradedOnce, HalfLoaded, Enough
  <1>2. ChangesAreNew'
    BY DEF CandlesCounted, ChangesAreNew
  <1>3. HandledCounted'
    BY DEF CandlesCounted, HandledCounted
  <1> QED BY <1>1, <1>2, <1>3 DEF CandlesCounted

LEMMA PlanningFrame ==
  ASSUME Planning, UNCHANGED <<legs, executed, period>>, Fetching' => Fetching,
         pc' = "fills" => pc = "fills" \/ Fetching, Settled => Settled',
         Fetching' => /\ mem'.positions = mem.positions /\ mem'.done = mem.done /\ mem'.error = mem.error
                      /\ mem'.target = mem.target /\ mem'.delisted = mem.delisted
  PROVE  Planning'
  <1>1. SettledBefore'
    BY DEF Planning, SettledBefore
  <1>2. PositionsTrue'
    BY DEF Planning, PositionsTrue
  <1> QED BY <1>1, <1>2 DEF Planning

LEMMA TradingFrame ==
  ASSUME Trading, UNCHANGED <<legs, goal, aim, excuse>>, OnePerLeg(requests', mem'.stages),
         \A o \in Order : Waiting(requests', mem'.stages, o) <=> Waiting(requests, mem.stages, o)
  PROVE  Trading'
  <1>1. ASSUME Aimed(requests, mem.stages) PROVE Aimed(requests, mem.stages)'
    BY <1>1 DEF Aimed, Want
  <1>2. ASSUME Bounded(requests, mem.stages) PROVE Bounded(requests, mem.stages)'
    BY <1>2 DEF Bounded
  <1> QED BY <1>1, <1>2 DEF Trading


LEMMA TradingSame ==
  ASSUME Trading, UNCHANGED <<legs, goal, aim, excuse, requests>>, mem'.stages = mem.stages
  PROVE  Trading'
  <1>1. OnePerLeg(requests', mem'.stages)
    BY DEF Trading
  <1>2. \A o \in Order : Waiting(requests', mem'.stages, o) <=> Waiting(requests, mem.stages, o)
    OBVIOUS
  <1> QED BY <1>1, <1>2, TradingFrame

-----------------------------------------------------------------------------
(* The invariant holds at first.                                           *)

LEMMA NothingWaits ==
  /\ OnePerLeg(<<>>, <<>>)
  /\ \A o : ~Waiting(<<>>, <<>>, o)
  BY DEF OnePerLeg, Waiting, Sent, Staged

(* A symbol that is held on one side only has its net quantity there.      *)
LEMMA UnhedgedNet ==
  ASSUME NEW l \in Legs, ~Hedged(l), NEW g, \A s \in Symbols : g[s] = Net(l, s),
         NEW s \in Symbols, NEW d \in Sides
  PROVE  l[s][d] = Want(g, s, d)
  <1>1. l[s]["LONG"] \in Nat /\ l[s]["SHORT"] \in Nat
    BY DEF Legs, Sides
  <1>2. l[s]["LONG"] = 0 \/ l[s]["SHORT"] = 0
    BY <1>1 DEF Hedged, Sides
  <1>3. g[s] = l[s]["LONG"] - l[s]["SHORT"]
    BY DEF Net
  <1>4. d = "LONG" \/ d = "SHORT"
    BY DEF Sides
  <1> QED BY <1>1, <1>2, <1>3, <1>4 DEF Want, Side, Abs

LEMMA RebalanceInit ==
  ASSUME Init PROVE RebalanceInv
  <1>1. legs \in Legs /\ legs \in InitialLegs /\ MaxPeriod \in Nat /\ MaxPeriod > 0
    BY PortfolioAssumption, PeriodAssumption DEF Init
  <1>2. \A s \in Symbols : Net(legs, s) \in Int
    <2> TAKE s \in Symbols
    <2>1. legs[s]["LONG"] \in Nat /\ legs[s]["SHORT"] \in Nat
      BY <1>1 DEF Legs, Sides
    <2> QED BY <2>1 DEF Net
  <1>3. Typed
    <2>1. requests \in Seq(Request) /\ reports \in Seq(Report)
      BY DEF Init
    <2>2. \A s \in Symbols : mem.known[s] = 0 /\ latest[s] = 1
      BY FreshIs DEF Init
    <2>3. mem.stages = <<>> /\ Fields(mem)
      BY FreshIs DEF Init
    <2>4. \A s \in Symbols : Near(aim[s], goal[s])
      BY DEF Init, Near
    <2> QED BY <1>1, <1>2, <2>1, <2>2, <2>3, <2>4 DEF Init, Typed
  <1>4. CandlesCounted
    <2>1. ~mem.data /\ ~mem.ready
      BY FreshIs DEF Init
    <2>2. \A p \in 1..MaxPeriod : executed[p] = 0
      BY DEF Init
    <2> QED BY <2>1, <2>2 DEF CandlesCounted, TradedOnce, HalfLoaded, ChangesAreNew, HandledCounted, Checked
  <1>5. Planning
    BY DEF Init, Planning, SettledBefore, PositionsTrue, Fetching, Settled, Range
  <1>6. Trading
    <2>1. requests = <<>> /\ mem.stages = <<>>
      BY FreshIs DEF Init
    <2>2. Bounded(<<>>, <<>>)
      BY <1>1, NothingWaits, MaxLegIs DEF Bounded
    <2>3. ASSUME excuse = {} PROVE Aimed(<<>>, <<>>)
      <3>1. ~Hedged(legs) /\ \A s \in Symbols : aim[s] = Net(legs, s)
        BY <2>3 DEF Init
      <3> QED BY <1>1, <3>1, NothingWaits, UnhedgedNet DEF Aimed
    <2> QED BY <2>1, <2>2, <2>3, NothingWaits DEF Trading
  <1> QED BY <1>3, <1>4, <1>5, <1>6 DEF RebalanceInv

-----------------------------------------------------------------------------
(* The exchange, the recorder and the account monitor.                     *)

LEMMA NewPeriodStep ==
  ASSUME RebalanceInv, NewPeriod PROVE RebalanceInv'
  <1> USE DEF RebalanceInv
  <1>1. /\ requests = <<>> /\ reports = <<>> /\ monitored = legs /\ pc \in {"down", "loop"}
        /\ pc = "loop" /\ mem.ready /\ mem.data => mem.known = latest
        /\ period' = period + 1 /\ period < MaxPeriod
        /\ UNCHANGED <<legs, monitored, requests, reports, latest, pc, poll, mem, executed, goal, aim, excuse>>
    BY DEF NewPeriod, Quiet, history
  <1>2. Typed'
    BY <1>1, PeriodAssumption DEF Typed
  <1>3. ~Registering /\ ~Registering'
    BY <1>1 DEF Registering, Range
  <1>4. CandlesCounted'
    <2>1. TradedOnce'
      <3>1. latest' = latest /\ executed' = executed
        BY <1>1
      <3>2. \A p \in 1..MaxPeriod : p \in Int /\ (p <= period => p <= period')
        BY <1>1, PeriodAssumption DEF Typed
      <3> QED BY <3>1, <3>2 DEF CandlesCounted, TradedOnce
    <2>2. HalfLoaded' /\ HandledCounted'
      BY <1>1 DEF CandlesCounted, HalfLoaded, HandledCounted, Checked
    <2>3. ChangesAreNew'
      <3>1. CASE pc = "down"
        BY <1>1, <1>3, <3>1, FreshIs DEF Typed, ChangesAreNew
      <3>2. CASE pc = "loop"
        <4>1. latest \in [Symbols -> 1..MaxPeriod]
          BY DEF Typed
        <4> QED BY <1>1, <1>3, <3>2, <4>1 DEF ChangesAreNew
      <3> QED BY <1>1, <3>1, <3>2
    <2> QED BY <2>1, <2>2, <2>3 DEF CandlesCounted
  <1>5. Planning'
    BY <1>1 DEF Planning, SettledBefore, PositionsTrue, Fetching, Settled, Range
  <1>6. Trading'
    BY <1>1, TradingSame
  <1> QED BY <1>2, <1>4, <1>5, <1>6

LEMMA ArriveStep ==
  ASSUME RebalanceInv, NEW s \in Symbols, Arrive(s) PROVE RebalanceInv'
  <1> USE DEF RebalanceInv
  <1>1. /\ latest' = [latest EXCEPT ![s] = period]
        /\ latest[s] < period
        /\ UNCHANGED <<legs, monitored, requests, reports, period, pc, poll, mem, executed, goal, aim, excuse>>
    BY DEF Arrive, history
  <1>2. /\ latest \in [Symbols -> 1..MaxPeriod] /\ period \in 1..MaxPeriod /\ MaxPeriod \in Nat
        /\ mem.known \in [Symbols -> 0..MaxPeriod]
        /\ \A r \in Symbols : mem.known[r] <= latest[r] /\ latest[r] <= period
    BY PeriodAssumption DEF Typed, Fields
  <1>3. \A r \in Symbols : latest'[r] = (IF r = s THEN period ELSE latest[r]) /\ latest[r] <= latest'[r]
    BY <1>1, <1>2
  <1>4. Typed'
    <2>1. latest' \in [Symbols -> 1..MaxPeriod]
      BY <1>1, <1>2
    <2>2. \A r \in Symbols : mem.known[r] <= latest'[r] /\ latest'[r] <= period
      BY <1>2, <1>3
    <2> QED BY <1>1, <2>1, <2>2 DEF Typed
  <1>5. CandlesCounted'
    <2>1. ASSUME NEW p \in 1..MaxPeriod, Enough(latest, p) PROVE Enough(latest', p)
      <3> DEFINE A == {r \in Symbols : latest'[r] >= p}
                 B == {r \in Symbols : latest[r] >= p}
      <3>1. A \in SUBSET Symbols /\ B \in SUBSET A
        BY <1>2, <1>3
      <3>2. 5 * Cardinality(B) >= 4 * Cardinality(Symbols)
        BY <2>1 DEF Enough
      <3>3. Cardinality(B) \in Nat /\ Cardinality(A) \in Nat /\ Cardinality(B) <= Cardinality(A)
        <4> HIDE DEF A, B
        <4> QED BY <3>1, MoreIsEnough
      <3>4. Cardinality(Symbols) \in Nat
        BY PortfolioAssumption, FS_CardinalityType
      <3>5. 5 * Cardinality(A) >= 4 * Cardinality(Symbols)
        <4> HIDE DEF A, B
        <4> QED BY <3>2, <3>3, <3>4
      <3> QED BY <3>5 DEF Enough
    <2>2. TradedOnce'
      BY <1>1, <2>1 DEF CandlesCounted, TradedOnce
    <2>3. HalfLoaded' /\ HandledCounted'
      BY <1>1 DEF CandlesCounted, HalfLoaded, HandledCounted, Checked
    <2>4. ChangesAreNew'
      BY <1>1, <1>3 DEF CandlesCounted, ChangesAreNew, Registering
    <2> QED BY <2>2, <2>3, <2>4 DEF CandlesCounted
  <1>6. Planning'
    BY <1>1 DEF Planning, SettledBefore, PositionsTrue, Fetching, Settled
  <1>7. Trading'
    BY <1>1, TradingSame
  <1> QED BY <1>4, <1>5, <1>6, <1>7

LEMMA MonitorPollsStep ==
  ASSUME RebalanceInv, MonitorPolls PROVE RebalanceInv'
  <1> USE DEF RebalanceInv
  <1>1. /\ monitored' = legs
        /\ UNCHANGED <<legs, requests, reports, period, latest, pc, poll, mem, executed, goal, aim, excuse>>
    BY DEF MonitorPolls, market, history
  <1>2. Typed'
    BY <1>1 DEF Typed
  <1>3. CandlesCounted'
    BY <1>1, CandlesFrame DEF Checked, Registering
  <1>4. Planning'
    BY <1>1, PlanningFrame DEF Fetching, Settled
  <1>5. Trading'
    BY <1>1, TradingSame
  <1> QED BY <1>2, <1>3, <1>4, <1>5


-----------------------------------------------------------------------------
(* The server.                                                             *)

LEMMA TakesIs ==
  ASSUME Typed, NEW type, Takes(type)
  PROVE  /\ requests # <<>> /\ Head(requests).type = type /\ requests' = Tail(requests)
         /\ requests' \in Seq(Request) /\ Head(requests) \in Request
         /\ Range(requests') \subseteq Range(requests) /\ Head(requests) \in Range(requests)
  <1>1. requests # <<>> /\ Head(requests).type = type /\ requests' = Tail(requests) /\ requests \in Seq(Request)
    BY DEF Takes, Typed
  <1> QED BY <1>1, RangeIs

LEMMA PublishIs ==
  ASSUME Typed, NEW r \in Report, Publish(r)
  PROVE  /\ reports' \in Seq(Report)
         /\ Range(reports') \subseteq Range(reports) \cup {r}
  <1>1. reports \in Seq(Report) /\ (reports' = reports \/ reports' = Append(reports, r))
    BY DEF Publish, Typed
  <1>2. CASE reports' = reports
    BY <1>1, <1>2
  <1>3. CASE reports' = Append(reports, r)
    BY <1>1, <1>3, RangeIs
  <1> QED BY <1>1, <1>2, <1>3

(* A request other than a batch is answered.                               *)
LEMMA ServedStep ==
  ASSUME RebalanceInv, NEW type \in {"register", "account", "query"}, Takes(type),
         reports' \in Seq(Report),
         \A x \in Range(reports') \ Range(reports) :
           /\ x.type \in {"register", "account"} => type \in {"register", "account"}
           /\ Settled /\ x.type = "positions" /\ ~x.error => x.data = legs,
         UNCHANGED <<legs, monitored, period, latest, pc, poll, mem, executed, goal, aim, excuse>>
  PROVE  RebalanceInv'
  <1> USE DEF RebalanceInv
  <1>1. /\ requests # <<>> /\ Head(requests).type = type /\ requests' = Tail(requests)
        /\ requests' \in Seq(Request) /\ Head(requests) \in Request
        /\ Range(requests') \subseteq Range(requests) /\ Head(requests) \in Range(requests)
    BY TakesIs
  <1>2. Typed'
    BY <1>1 DEF Typed
  <1>3. CandlesCounted'
    <2>1. Registering' => Registering
      BY <1>1 DEF Registering
    <2> QED BY <2>1, CandlesFrame DEF Checked
  <1>4. Planning'
    <2>1. Settled => Settled'
      BY <1>1 DEF Settled
    <2> QED BY <2>1, PlanningFrame DEF Fetching
  <1>5. Trading'
    <2>1. requests \in Seq(Request) /\ Head(requests).type # "batch"
      BY <1>1 DEF Typed
    <2>2. /\ OnePerLeg(requests', mem'.stages)
          /\ \A o \in Order : Waiting(requests', mem'.stages, o) <=> Waiting(requests, mem.stages, o)
      BY <1>1, <2>1, TakeTrading DEF Trading
    <2> QED BY <2>2, TradingFrame
  <1> QED BY <1>2, <1>3, <1>4, <1>5

LEMMA HandleRegisterStep ==
  ASSUME RebalanceInv, HandleRegister PROVE RebalanceInv'
  <1>1. Typed
    BY DEF RebalanceInv
  <1>2. /\ Takes("register")
        /\ UNCHANGED <<legs, monitored, period, latest, pc, poll, mem, executed, goal, aim, excuse>>
        /\ \E b \in BOOLEAN : Publish([type |-> "register", ok |-> b])
    BY DEF HandleRegister, market, history
  <1>3. PICK b \in BOOLEAN : Publish([type |-> "register", ok |-> b])
    BY <1>2
  <1>4. [type |-> "register", ok |-> b] \in Report
    BY DEF Report
  <1>5. reports' \in Seq(Report) /\ Range(reports') \subseteq Range(reports) \cup {[type |-> "register", ok |-> b]}
    BY <1>1, <1>3, <1>4, PublishIs
  <1>6. \A x \in Range(reports') \ Range(reports) : x.type = "register"
    BY <1>5
  <1> QED BY <1>2, <1>5, <1>6, ServedStep

LEMMA QueryAccountStep ==
  ASSUME RebalanceInv, QueryAccount PROVE RebalanceInv'
  <1>1. Typed
    BY DEF RebalanceInv
  <1>2. /\ Takes("account")
        /\ UNCHANGED <<legs, monitored, period, latest, pc, poll, mem, executed, goal, aim, excuse>>
        /\ Publish([type |-> "account"]) \/ UNCHANGED reports
    BY DEF QueryAccount, market, history
  <1>3. [type |-> "account"] \in Report
    BY DEF Report
  <1>4. reports' \in Seq(Report) /\ Range(reports') \subseteq Range(reports) \cup {[type |-> "account"]}
    BY <1>1, <1>2, <1>3, PublishIs DEF Typed
  <1>5. \A x \in Range(reports') \ Range(reports) : x.type = "account"
    BY <1>4
  <1> QED BY <1>2, <1>4, <1>5, ServedStep

LEMMA QueryPositionsStep ==
  ASSUME RebalanceInv, QueryPositions PROVE RebalanceInv'
  <1>1. Typed
    BY DEF RebalanceInv
  <1>2. /\ Takes("query")
        /\ UNCHANGED <<legs, monitored, period, latest, pc, poll, mem, executed, goal, aim, excuse>>
        /\ \E e \in BOOLEAN, data \in {Believed(legs), Believed(Flat), Flat} :
             /\ ~e => data \in {Believed(legs), Believed(Flat)}
             /\ Publish([type |-> "positions", error |-> e, data |-> data])
    BY DEF QueryPositions, market, history
  <1>3. PICK e \in BOOLEAN, data \in {Believed(legs), Believed(Flat), Flat} :
          /\ ~e => data \in {Believed(legs), Believed(Flat)}
          /\ Publish([type |-> "positions", error |-> e, data |-> data])
    BY <1>2
  <1>4. data \in Legs /\ (Settled /\ ~e => data = legs)
    BY <1>1, <1>3, FreshIs DEF Believed, Typed, Settled
  <1> DEFINE r == [type |-> "positions", error |-> e, data |-> data]
  <1>5. r \in Report /\ r.type = "positions" /\ r.error = e /\ r.data = data
    BY <1>4 DEF Report
  <1>6. Publish(r)
    BY <1>3
  <1> HIDE DEF r
  <1>7. reports' \in Seq(Report) /\ Range(reports') \subseteq Range(reports) \cup {r}
    BY <1>1, <1>5, <1>6, PublishIs
  <1>8. \A x \in Range(reports') \ Range(reports) : x = r
    BY <1>7
  <1>9. \A x \in Range(reports') \ Range(reports) :
           /\ x.type \notin {"register", "account"}
           /\ Settled /\ x.type = "positions" /\ ~x.error => x.data = legs
    BY <1>4, <1>5, <1>8
  <1> QED BY <1>2, <1>7, <1>9, ServedStep

(* The orders of the first batch are the only ones for their legs.         *)
LEMMA HeadAlone ==
  ASSUME NEW rq \in Seq(Request), rq # <<>>, Head(rq).type = "batch", NEW st, OnePerLeg(rq, st),
         NEW o \in Order, o \in Head(rq).orders, NEW r \in Order, SameLeg(o, r)
  PROVE  (r \in Head(rq).orders => o = r) /\ ~Waiting(Tail(rq), st, r)
  <1>1. Sent(rq, 1, o)
    BY TakeIs
  <1>2. ASSUME r \in Head(rq).orders PROVE o = r
    <2>1. Sent(rq, 1, r)
      BY <1>2, TakeIs
    <2> QED BY <1>1, <2>1 DEF OnePerLeg
  <1>3. ASSUME NEW i \in Nat, Sent(Tail(rq), i, r) PROVE FALSE
    <2>1. i > 0 /\ i + 1 \in Nat /\ Sent(rq, i + 1, r)
      BY <1>3, TakeIs
    <2>2. 1 = i + 1
      BY <1>1, <2>1 DEF OnePerLeg
    <2> QED BY <2>1, <2>2
  <1>4. ASSUME NEW j \in Nat, NEW k \in Nat, Staged(st, j, k, r) PROVE FALSE
    BY <1>1, <1>4 DEF OnePerLeg
  <1> QED BY <1>2, <1>3, <1>4 DEF Waiting

LEMMA FilledIs ==
  ASSUME NEW l \in Legs, NEW orders \in SUBSET Order, OneEach(orders),
         \A o \in orders : o.open \/ l[o.s][o.side] >= o.qty
  PROVE  /\ Filled(l, orders) \in Legs
         /\ \A o \in orders : Filled(l, orders)[o.s][o.side] = l[o.s][o.side] + Signed(o)
         /\ \A s \in Symbols, d \in Sides :
              (\A o \in orders : ~OnLeg(o, s, d)) => Filled(l, orders)[s][d] = l[s][d]
  <1> DEFINE F == Filled(l, orders)
  <1>1. /\ \A s \in Symbols, d \in Sides :
             F[s][d] = IF \E o \in orders : OnLeg(o, s, d)
                       THEN l[s][d] + Signed(CHOOSE o \in orders : OnLeg(o, s, d)) ELSE l[s][d]
        /\ F = [s \in Symbols |-> [d \in Sides |-> F[s][d]]]
    BY DEF Filled
  <1> HIDE DEF F
  <1>2. ASSUME NEW o \in orders
        PROVE  /\ o.s \in Symbols /\ o.side \in Sides /\ l[o.s][o.side] \in Nat
               /\ F[o.s][o.side] = l[o.s][o.side] + Signed(o) /\ F[o.s][o.side] \in Nat
    <2>1. o \in Order /\ o.s \in Symbols /\ o.side \in Sides /\ o.qty \in Nat /\ o.open \in BOOLEAN
      BY DEF Order
    <2>2. l[o.s][o.side] \in Nat
      BY <2>1 DEF Legs
    <2>3. OnLeg(o, o.s, o.side)
      BY DEF OnLeg
    <2> DEFINE r == CHOOSE x \in orders : OnLeg(x, o.s, o.side)
    <2>4. r \in orders /\ OnLeg(r, o.s, o.side)
      BY <2>3
    <2> HIDE DEF r
    <2>5. r = o
      BY <2>4 DEF OneEach, SameLeg, OnLeg
    <2>6. F[o.s][o.side] = l[o.s][o.side] + Signed(o)
      BY <1>1, <2>1, <2>3, <2>5 DEF r
    <2>7. l[o.s][o.side] + Signed(o) \in Nat
      BY <2>1, <2>2 DEF Signed
    <2> QED BY <2>1, <2>2, <2>6, <2>7
  <1>3. ASSUME NEW s \in Symbols, NEW d \in Sides, \A o \in orders : ~OnLeg(o, s, d)
        PROVE  F[s][d] = l[s][d]
    BY <1>1, <1>3
  <1>4. \A s \in Symbols, d \in Sides : F[s][d] \in Nat
    <2> TAKE s \in Symbols, d \in Sides
    <2>1. l[s][d] \in Nat
      BY DEF Legs
    <2>2. CASE \E o \in orders : OnLeg(o, s, d)
      BY <1>2, <2>2 DEF OnLeg
    <2> QED BY <1>3, <2>1, <2>2
  <1>5. F \in Legs
    BY <1>1, <1>4 DEF Legs
  <1> QED BY <1>2, <1>3, <1>5 DEF F

LEMMA ProcessBatchStep ==
  ASSUME RebalanceInv, ProcessBatch PROVE RebalanceInv'
  <1> USE DEF RebalanceInv
  <1> DEFINE orders == Head(requests).orders
             st == mem.stages
  <1>1. /\ Takes("batch")
        /\ UNCHANGED <<monitored, period, latest, pc, poll, mem, executed, goal, aim>>
    BY DEF ProcessBatch, market
  <1>2. /\ requests # <<>> /\ Head(requests).type = "batch" /\ requests' = Tail(requests)
        /\ requests' \in Seq(Request) /\ Head(requests) \in Request
        /\ Range(requests') \subseteq Range(requests) /\ Head(requests) \in Range(requests)
    BY <1>1, TakesIs
  <1>3. orders \in SUBSET Order
    BY <1>2, RequestIs
  <1>4. PICK filled \in SUBSET Fillable(orders), n \in {0, Cardinality(orders)} :
          /\ legs' = Filled(legs, filled)
          /\ excuse' = IF filled = orders THEN excuse ELSE excuse \cup {"rejected"}
          /\ Publish([type |-> "batch", n |-> n])
    BY DEF ProcessBatch
  <1>5. requests \in Seq(Request) /\ OnePerLeg(requests, st) /\ legs \in Legs
    BY DEF Typed, Trading
  <1>6. /\ OnePerLeg(requests', st)
        /\ \A o \in Order : Waiting(requests, st, o) <=> Waiting(requests', st, o) \/ o \in orders
    BY <1>2, <1>5, TakeTrading
  <1>7. ASSUME NEW o \in orders, NEW r \in Order, SameLeg(o, r)
        PROVE  (r \in orders => o = r) /\ ~Waiting(requests', st, r)
    BY <1>2, <1>3, <1>5, <1>7, HeadAlone
  <1>8. /\ filled \in SUBSET Order /\ filled \subseteq orders /\ OneEach(filled)
        /\ \A o \in filled : o.open \/ legs[o.s][o.side] >= o.qty
    BY <1>3, <1>4, <1>7 DEF Fillable, OneEach
  <1> HIDE DEF orders, st
  <1>9. /\ legs' \in Legs
        /\ \A o \in filled : legs'[o.s][o.side] = legs[o.s][o.side] + Signed(o)
        /\ \A s \in Symbols, d \in Sides :
              (\A o \in filled : ~OnLeg(o, s, d)) => legs'[s][d] = legs[s][d]
    BY <1>4, <1>5, <1>8, FilledIs
  <1> DEFINE r == [type |-> "batch", n |-> n]
  <1>10. r \in Report /\ r.type = "batch"
    <2>1. n \in {0} \cup {Cardinality(o) : o \in SUBSET Order}
      BY <1>3
    <2> QED BY <2>1 DEF Report
  <1>11. Publish(r)
    BY <1>4
  <1> HIDE DEF r
  <1>12. reports' \in Seq(Report) /\ Range(reports') \subseteq Range(reports) \cup {r}
    BY <1>10, <1>11, PublishIs
  <1>13. Typed'
    BY <1>1, <1>2, <1>9, <1>12 DEF Typed
  <1>14. CandlesCounted'
    <2>1. Registering' => Registering
      BY <1>2, <1>10, <1>12 DEF Registering
    <2> QED BY <1>1, <2>1, CandlesFrame DEF Checked
  <1>15. Planning'
    <2>1. ~Settled
      BY <1>2 DEF Settled
    <2>2. executed[period] # 0 /\ ~Fetching
      BY <2>1 DEF Planning, SettledBefore
    <2>3. executed'[period'] # 0 /\ ~Fetching' /\ (pc' = "fills" => executed'[period'] > 0)
      BY <1>1, <2>2 DEF Fetching, Planning, SettledBefore
    <2> QED BY <2>3 DEF Planning, SettledBefore, PositionsTrue
  <1>16. ASSUME NEW o \in Order, Waiting(requests', st, o) PROVE legs'[o.s][o.side] = legs[o.s][o.side]
    <2>1. o.s \in Symbols /\ o.side \in Sides
      BY DEF Order
    <2>2. \A x \in filled : ~OnLeg(x, o.s, o.side)
      BY <1>7, <1>8, <1>16 DEF OnLeg, SameLeg
    <2> QED BY <1>9, <2>1, <2>2
  <1>17. ASSUME excuse' = {} PROVE Aimed(requests, st)'
    <2>1. filled = orders /\ excuse = {}
      BY <1>4, <1>17
    <2>2. Aimed(requests, st)
      BY <2>1 DEF Trading, st
    <2>3. ASSUME NEW o \in Order, Waiting(requests', st, o)
          PROVE  legs'[o.s][o.side] + Signed(o) = Want(aim, o.s, o.side)
      BY <1>6, <1>16, <2>2, <2>3 DEF Aimed
    <2>4. ASSUME NEW s \in Symbols, NEW d \in Sides, \A o \in Order : OnLeg(o, s, d) => ~Waiting(requests', st, o)
          PROVE  legs'[s][d] = Want(aim, s, d)
      <3>1. CASE \E o \in filled : OnLeg(o, s, d)
        <4>1. PICK o \in filled : OnLeg(o, s, d)
          BY <3>1
        <4>2. o \in Order /\ Waiting(requests, st, o)
          BY <1>3, <1>6, <2>1
        <4>3. legs[o.s][o.side] + Signed(o) = Want(aim, o.s, o.side)
          BY <2>2, <4>2 DEF Aimed
        <4> QED BY <1>9, <4>1, <4>3 DEF OnLeg
      <3>2. CASE \A o \in filled : ~OnLeg(o, s, d)
        <4>1. \A o \in Order : OnLeg(o, s, d) => ~Waiting(requests, st, o)
          BY <1>6, <2>1, <2>4, <3>2
        <4>2. legs[s][d] = Want(aim, s, d)
          BY <2>2, <4>1 DEF Aimed
        <4> QED BY <1>9, <3>2, <4>2
      <3> QED BY <3>1, <3>2
    <2>5. aim' = aim /\ st' = st
      BY <1>1 DEF st
    <2> QED BY <2>3, <2>4, <2>5 DEF Aimed, Want
  <1>18. ASSUME excuse' \cap {"assumed", "hedged", "inherited"} = {} PROVE Bounded(requests, st)'
    <2>1. excuse \cap {"assumed", "hedged", "inherited"} = {}
      BY <1>4, <1>18
    <2>2. Bounded(requests, st)
      BY <2>1 DEF Trading, st
    <2>3. ASSUME NEW s \in Symbols, NEW d \in Sides PROVE legs'[s][d] <= MaxLeg
      <3>1. legs[s][d] <= MaxLeg
        BY <2>2 DEF Bounded
      <3>2. CASE \E o \in filled : OnLeg(o, s, d)
        <4>1. PICK o \in filled : OnLeg(o, s, d)
          BY <3>2
        <4>2. /\ o \in Order /\ Waiting(requests, st, o) /\ o.qty \in Nat
              /\ legs'[s][d] = legs[s][d] + Signed(o)
          BY <1>6, <1>8, <1>9, <4>1 DEF Order, OnLeg
        <4>3. o.open => legs[s][d] + o.qty <= MaxLeg
          BY <2>2, <4>1, <4>2 DEF Bounded, OnLeg
        <4>4. legs[s][d] \in Nat /\ MaxLeg \in Nat
          BY <1>5, MaxLegIs DEF Legs
        <4> QED BY <3>1, <4>2, <4>3, <4>4 DEF Signed
      <3>3. CASE \A o \in filled : ~OnLeg(o, s, d)
        BY <1>9, <3>1, <3>3
      <3> QED BY <3>2, <3>3
    <2>4. ASSUME NEW o \in Order, Waiting(requests', st, o), o.open
          PROVE  legs'[o.s][o.side] + o.qty <= MaxLeg
      BY <1>6, <1>16, <2>2, <2>4 DEF Bounded
    <2>5. st' = st
      BY <1>1 DEF st
    <2> QED BY <2>3, <2>4, <2>5 DEF Bounded
  <1>19. Trading'
    <2>1. st' = st
      BY <1>1 DEF st
    <2> QED BY <1>6, <1>17, <1>18, <2>1 DEF Trading, st
  <1> QED BY <1>13, <1>14, <1>15, <1>19

LEMMA ServerStep ==
  ASSUME RebalanceInv, Server PROVE RebalanceInv'
  BY HandleRegisterStep, QueryAccountStep, QueryPositionsStep, ProcessBatchStep DEF Server

-----------------------------------------------------------------------------
(* The strategy starts and is killed.                                      *)

(* A request that is not an order is sent.                                 *)
LEMMA PushIs ==
  ASSUME Typed, Trading, NEW r \in Simple, Push(r), UNCHANGED <<legs, goal, aim, excuse>>,
         mem'.stages = mem.stages
  PROVE  /\ requests' \in Seq(Request) /\ Trading'
         /\ Range(requests') = Range(requests) \cup {r}
  <1>1. requests \in Seq(Request) /\ requests' = Append(requests, r) /\ r \in Request
    BY RequestIs DEF Typed, Push
  <1>2. /\ OnePerLeg(requests', mem'.stages)
        /\ \A o \in Order : Waiting(requests', mem'.stages, o) <=> Waiting(requests, mem.stages, o)
    BY <1>1, PushTrading DEF Trading
  <1> QED BY <1>1, <1>2, TradingFrame, RangeIs

LEMMA StartStep ==
  ASSUME RebalanceInv, Start PROVE RebalanceInv'
  <1> USE DEF RebalanceInv
  <1>1. /\ pc = "down" /\ pc' = "loop" /\ Push([type |-> "register"])
        /\ UNCHANGED <<legs, monitored, reports, period, latest, poll, executed, goal, aim, excuse>>
    BY DEF Start, market, history
  <1>2. PICK loaded \in SUBSET Symbols : mem' = LoadedCandles(loaded)
    BY DEF Start
  <1>3. /\ Fields(mem') /\ ~mem'.ready /\ mem'.stages = <<>>
        /\ mem'.data <=> 2 * Cardinality(loaded) >= Cardinality(Symbols)
        /\ \A s \in Symbols : mem'.known[s] = IF s \in loaded THEN latest[s] ELSE 0
    BY <1>2, LoadedCandlesIs
  <1>4. /\ latest \in [Symbols -> 1..MaxPeriod] /\ MaxPeriod \in Nat
        /\ \A s \in Symbols : latest[s] <= period
    BY PeriodAssumption DEF Typed
  <1>5. mem.stages = <<>>
    BY <1>1, FreshIs DEF Typed
  <1> DEFINE r == [type |-> "register"]
  <1>6. r \in Simple /\ r.type = "register" /\ Push(r)
    BY <1>1 DEF Simple
  <1> HIDE DEF r
  <1>7. requests' \in Seq(Request) /\ Trading' /\ Range(requests') = Range(requests) \cup {r}
    BY <1>1, <1>3, <1>5, <1>6, PushIs
  <1>8. Typed'
    <2>1. \A s \in Symbols : mem'.known[s] <= latest[s]
      BY <1>3, <1>4
    <2> QED BY <1>1, <1>3, <1>7, <2>1 DEF Typed
  <1>9. CandlesCounted'
    <2>1. TradedOnce'
      BY <1>1 DEF CandlesCounted, TradedOnce
    <2>2. HalfLoaded'
      <3> SUFFICES ASSUME mem'.data
                   PROVE  /\ 2 * Cardinality({s \in Symbols : mem'.known[s] > 0}) >= Cardinality(Symbols)
                          /\ \A p \in 1..MaxPeriod : executed[p] > 0 => \E s \in Symbols : mem'.known[s] >= p
        BY <1>1 DEF HalfLoaded
      <3>1. {s \in Symbols : mem'.known[s] > 0} = loaded
        BY <1>3, <1>4
      <3>2. ASSUME NEW p \in 1..MaxPeriod, executed[p] > 0 PROVE \E s \in Symbols : mem'.known[s] >= p
        <4> DEFINE B == {s \in Symbols : latest[s] >= p}
        <4>1. 5 * Cardinality(B) >= 4 * Cardinality(Symbols)
          BY <3>2 DEF CandlesCounted, TradedOnce, Enough
        <4>2. PICK s \in Symbols : s \in loaded /\ s \in B
          <5> HIDE DEF B
          <5>1. B \in SUBSET Symbols
            BY DEF B
          <5> QED BY <1>3, <4>1, <5>1, HalfMeetsMost
        <4> QED BY <1>3, <4>2
      <3> QED BY <1>3, <3>1, <3>2
    <2>3. ChangesAreNew'
      BY <1>1, <1>3, <1>4 DEF ChangesAreNew
    <2>4. HandledCounted'
      BY <1>3 DEF HandledCounted, Checked
    <2> QED BY <2>1, <2>2, <2>3, <2>4 DEF CandlesCounted
  <1>10. Planning'
    <2>1. Settled => Settled'
      BY <1>1, <1>6, <1>7 DEF Settled
    <2> QED BY <1>1, <2>1, PlanningFrame DEF Fetching
  <1> QED BY <1>7, <1>8, <1>9, <1>10

(* The later stages are forgotten.                                         *)
LEMMA StagesDropped ==
  ASSUME NEW rq, NEW st, OnePerLeg(rq, st)
  PROVE  OnePerLeg(rq, <<>>) /\ \A o : Waiting(rq, <<>>, o) => Waiting(rq, st, o)
  <1>1. \A j, k, o : ~Staged(<<>>, j, k, o)
    BY DEF Staged
  <1> QED BY <1>1 DEF OnePerLeg, Waiting

LEMMA KillStep ==
  ASSUME RebalanceInv, Kill PROVE RebalanceInv'
  <1> USE DEF RebalanceInv
  <1>1. /\ pc' = "down" /\ poll' = "account" /\ mem' = Fresh /\ reports' = <<>>
        /\ excuse' = IF pc = "fills" THEN excuse \cup {"killed"} ELSE excuse
        /\ UNCHANGED <<legs, monitored, requests, period, latest, executed, goal, aim>>
    BY DEF Kill, market
  <1>2. /\ Fields(mem') /\ ~mem'.ready /\ ~mem'.data /\ mem'.stages = <<>>
        /\ \A s \in Symbols : mem'.known[s] = 0
    BY <1>1, FreshIs
  <1>3. Typed'
    <2>1. \A s \in Symbols : mem'.known[s] <= latest[s] /\ latest[s] <= period
      BY <1>2, PeriodAssumption DEF Typed
    <2>2. reports' \in Seq(Report) /\ mem' = Fresh
      BY <1>1
    <2> QED BY <1>1, <1>2, <2>1, <2>2 DEF Typed
  <1>4. CandlesCounted'
    <2>1. TradedOnce'
      BY <1>1 DEF CandlesCounted, TradedOnce
    <2> QED BY <1>2, <2>1 DEF CandlesCounted, HalfLoaded, ChangesAreNew, HandledCounted, Checked
  <1>5. Planning'
    <2>1. Settled => Settled'
      BY <1>1 DEF Settled, Range
    <2> QED BY <1>1, <2>1, PlanningFrame DEF Fetching
  <1>6. Trading'
    <2>1. CASE mem.stages = <<>>
      <3>1. CASE pc = "fills"
        <4>1. Bounded(requests, mem.stages) => Bounded(requests, mem.stages)'
          BY <1>1, <1>2, <2>1 DEF Bounded
        <4> QED BY <1>1, <1>2, <2>1, <3>1, <4>1 DEF Trading
      <3>2. CASE pc # "fills"
        BY <1>1, <1>2, <2>1, <3>2, TradingSame
      <3> QED BY <3>1, <3>2
    <2>2. CASE mem.stages # <<>>
      <3>1. pc = "fills" /\ excuse' = excuse \cup {"killed"}
        BY <1>1, <2>2 DEF Typed
      <3>2. OnePerLeg(requests', mem'.stages) /\ \A o : Waiting(requests', mem'.stages, o) => Waiting(requests, mem.stages, o)
        BY <1>1, <1>2, StagesDropped DEF Trading
      <3>3. Bounded(requests, mem.stages) => Bounded(requests, mem.stages)'
        BY <1>1, <3>2 DEF Bounded
      <3> QED BY <3>1, <3>2, <3>3 DEF Trading
    <2> QED BY <2>1, <2>2
  <1> QED BY <1>3, <1>4, <1>5, <1>6

-----------------------------------------------------------------------------
(* The readers of reports.                                                 *)

LEMMA ReportIs ==
  \A r \in Report : /\ r.type \in {"register", "account", "positions", "batch"}
                    /\ r.type = "positions" => r.data \in Legs
                    /\ r.type = "register" => r.ok \in BOOLEAN
  BY DEF Report

LEMMA MergedIs ==
  ASSUME NEW l \in Legs
  PROVE  Merged(Flat, l) = l /\ Merged(l, l) = l
  <1>1. l = [s \in Symbols |-> [d \in Sides |-> l[s][d]]]
    BY DEF Legs
  <1>2. ASSUME NEW s \in Symbols
        PROVE  /\ [d \in Sides |-> IF l[s][d] # 0 THEN l[s][d] ELSE Flat[s][d]] = [d \in Sides |-> l[s][d]]
               /\ [d \in Sides |-> IF l[s][d] # 0 THEN l[s][d] ELSE l[s][d]] = [d \in Sides |-> l[s][d]]
    BY DEF Flat
  <1> HIDE DEF Flat
  <1>3. Merged(Flat, l) = [s \in Symbols |-> [d \in Sides |-> l[s][d]]]
    BY <1>2 DEF Merged
  <1>4. Merged(l, l) = [s \in Symbols |-> [d \in Sides |-> l[s][d]]]
    BY <1>2 DEF Merged
  <1> QED BY <1>1, <1>3, <1>4

(* The fields change no more than an answer changes them.                  *)
LEMMA NotedStep ==
  ASSUME RebalanceInv, Fields(mem'), reports' \in Seq(Report), Range(reports') \subseteq Range(reports),
         mem'.ready = mem.ready, mem'.data = mem.data, mem'.known = mem.known,
         mem'.lastPeriod = mem.lastPeriod, mem'.why = mem.why, mem'.stages = mem.stages,
         Fetching => PositionsTrue', poll' \in {"account", "trading", "done"}, pc # "down" \/ mem' = mem,
         UNCHANGED <<legs, monitored, requests, period, latest, pc, executed, goal, aim, excuse>>
  PROVE  RebalanceInv'
  <1> USE DEF RebalanceInv
  <1>1. Typed'
    BY DEF Typed
  <1>2. CandlesCounted'
    <2>1. Registering' => Registering
      BY DEF Registering
    <2> QED BY <2>1, CandlesFrame DEF Checked
  <1>3. Planning'
    <2>1. Settled => Settled'
      BY DEF Settled
    <2>2. SettledBefore'
      BY <2>1 DEF Planning, SettledBefore, Fetching
    <2>3. PositionsTrue'
      BY DEF PositionsTrue, Fetching
    <2> QED BY <2>2, <2>3 DEF Planning
  <1>4. Trading'
    BY TradingSame
  <1> QED BY <1>1, <1>2, <1>3, <1>4

LEMMA PollStep ==
  ASSUME RebalanceInv, poll' \in {"account", "trading", "done"},
         reports' = reports \/ (reports # <<>> /\ reports' = Tail(reports)),
         UNCHANGED <<legs, monitored, requests, period, latest, pc, mem, executed, goal, aim, excuse>>
  PROVE  RebalanceInv'
  <1>1. reports \in Seq(Report) /\ Fields(mem)
    BY DEF RebalanceInv, Typed
  <1>2. reports' \in Seq(Report) /\ Range(reports') \subseteq Range(reports)
    <2>1. CASE reports' = reports
      BY <1>1, <2>1
    <2>2. CASE reports # <<>> /\ reports' = Tail(reports)
      BY <1>1, <2>2, RangeIs
    <2> QED BY <2>1, <2>2
  <1>3. Fetching => PositionsTrue'
    BY DEF RebalanceInv, Planning, PositionsTrue, Fetching
  <1> QED BY <1>1, <1>2, <1>3, NotedStep

LEMMA RegisterReportStep ==
  ASSUME RebalanceInv, reports # <<>>, reports' = Tail(reports), Head(reports).type = "register",
         HandleRegisterReport(Head(reports)),
         UNCHANGED <<legs, monitored, period, latest, poll, executed, goal, aim, excuse>>
  PROVE  RebalanceInv'
  <1> USE DEF RebalanceInv
  <1>1. reports \in Seq(Report) /\ UNCHANGED <<pc, mem>>
    BY DEF Typed, HandleRegisterReport
  <1>2. /\ reports' \in Seq(Report) /\ Range(reports') \subseteq Range(reports)
        /\ Head(reports) \in Range(reports)
    BY <1>1, RangeIs
  <1>3. Registering
    BY <1>2 DEF Registering
  <1> DEFINE r == [type |-> "account"]
  <1>4. r \in Simple /\ r.type = "account" /\ (Push(r) \/ UNCHANGED requests)
    BY DEF Simple, HandleRegisterReport
  <1> HIDE DEF r
  <1>5. requests' \in Seq(Request) /\ Trading' /\ Range(requests') \subseteq Range(requests) \cup {r}
    <2>1. CASE Push(r)
      BY <1>1, <1>4, <2>1, PushIs
    <2>2. CASE UNCHANGED requests
      BY <1>1, <2>2, TradingSame DEF Typed
    <2> QED BY <1>4, <2>1, <2>2
  <1>6. Typed'
    BY <1>1, <1>2, <1>5 DEF Typed
  <1>7. CandlesCounted'
    BY <1>1, <1>3, CandlesFrame DEF Checked
  <1>8. Planning'
    <2>1. Settled => Settled'
      BY <1>2, <1>4, <1>5 DEF Settled
    <2> QED BY <1>1, <2>1, PlanningFrame DEF Fetching
  <1> QED BY <1>5, <1>6, <1>7, <1>8

LEMMA AccountUpdateStep ==
  ASSUME RebalanceInv, Up, reports # <<>>, reports' = Tail(reports), Head(reports).type = "account",
         HandleAccountUpdate(Head(reports)),
         UNCHANGED <<legs, monitored, period, latest, poll, executed, goal, aim, excuse>>
  PROVE  RebalanceInv'
  <1> USE DEF RebalanceInv
  <1>1. reports \in Seq(Report) /\ Fields(mem)
    BY DEF Typed
  <1>2. /\ reports' \in Seq(Report) /\ Range(reports') \subseteq Range(reports)
        /\ Head(reports) \in Range(reports)
    BY <1>1, RangeIs
  <1>3. Registering
    BY <1>2 DEF Registering
  <1> DEFINE m == [mem EXCEPT !.ready = TRUE]
  <1>4. /\ Fields(m) /\ m.ready /\ m.data = mem.data /\ m.known = mem.known
        /\ m.lastPeriod = mem.lastPeriod /\ m.positions = mem.positions /\ m.why = mem.why
        /\ m.done = mem.done /\ m.error = mem.error
        /\ m.target = mem.target /\ m.delisted = mem.delisted /\ m.stages = mem.stages
    BY <1>1, ReadyIs
  <1>5. CASE ~mem.ready /\ mem.data
    <2>1. Fetch(m, 1, "initial")
      BY <1>5 DEF HandleAccountUpdate
    <2> HIDE DEF m
    <2>2. mem' = [Cleared(m) EXCEPT !.attempt = 1, !.why = "initial"] /\ pc' = "await" /\ Push([type |-> "query"])
      BY <2>1 DEF Fetch
    <2>3. /\ Fields(mem') /\ mem'.ready /\ mem'.data = mem.data /\ mem'.known = mem.known
          /\ mem'.lastPeriod = mem.lastPeriod /\ mem'.why = "initial" /\ mem'.stages = mem.stages
      <3>1. PICK x : x = m
        OBVIOUS
      <3>2. PICK n : n = Fetched(x, 1, "initial")
        OBVIOUS
      <3>3. /\ Fields(n) /\ n.ready = x.ready /\ n.data = x.data /\ n.known = x.known
            /\ n.lastPeriod = x.lastPeriod /\ n.why = "initial" /\ n.stages = x.stages
        BY <1>4, <3>1, <3>2, FetchIs
      <3>4. mem' = n
        BY <2>2, <3>1, <3>2 DEF Fetched
      <3> QED BY <1>4, <3>1, <3>3, <3>4
    <2>4. pc = "loop" /\ mem.stages = <<>>
      BY <1>5 DEF Typed, Up
    <2> DEFINE r == [type |-> "query"]
    <2>5. r \in Simple /\ r.type = "query" /\ Push(r)
      BY <2>2 DEF Simple
    <2> HIDE DEF r
    <2>6. requests' \in Seq(Request) /\ Trading' /\ Range(requests') = Range(requests) \cup {r}
      BY <2>3, <2>5, PushIs
    <2>7. Typed'
      BY <1>2, <1>5, <2>2, <2>3, <2>4, <2>6 DEF Typed
    <2>8. CandlesCounted'
      <3>1. TradedOnce' /\ HalfLoaded'
        BY <2>3 DEF CandlesCounted, TradedOnce, HalfLoaded, Enough
      <3>2. ChangesAreNew'
        BY <1>3, <1>5, <2>3 DEF CandlesCounted, ChangesAreNew
      <3>3. HandledCounted'
        BY <2>2, <2>3 DEF HandledCounted, Checked
      <3> QED BY <3>1, <3>2, <3>3 DEF CandlesCounted
    <2>9. Planning'
      <3>1. Settled => Settled'
        BY <1>2, <2>5, <2>6 DEF Settled
      <3> QED BY <2>2, <2>3, <3>1, PlanningFrame DEF Fetching
    <2> QED BY <2>6, <2>7, <2>8, <2>9
  <1>6. CASE ~(~mem.ready /\ mem.data)
    <2>1. mem' = m /\ UNCHANGED <<requests, pc>>
      BY <1>6 DEF HandleAccountUpdate
    <2> HIDE DEF m
    <2>2. Typed'
      BY <1>2, <1>4, <2>1 DEF Typed, Up
    <2>3. CandlesCounted'
      <3>1. CASE mem.ready
        <4>1. Registering' => Registering
          BY <1>3
        <4>2. mem'.ready = mem.ready
          BY <1>1, <1>4, <2>1, <3>1 DEF Fields
        <4> QED BY <1>4, <2>1, <3>1, <4>1, <4>2, CandlesFrame DEF Checked
      <3>2. CASE ~mem.data
        <4>1. TradedOnce'
          BY DEF CandlesCounted, TradedOnce
        <4> QED BY <1>4, <2>1, <3>2, <4>1 DEF CandlesCounted, HalfLoaded, ChangesAreNew, HandledCounted, Checked
      <3> QED BY <1>6, <3>1, <3>2
    <2>4. Planning'
      <3>1. Settled => Settled'
        BY <1>2, <2>1 DEF Settled
      <3> QED BY <1>4, <2>1, <3>1, PlanningFrame DEF Fetching
    <2>5. Trading'
      BY <1>4, <2>1, TradingSame
    <2> QED BY <2>2, <2>3, <2>4, <2>5
  <1> QED BY <1>5, <1>6

LEMMA PositionUpdateStep ==
  ASSUME RebalanceInv, Up, reports # <<>>, reports' = Tail(reports), Head(reports).type = "positions",
         HandlePositionUpdate(Head(reports)),
         UNCHANGED <<legs, monitored, period, latest, poll, executed, goal, aim, excuse>>
  PROVE  RebalanceInv'
  <1> USE DEF RebalanceInv
  <1> DEFINE r == Head(reports)
  <1>1. reports \in Seq(Report) /\ Fields(mem) /\ legs \in Legs /\ poll \in {"account", "trading", "done"}
    BY DEF Typed
  <1>2. /\ reports' \in Seq(Report) /\ Range(reports') \subseteq Range(reports)
        /\ r \in Range(reports) /\ r \in Report
    BY <1>1, RangeIs
  <1>3. r.data \in Legs
    BY <1>2, ReportIs
  <1> DEFINE e == [mem EXCEPT !.error = TRUE, !.done = TRUE]
             a == [mem EXCEPT !.positions = Merged(@, r.data), !.done = TRUE]
  <1>4. /\ mem' = IF r.error THEN e ELSE a
        /\ UNCHANGED <<requests, pc>>
    BY DEF HandlePositionUpdate
  <1>5. /\ Fields(e) /\ e.ready = mem.ready /\ e.data = mem.data /\ e.known = mem.known
        /\ e.lastPeriod = mem.lastPeriod /\ e.positions = mem.positions /\ e.why = mem.why
        /\ e.error /\ e.target = mem.target /\ e.delisted = mem.delisted /\ e.stages = mem.stages
    BY <1>1, ErrorIs
  <1>6. /\ Fields(a) /\ a.ready = mem.ready /\ a.data = mem.data /\ a.known = mem.known
        /\ a.lastPeriod = mem.lastPeriod /\ a.positions = Merged(mem.positions, r.data) /\ a.why = mem.why
        /\ a.target = mem.target /\ a.delisted = mem.delisted /\ a.stages = mem.stages
    BY <1>1, <1>3, AnswerIs
  <1> HIDE DEF e, a
  <1>7. ASSUME Fetching PROVE PositionsTrue'
    <2>1. /\ mem.positions \in {Flat, legs}
          /\ mem.target \in Targets /\ \A s \in mem.delisted : mem.target[s] = 0
          /\ Settled
      BY <1>7 DEF Planning, PositionsTrue, SettledBefore
    <2>2. CASE r.error
      BY <1>4, <1>5, <2>1, <2>2 DEF PositionsTrue
    <2>3. CASE ~r.error
      <3>1. r.data = legs
        BY <1>2, <2>1, <2>3 DEF Settled
      <3>2. a.positions = legs
        BY <1>1, <1>6, <2>1, <3>1, MergedIs
      <3> QED BY <1>4, <1>6, <2>1, <2>3, <3>2 DEF PositionsTrue
    <2> QED BY <2>2, <2>3
  <1>8. /\ Fields(mem') /\ mem'.ready = mem.ready /\ mem'.data = mem.data /\ mem'.known = mem.known
        /\ mem'.lastPeriod = mem.lastPeriod /\ mem'.why = mem.why /\ mem'.stages = mem.stages
    BY <1>4, <1>5, <1>6
  <1> QED BY <1>1, <1>2, <1>4, <1>7, <1>8, NotedStep DEF Up

LEMMA BatchReportStep ==
  ASSUME RebalanceInv, Up, reports # <<>>, reports' = Tail(reports),
         HandleBatchReport(Head(reports)),
         UNCHANGED <<legs, monitored, period, latest, poll, executed, goal, aim, excuse>>
  PROVE  RebalanceInv'
  <1>1. reports \in Seq(Report) /\ Fields(mem) /\ poll \in {"account", "trading", "done"}
    BY DEF RebalanceInv, Typed
  <1>2. reports' \in Seq(Report) /\ Range(reports') \subseteq Range(reports)
    BY <1>1, RangeIs
  <1>3. PICK c : mem' = Counted(mem, c)
    BY DEF HandleBatchReport, Counted
  <1>4. UNCHANGED <<requests, pc>>
    BY DEF HandleBatchReport
  <1>5. /\ Fields(mem') /\ mem'.ready = mem.ready /\ mem'.data = mem.data /\ mem'.known = mem.known
        /\ mem'.lastPeriod = mem.lastPeriod /\ mem'.positions = mem.positions /\ mem'.why = mem.why
        /\ mem'.done = mem.done /\ mem'.error = mem.error
        /\ mem'.target = mem.target /\ mem'.delisted = mem.delisted /\ mem'.stages = mem.stages
    BY <1>1, <1>3, CountedIs
  <1>6. Fetching => PositionsTrue'
    BY <1>4, <1>5 DEF RebalanceInv, Planning, PositionsTrue, Fetching
  <1> QED BY <1>1, <1>2, <1>4, <1>5, <1>6, NotedStep DEF Up

LEMMA HandleReportStep ==
  ASSUME RebalanceInv, HandleReport PROVE RebalanceInv'
  <1>1. /\ Up /\ reports # <<>> /\ reports' = Tail(reports)
        /\ UNCHANGED <<legs, monitored, period, latest, poll, executed, goal, aim, excuse>>
    BY DEF HandleReport, market, history
  <1>2. CASE Head(reports).type = "register"
    BY <1>1, <1>2, RegisterReportStep DEF HandleReport
  <1>3. CASE Head(reports).type = "account"
    BY <1>1, <1>3, AccountUpdateStep DEF HandleReport
  <1>4. CASE Head(reports).type = "positions"
    BY <1>1, <1>4, PositionUpdateStep DEF HandleReport
  <1>5. CASE Head(reports).type \notin {"register", "account", "positions"}
    BY <1>1, <1>5, BatchReportStep DEF HandleReport
  <1> QED BY <1>2, <1>3, <1>4, <1>5

LEMMA ReaderSteps ==
  ASSUME RebalanceInv, NextReader \/ Swallow \/ NothingNew \/ PollAgain PROVE RebalanceInv'
  <1>1. poll \in {"account", "trading", "done"}
    BY DEF RebalanceInv, Typed
  <1>2. CASE NextReader
    BY <1>2, PollStep DEF NextReader, market, history
  <1>3. CASE Swallow
    BY <1>1, <1>3, PollStep DEF Swallow, market, history
  <1>4. CASE NothingNew
    BY <1>4, PollStep DEF NothingNew, Polled, market, history
  <1>5. CASE PollAgain
    BY <1>5, PollStep DEF PollAgain, Polled, market, history
  <1> QED BY <1>2, <1>3, <1>4, <1>5

-----------------------------------------------------------------------------
(* The loop.                                                               *)

(* Every candle in Redis has been read.                                    *)
LEMMA AllRead ==
  ASSUME Typed, CandlesCounted, mem.data, UNCHANGED <<latest, period>>, TradedOnce',
         \A s \in Symbols : mem'.known[s] = latest[s],
         \A p \in 1..MaxPeriod : executed'[p] > 0 => executed[p] > 0 \/ \E s \in Symbols : latest[s] >= p,
         \A p \in 1..MaxPeriod : Checked' /\ executed'[p] > 0 => p <= mem'.lastPeriod
  PROVE  CandlesCounted'
  <1>1. /\ latest \in [Symbols -> 1..MaxPeriod] /\ MaxPeriod \in Nat
        /\ mem.known \in [Symbols -> 0..MaxPeriod]
        /\ \A s \in Symbols : mem.known[s] <= latest[s]
    BY PeriodAssumption DEF Typed, Fields
  <1>2. \A p \in 1..MaxPeriod : executed'[p] > 0 => \E s \in Symbols : mem'.known[s] >= p
    <2> SUFFICES ASSUME NEW p \in 1..MaxPeriod, executed'[p] > 0 PROVE \E s \in Symbols : latest[s] >= p
      OBVIOUS
    <2>1. CASE executed[p] > 0
      <3>1. PICK s \in Symbols : mem.known[s] >= p
        BY <2>1 DEF CandlesCounted, HalfLoaded
      <3>2. mem.known[s] <= latest[s] /\ mem.known[s] \in Int /\ latest[s] \in Int /\ p \in Int
        BY <1>1
      <3> QED BY <3>1, <3>2
    <2> QED BY <2>1
  <1>3. 2 * Cardinality({s \in Symbols : mem'.known[s] > 0}) >= Cardinality(Symbols)
    <2> DEFINE A == {s \in Symbols : mem'.known[s] > 0}
    <2>1. A = Symbols
      BY <1>1
    <2>2. Cardinality(Symbols) \in Nat
      BY PortfolioAssumption, FS_CardinalityType
    <2> HIDE DEF A
    <2>3. 2 * Cardinality(A) >= Cardinality(Symbols)
      BY <2>1, <2>2
    <2> QED BY <2>3 DEF A
  <1>4. HalfLoaded'
    BY <1>2, <1>3 DEF HalfLoaded
  <1>5. ChangesAreNew'
    BY <1>1 DEF ChangesAreNew
  <1>6. HandledCounted'
    BY <1>1 DEF HandledCounted
  <1> QED BY <1>4, <1>5, <1>6 DEF CandlesCounted

LEMMA NotYetStep ==
  ASSUME RebalanceInv, NotYet PROVE RebalanceInv'
  <1> USE DEF RebalanceInv
  <1>1. /\ pc = "loop" /\ Trades /\ mem' = Learnt /\ poll' = "account"
        /\ UNCHANGED <<legs, monitored, requests, reports, period, latest, pc, executed, goal, aim, excuse>>
    BY DEF NotYet, Polled, market, history
  <1>2. /\ Fields(mem') /\ mem'.ready = mem.ready /\ mem'.data = mem.data
        /\ \A s \in Symbols : mem'.known[s] = latest[s]
        /\ mem'.lastPeriod = mem.lastPeriod /\ mem'.why = mem.why /\ mem'.stages = mem.stages
    BY <1>1, LearntIs
  <1>3. latest \in [Symbols -> 1..MaxPeriod] /\ \A s \in Symbols : latest[s] <= period
    BY DEF Typed
  <1>4. Typed'
    <2>1. \A s \in Symbols : mem'.known[s] <= latest[s]
      BY <1>2, <1>3, PeriodAssumption
    <2> QED BY <1>1, <1>2, <2>1 DEF Typed
  <1>5. CandlesCounted'
    <2>1. TradedOnce'
      BY <1>1 DEF CandlesCounted, TradedOnce
    <2>2. \A p \in 1..MaxPeriod : executed[p] > 0 => p <= mem.lastPeriod
      BY <1>1 DEF CandlesCounted, HandledCounted, Checked, Trades
    <2> QED BY <1>1, <1>2, <2>1, <2>2, AllRead DEF Trades
  <1>6. Planning'
    BY <1>1, PlanningFrame DEF Fetching, Settled
  <1>7. Trading'
    BY <1>1, <1>2, TradingSame
  <1> QED BY <1>4, <1>5, <1>6, <1>7

LEMMA TriggerStep ==
  ASSUME RebalanceInv, Trigger PROVE RebalanceInv'
  <1> USE DEF RebalanceInv
  <1>1. /\ pc = "loop" /\ Trades /\ Changed # {} /\ poll' = "account"
        /\ Newest > mem.lastPeriod /\ Enough(latest, Newest)
        /\ UNCHANGED <<legs, monitored, reports, period, latest, goal, aim, excuse>>
    BY DEF Trigger, Polled, market
  <1>2. PICK delisted \in Delistings, t \in Targets :
          LET m == Targeted(Learnt, Newest, t, delisted)
          IN  /\ \A s \in delisted : t[s] = 0
              /\ IF t = NoTarget
                 THEN mem' = m /\ UNCHANGED <<requests, pc, executed>>
                 ELSE /\ Fetch(m, 1, "rebalance")
                      /\ executed' = [executed EXCEPT ![Newest] = @ + 1]
    BY DEF Trigger, Targeted
  <1>3. Checked
    BY <1>1 DEF Checked, Trades
  <1>4. Newest = period /\ executed[period] = 0
    BY <1>1, <1>3, TriggersOnce
  <1>5. /\ latest \in [Symbols -> 1..MaxPeriod] /\ MaxPeriod \in Nat /\ period \in 1..MaxPeriod
        /\ mem.lastPeriod \in 0..MaxPeriod /\ executed \in [1..MaxPeriod -> Nat]
        /\ \A s \in Symbols : latest[s] <= period
    BY PeriodAssumption DEF Typed, Fields
  <1>6. /\ Fields(Learnt) /\ Learnt.ready = mem.ready /\ Learnt.data = mem.data
        /\ \A s \in Symbols : Learnt.known[s] = latest[s]
        /\ Learnt.stages = mem.stages
    BY LearntIs
  <1>7. PICK m : m = Targeted(Learnt, Newest, t, delisted)
    OBVIOUS
  <1>8. /\ Fields(m) /\ m.ready /\ m.data
        /\ \A s \in Symbols : m.known[s] = latest[s]
        /\ m.lastPeriod = period /\ m.stages = mem.stages
        /\ m.target = t /\ m.delisted = delisted
    <2>1. PICK f : f = Learnt
      OBVIOUS
    <2>2. PICK p \in 0..MaxPeriod : p = Newest
      BY <1>4, <1>5
    <2>3. delisted \in SUBSET Symbols /\ t \in Targets \cup {NoTarget}
      BY PortfolioAssumption
    <2>4. m = Targeted(f, p, t, delisted) /\ Fields(f)
      BY <1>6, <1>7, <2>1, <2>2
    <2>5. /\ Fields(m) /\ m.ready = f.ready /\ m.data = f.data /\ m.known = f.known
          /\ m.lastPeriod = p /\ m.stages = f.stages /\ m.target = t /\ m.delisted = delisted
      BY <2>3, <2>4, TargetedIs
    <2> QED BY <1>1, <1>4, <1>6, <2>1, <2>2, <2>5 DEF Trades
  <1>9. \A p \in 1..MaxPeriod : executed[p] > 0 => p <= mem.lastPeriod
    BY <1>3 DEF CandlesCounted, HandledCounted
  <1>10. PICK s0 \in Symbols : latest[s0] = period
    BY <1>1, <1>4, NewestIs DEF Changed
  <1>11. CASE t = NoTarget
    <2>1. mem' = m /\ UNCHANGED <<requests, pc, executed>>
      BY <1>2, <1>7, <1>11
    <2>2. Typed'
      <3>1. \A s \in Symbols : mem'.known[s] <= latest[s]
        BY <1>5, <1>8, <2>1
      <3> QED BY <1>1, <1>8, <2>1, <3>1 DEF Typed
    <2>3. CandlesCounted'
      <3>1. TradedOnce'
        BY <1>1, <2>1 DEF CandlesCounted, TradedOnce
      <3>2. \A p \in 1..MaxPeriod : executed[p] > 0 => p <= m.lastPeriod
        BY <1>1, <1>4, <1>5, <1>8, <1>9
      <3> QED BY <1>1, <1>8, <2>1, <3>1, <3>2, AllRead DEF Trades
    <2>4. Planning'
      BY <1>1, <2>1, PlanningFrame DEF Fetching, Settled
    <2>5. Trading'
      BY <1>1, <1>8, <2>1, TradingSame
    <2> QED BY <2>2, <2>3, <2>4, <2>5
  <1>12. CASE t # NoTarget
    <2>1. /\ Fetch(m, 1, "rebalance")
          /\ executed' = [executed EXCEPT ![period] = @ + 1]
      BY <1>2, <1>4, <1>7, <1>12
    <2>2. mem' = Fetched(m, 1, "rebalance") /\ pc' = "await" /\ Push([type |-> "query"])
      BY <2>1 DEF Fetch, Fetched
    <2>3. /\ Fields(mem') /\ mem'.ready = m.ready /\ mem'.data = m.data /\ mem'.known = m.known
          /\ mem'.lastPeriod = m.lastPeriod /\ mem'.positions = Flat /\ ~mem'.done /\ mem'.why = "rebalance"
          /\ mem'.target = m.target /\ mem'.delisted = m.delisted /\ mem'.stages = m.stages
      <3>1. PICK n : n = Fetched(m, 1, "rebalance")
        OBVIOUS
      <3>2. /\ Fields(n) /\ n.ready = m.ready /\ n.data = m.data /\ n.known = m.known
            /\ n.lastPeriod = m.lastPeriod /\ n.positions = Flat /\ ~n.done /\ n.why = "rebalance"
            /\ n.target = m.target /\ n.delisted = m.delisted /\ n.stages = m.stages
        <4>1. Fields(m)
          BY <1>8
        <4> QED BY <3>1, <4>1, FetchIs
      <3> QED BY <2>2, <3>1, <3>2
    <2>4. mem.stages = <<>>
      BY <1>1 DEF Typed
    <2> DEFINE r == [type |-> "query"]
    <2>5. r \in Simple /\ r.type = "query" /\ Push(r)
      BY <2>2 DEF Simple
    <2> HIDE DEF r
    <2>6. requests' \in Seq(Request) /\ Trading' /\ Range(requests') = Range(requests) \cup {r}
      BY <1>1, <1>8, <2>3, <2>5, PushIs
    <2>7. /\ executed' \in [1..MaxPeriod -> Nat] /\ executed'[period] = 1
          /\ \A p \in 1..MaxPeriod : p # period => executed'[p] = executed[p]
      BY <1>4, <1>5, <2>1
    <2>8. Typed'
      <3>1. \A s \in Symbols : mem'.known[s] <= latest[s]
        BY <1>5, <1>8, <2>3
      <3> QED BY <1>1, <1>8, <2>2, <2>3, <2>4, <2>6, <2>7, <3>1 DEF Typed
    <2>9. CandlesCounted'
      <3>1. TradedOnce'
        <4> SUFFICES ASSUME NEW p \in 1..MaxPeriod
                     PROVE  executed'[p] <= 1 /\ (executed'[p] > 0 => p <= period /\ Enough(latest, p))
          BY <1>1 DEF TradedOnce
        <4>1. CASE p = period
          BY <1>1, <1>4, <1>5, <2>7, <4>1
        <4>2. CASE p # period
          BY <2>7, <4>2 DEF CandlesCounted, TradedOnce
        <4> QED BY <4>1, <4>2
      <3>2. \A p \in 1..MaxPeriod : executed'[p] > 0 => executed[p] > 0 \/ \E s \in Symbols : latest[s] >= p
        BY <1>5, <1>10, <2>7
      <3>3. \A p \in 1..MaxPeriod : executed'[p] > 0 => p <= m.lastPeriod
        BY <1>1, <1>4, <1>5, <1>8, <1>9, <2>7
      <3> QED BY <1>1, <1>8, <2>3, <3>1, <3>2, <3>3, AllRead DEF Trades
    <2>10. Planning'
      <3>1. Settled
        BY <1>4 DEF Planning, SettledBefore
      <3>2. Settled'
        BY <1>1, <2>5, <2>6, <3>1 DEF Settled
      <3>3. SettledBefore'
        BY <1>1, <2>7, <3>2 DEF SettledBefore
      <3>4. PositionsTrue'
        BY <1>2, <1>8, <2>3 DEF PositionsTrue
      <3> QED BY <3>3, <3>4 DEF Planning
    <2> QED BY <2>6, <2>8, <2>9, <2>10
  <1> QED BY <1>11, <1>12

-----------------------------------------------------------------------------
(* What follows an answer.                                                 *)

LEMMA InitialCheckStep ==
  ASSUME RebalanceInv, pc = "await", mem.why = "initial", poll' = "account",
         NEW m, Fields(m), m.ready = mem.ready, m.data = mem.data, m.known = mem.known,
         m.why = mem.why, m.stages = mem.stages, InitialCheck(m),
         UNCHANGED <<legs, monitored, reports, period, latest>>
  PROVE  RebalanceInv'
  <1> USE DEF RebalanceInv
  <1>1. /\ mem' = Handled(m, Loaded) /\ pc' = "loop"
        /\ UNCHANGED <<requests, executed, goal, aim, excuse>>
    BY DEF InitialCheck, Handled, history
  <1>2. Loaded \in 0..MaxPeriod /\ \A s \in Symbols : mem.known[s] <= Loaded
    BY LoadedIs
  <1>3. /\ Fields(mem') /\ mem'.ready = mem.ready /\ mem'.data = mem.data /\ mem'.known = mem.known
        /\ mem'.lastPeriod = Loaded /\ mem'.why = mem.why /\ mem'.stages = mem.stages
    <2>1. PICK p \in 0..MaxPeriod : p = Loaded
      BY <1>2
    <2>2. PICK n : n = Handled(m, p)
      OBVIOUS
    <2>3. /\ Fields(n) /\ n.ready = m.ready /\ n.data = m.data /\ n.known = m.known
          /\ n.lastPeriod = p /\ n.why = m.why /\ n.stages = m.stages
      BY <2>2, HandledIs
    <2> QED BY <1>1, <2>1, <2>2, <2>3
  <1>4. Typed'
    BY <1>1, <1>3 DEF Typed
  <1>5. CandlesCounted'
    <2>1. TradedOnce' /\ HalfLoaded'
      BY <1>1, <1>3 DEF CandlesCounted, TradedOnce, HalfLoaded, Enough
    <2>2. ChangesAreNew'
      BY <1>1, <1>3 DEF CandlesCounted, ChangesAreNew, Typed
    <2>3. ASSUME NEW p \in 1..MaxPeriod, executed[p] > 0 PROVE p <= Loaded
      <3>1. PICK s \in Symbols : mem.known[s] >= p
        BY <2>3 DEF CandlesCounted, HalfLoaded, Typed
      <3>2. mem.known[s] \in Int /\ MaxPeriod \in Nat
        BY PeriodAssumption DEF Typed, Fields
      <3> QED BY <1>2, <3>1, <3>2
    <2>4. HandledCounted'
      BY <1>1, <1>2, <1>3, <2>3 DEF HandledCounted
    <2> QED BY <2>1, <2>2, <2>4 DEF CandlesCounted
  <1>6. Planning'
    BY <1>1, PlanningFrame DEF Fetching, Settled
  <1>7. Trading'
    BY <1>1, <1>3, TradingSame
  <1> QED BY <1>4, <1>5, <1>6, <1>7

(* A symbol that is held on one side has its quantity there.               *)
LEMMA CurrentIs ==
  ASSUME NEW l \in Legs
  PROVE  /\ Current(l) \in [Symbols -> Int]
         /\ ~Hedged(l) => \A s \in Symbols, d \in Sides : l[s][d] = Want(Current(l), s, d)
  <1>1. \A s \in Symbols : l[s]["LONG"] \in Nat /\ l[s]["SHORT"] \in Nat
    BY DEF Legs, Sides
  <1>2. Current(l) \in [Symbols -> Int]
    BY <1>1 DEF Current
  <1>3. ASSUME ~Hedged(l), NEW s \in Symbols, NEW d \in Sides PROVE l[s][d] = Want(Current(l), s, d)
    <2>1. \A r \in Symbols : Current(l)[r] = Net(l, r)
      BY <1>1, <1>3 DEF Current, Net, Hedged, Sides
    <2> QED BY <1>3, <2>1, UnhedgedNet
  <1> QED BY <1>2, <1>3

(* What waits is what was planned.                                         *)
LEMMA ContinueTrading ==
  ASSUME NEW m, Fields(m), requests \in Seq(Request), Continue(m), OnePerLeg(requests, m.stages)
  PROVE  /\ OnePerLeg(requests', mem'.stages)
         /\ \A o \in Order : Waiting(requests', mem'.stages, o) <=> Waiting(requests, m.stages, o)
  <1>1. \/ /\ m.stages = <<>> /\ mem'.stages = <<>> /\ requests' = requests
        \/ /\ m.stages # <<>> /\ mem'.stages = Tail(m.stages)
           /\ requests' = Sending(requests, m.stages)
    BY ContinueIs
  <1>2. m.stages \in Seq(Seq(SUBSET Order))
    BY DEF Fields
  <1>3. CASE m.stages = <<>>
    BY <1>1, <1>3
  <1>4. CASE m.stages # <<>>
    BY <1>1, <1>2, <1>4, SendingTrading
  <1> QED BY <1>3, <1>4

(* What is skipped stays near its target, or has none.                     *)
LEMMA KeepingIs ==
  ASSUME NEW cur \in [Symbols -> Int], NEW t \in [Symbols -> Int],
         NEW unsized \in SUBSET {s \in Symbols : t[s] # 0}, NEW least \in [Symbols -> MinTrades],
         NEW g, g = Keeping(cur, t, unsized),
         NEW a, a = Keeping(cur, t, unsized \cup Dust(cur, t, least))
  PROVE  /\ a \in [Symbols -> Int] /\ g \in [Symbols -> Int]
         /\ \A s \in Symbols : Near(a[s], g[s])
         /\ \A s \in Symbols : a[s] = t[s] \/ (t[s] # 0 /\ a[s] = cur[s])
  <1> DEFINE dust == Dust(cur, t, least)
  <1>1. a \in [Symbols -> Int] /\ g \in [Symbols -> Int]
    BY DEF Keeping
  <1>2. ASSUME NEW s \in Symbols
        PROVE  /\ a[s] = IF s \in unsized \/ s \in dust THEN cur[s] ELSE t[s]
               /\ g[s] = IF s \in unsized THEN cur[s] ELSE t[s]
               /\ s \in dust => t[s] # 0 /\ Abs(t[s] - cur[s]) < least[s] /\ least[s] \in MinTrades
    BY DEF Keeping, Dust
  <1> HIDE DEF dust
  <1>3. \A s \in Symbols : Near(a[s], g[s])
    BY <1>2 DEF Near
  <1> QED BY <1>1, <1>2, <1>3

LEMMA PlanStep ==
  ASSUME RebalanceInv, Fetching, poll' = "account",
         NEW m, Fields(m), m.ready = mem.ready, m.data = mem.data, m.known = mem.known,
         m.lastPeriod = mem.lastPeriod, m.why = mem.why, m.target = mem.target, m.delisted = mem.delisted,
         NEW cur \in [Symbols -> Int], NEW assumed \in BOOLEAN, ~assumed => cur = Current(legs),
         Plan(m, cur, assumed), UNCHANGED <<legs, monitored, reports, period, latest>>
  PROVE  RebalanceInv'
  <1> USE DEF RebalanceInv
  <1> DEFINE goals == mem.target
             gone == mem.delisted
  <1>0. /\ goals \in Targets /\ goals \in [Symbols -> Int] /\ gone \in SUBSET Symbols
        /\ \A s \in gone : goals[s] = 0
    BY PortfolioAssumption DEF Planning, PositionsTrue, Typed, Fields
  <1>a. PICK t :
          /\ t \in [Symbols -> Int] /\ aim' = t /\ goal' \in [Symbols -> Int]
          /\ \A s \in Symbols : Near(t[s], goal'[s])
          /\ \A s \in Symbols : t[s] = goals[s] \/ (goals[s] # 0 /\ t[s] = cur[s])
    <2>1. PICK unsized \in SUBSET {s \in Symbols : m.target[s] # 0}, least \in [Symbols -> MinTrades] :
            /\ goal' = Keeping(cur, m.target, unsized)
            /\ aim' = Keeping(cur, m.target, unsized \cup Dust(cur, m.target, least))
      BY DEF Plan
    <2>2. m.target = goals
      OBVIOUS
    <2> HIDE DEF goals
    <2> QED BY <1>0, <2>1, <2>2, KeepingIs
  <1> DEFINE orders == Planned(cur, t, gone)
  <1>1. t \in [Symbols -> Int] /\ gone \in SUBSET Symbols /\ \A s \in gone : t[s] = 0
    BY <1>0, <1>a
  <1>2. PICK st : st = Stages(cur, t, gone)
    OBVIOUS
  <1>3. /\ st \in StageSeq /\ OnePerStage(st)
        /\ \A o : Holds(st, o) <=> o \in orders
    BY <1>1, <1>2, PlanStages
  <1>4. PICK n : n = WithStages(m, st)
    OBVIOUS
  <1>5. /\ Fields(n) /\ n.ready = m.ready /\ n.data = m.data /\ n.known = m.known
        /\ n.lastPeriod = m.lastPeriod /\ n.why = m.why /\ n.stages = st
    BY <1>3, <1>4, PlannedIs
  <1>6. /\ Continue(n) /\ aim' = t /\ UNCHANGED executed
        /\ excuse' = (IF assumed THEN {"assumed"} ELSE {}) \cup (IF Hedged(legs) THEN {"hedged"} ELSE {})
               \cup (IF \E s \in Symbols, d \in Sides : legs[s][d] > MaxLeg THEN {"inherited"} ELSE {})
    BY <1>2, <1>4, <1>a DEF Plan, WithStages
  <1>7. requests \in Seq(Request) /\ legs \in Legs
    BY DEF Typed
  <1>8. /\ Fields(mem') /\ requests' \in Seq(Request)
        /\ mem'.ready = mem.ready /\ mem'.data = mem.data /\ mem'.known = mem.known
        /\ mem'.lastPeriod = mem.lastPeriod /\ mem'.why = mem.why
        /\ \/ pc' = "loop" /\ mem'.stages = <<>>
           \/ pc' = "fills"
        /\ \A x \in Range(requests') : x.type # "batch" => x \in Range(requests)
    BY <1>5, <1>6, <1>7, ContinueIs
  <1> HIDE DEF goals, gone, orders
  <1>9. Typed'
    <2>1. mem.ready /\ mem.data
      BY DEF Typed, Fetching
    <2> QED BY <1>1, <1>6, <1>8, <1>a, <2>1 DEF Typed
  <1>10. CandlesCounted'
    <2>1. Registering' => Registering
      BY <1>8 DEF Registering
    <2>2. Checked
      BY DEF Checked, Fetching, Typed
    <2> QED BY <1>6, <1>8, <2>1, <2>2, CandlesFrame
  <1>11. Planning'
    <2>1. executed[period] > 0 /\ ~Fetching'
      BY <1>8 DEF Planning, SettledBefore, Fetching
    <2>2. executed[period] # 0
      BY <2>1
    <2> QED BY <1>6, <2>1, <2>2 DEF Planning, SettledBefore, PositionsTrue
  <1>12. \A i \in Nat : \A o : ~Sent(requests, i, o)
    <2>1. \A x \in Range(requests) : x.type # "batch"
      BY DEF Planning, SettledBefore, Settled
    <2> QED BY <2>1 DEF Sent, Range
  <1>13. OnePerLeg(requests, st)
    BY <1>3, <1>12 DEF OnePerLeg, OnePerStage
  <1>14. \A o : Waiting(requests, st, o) <=> o \in orders
    BY <1>3, <1>12 DEF Waiting, Holds
  <1>15. /\ OnePerLeg(requests', mem'.stages)
         /\ \A o \in Order : Waiting(requests', mem'.stages, o) <=> o \in orders
    BY <1>5, <1>6, <1>7, <1>13, <1>14, ContinueTrading
  <1>16. /\ \A o \in orders : Want(cur, o.s, o.side) + Signed(o) = Want(t, o.s, o.side)
         /\ \A s \in Symbols, d \in Sides :
              (\A o \in orders : ~OnLeg(o, s, d)) => Want(cur, s, d) = Want(t, s, d)
         /\ \A o \in orders : o \in Order
    <2>1. Planned(cur, t, gone) \subseteq Order
      <3>1. Rest(cur, gone) \in [Symbols -> Int]
        BY DEF Rest
      <3> QED BY <1>1, <3>1, OrdersAre DEF Planned
    <2> QED BY <1>1, <2>1, PlanAims DEF orders
  <1>17. ASSUME "assumed" \notin excuse', "hedged" \notin excuse', NEW s \in Symbols, NEW d \in Sides
         PROVE  legs[s][d] = Want(cur, s, d)
    <2>1. ~assumed /\ ~Hedged(legs)
      BY <1>6, <1>17
    <2> QED BY <1>7, <2>1, CurrentIs
  <1>18. ASSUME excuse' = {} PROVE Aimed(requests, mem.stages)'
    <2>1. \A s \in Symbols, d \in Sides : legs[s][d] = Want(cur, s, d)
      BY <1>17, <1>18
    <2>2. ASSUME NEW o \in Order, o \in orders PROVE legs[o.s][o.side] + Signed(o) = Want(t, o.s, o.side)
      <3>1. o.s \in Symbols /\ o.side \in Sides
        BY DEF Order
      <3> QED BY <1>16, <2>1, <2>2, <3>1
    <2>3. ASSUME NEW s \in Symbols, NEW d \in Sides, \A o \in Order : OnLeg(o, s, d) => o \notin orders
          PROVE  legs[s][d] = Want(t, s, d)
      BY <1>16, <2>1, <2>3
    <2>4. \A s, d : Want(t, s, d) = Want(aim', s, d)
      BY <1>6
    <2>5. legs' = legs
      OBVIOUS
    <2>6. \A s, d : Want(aim', s, d) = Want(aim, s, d)'
      BY DEF Want
    <2> QED BY <1>15, <2>2, <2>3, <2>4, <2>5, <2>6 DEF Aimed
  <1>19. ASSUME excuse' \cap {"assumed", "hedged", "inherited"} = {} PROVE Bounded(requests, mem.stages)'
    <2>1. \A s \in Symbols, d \in Sides : legs[s][d] = Want(cur, s, d)
      BY <1>17, <1>19
    <2>2. ASSUME NEW s \in Symbols, NEW d \in Sides PROVE legs[s][d] <= MaxLeg
      <3>1. ~(legs[s][d] > MaxLeg)
        BY <1>6, <1>19
      <3>2. legs[s][d] \in Nat /\ MaxLeg \in Nat
        BY <1>7, MaxLegIs DEF Legs
      <3> QED BY <3>1, <3>2
    <2>3. ASSUME NEW o \in Order, o \in orders, o.open PROVE legs[o.s][o.side] + o.qty <= MaxLeg
      <3>1. o.s \in Symbols /\ o.side \in Sides /\ Signed(o) = o.qty
        BY <2>3 DEF Order, Signed
      <3>2. legs[o.s][o.side] + o.qty = Want(t, o.s, o.side)
        BY <1>16, <2>1, <2>3, <3>1
      <3>3. t[o.s] = goals[o.s] \/ t[o.s] = cur[o.s]
        BY <1>a, <3>1
      <3>4. CASE t[o.s] = goals[o.s]
        <4>1. Want(t, o.s, o.side) = Want(goals, o.s, o.side)
          BY <3>4 DEF Want
        <4> QED BY <1>0, <3>1, <3>2, <4>1, MaxLegIs
      <3>5. CASE t[o.s] = cur[o.s]
        <4>1. Want(t, o.s, o.side) = legs[o.s][o.side]
          BY <2>1, <3>1, <3>5 DEF Want
        <4> QED BY <2>2, <3>1, <3>2, <4>1
      <3> QED BY <3>3, <3>4, <3>5
    <2> QED BY <1>15, <2>2, <2>3 DEF Bounded
  <1>20. Trading'
    BY <1>15, <1>18, <1>19 DEF Trading
  <1> QED BY <1>9, <1>10, <1>11, <1>20

LEMMA FetchAnsweredStep ==
  ASSUME RebalanceInv, FetchAnswered PROVE RebalanceInv'
  <1> DEFINE cur == Current(mem.positions)
  <1>1. /\ pc = "await" /\ mem.done /\ ~mem.error /\ poll' = "account"
        /\ UNCHANGED <<legs, monitored, reports, period, latest>>
    BY DEF FetchAnswered, Polled, market
  <1>2. PICK c : Proceed(KnownCounted(mem, c), cur, FALSE)
    BY DEF FetchAnswered, KnownCounted
  <1>3. PICK m : m = KnownCounted(mem, c)
    OBVIOUS
  <1>4. Fields(mem) /\ mem.positions \in Legs /\ mem.why \in {"initial", "rebalance"}
    BY DEF RebalanceInv, Typed, Fields
  <1>5. /\ Fields(m) /\ m.ready = mem.ready /\ m.data = mem.data /\ m.known = mem.known
        /\ m.lastPeriod = mem.lastPeriod /\ m.positions = mem.positions /\ m.why = mem.why
        /\ m.target = mem.target /\ m.delisted = mem.delisted /\ m.stages = mem.stages
    BY <1>3, <1>4, KnownCountedIs
  <1>6. cur \in [Symbols -> Int]
    BY <1>4, CurrentIs
  <1>7. CASE mem.why = "initial"
    <2>1. InitialCheck(m)
      BY <1>2, <1>3, <1>5, <1>7 DEF Proceed
    <2> QED BY <1>1, <1>5, <1>7, <2>1, InitialCheckStep
  <1>8. CASE mem.why = "rebalance"
    <2>1. Plan(m, cur, FALSE)
      BY <1>2, <1>3, <1>5, <1>8 DEF Proceed
    <2>2. Fetching
      BY <1>1, <1>8 DEF Fetching
    <2>3. cur = Current(legs)
      BY <1>1, <2>2 DEF RebalanceInv, Planning, PositionsTrue
    <2> HIDE DEF cur
    <2> QED BY <1>1, <1>5, <1>6, <2>1, <2>2, <2>3, PlanStep
  <1> QED BY <1>4, <1>7, <1>8

LEMMA FetchAgainStep ==
  ASSUME RebalanceInv, pc = "await", poll' = "account", Fetch(mem, 2, mem.why),
         UNCHANGED <<legs, monitored, reports, period, latest, executed, goal, aim, excuse>>
  PROVE  RebalanceInv'
  <1> USE DEF RebalanceInv
  <1>1. Fields(mem) /\ mem.why \in {"initial", "rebalance"} /\ mem.stages = <<>> /\ mem.ready /\ mem.data
    BY DEF Typed, Fields
  <1>2. mem' = Fetched(mem, 2, mem.why) /\ pc' = "await" /\ Push([type |-> "query"])
    BY DEF Fetch, Fetched
  <1>3. /\ Fields(mem') /\ mem'.ready = mem.ready /\ mem'.data = mem.data /\ mem'.known = mem.known
        /\ mem'.lastPeriod = mem.lastPeriod /\ mem'.positions = Flat /\ ~mem'.done /\ mem'.why = mem.why
        /\ mem'.target = mem.target /\ mem'.delisted = mem.delisted /\ mem'.stages = mem.stages
    <2>1. PICK w \in {"initial", "rebalance"} : w = mem.why
      BY <1>1
    <2>2. PICK n : n = Fetched(mem, 2, w)
      OBVIOUS
    <2>3. Fields(mem)
      BY <1>1
    <2>4. /\ Fields(n) /\ n.ready = mem.ready /\ n.data = mem.data /\ n.known = mem.known
          /\ n.lastPeriod = mem.lastPeriod /\ n.positions = Flat /\ ~n.done /\ n.why = w
          /\ n.target = mem.target /\ n.delisted = mem.delisted /\ n.stages = mem.stages
      BY <2>2, <2>3, FetchIs
    <2> QED BY <1>2, <2>1, <2>2, <2>4
  <1> DEFINE r == [type |-> "query"]
  <1>4. r \in Simple /\ r.type = "query" /\ Push(r)
    BY <1>2 DEF Simple
  <1> HIDE DEF r
  <1>5. requests' \in Seq(Request) /\ Trading' /\ Range(requests') = Range(requests) \cup {r}
    BY <1>3, <1>4, PushIs
  <1>6. Typed'
    BY <1>1, <1>2, <1>3, <1>5 DEF Typed
  <1>7. CandlesCounted'
    <2>1. Registering' => Registering
      BY <1>4, <1>5 DEF Registering
    <2> QED BY <1>2, <1>3, <2>1, CandlesFrame DEF Checked
  <1>8. Planning'
    <2>1. Settled => Settled'
      BY <1>4, <1>5 DEF Settled
    <2>2. SettledBefore'
      BY <1>2, <1>3, <2>1 DEF Planning, SettledBefore, Fetching
    <2>3. PositionsTrue'
      BY <1>2, <1>3 DEF Planning, PositionsTrue, Fetching
    <2> QED BY <2>2, <2>3 DEF Planning
  <1> QED BY <1>5, <1>6, <1>7, <1>8

LEMMA FetchFailedStep ==
  ASSUME RebalanceInv, FetchFailed PROVE RebalanceInv'
  <1> USE DEF RebalanceInv
  <1>1. /\ pc = "await" /\ poll' = "account"
        /\ UNCHANGED <<legs, monitored, reports, period, latest>>
    BY DEF FetchFailed, Polled, market
  <1>2. Fields(mem) /\ mem.why \in {"initial", "rebalance"} /\ mem.stages = <<>>
    BY <1>1 DEF Typed, Fields
  <1>3. CASE Fetch(mem, 2, mem.why) /\ UNCHANGED history
    BY <1>1, <1>3, FetchAgainStep DEF history
  <1>4. CASE Proceed(mem, NoTarget, TRUE)
    <2>1. NoTarget \in [Symbols -> Int]
      BY DEF NoTarget
    <2>2. CASE mem.why = "initial"
      <3>1. InitialCheck(mem)
        BY <1>4, <2>2 DEF Proceed
      <3> QED BY <1>1, <1>2, <2>2, <3>1, InitialCheckStep
    <2>3. CASE mem.why = "rebalance"
      <3>1. Plan(mem, NoTarget, TRUE) /\ Fetching
        BY <1>1, <1>4, <2>3 DEF Proceed, Fetching
      <3> QED BY <1>1, <1>2, <2>1, <3>1, PlanStep
    <2> QED BY <1>2, <2>2, <2>3
  <1>5. CASE mem.why = "rebalance" /\ pc' = "loop" /\ UNCHANGED <<requests, mem, history>>
    <2>1. UNCHANGED <<executed, goal, aim, excuse>>
      BY <1>5 DEF history
    <2>2. Typed'
      BY <1>1, <1>2, <1>5, <2>1 DEF Typed
    <2>3. CandlesCounted'
      BY <1>1, <1>5, <2>1, CandlesFrame DEF Checked, Registering
    <2>4. Planning'
      BY <1>1, <1>5, <2>1, PlanningFrame DEF Fetching, Settled
    <2>5. Trading'
      BY <1>1, <1>5, <2>1, TradingSame
    <2> QED BY <2>2, <2>3, <2>4, <2>5
  <1> QED BY <1>3, <1>4, <1>5 DEF FetchFailed

LEMMA StageEndsStep ==
  ASSUME RebalanceInv, StageEnds PROVE RebalanceInv'
  <1> USE DEF RebalanceInv
  <1>1. /\ pc = "fills" /\ poll' = "account"
        /\ UNCHANGED <<legs, monitored, reports, period, latest, executed, goal, aim, excuse>>
    BY DEF StageEnds, Polled, market, history
  <1>2. PICK m : m = Counted(mem, 0)
    OBVIOUS
  <1>3. Continue(m)
    BY <1>2 DEF StageEnds, Counted
  <1>4. Fields(mem) /\ requests \in Seq(Request) /\ mem.ready /\ mem.data
    BY <1>1 DEF Typed
  <1>5. /\ Fields(m) /\ m.ready = mem.ready /\ m.data = mem.data /\ m.known = mem.known
        /\ m.lastPeriod = mem.lastPeriod /\ m.why = mem.why /\ m.stages = mem.stages
    <2>1. PICK c : c = 0
      OBVIOUS
    <2>2. m = Counted(mem, c) /\ Fields(mem)
      BY <1>2, <1>4, <2>1
    <2> QED BY <2>2, CountedIs
  <1>6. /\ Fields(mem') /\ requests' \in Seq(Request)
        /\ mem'.ready = mem.ready /\ mem'.data = mem.data /\ mem'.known = mem.known
        /\ mem'.lastPeriod = mem.lastPeriod /\ mem'.why = mem.why
        /\ \/ pc' = "loop" /\ mem'.stages = <<>>
           \/ pc' = "fills"
        /\ \A x \in Range(requests') : x.type # "batch" => x \in Range(requests)
    BY <1>3, <1>4, <1>5, ContinueIs
  <1>7. Typed'
    BY <1>1, <1>4, <1>6 DEF Typed
  <1>8. CandlesCounted'
    <2>1. Registering' => Registering
      BY <1>1, <1>6 DEF Registering
    <2> QED BY <1>1, <1>6, <2>1, CandlesFrame DEF Checked
  <1>9. Planning'
    <2>1. executed[period] > 0 /\ ~Fetching'
      BY <1>1, <1>6 DEF Planning, SettledBefore, Fetching
    <2>2. executed[period] # 0
      BY <2>1
    <2> QED BY <1>1, <2>1, <2>2 DEF Planning, SettledBefore, PositionsTrue
  <1>10. Trading'
    <2>1. OnePerLeg(requests, m.stages)
      BY <1>5 DEF Trading
    <2>2. /\ OnePerLeg(requests', mem'.stages)
          /\ \A o \in Order : Waiting(requests', mem'.stages, o) <=> Waiting(requests, m.stages, o)
      BY <1>3, <1>4, <1>5, <2>1, ContinueTrading
    <2> QED BY <1>1, <1>5, <2>2, TradingFrame
  <1> QED BY <1>7, <1>8, <1>9, <1>10

-----------------------------------------------------------------------------
(* The numbers the strategy counts with.                                   *)

Counting ==
  /\ mem.lastKnown \in 0..Cardinality(Symbols) /\ mem.expected \in Nat /\ mem.answered \in Nat
  /\ \A x \in Range(reports) : x.type = "batch" => x.n \in Nat
  /\ excuse \subseteq {"assumed", "hedged", "inherited", "rejected", "killed"}

(* There are finitely many legs, and a batch has one order for each.       *)
LEMMA OneEachFinite ==
  ASSUME NEW S \in SUBSET Order, \A o \in S, r \in S : SameLeg(o, r) => o = r
  PROVE  IsFiniteSet(S)
  <1>1. IsFiniteSet(Symbols) /\ IsFiniteSet(Sides)
    <2>1. Sides = {"LONG"} \cup {"SHORT"}
      BY DEF Sides
    <2>2. IsFiniteSet(Sides)
      BY <2>1, FS_Singleton, FS_AddElement
    <2> QED BY <2>2, PortfolioAssumption
  <1>2. IsFiniteSet(Symbols \X Sides)
    BY <1>1, FS_Product
  <1> DEFINE f == [o \in S |-> <<o.s, o.side>>]
  <1>3. f \in [S -> Symbols \X Sides]
    BY DEF Order
  <1>4. \A o \in S, r \in S : f[o] = f[r] => o = r
    BY DEF SameLeg
  <1>5. f \in Injection(S, Symbols \X Sides)
    <2> HIDE DEF f
    <2> QED BY <1>3, <1>4 DEF Injection, IsInjective
  <1> HIDE DEF f
  <1> QED BY <1>2, <1>5, FS_Injection

LEMMA SentFinite ==
  ASSUME NEW rq \in Seq(Request), NEW st, OnePerLeg(rq, st),
         NEW i \in DOMAIN rq, rq[i].type = "batch"
  PROVE  IsFiniteSet(rq[i].orders)
  <1>1. rq[i] \in Request /\ i \in Nat
    OBVIOUS
  <1>2. PICK S \in SUBSET Order : S = rq[i].orders
    BY <1>1, RequestIs
  <1>3. \A o \in S : Sent(rq, i, o)
    BY <1>2 DEF Sent
  <1>4. \A o \in S, r \in S : SameLeg(o, r) => o = r
    BY <1>1, <1>3 DEF OnePerLeg
  <1> QED BY <1>2, <1>4, OneEachFinite

LEMMA CountIs ==
  ASSUME NEW H, NEW n \in Nat, DOMAIN H = 1..n, \A i \in 1..n : IsFiniteSet(H[i])
  PROVE  Count(H) \in Nat
  <1> DEFINE f == [i \in 1..n |-> {i} \X H[i]]
             F == {f[i] : i \in 1..n}
  <1>1. \A i \in 1..n : f[i] = {i} \X H[i]
    OBVIOUS
  <1>2. DOMAIN f = 1..n /\ f = [i \in 1..n |-> f[i]]
    OBVIOUS
  <1>3. F = {{i} \X H[i] : i \in DOMAIN H}
    OBVIOUS
  <1> HIDE DEF f
  <1>4. IsFiniteSet(1..n)
    BY FS_Interval
  <1>5. IsFiniteSet(F)
    BY <1>2, <1>4, ImageFinite
  <1>6. ASSUME NEW i \in 1..n PROVE IsFiniteSet(f[i])
    <2>1. PICK T : T = H[i] /\ IsFiniteSet(T)
      OBVIOUS
    <2>2. PICK U : U = {i} /\ IsFiniteSet(U)
      BY FS_Singleton
    <2>3. IsFiniteSet(U \X T)
      BY <2>1, <2>2, FS_Product
    <2> QED BY <1>1, <2>1, <2>2, <2>3
  <1>7. \A T \in F : IsFiniteSet(T)
    BY <1>6
  <1> HIDE DEF F
  <1>8. Cardinality(UNION F) \in Nat
    BY <1>5, <1>7, FS_UNION, FS_CardinalityType
  <1> QED BY <1>3, <1>8 DEF Count

(* What is sent is in the channel afterwards, so that it is finite.        *)
LEMMA ContinueCounts ==
  ASSUME requests \in Seq(Request), RebalanceInv', NEW m, Fields(m), Continue(m)
  PROVE  mem'.expected \in Nat /\ mem'.answered = m.answered /\ mem'.lastKnown = m.lastKnown
  <1>1. CASE m.stages = <<>>
    <2>1. mem' = [m EXCEPT !.target = NoTarget, !.delisted = {}, !.expected = 0]
      BY <1>1 DEF Continue
    <2> QED BY <2>1 DEF Fields
  <1>2. CASE m.stages # <<>>
    <2> DEFINE H == Head(m.stages)
               B == [i \in DOMAIN H |-> BatchOf(H[i])]
    <2>1. /\ requests' = requests \o B
          /\ mem' = [m EXCEPT !.stages = Tail(@), !.expected = Count(H)]
      BY <1>2 DEF Continue
    <2>2. H \in Seq(SUBSET Order)
      BY <1>2 DEF Fields
    <2>3. /\ DOMAIN H = 1..Len(H) /\ Len(H) \in Nat /\ B \in [1..Len(H) -> Request]
          /\ \A i \in 1..Len(H) : B[i].type = "batch" /\ B[i].orders = H[i]
      <3>1. DOMAIN H = 1..Len(H) /\ Len(H) \in Nat /\ \A i \in 1..Len(H) : H[i] \in SUBSET Order
        BY <2>2
      <3>2. \A i \in 1..Len(H) : BatchOf(H[i]) \in Request
        BY <3>1 DEF BatchOf, Request
      <3> QED BY <3>1, <3>2 DEF BatchOf
    <2> HIDE DEF H, B
    <2>4. PICK n \in Nat : n = Len(H)
      BY <2>2, LenProperties
    <2>5. PICK f \in [1..n -> Request] : f = B
      BY <2>3, <2>4
    <2> HIDE DEF B
    <2>6. /\ requests \o f \in Seq(Request) /\ Len(requests \o f) = Len(requests) + n
          /\ \A i \in 1..n : (requests \o f)[Len(requests) + i] = f[i]
      BY Concatenated
    <2>7. DOMAIN (requests \o f) = 1 .. Len(requests) + n /\ Len(requests) \in Nat
      BY <2>6, LenProperties
    <2>8. ASSUME NEW i \in 1..n PROVE IsFiniteSet(H[i])
      <3>1. /\ Len(requests) + i \in DOMAIN requests'
            /\ requests'[Len(requests) + i].type = "batch"
            /\ requests'[Len(requests) + i].orders = H[i]
        BY <2>1, <2>3, <2>4, <2>5, <2>6, <2>7
      <3>2. requests' \in Seq(Request) /\ OnePerLeg(requests', mem'.stages)
        BY DEF RebalanceInv, Typed, Trading
      <3>3. PICK rq \in Seq(Request), j \in Nat : rq = requests' /\ j = Len(requests) + i
        BY <2>7, <3>2
      <3>4. /\ j \in DOMAIN rq /\ rq[j].type = "batch" /\ rq[j].orders = H[i]
            /\ OnePerLeg(rq, mem'.stages)
        BY <3>1, <3>2, <3>3
      <3> QED BY <3>4, SentFinite
    <2>9. Count(H) \in Nat
      BY <2>3, <2>4, <2>8, CountIs
    <2> QED BY <2>1, <2>9 DEF Fields
  <1> QED BY <1>1, <1>2

LEMMA PlanCounts ==
  ASSUME requests \in Seq(Request), RebalanceInv', Counting, UNCHANGED reports,
         NEW m, Fields(m), m.lastKnown \in 0..Cardinality(Symbols), m.expected \in Nat, m.answered \in Nat,
         NEW cur, NEW assumed, Proceed(m, cur, assumed), m.why \in {"initial", "rebalance"},
         m.target \in [Symbols -> Int], m.delisted \in SUBSET Symbols, cur \in [Symbols -> Int],
         m.why = "rebalance" => \A s \in m.delisted : m.target[s] = 0
  PROVE  Counting'
  <1>1. CASE m.why = "initial"
    <2>1. mem' = [m EXCEPT !.lastPeriod = Loaded] /\ UNCHANGED excuse
      BY <1>1 DEF Proceed, InitialCheck, history
    <2>2. /\ mem'.lastKnown = m.lastKnown /\ mem'.expected = m.expected /\ mem'.answered = m.answered
      BY <2>1 DEF Fields
    <2> QED BY <2>1, <2>2 DEF Counting
  <1>2. CASE m.why = "rebalance"
    <2>0. PICK t \in [Symbols -> Int] : t = aim' /\ \A s \in m.delisted : t[s] = 0
      <3>1. PICK unsized \in SUBSET {s \in Symbols : m.target[s] # 0}, least \in [Symbols -> MinTrades] :
              /\ goal' = Keeping(cur, m.target, unsized)
              /\ aim' = Keeping(cur, m.target, unsized \cup Dust(cur, m.target, least))
        BY <1>2 DEF Proceed, Plan
      <3>2. PICK goals \in [Symbols -> Int] : goals = m.target
        OBVIOUS
      <3>3. /\ aim' = Keeping(cur, goals, unsized \cup Dust(cur, goals, least))
            /\ unsized \in SUBSET {s \in Symbols : goals[s] # 0}
        BY <3>1, <3>2
      <3>4. \A s \in Symbols : goals[s] = 0 => s \notin unsized /\ s \notin Dust(cur, goals, least)
        BY <3>3 DEF Dust
      <3>5. aim' \in [Symbols -> Int] /\ \A s \in Symbols : goals[s] = 0 => aim'[s] = 0
        BY <3>2, <3>3, <3>4 DEF Keeping
      <3> QED BY <1>2, <3>2, <3>5
    <2>1. PICK st : st = Stages(cur, t, m.delisted)
      OBVIOUS
    <2>2. PICK n : n = WithStages(m, st)
      OBVIOUS
    <2>3. /\ Continue(n)
          /\ excuse' \subseteq {"assumed", "hedged", "inherited", "rejected", "killed"}
      BY <1>2, <2>0, <2>1, <2>2 DEF Proceed, Plan, WithStages
    <2>4. st \in StageSeq
      BY <1>2, <2>0, <2>1, PlanStages
    <2>5. Fields(n)
      BY <2>2, <2>4, PlannedIs
    <2>6. n.lastKnown = m.lastKnown /\ n.answered = m.answered
      BY <2>2 DEF Fields, WithStages
    <2>7. /\ mem'.expected \in Nat /\ mem'.answered = n.answered /\ mem'.lastKnown = n.lastKnown
      BY <2>3, <2>5, ContinueCounts
    <2> QED BY <2>3, <2>6, <2>7 DEF Counting
  <1> QED BY <1>1, <1>2

LEMMA CountingNext ==
  ASSUME RebalanceInv, RebalanceInv', Counting, [Next]_vars PROVE Counting'
  <1> DEFINE Numbers == <<mem.lastKnown, mem.expected, mem.answered>>
  <1>1. Fields(mem) /\ reports \in Seq(Report) /\ requests \in Seq(Request)
    BY DEF RebalanceInv, Typed
  <1>2. Cardinality(Symbols) \in Nat
    BY PortfolioAssumption, FS_CardinalityType
  <1>3. ASSUME UNCHANGED <<Numbers, reports, excuse>> PROVE Counting'
    BY <1>3 DEF Counting
  <1>4. ASSUME reports # <<>>, reports' = Tail(reports), UNCHANGED <<Numbers, excuse>> PROVE Counting'
    <2>1. Range(reports') \subseteq Range(reports)
      BY <1>1, <1>4, RangeIs
    <2> QED BY <1>4, <2>1 DEF Counting
  <1>5. ASSUME Start \/ Kill PROVE Counting'
    <2>1. /\ mem'.lastKnown = 0 /\ mem'.expected = 0 /\ mem'.answered = 0
      <3>1. PICK loaded : mem' = Fresh \/ mem' = LoadedCandles(loaded)
        BY <1>5 DEF Start, Kill
      <3>2. Fresh.lastKnown = 0 /\ Fresh.expected = 0 /\ Fresh.answered = 0 /\ Fields(Fresh)
        BY FreshIs DEF Fresh
      <3>3. PICK f : f = Fresh
        OBVIOUS
      <3>4. ASSUME mem' = LoadedCandles(loaded)
            PROVE  mem'.lastKnown = f.lastKnown /\ mem'.expected = f.expected /\ mem'.answered = f.answered
        BY <3>2, <3>3, <3>4 DEF LoadedCandles, Fields
      <3> QED BY <3>1, <3>2, <3>3, <3>4
    <2>2. reports' = reports \/ reports' = <<>>
      BY <1>5 DEF Start, Kill
    <2>3. Range(reports') \subseteq Range(reports)
      BY <2>2 DEF Range
    <2>4. excuse' \subseteq excuse \cup {"killed"}
      BY <1>5 DEF Start, Kill, history
    <2> QED BY <1>2, <2>1, <2>3, <2>4 DEF Counting
  <1>6. ASSUME NEW r \in Report, r.type = "batch" => r.n \in Nat, Publish(r) \/ UNCHANGED reports, UNCHANGED mem,
               excuse' \subseteq excuse \cup {"rejected"}
        PROVE  Counting'
    <2>1. Range(reports') \subseteq Range(reports) \cup {r}
      BY <1>6, PublishIs DEF RebalanceInv
    <2> QED BY <1>6, <2>1 DEF Counting
  <1>7. ASSUME Server PROVE Counting'
    <2>1. CASE ProcessBatch
      <3>1. /\ Takes("batch") /\ UNCHANGED mem
        BY <2>1 DEF ProcessBatch
      <3>2. requests # <<>> /\ Head(requests).type = "batch"
        BY <3>1 DEF Takes
      <3>3. PICK filled \in SUBSET Fillable(Head(requests).orders), n \in {0, Cardinality(Head(requests).orders)} :
              /\ excuse' = IF filled = Head(requests).orders THEN excuse ELSE excuse \cup {"rejected"}
              /\ Publish([type |-> "batch", n |-> n])
        BY <2>1 DEF ProcessBatch
      <3>4. PICK orders \in SUBSET Order : orders = Head(requests).orders
        BY <1>1, <3>2, TakeIs, RequestIs
      <3>5. OnePerLeg(requests, mem.stages) /\ 1 \in DOMAIN requests /\ requests[1] = Head(requests)
        BY <1>1, <3>2 DEF RebalanceInv, Trading
      <3>6. IsFiniteSet(orders)
        BY <1>1, <3>2, <3>4, <3>5, SentFinite
      <3>7. n \in Nat /\ n \in {0} \cup {Cardinality(o) : o \in SUBSET Order}
        BY <3>3, <3>4, <3>6, FS_CardinalityType
      <3> DEFINE r == [type |-> "batch", n |-> n]
      <3>8. r \in Report /\ r.n \in Nat /\ Publish(r)
        BY <3>3, <3>7 DEF Report
      <3>9. excuse' \subseteq excuse \cup {"rejected"}
        BY <3>3
      <3> HIDE DEF r
      <3> QED BY <1>6, <3>1, <3>8, <3>9
    <2>2. CASE HandleRegister
      <3>1. PICK r \in [type: {"register"}, ok: BOOLEAN] : Publish(r)
        BY <2>2 DEF HandleRegister
      <3>2. r \in Report /\ r.type = "register" /\ UNCHANGED <<mem, excuse>>
        BY <2>2, <3>1 DEF HandleRegister, history, Report
      <3> QED BY <1>6, <3>1, <3>2
    <2>3. CASE QueryAccount
      <3>1. PICK r \in [type: {"account"}] : Publish(r) \/ UNCHANGED reports
        BY <2>3 DEF QueryAccount
      <3>2. r \in Report /\ r.type = "account" /\ UNCHANGED <<mem, excuse>>
        BY <2>3, <3>1 DEF QueryAccount, history, Report
      <3> QED BY <1>6, <3>1, <3>2
    <2>4. CASE QueryPositions
      <3>1. legs \in Legs /\ monitored \in Legs /\ Flat \in Legs
        BY FreshIs DEF RebalanceInv, Typed
      <3>2. Believed(legs) \in Legs /\ Believed(Flat) \in Legs
        BY <3>1 DEF Believed
      <3>3. PICK r \in [type: {"positions"}, error: BOOLEAN, data: Legs] : Publish(r)
        BY <2>4, <3>1, <3>2 DEF QueryPositions
      <3>4. r \in Report /\ r.type = "positions" /\ UNCHANGED <<mem, excuse>>
        BY <2>4, <3>3 DEF QueryPositions, history, Report
      <3> QED BY <1>6, <3>3, <3>4
    <2> QED BY <1>7, <2>1, <2>2, <2>3, <2>4 DEF Server
  <1>8. ASSUME HandleReport PROVE Counting'
    <2>1. reports # <<>> /\ reports' = Tail(reports) /\ UNCHANGED excuse
      BY <1>8 DEF HandleReport, history
    <2>2. Head(reports) \in Report /\ Head(reports) \in Range(reports)
      BY <1>1, <2>1, RangeIs
    <2>3. CASE HandleRegisterReport(Head(reports))
      BY <1>4, <2>1, <2>3 DEF HandleRegisterReport
    <2>4. CASE HandleAccountUpdate(Head(reports))
      <3>1. UNCHANGED Numbers
        BY <1>1, <2>4 DEF HandleAccountUpdate, Fetch, Cleared, Fields
      <3> QED BY <1>4, <2>1, <3>1
    <2>5. CASE HandlePositionUpdate(Head(reports))
      <3>1. UNCHANGED Numbers
        BY <1>1, <2>5 DEF HandlePositionUpdate, Fields
      <3> QED BY <1>4, <2>1, <3>1
    <2>6. CASE Head(reports).type = "batch" /\ HandleBatchReport(Head(reports))
      <3>1. Head(reports).n \in Nat /\ Range(reports') \subseteq Range(reports)
        BY <1>1, <2>1, <2>2, <2>6, RangeIs DEF Counting
      <3>2. /\ mem'.answered = mem.answered + Head(reports).n
            /\ mem'.lastKnown = mem.lastKnown /\ mem'.expected = mem.expected
        BY <1>1, <2>6 DEF HandleBatchReport, Fields
      <3> QED BY <2>1, <3>1, <3>2 DEF Counting
    <2>7. Head(reports).type \in {"register", "account", "positions", "batch"}
      BY <2>2 DEF Report
    <2> QED BY <1>8, <2>3, <2>4, <2>5, <2>6, <2>7 DEF HandleReport
  <1>9. ASSUME Trigger PROVE Counting'
    <2>1. PICK delisted \in Delistings, t \in Targets :
            LET m == Targeted(Learnt, Newest, t, delisted)
            IN  /\ \A s \in delisted : t[s] = 0
                /\ IF t = NoTarget
                   THEN mem' = m /\ UNCHANGED <<requests, pc, executed>>
                   ELSE /\ Fetch(m, 1, "rebalance")
                        /\ executed' = [executed EXCEPT ![Newest] = @ + 1]
      BY <1>9 DEF Trigger, Targeted
    <2>2. UNCHANGED <<reports, excuse>>
      BY <1>9 DEF Trigger
    <2>3. PICK l : l = Learnt
      OBVIOUS
    <2>4. Fields(l) /\ l.lastKnown = mem.lastKnown /\ l.expected = mem.expected
      BY <1>1, <2>3, LearntIs DEF Learnt, Fields, RebalanceInv
    <2>5. PICK m : m = Targeted(l, Newest, t, delisted)
      OBVIOUS
    <2>6. mem' = m \/ mem' = [Cleared(m) EXCEPT !.attempt = 1, !.why = "rebalance"]
      BY <2>1, <2>3, <2>5 DEF Fetch
    <2>7. m.lastKnown = mem.lastKnown /\ m.expected = mem.expected /\ m.answered = 0
      BY <2>4, <2>5 DEF Targeted, Fields
    <2>8. DOMAIN m = DOMAIN l
      BY <2>5 DEF Targeted
    <2>9. mem'.lastKnown = mem.lastKnown /\ mem'.expected = mem.expected /\ mem'.answered = 0
      BY <2>4, <2>6, <2>7, <2>8 DEF Cleared, Fields
    <2> QED BY <2>2, <2>9 DEF Counting
  <1>10. ASSUME FetchAnswered \/ FetchFailed PROVE Counting'
    <2>1. UNCHANGED reports
      BY <1>10 DEF FetchAnswered, FetchFailed
    <2>2. /\ mem.why \in {"initial", "rebalance"} /\ mem.target \in [Symbols -> Int]
          /\ mem.delisted \in SUBSET Symbols /\ mem.positions \in Legs
      BY <1>1, PortfolioAssumption DEF Fields, NoTarget
    <2>5. mem.why = "rebalance" => \A s \in mem.delisted : mem.target[s] = 0
      BY <1>10 DEF FetchAnswered, FetchFailed, RebalanceInv, Planning, PositionsTrue, Fetching
    <2>3. CASE FetchAnswered
      <3>1. PICK cur : cur = Current(mem.positions)
        OBVIOUS
      <3>2. cur \in [Symbols -> Int]
        BY <2>2, <3>1, CurrentIs
      <3>3. PICK c : c = Cardinality({s \in Symbols : cur[s] # 0})
        OBVIOUS
      <3>4. PICK T \in SUBSET Symbols : T = {s \in Symbols : cur[s] # 0}
        OBVIOUS
      <3>5. c \in 0..Cardinality(Symbols)
        BY <1>2, <3>3, <3>4, PortfolioAssumption, FS_Subset, FS_CardinalityType
      <3>6. PICK m : m = KnownCounted(mem, c)
        OBVIOUS
      <3>7. Proceed(m, cur, FALSE)
        BY <2>3, <3>1, <3>3, <3>6 DEF FetchAnswered, KnownCounted
      <3>8. /\ Fields(m) /\ m.why = mem.why /\ m.target = mem.target /\ m.delisted = mem.delisted
        BY <1>1, <3>6, KnownCountedIs
      <3>9. /\ m.lastKnown = c /\ m.expected = mem.expected /\ m.answered = mem.answered
        BY <1>1, <3>6 DEF KnownCounted, Fields
      <3>10. m.expected \in Nat /\ m.answered \in Nat
        BY <3>9 DEF Counting
      <3> QED BY <1>1, <2>1, <2>2, <3>2, <3>5, <3>7, <2>5, <3>8, <3>9, <3>10, PlanCounts
    <2>4. CASE FetchFailed
      <3>1. CASE Fetch(mem, 2, mem.why) /\ UNCHANGED history
        <4>1. UNCHANGED Numbers
          BY <1>1, <3>1 DEF Fetch, Cleared, Fields
        <4> QED BY <1>3, <2>1, <3>1, <4>1 DEF history
      <3>2. CASE Proceed(mem, NoTarget, TRUE)
        <4>1. /\ NoTarget \in [Symbols -> Int] /\ mem.lastKnown \in 0..Cardinality(Symbols)
              /\ mem.expected \in Nat /\ mem.answered \in Nat
          BY DEF NoTarget, Counting
        <4> QED BY <1>1, <2>1, <2>2, <2>5, <3>2, <4>1, PlanCounts
      <3>3. CASE UNCHANGED <<requests, mem, history>>
        BY <1>3, <2>1, <3>3 DEF history
      <3> QED BY <2>4, <3>1, <3>2, <3>3 DEF FetchFailed
    <2> QED BY <1>10, <2>3, <2>4
  <1>11. ASSUME StageEnds PROVE Counting'
    <2>1. PICK m : m = Counted(mem, 0) /\ Continue(m)
      BY <1>11 DEF StageEnds, Counted
    <2>2. UNCHANGED <<reports, excuse>>
      BY <1>11 DEF StageEnds, history
    <2>3. Fields(m) /\ m.lastKnown = mem.lastKnown /\ m.answered = 0
      BY <1>1, <2>1 DEF Counted, Fields
    <2>4. mem'.expected \in Nat /\ mem'.answered = m.answered /\ mem'.lastKnown = m.lastKnown
      BY <1>1, <2>1, <2>3, ContinueCounts
    <2> QED BY <2>2, <2>3, <2>4 DEF Counting
  <1>12. ASSUME NotYet PROVE Counting'
    <2>1. UNCHANGED Numbers
      BY <1>1, <1>12 DEF NotYet, Learnt, Fields
    <2> QED BY <1>3, <1>12, <2>1 DEF NotYet, history
  <1>13. ASSUME NewPeriod \/ MonitorPolls \/ (\E s \in Symbols : Arrive(s)) \/ NextReader \/ NothingNew \/ PollAgain
         PROVE  Counting'
    BY <1>3, <1>13 DEF NewPeriod, MonitorPolls, Arrive, NextReader, NothingNew, PollAgain, history
  <1>14. ASSUME Swallow PROVE Counting'
    BY <1>4, <1>14 DEF Swallow, history
  <1>15. CASE UNCHANGED vars
    BY <1>3, <1>15 DEF vars, history
  <1> QED BY <1>5, <1>7, <1>8, <1>9, <1>10, <1>11, <1>12, <1>13, <1>14, <1>15 DEF Next, Strategy

-----------------------------------------------------------------------------
(* The theorems.                                                           *)

LEMMA RebalanceNext ==
  ASSUME RebalanceInv, [Next]_vars PROVE RebalanceInv'
  <1>1. CASE NewPeriod
    BY <1>1, NewPeriodStep
  <1>2. CASE MonitorPolls
    BY <1>2, MonitorPollsStep
  <1>3. CASE Start
    BY <1>3, StartStep
  <1>4. CASE Kill
    BY <1>4, KillStep
  <1>5. CASE \E s \in Symbols : Arrive(s)
    BY <1>5, ArriveStep
  <1>6. CASE Server
    BY <1>6, ServerStep
  <1>7. CASE Strategy
    BY <1>7, HandleReportStep, ReaderSteps, NotYetStep, TriggerStep, FetchAnsweredStep, FetchFailedStep,
       StageEndsStep DEF Strategy
  <1>8. CASE UNCHANGED vars
    <2>1. poll \in {"account", "trading", "done"}
      BY DEF RebalanceInv, Typed
    <2> QED BY <1>8, <2>1, PollStep DEF vars, market, history
  <1> QED BY <1>1, <1>2, <1>3, <1>4, <1>5, <1>6, <1>7, <1>8 DEF Next

(* The candles, the plans and the orders that wait are always as the three *)
(* arguments say.                                                          *)
THEOREM RebalanceSound == Spec => []RebalanceInv
  <1>1. Init => RebalanceInv
    BY RebalanceInit
  <1>2. RebalanceInv /\ [Next]_vars => RebalanceInv'
    BY RebalanceNext
  <1> QED BY <1>1, <1>2, PTL DEF Spec

(* One candle is rebalanced on once, however often the strategy is         *)
(* restarted, and no leg grows beyond what a target asks for while a       *)
(* rebalance is planned from the true positions                            *)
(* (_execute_rebalance, _check_initial_rebalance, _send_orders_batch).     *)
THEOREM RebalanceNeverOvertrades == Spec => []NeverOvertrades
  <1>1. RebalanceInv => NeverOvertrades
    <2> SUFFICES ASSUME RebalanceInv PROVE NeverOvertrades
      OBVIOUS
    <2>1. OncePerPeriod
      BY DEF RebalanceInv, CandlesCounted, TradedOnce, OncePerPeriod
    <2>2. LegsBounded
      BY DEF RebalanceInv, Trading, Bounded, LegsBounded
    <2> QED BY <2>1, <2>2 DEF NeverOvertrades
  <1> QED BY <1>1, RebalanceSound, PTL

(* A rebalance that has ended with nothing on its way holds what its       *)
(* orders led to, which is its target or off it by less than 6 USDT buy,   *)
(* and holds no symbol on both sides, whichever reports were               *)
(* swallowed and whichever waits expired, unless an order was rejected,    *)
(* the strategy was killed between the stages, or the plan started from a  *)
(* symbol held on both sides or from an assumed empty portfolio            *)
(* (_execute_rebalance, _wait_for_orders).                                 *)
THEOREM RebalanceReachesTarget == Spec => []ReachesTarget
  <1>1. RebalanceInv => ReachesTarget
    <2> SUFFICES ASSUME RebalanceInv, requests = <<>>, pc \in {"loop", "down"}, excuse = {}
                 PROVE  ~Hedged(legs) /\ \A s \in Symbols : Net(legs, s) = aim[s] /\ Near(aim[s], goal[s])
      BY DEF ReachesTarget
    <2>1. /\ legs \in Legs /\ aim \in [Symbols -> Int] /\ mem.stages = <<>>
          /\ \A s \in Symbols : Near(aim[s], goal[s])
      BY DEF RebalanceInv, Typed
    <2>2. Aimed(<<>>, <<>>)
      BY <2>1 DEF RebalanceInv, Trading
    <2>3. \A s \in Symbols, d \in Sides : legs[s][d] = Want(aim, s, d)
      BY <2>2, NothingWaits DEF Aimed
    <2>4. ASSUME NEW s \in Symbols
          PROVE  Net(legs, s) = aim[s] /\ (legs[s]["LONG"] = 0 \/ legs[s]["SHORT"] = 0)
      <3>1. aim[s] \in Int
        BY <2>1
      <3>2. /\ legs[s]["LONG"] = Want(aim, s, "LONG")
            /\ legs[s]["SHORT"] = Want(aim, s, "SHORT")
        BY <2>3 DEF Sides
      <3> QED BY <3>1, <3>2 DEF Want, Side, Abs, Net
    <2>5. ~Hedged(legs)
      BY <2>4 DEF Hedged, Sides
    <2> QED BY <2>1, <2>4, <2>5
  <1> QED BY <1>1, RebalanceSound, PTL

(* The fields of the strategy, its counts of orders and positions and the  *)
(* messages on both channels keep their types, however many orders a       *)
(* portfolio takes (_execute_rebalance, _wait_for_orders).                 *)
THEOREM RebalanceCorrect == Spec => []TypeOK
  <1>1. Init => Counting
    <2> SUFFICES ASSUME Init PROVE Counting
      OBVIOUS
    <2>1. Cardinality(Symbols) \in Nat
      BY PortfolioAssumption, FS_CardinalityType
    <2>2. mem = Fresh /\ Range(reports) = {} /\ excuse \subseteq {"hedged"}
      BY DEF Init, Range
    <2> QED BY <2>1, <2>2 DEF Counting, Fresh
  <1>2. RebalanceInv /\ RebalanceInv' /\ Counting /\ [Next]_vars => Counting'
    BY CountingNext
  <1>3. RebalanceInv /\ Counting => TypeOK
    <2> SUFFICES ASSUME RebalanceInv, Counting PROVE TypeOK
      OBVIOUS
    <2>1. Typed
      BY DEF RebalanceInv
    <2>2. \A i \in DOMAIN requests : requests[i] \in Request
      BY <2>1 DEF Typed
    <2>3. \A i \in DOMAIN reports : reports[i] \in Report
      BY <2>1 DEF Typed
    <2>4. \A i \in DOMAIN requests : \/ requests[i].type \in {"register", "account", "query"}
                                     \/ requests[i].type = "batch" /\ requests[i].orders \in SUBSET Order
      BY <2>2 DEF Request
    <2>5. \A i \in DOMAIN reports : reports[i].type \in {"register", "account", "positions", "batch"}
      BY <2>3 DEF Report
    <2>6. mem \in Mem
      <3>1. 0..2 = {0, 1, 2}
        OBVIOUS
      <3>2. Fields(mem)
        BY <2>1 DEF Typed
      <3>3. /\ mem.lastKnown \in 0..Cardinality(Symbols) /\ mem.expected \in Nat /\ mem.answered \in Nat
        BY DEF Counting
      <3> QED BY <3>1, <3>2, <3>3 DEF Fields, Mem
    <2> QED BY <2>1, <2>4, <2>5, <2>6 DEF Typed, TypeOK, Counting
  <1> QED BY <1>1, <1>2, <1>3, RebalanceSound, PTL DEF Spec

=============================================================================
