-------------------------- MODULE StrategyLoopProofs --------------------------
(***************************************************************************)
(* Proofs about the strategies' main loop and its market data, for every   *)
(* number of series, ring capacity, task table and poll: a ring buffer is  *)
(* the window of the newest bars; what a strategy reads has no silent hole *)
(* and no bar that is not closed; and a task runs no more often than its   *)
(* interval says.                                                          *)
(*                                                                         *)
(* The bars of a series are followed from the exchange through the channel *)
(* into its ring: they come in order, and each that is closed and younger  *)
(* than the ring's last is still on its way or noted as missing. The rate  *)
(* rests on the next run of a task: a task that has run n times is not due *)
(* before n intervals have passed since it was scheduled.                  *)
(***************************************************************************)
EXTENDS StrategyLoop, SequenceTheorems, WellFoundedInduction, TLAPS

-----------------------------------------------------------------------------
(* The ring buffer.                                                        *)

AnyBar == Bars \cup {NoBar}
RingOK(r) == r \in Rings /\ (r.size = 0 => r.head = 0)

LEMMA BarFields ==
  ASSUME NEW bar \in AnyBar
  PROVE  bar.t \in Nat
  BY FeedAssumption DEF AnyBar, Bars, NoBar

(* The slot of a ring's index, without the modulus; one past the last      *)
(* index of a full ring is its first.                                      *)
At(h, k) == IF h + k < MaxKlineBars THEN h + k ELSE h + k - MaxKlineBars

LEMMA SlotIs ==
  ASSUME NEW r \in Rings, NEW i \in 0..MaxKlineBars
  PROVE  Slot(r, i) \in Slots /\ Slot(r, i) = At(r.head, i)
  <1> PICK n \in Nat \ {0} : n = MaxKlineBars
    BY RingAssumption
  <1> PICK h \in Nat : h = r.head /\ h < n
    BY DEF Rings, Slots
  <1> PICK k \in Nat : k = h + i
    OBVIOUS
  <1>1. k < 2 * n
    OBVIOUS
  <1>2. CASE k < n
    <2>1. k % n = k
      BY <1>1, <1>2
    <2> QED BY <1>1, <1>2, <2>1 DEF Slot, Slots, At
  <1>3. CASE n <= k
    <2>1. k % n = k - n
      BY <1>1, <1>3
    <2> QED BY <1>1, <1>3, <2>1 DEF Slot, Slots, At
  <1> QED BY <1>1, <1>2, <1>3

LEMMA RingFields ==
  ASSUME NEW r \in Rings
  PROVE  /\ r.size \in 0..MaxKlineBars /\ r.head \in Slots /\ r.size \in Nat
         /\ r.data \in [Slots -> AnyBar]
         /\ MaxKlineBars \in Nat \ {0}
  BY RingAssumption DEF Rings, AnyBar

LEMMA WindowFields ==
  ASSUME NEW r \in Rings
  PROVE  /\ GetAll(r) \in Seq(AnyBar) /\ Len(GetAll(r)) = r.size
         /\ \A k \in 1..r.size : GetAll(r)[k] = r.data[At(r.head, k - 1)]
         /\ r.size > 0 => LastBar(r) = GetAll(r)[r.size]
  <1>1. \A k \in 1..r.size : /\ k - 1 \in 0..MaxKlineBars /\ Slot(r, k - 1) = At(r.head, k - 1)
                             /\ r.data[Slot(r, k - 1)] \in AnyBar
    BY RingFields, SlotIs
  <1>2. GetAll(r) \in [1..r.size -> AnyBar]
    BY <1>1 DEF GetAll
  <1>3. GetAll(r) \in Seq(AnyBar) /\ Len(GetAll(r)) = r.size
    BY <1>2, RingFields
  <1>4. \A k \in 1..r.size : GetAll(r)[k] = r.data[Slot(r, k - 1)]
    BY DEF GetAll
  <1>5. r.size > 0 => r.size \in 1..r.size
    BY RingFields
  <1> QED BY <1>1, <1>3, <1>4, <1>5 DEF LastBar

(* The window of the newest bars after one more, as KlineWindow has it.    *)
NewWindow(w, bar) ==
  IF w = <<>> THEN <<bar>>
  ELSE IF w[Len(w)].t = bar.t THEN [w EXCEPT ![Len(w)] = bar]
  ELSE IF Len(w) < MaxKlineBars THEN Append(w, bar)
  ELSE Tail(Append(w, bar))

Changed(r, i, bar, h, n) == [data |-> [r.data EXCEPT ![i] = bar], head |-> h, size |-> n]

LEMMA ChangedIs ==
  ASSUME NEW r \in Rings, NEW i \in Slots, NEW bar \in Bars,
         NEW h \in Slots, NEW n \in 0..MaxKlineBars
  PROVE  /\ Changed(r, i, bar, h, n) \in Rings
         /\ Changed(r, i, bar, h, n).head = h /\ Changed(r, i, bar, h, n).size = n
         /\ \A j \in Slots :
              Changed(r, i, bar, h, n).data[j] = IF j = i THEN bar ELSE r.data[j]
  <1>1. [r.data EXCEPT ![i] = bar] \in [Slots -> AnyBar]
    BY RingFields DEF AnyBar
  <1> QED BY <1>1, RingFields DEF Changed, Rings, AnyBar

(* The four ways of an update.                                             *)
LEMMA UpdateIs ==
  ASSUME NEW r, RingOK(r), NEW bar \in Bars
  PROVE  /\ r.size = 0 => Update(r, bar) = Changed(r, 0, bar, 0, 1)
         /\ r.size > 0 /\ LastBar(r).t = bar.t =>
              Update(r, bar) = Changed(r, Slot(r, r.size - 1), bar, r.head, r.size)
         /\ r.size > 0 /\ LastBar(r).t # bar.t =>
              Update(r, bar) = IF r.size < MaxKlineBars
                               THEN Changed(r, Slot(r, r.size), bar, r.head, r.size + 1)
                               ELSE Changed(r, r.head, bar, Slot(r, 1), MaxKlineBars)
  <1>1. /\ r \in Rings /\ r.size \in 0..MaxKlineBars /\ MaxKlineBars \in Nat \ {0}
        /\ r.size = 0 => r.head = 0
    BY RingFields DEF RingOK
  <1>2. PICK d, h, n : r = [data |-> d, head |-> h, size |-> n]
    BY <1>1 DEF Rings
  <1>3. /\ \A i : Put(r, i, bar) = Changed(r, i, bar, h, n)
        /\ \A i, m : [Put(r, i, bar) EXCEPT !.size = m] = Changed(r, i, bar, h, m)
        /\ \A i, m : [Put(r, i, bar) EXCEPT !.head = m] = Changed(r, i, bar, m, n)
        /\ \A i : Put(r, i, bar).size = n
        /\ r.head = h /\ r.size = n
    <2>1. \A i : Put(r, i, bar) = Changed(r, i, bar, h, n) /\ Put(r, i, bar).size = n
      BY <1>2 DEF Put, Changed
    <2>2. \A i, m : [Put(r, i, bar) EXCEPT !.size = m] = Changed(r, i, bar, h, m)
      <3> SUFFICES ASSUME NEW i, NEW m
                   PROVE  [Put(r, i, bar) EXCEPT !.size = m] = Changed(r, i, bar, h, m)
        OBVIOUS
      <3>1. Put(r, i, bar) = [data |-> [d EXCEPT ![i] = bar], head |-> h, size |-> n]
        BY <1>2 DEF Put
      <3>2. PICK e : e = [d EXCEPT ![i] = bar]
        OBVIOUS
      <3>3. [[data |-> e, head |-> h, size |-> n] EXCEPT !.size = m] = [data |-> e, head |-> h, size |-> m]
        OBVIOUS
      <3> QED BY <1>2, <3>1, <3>2, <3>3 DEF Changed
    <2>3. \A i, m : [Put(r, i, bar) EXCEPT !.head = m] = Changed(r, i, bar, m, n)
      <3> SUFFICES ASSUME NEW i, NEW m
                   PROVE  [Put(r, i, bar) EXCEPT !.head = m] = Changed(r, i, bar, m, n)
        OBVIOUS
      <3>1. Put(r, i, bar) = [data |-> [d EXCEPT ![i] = bar], head |-> h, size |-> n]
        BY <1>2 DEF Put
      <3>2. PICK e : e = [d EXCEPT ![i] = bar]
        OBVIOUS
      <3>3. [[data |-> e, head |-> h, size |-> n] EXCEPT !.head = m] = [data |-> e, head |-> m, size |-> n]
        OBVIOUS
      <3> QED BY <1>2, <3>1, <3>2, <3>3 DEF Changed
    <2>4. r.head = h /\ r.size = n
      BY <1>2
    <2> QED BY <2>1, <2>2, <2>3, <2>4
  <1>4. ASSUME r.size = 0 PROVE Update(r, bar) = Changed(r, 0, bar, 0, 1)
    <2>1. Update(r, bar) = [Put(r, 0, bar) EXCEPT !.size = 1]
      BY <1>4 DEF Update
    <2> QED BY <1>1, <1>3, <1>4, <2>1
  <1>5. ASSUME r.size > 0, LastBar(r).t = bar.t
        PROVE  Update(r, bar) = Changed(r, Slot(r, r.size - 1), bar, r.head, r.size)
    <2>1. Update(r, bar) = Put(r, Slot(r, r.size - 1), bar)
      BY <1>1, <1>5 DEF Update
    <2> QED BY <1>3, <2>1
  <1>6. ASSUME r.size > 0, LastBar(r).t # bar.t, r.size < MaxKlineBars
        PROVE  Update(r, bar) = Changed(r, Slot(r, r.size), bar, r.head, r.size + 1)
    <2>1. Update(r, bar) = [Put(r, Slot(r, r.size), bar) EXCEPT
                              !.size = Put(r, Slot(r, r.size), bar).size + 1]
      BY <1>1, <1>6 DEF Update
    <2>2. Update(r, bar) = [Put(r, Slot(r, r.size), bar) EXCEPT !.size = n + 1]
      BY <1>3, <2>1
    <2> QED BY <1>3, <2>2
  <1>7. ASSUME r.size > 0, LastBar(r).t # bar.t, ~(r.size < MaxKlineBars)
        PROVE  Update(r, bar) = Changed(r, r.head, bar, Slot(r, 1), MaxKlineBars)
    <2>1. Update(r, bar) = [Put(r, r.head, bar) EXCEPT !.head = Slot(r, 1)]
      BY <1>1, <1>7 DEF Update
    <2>2. r.size = MaxKlineBars
      BY <1>1, <1>7
    <2> QED BY <1>3, <2>1, <2>2
  <1> QED BY <1>4, <1>5, <1>6, <1>7

LEMMA ChangedWindow ==
  ASSUME NEW r \in Rings, NEW i \in Slots, NEW bar \in Bars,
         NEW h \in Slots, NEW n \in 0..MaxKlineBars, NEW u, u = Changed(r, i, bar, h, n)
  PROVE  /\ u \in Rings /\ u.size = n /\ u.head = h
         /\ GetAll(u) \in Seq(AnyBar) /\ Len(GetAll(u)) = n
         /\ \A k \in 1..n : GetAll(u)[k] = IF At(h, k - 1) = i THEN bar ELSE r.data[At(h, k - 1)]
  <1>1. /\ u \in Rings /\ u.head = h /\ u.size = n
        /\ \A j \in Slots : u.data[j] = IF j = i THEN bar ELSE r.data[j]
    BY ChangedIs
  <1>2. /\ GetAll(u) \in Seq(AnyBar) /\ Len(GetAll(u)) = n
        /\ \A k \in 1..n : GetAll(u)[k] = u.data[At(h, k - 1)]
    <2>1. /\ GetAll(u) \in Seq(AnyBar) /\ Len(GetAll(u)) = u.size
          /\ \A k \in 1..u.size : GetAll(u)[k] = u.data[At(u.head, k - 1)]
      BY <1>1, WindowFields
    <2>2. u.size = n /\ u.head = h
      BY <1>1
    <2> QED BY <2>1, <2>2
  <1>3. \A k \in 1..n : At(h, k - 1) \in Slots
    BY RingAssumption DEF At, Slots
  <1> QED BY <1>1, <1>2, <1>3

(* The windows of the three bars that may follow: one more, one amended,   *)
(* one in place of the oldest.                                             *)
LEMMA FirstWindow ==
  ASSUME NEW r \in Rings, NEW bar \in Bars, NEW u, u = Changed(r, 0, bar, 0, 1)
  PROVE  u \in Rings /\ u.size = 1 /\ GetAll(u) = <<bar>>
  <1>1. PICK z \in Slots, e \in 0..MaxKlineBars : z = 0 /\ e = 1 /\ At(z, 0) = z
    BY RingAssumption DEF Slots, At
  <1>2. /\ u \in Rings /\ u.size = e /\ GetAll(u) \in Seq(AnyBar) /\ Len(GetAll(u)) = e
        /\ \A k \in 1..e : GetAll(u)[k] = IF At(z, k - 1) = z THEN bar ELSE r.data[At(z, k - 1)]
    <2>1. u = Changed(r, z, bar, z, e)
      BY <1>1
    <2> QED BY <2>1, ChangedWindow
  <1>3. GetAll(u)[1] = bar /\ Len(GetAll(u)) = 1 /\ u.size = 1
    <2>1. 1 \in 1..e /\ 1 - 1 = 0
      BY <1>1
    <2> QED BY <1>1, <1>2, <2>1
  <1> QED BY <1>2, <1>3

LEMMA AmendedWindow ==
  ASSUME NEW r \in Rings, NEW bar \in Bars, NEW u, r.size > 0,
         u = Changed(r, Slot(r, r.size - 1), bar, r.head, r.size)
  PROVE  u \in Rings /\ u.size = r.size /\ GetAll(u) = [GetAll(r) EXCEPT ![Len(GetAll(r))] = bar]
  <1> PICK n \in 0..MaxKlineBars, h \in Slots : n = r.size /\ h = r.head
    BY RingFields
  <1> PICK w : w = GetAll(r)
    OBVIOUS
  <1>1. n - 1 \in 0..MaxKlineBars /\ n \in 1..n
    BY RingAssumption
  <1>2. PICK i \in Slots : i = Slot(r, n - 1) /\ i = At(h, n - 1)
    BY <1>1, SlotIs
  <1>3. /\ u \in Rings /\ u.size = n /\ GetAll(u) \in Seq(AnyBar) /\ Len(GetAll(u)) = n
        /\ \A k \in 1..n : GetAll(u)[k] = IF At(h, k - 1) = i THEN bar ELSE r.data[At(h, k - 1)]
    BY <1>2, ChangedWindow
  <1>4. /\ w \in Seq(AnyBar) /\ Len(w) = n /\ \A k \in 1..n : w[k] = r.data[At(h, k - 1)]
    BY WindowFields
  <1>5. \A k \in 1..n : At(h, k - 1) = i <=> k = n
    BY <1>2, RingAssumption DEF At, Slots
  <1>6. \A k \in 1..n : GetAll(u)[k] = IF k = n THEN bar ELSE w[k]
    BY <1>3, <1>4, <1>5
  <1>7. PICK v : v = [w EXCEPT ![n] = bar]
    OBVIOUS
  <1>8. v \in Seq(AnyBar) /\ Len(v) = n /\ \A k \in 1..n : v[k] = IF k = n THEN bar ELSE w[k]
    BY <1>1, <1>4, <1>7 DEF AnyBar
  <1>9. GetAll(u) = v
    BY <1>3, <1>6, <1>8
  <1> QED BY <1>3, <1>4, <1>7, <1>9

LEMMA AddedWindow ==
  ASSUME NEW r \in Rings, NEW bar \in Bars, NEW u, r.size < MaxKlineBars,
         u = Changed(r, Slot(r, r.size), bar, r.head, r.size + 1)
  PROVE  u \in Rings /\ u.size = r.size + 1 /\ GetAll(u) = Append(GetAll(r), bar)
  <1> PICK n \in 0..MaxKlineBars, h \in Slots : n = r.size /\ h = r.head
    BY RingFields
  <1> PICK w : w = GetAll(r)
    OBVIOUS
  <1>1. PICK m \in 0..MaxKlineBars : m = n + 1
    BY RingAssumption
  <1>2. PICK i \in Slots : i = Slot(r, n) /\ i = At(h, n)
    BY SlotIs
  <1>3. /\ u \in Rings /\ u.size = m /\ GetAll(u) \in Seq(AnyBar) /\ Len(GetAll(u)) = m
        /\ \A k \in 1..m : GetAll(u)[k] = IF At(h, k - 1) = i THEN bar ELSE r.data[At(h, k - 1)]
    BY <1>1, <1>2, ChangedWindow
  <1>4. /\ w \in Seq(AnyBar) /\ Len(w) = n /\ \A k \in 1..n : w[k] = r.data[At(h, k - 1)]
    BY WindowFields
  <1>5. \A k \in 1..m : At(h, k - 1) = i <=> k = m
    BY <1>1, <1>2, RingAssumption DEF At, Slots
  <1>6. \A k \in 1..m : GetAll(u)[k] = IF k = m THEN bar ELSE w[k]
    <2> SUFFICES ASSUME NEW k \in 1..m PROVE GetAll(u)[k] = IF k = m THEN bar ELSE w[k]
      OBVIOUS
    <2>1. CASE k = m
      BY <1>3, <1>5, <2>1
    <2>2. CASE k # m
      <3>1. k \in 1..n
        BY <1>1, <2>2
      <3> QED BY <1>3, <1>4, <1>5, <2>2, <3>1
    <2> QED BY <2>1, <2>2
  <1>7. PICK v : v = Append(w, bar)
    OBVIOUS
  <1>8. v \in Seq(AnyBar) /\ Len(v) = m /\ \A k \in 1..m : v[k] = IF k = m THEN bar ELSE w[k]
    BY <1>1, <1>4, <1>7 DEF AnyBar
  <1>9. GetAll(u) = v
    BY <1>3, <1>6, <1>8
  <1> QED BY <1>1, <1>3, <1>7, <1>9

LEMMA ShiftedWindow ==
  ASSUME NEW r \in Rings, NEW bar \in Bars,
         NEW h \in Slots, NEW i \in Slots, NEW n \in 0..MaxKlineBars,
         NEW u, u = Changed(r, h, bar, i, n)
  PROVE  r.size = MaxKlineBars /\ n = MaxKlineBars /\ h = r.head /\ i = Slot(r, 1) =>
           u \in Rings /\ u.size = n /\ GetAll(u) = Tail(Append(GetAll(r), bar))
  <1>1. /\ u \in Rings /\ u.size = n /\ GetAll(u) \in Seq(AnyBar) /\ Len(GetAll(u)) = n
        /\ \A k \in 1..n : GetAll(u)[k] = IF At(i, k - 1) = h THEN bar ELSE r.data[At(i, k - 1)]
    BY ChangedWindow
  <1> SUFFICES ASSUME r.size = n, n = MaxKlineBars, h = r.head, i = Slot(r, 1)
               PROVE  GetAll(u) = Tail(Append(GetAll(r), bar))
    BY <1>1
  <1> PICK w : w = GetAll(r)
    OBVIOUS
  <1>2. n = MaxKlineBars /\ n \in Nat \ {0} /\ 1 \in 0..MaxKlineBars
    BY RingAssumption
  <1>3. i = At(h, 1)
    BY <1>2, SlotIs
  <1>4. /\ w \in Seq(AnyBar) /\ Len(w) = n /\ \A k \in 1..n : w[k] = r.data[At(h, k - 1)]
    BY WindowFields
  <1>5. \A k \in 1..n : /\ At(i, k - 1) = h <=> k = n
                        /\ k # n => At(i, k - 1) = At(h, (k + 1) - 1)
    BY <1>2, <1>3 DEF At, Slots
  <1>6. \A k \in 1..n : GetAll(u)[k] = IF k = n THEN bar ELSE w[k + 1]
    <2> SUFFICES ASSUME NEW k \in 1..n PROVE GetAll(u)[k] = IF k = n THEN bar ELSE w[k + 1]
      OBVIOUS
    <2>1. CASE k = n
      BY <1>1, <1>5, <2>1
    <2>2. CASE k # n
      <3>1. k + 1 \in 1..n
        BY <2>2
      <3>2. w[k + 1] = r.data[At(h, (k + 1) - 1)]
        BY <1>4, <3>1
      <3> QED BY <1>1, <1>5, <2>2, <3>2
    <2> QED BY <2>1, <2>2
  <1>7. PICK a : a = Append(w, bar)
    OBVIOUS
  <1>8. a \in Seq(AnyBar) /\ Len(a) = n + 1 /\ \A k \in 1..(n + 1) : a[k] = IF k = n + 1 THEN bar ELSE w[k]
    BY <1>4, <1>7 DEF AnyBar
  <1>9. Tail(a) \in Seq(AnyBar) /\ Len(Tail(a)) = n /\ \A k \in 1..n : Tail(a)[k] = a[k + 1]
    BY <1>8
  <1>10. \A k \in 1..n : Tail(a)[k] = GetAll(u)[k]
    BY <1>6, <1>8, <1>9
  <1>11. GetAll(u) = Tail(a)
    BY <1>1, <1>9, <1>10
  <1> QED BY <1>2, <1>1, <1>7, <1>11

(* KlineBuffer::update keeps a ring a ring, and its window is that of the  *)
(* newest bars.                                                            *)
LEMMA UpdateWindow ==
  ASSUME NEW r, RingOK(r), NEW bar \in Bars
  PROVE  /\ RingOK(Update(r, bar)) /\ Update(r, bar).size > 0
         /\ GetAll(Update(r, bar)) = NewWindow(GetAll(r), bar)
  <1> PICK u : u = Update(r, bar)
    OBVIOUS
  <1> PICK w : w = GetAll(r)
    OBVIOUS
  <1>1. r \in Rings
    BY DEF RingOK
  <1>2. /\ r.size \in Nat /\ r.size <= MaxKlineBars /\ MaxKlineBars \in Nat \ {0}
        /\ w \in Seq(AnyBar) /\ Len(w) = r.size /\ (r.size > 0 => LastBar(r) = w[r.size])
    BY <1>1, RingFields, WindowFields
  <1>3. u \in Rings /\ u.size > 0 /\ GetAll(u) = NewWindow(w, bar)
    <2>1. CASE r.size = 0
      <3>1. u \in Rings /\ u.size = 1 /\ GetAll(u) = <<bar>>
        BY <1>1, <2>1, UpdateIs, FirstWindow
      <3>2. w = <<>>
        BY <1>2, <2>1
      <3> QED BY <3>1, <3>2 DEF NewWindow
    <2>2. CASE r.size > 0 /\ LastBar(r).t = bar.t
      <3>1. u \in Rings /\ u.size = r.size /\ GetAll(u) = [w EXCEPT ![Len(w)] = bar]
        BY <1>1, <2>2, UpdateIs, AmendedWindow
      <3>2. w # <<>> /\ w[Len(w)].t = bar.t
        BY <1>2, <2>2
      <3> QED BY <2>2, <3>1, <3>2 DEF NewWindow
    <2>3. CASE r.size > 0 /\ LastBar(r).t # bar.t
      <3>1. w # <<>> /\ w[Len(w)].t # bar.t
        BY <1>2, <2>3
      <3>2. CASE r.size < MaxKlineBars
        <4>1. u \in Rings /\ u.size = r.size + 1 /\ GetAll(u) = Append(w, bar)
          BY <1>1, <2>3, <3>2, UpdateIs, AddedWindow
        <4> QED BY <1>2, <3>1, <3>2, <4>1 DEF NewWindow
      <3>3. CASE r.size = MaxKlineBars
        <4>1. ~(r.size < MaxKlineBars)
          BY <1>2, <3>3
        <4>2. u \in Rings /\ u.size = MaxKlineBars /\ GetAll(u) = Tail(Append(w, bar))
          <5>1. u = Changed(r, r.head, bar, Slot(r, 1), MaxKlineBars)
            BY <2>3, <4>1, UpdateIs
          <5>2. r.head \in Slots /\ Slot(r, 1) \in Slots /\ MaxKlineBars \in 0..MaxKlineBars
            BY <1>1, <1>2, RingFields, SlotIs
          <5> QED BY <1>1, <3>3, <5>1, <5>2, ShiftedWindow
        <4> QED BY <1>2, <3>1, <4>1, <4>2 DEF NewWindow
      <3> QED BY <1>2, <3>2, <3>3
    <2> QED BY <1>2, <2>1, <2>2, <2>3
  <1>4. ~(u.size = 0)
    BY <1>3, RingFields
  <1> QED BY <1>3, <1>4 DEF RingOK

-----------------------------------------------------------------------------
(* The readers of a ring.                                                  *)

LEMMA MinOfTwo ==
  ASSUME NEW a \in Nat, NEW b \in Nat
  PROVE  Min({a, b}) = IF a < b THEN a ELSE b
  <1>1. PICK m \in {a, b} : m = IF a < b THEN a ELSE b
    OBVIOUS
  <1>2. \A y \in {a, b} : m <= y
    BY <1>1
  <1>3. Min({a, b}) \in {a, b} /\ \A y \in {a, b} : Min({a, b}) <= y
    BY <1>1, <1>2 DEF Min
  <1> QED BY <1>1, <1>2, <1>3

LEMMA ReverseIs ==
  ASSUME NEW S, NEW q \in Seq(S)
  PROVE  /\ Reverse(q) \in Seq(S) /\ Len(Reverse(q)) = Len(q)
         /\ \A i \in 1..Len(q) : Reverse(q)[i] = q[Len(q) - i + 1]
  BY DEF Reverse

LEMMA SuffixIs ==
  ASSUME NEW S, NEW p \in Seq(S), NEW q \in Seq(S), Len(p) <= Len(q),
         \A i \in 1..Len(p) : p[i] = q[Len(q) - Len(p) + i]
  PROVE  IsSuffix(p, q)
  <1> PICK m \in Nat, n \in Nat : m = Len(p) /\ n = Len(q) /\ m <= n
    OBVIOUS
  <1> PICK a : a = Reverse(p)
    OBVIOUS
  <1> PICK b : b = Reverse(q)
    OBVIOUS
  <1>1. /\ a \in Seq(S) /\ Len(a) = m /\ b \in Seq(S) /\ Len(b) = n
        /\ \A i \in 1..m : a[i] = p[m - i + 1]
        /\ \A i \in 1..n : b[i] = q[n - i + 1]
    BY ReverseIs
  <1>2. \A i \in 1..m : a[i] = b[i]
    <2> SUFFICES ASSUME NEW i \in 1..m PROVE a[i] = b[i]
      OBVIOUS
    <2>1. PICK k \in 1..m : k = m - i + 1
      <3>1. m - i + 1 \in 1..m
        OBVIOUS
      <3> QED BY <3>1
    <2>2. a[i] = p[k] /\ p[k] = q[n - m + k]
      BY <1>1, <2>1
    <2>3. PICK j \in 1..n : j = n - m + k /\ j = n - i + 1 /\ i \in 1..n
      <3>1. n - m + k \in 1..n /\ n - m + k = n - i + 1 /\ i \in 1..n
        BY <2>1
      <3> QED BY <3>1
    <2>4. b[i] = q[j]
      BY <1>1, <2>3
    <2> QED BY <2>2, <2>3, <2>4
  <1>3. /\ SubSeq(a, 1, m) \in Seq(S) /\ Len(SubSeq(a, 1, m)) = m
        /\ SubSeq(b, 1, m) \in Seq(S) /\ Len(SubSeq(b, 1, m)) = m
        /\ \A i \in 1..m : SubSeq(a, 1, m)[i] = a[i] /\ SubSeq(b, 1, m)[i] = b[i]
    BY <1>1
  <1>4. SubSeq(a, 1, m) = SubSeq(b, 1, m)
    BY <1>2, <1>3
  <1> QED BY <1>1, <1>4 DEF IsSuffix, IsPrefix

LEMMA FunctionIsSeq ==
  ASSUME NEW S, NEW n \in Nat, NEW q \in [1..n -> S]
  PROVE  q \in Seq(S) /\ Len(q) = n
  OBVIOUS

LEMMA RecentIs ==
  ASSUME NEW r \in Rings, NEW n \in Nat
  PROVE  IsSuffix(GetRecent(r, n), GetAll(r)) /\ Len(GetRecent(r, n)) = Min({n, Len(GetAll(r))})
  <1> PICK z \in 0..MaxKlineBars : z = r.size
    BY RingFields
  <1> PICK m \in 0..MaxKlineBars : m = IF n < z THEN n ELSE z
    BY RingAssumption
  <1> PICK w : w = GetAll(r)
    OBVIOUS
  <1> PICK q : q = GetRecent(r, n)
    OBVIOUS
  <1>1. /\ w \in Seq(AnyBar) /\ Len(w) = z /\ m <= z /\ m \in Nat /\ z \in Nat
        /\ \A k \in 1..z : w[k] = r.data[At(r.head, k - 1)]
    BY WindowFields, RingAssumption
  <1>2. q = [i \in 1..m |-> r.data[Slot(r, z - m + i - 1)]]
    BY DEF GetRecent
  <1>3. \A i \in 1..m : r.data[Slot(r, z - m + i - 1)] = w[z - m + i]
    <2> SUFFICES ASSUME NEW i \in 1..m PROVE r.data[Slot(r, z - m + i - 1)] = w[z - m + i]
      OBVIOUS
    <2>1. PICK k \in 1..z : k = z - m + i
      BY <1>1
    <2>2. k - 1 \in 0..MaxKlineBars
      BY RingAssumption
    <2>3. Slot(r, k - 1) = At(r.head, k - 1)
      BY <2>2, SlotIs
    <2>4. z - m + i - 1 = k - 1
      BY <1>1, <2>1
    <2>5. w[k] = r.data[At(r.head, k - 1)]
      BY <1>1
    <2> QED BY <2>1, <2>3, <2>4, <2>5
  <1>4. q \in Seq(AnyBar) /\ Len(q) = m /\ \A i \in 1..m : q[i] = w[z - m + i]
    <2>1. \A i \in 1..m : z - m + i \in 1..z
      BY <1>1
    <2>2. \A i \in 1..m : w[z - m + i] \in AnyBar
      BY <1>1, <2>1
    <2>3. \A i \in 1..m : q[i] = w[z - m + i]
      BY <1>2, <1>3
    <2>4. q \in [1..m -> AnyBar]
      <3>1. q = [i \in 1..m |-> q[i]]
        BY <1>2
      <3>2. \A i \in 1..m : q[i] \in AnyBar
        BY <2>2, <2>3
      <3> QED BY <3>1, <3>2
    <2>5. q \in Seq(AnyBar) /\ Len(q) = m
      BY <1>1, <2>4, FunctionIsSeq
    <2> QED BY <2>3, <2>5
  <1>5. IsSuffix(q, w)
    BY <1>1, <1>4, SuffixIs
  <1>6. Len(q) = Min({n, Len(w)})
    BY <1>1, <1>4, MinOfTwo
  <1> QED BY <1>5, <1>6

LEMMA ColumnIs ==
  ASSUME NEW r \in Rings
  PROVE  GetTimestamps(r) = [i \in DOMAIN GetAll(r) |-> GetAll(r)[i].t]
  BY DEF GetTimestamps, GetAll

-----------------------------------------------------------------------------
(* The bars of a series on their way.                                      *)

Message == [series: Series, bar: Bars]
SentInOrder(s, ch) ==
  \A i, j \in 1..Len(ch) :
    i < j /\ ch[i].series = s /\ ch[j].series = s => ch[i].bar.t <= ch[j].bar.t
SentClosed(s, ch, c) == \A i \in 1..Len(ch) : ch[i].series = s => ch[i].bar.t <= c
Comes(s, ch, t) == \E i \in 1..Len(ch) : ch[i].series = s /\ ch[i].bar.t = t

Step(a, b, M) == a.t < b.t /\ (a.t + 1)..(b.t - 1) \subseteq M
WindowWhole(w, M, c) ==
  /\ \A i \in 1..Len(w) : w[i].t <= c
  /\ \A i \in 1..(Len(w) - 1) : Step(w[i], w[i + 1], M)

(* What is younger than a bar that is sent, or the last of the window, is  *)
(* on its way or missing.                                                  *)
After(s, ch, c, M, a) == \A t \in (a + 1)..c : t \in M \/ Comes(s, ch, t)
SentWhole(s, ch, c, M) ==
  \A i \in 1..Len(ch) : ch[i].series = s => After(s, ch, c, M, ch[i].bar.t)
Followed(s, ch, c, w, M) ==
  w # <<>> =>
    /\ \A i \in 1..Len(ch) : ch[i].series = s => w[Len(w)].t <= ch[i].bar.t
    /\ After(s, ch, c, M, w[Len(w)].t)

SeriesOK(s, ch, c, w, M) ==
  /\ SentInOrder(s, ch) /\ SentClosed(s, ch, c) /\ SentWhole(s, ch, c, M)
  /\ WindowWhole(w, M, c) /\ Followed(s, ch, c, w, M)

MarketTyped ==
  /\ closed \in [Series -> 0..MaxClosed] /\ channel \in Seq(Message)
  /\ subscribed \subseteq managed /\ managed \subseteq Series
  /\ rings \in [Series -> Rings] /\ missing \in [Series -> SUBSET (1..MaxClosed)]
  /\ troubles \in 0..MaxTroubles
  /\ \A s \in Series : RingOK(rings[s])
MarketInv ==
  /\ MarketTyped
  /\ \A s \in Series : SeriesOK(s, channel, closed[s], GetAll(rings[s]), missing[s])

LEMMA MessageFields ==
  ASSUME NEW m \in Message
  PROVE  m.series \in Series /\ m.bar \in Bars /\ m.bar \in AnyBar /\ m.bar.t \in Nat
         /\ m.bar.t \in 1..MaxClosed
  BY FeedAssumption DEF Message, Bars, AnyBar

LEMMA AppendIs ==
  ASSUME NEW ch \in Seq(Message), NEW m \in Message
  PROVE  /\ Append(ch, m) \in Seq(Message) /\ Len(Append(ch, m)) = Len(ch) + 1
         /\ Append(ch, m)[Len(ch) + 1] = m /\ Len(ch) + 1 \in 1..(Len(ch) + 1)
         /\ \A i \in 1..Len(ch) : Append(ch, m)[i] = ch[i] /\ i \in 1..(Len(ch) + 1)
         /\ \A i \in 1..(Len(ch) + 1) : i # Len(ch) + 1 => i \in 1..Len(ch)
  OBVIOUS

LEMMA PublishAfter ==
  ASSUME NEW s, NEW ch \in Seq(Message), NEW c \in Nat, NEW M, NEW m \in Message, NEW n \in Nat,
         m.series = s => m.bar.t = n /\ n \in {c, c + 1},
         m.series # s => n = c,
         NEW a \in Nat, After(s, ch, c, M, a)
  PROVE  After(s, Append(ch, m), n, M, a)
  <1> SUFFICES ASSUME NEW t \in (a + 1)..n PROVE t \in M \/ Comes(s, Append(ch, m), t)
    BY DEF After
  <1>1. CASE t <= c
    <2>1. t \in M \/ Comes(s, ch, t)
      BY <1>1 DEF After
    <2>2. Comes(s, ch, t) => Comes(s, Append(ch, m), t)
      BY AppendIs DEF Comes
    <2> QED BY <2>1, <2>2
  <1>2. CASE ~(t <= c)
    <2>1. m.series = s /\ m.bar.t = t
      BY <1>2
    <2> QED BY <2>1, AppendIs DEF Comes
  <1> QED BY <1>1, <1>2

(* A bar is closed and published, or published again.                      *)
LEMMA PublishKeeps ==
  ASSUME NEW s, NEW ch \in Seq(Message), NEW c \in Nat, NEW w \in Seq(AnyBar), NEW M,
         SeriesOK(s, ch, c, w, M), NEW m \in Message, NEW n \in Nat,
         m.series = s => m.bar.t = n /\ n \in {c, c + 1},
         m.series # s => n = c
  PROVE  SeriesOK(s, Append(ch, m), n, w, M)
  <1> PICK l \in Nat : l = Len(ch)
    OBVIOUS
  <1> PICK new : new = Append(ch, m)
    OBVIOUS
  <1>1. /\ new \in Seq(Message) /\ Len(new) = l + 1 /\ new[l + 1] = m
        /\ \A i \in 1..l : new[i] = ch[i] /\ i \in 1..(l + 1)
        /\ \A i \in 1..(l + 1) : i # l + 1 => i \in 1..l
        /\ c <= n /\ l + 1 \in 1..(l + 1)
    OBVIOUS
  <1>2. \A i \in 1..l : ch[i].bar.t \in Nat
    BY MessageFields
  <1>3. SentInOrder(s, new)
    <2> SUFFICES ASSUME NEW i \in 1..(l + 1), NEW j \in 1..(l + 1), i < j,
                        new[i].series = s, new[j].series = s
                 PROVE  new[i].bar.t <= new[j].bar.t
      BY <1>1 DEF SentInOrder
    <2>1. i \in 1..l /\ new[i] = ch[i]
      BY <1>1
    <2>2. CASE j = l + 1
      <3>1. ch[i].bar.t <= c /\ m.bar.t = n
        BY <1>1, <2>1, <2>2 DEF SeriesOK, SentClosed
      <3> QED BY <1>1, <1>2, <2>1, <2>2, <3>1
    <2>3. CASE j # l + 1
      BY <1>1, <2>1, <2>3 DEF SeriesOK, SentInOrder
    <2> QED BY <2>2, <2>3
  <1>4. SentClosed(s, new, n)
    <2> SUFFICES ASSUME NEW i \in 1..(l + 1), new[i].series = s PROVE new[i].bar.t <= n
      BY <1>1 DEF SentClosed
    <2>1. CASE i = l + 1
      BY <1>1, <2>1
    <2>2. CASE i # l + 1
      <3>1. i \in 1..l /\ new[i] = ch[i] /\ ch[i].bar.t <= c
        BY <1>1, <2>2 DEF SeriesOK, SentClosed
      <3> QED BY <1>1, <1>2, <3>1
    <2> QED BY <2>1, <2>2
  <1>5. \A i \in 1..Len(w) : w[i].t \in Nat
    BY BarFields
  <1>6. WindowWhole(w, M, n)
    BY <1>1, <1>5 DEF SeriesOK, WindowWhole
  <1>7. \A a \in Nat : After(s, ch, c, M, a) => After(s, new, n, M, a)
    BY PublishAfter
  <1>8. SentWhole(s, new, n, M)
    <2> SUFFICES ASSUME NEW i \in 1..(l + 1), new[i].series = s
                 PROVE  After(s, new, n, M, new[i].bar.t)
      BY <1>1 DEF SentWhole
    <2>1. CASE i = l + 1
      <3>1. new[i].bar.t = n
        BY <1>1, <2>1
      <3>2. \A t \in (n + 1)..n : FALSE
        OBVIOUS
      <3> QED BY <3>1, <3>2 DEF After
    <2>2. CASE i # l + 1
      <3>1. i \in 1..l /\ new[i] = ch[i]
        BY <1>1, <2>2
      <3>2. ch[i].bar.t \in Nat /\ After(s, ch, c, M, ch[i].bar.t)
        BY <1>2, <3>1 DEF SeriesOK, SentWhole
      <3> QED BY <1>7, <3>1, <3>2
    <2> QED BY <2>1, <2>2
  <1>9. Followed(s, new, n, w, M)
    <2> SUFFICES ASSUME w # <<>>
                 PROVE  /\ \A i \in 1..(l + 1) : new[i].series = s => w[Len(w)].t <= new[i].bar.t
                        /\ After(s, new, n, M, w[Len(w)].t)
      BY <1>1 DEF Followed
    <2> PICK last \in Nat : last = w[Len(w)].t /\ last <= c
      BY <1>5 DEF SeriesOK, WindowWhole
    <2>1. /\ \A i \in 1..l : ch[i].series = s => last <= ch[i].bar.t
          /\ After(s, ch, c, M, last)
      BY DEF SeriesOK, Followed
    <2>2. \A i \in 1..(l + 1) : new[i].series = s => last <= new[i].bar.t
      <3> SUFFICES ASSUME NEW i \in 1..(l + 1), new[i].series = s PROVE last <= new[i].bar.t
        OBVIOUS
      <3>1. CASE i = l + 1
        BY <1>1, <3>1
      <3>2. CASE i # l + 1
        BY <1>1, <2>1, <3>2
      <3> QED BY <3>1, <3>2
    <2> QED BY <1>7, <2>1, <2>2
  <1> QED BY <1>3, <1>4, <1>6, <1>8, <1>9 DEF SeriesOK

(* A bar is closed and never published.                                    *)
LEMMA LossKeeps ==
  ASSUME NEW s, NEW ch \in Seq(Message), NEW c \in Nat, NEW w \in Seq(AnyBar), NEW M,
         SeriesOK(s, ch, c, w, M)
  PROVE  SeriesOK(s, ch, c + 1, w, M \cup {c + 1})
  <1>1. \A i \in 1..Len(w) : w[i].t \in Nat
    BY BarFields
  <1>2. \A i \in 1..Len(ch) : ch[i].bar.t \in Nat
    BY MessageFields
  <1>3. SentInOrder(s, ch) /\ SentClosed(s, ch, c + 1)
    BY <1>2 DEF SeriesOK, SentClosed
  <1>4. WindowWhole(w, M \cup {c + 1}, c + 1)
    <2>1. \A i \in 1..Len(w) : w[i].t <= c + 1
      BY <1>1 DEF SeriesOK, WindowWhole
    <2>2. \A i \in 1..(Len(w) - 1) : Step(w[i], w[i + 1], M \cup {c + 1})
      BY DEF SeriesOK, WindowWhole, Step
    <2> QED BY <2>1, <2>2 DEF WindowWhole
  <1>5. \A a \in Nat : After(s, ch, c, M, a) => After(s, ch, c + 1, M \cup {c + 1}, a)
    <2> SUFFICES ASSUME NEW a \in Nat, After(s, ch, c, M, a), NEW t \in (a + 1)..(c + 1)
                 PROVE  t \in M \cup {c + 1} \/ Comes(s, ch, t)
      BY DEF After
    <2>1. t = c + 1 \/ t \in (a + 1)..c
      OBVIOUS
    <2> QED BY <2>1 DEF After
  <1>6. SentWhole(s, ch, c + 1, M \cup {c + 1})
    BY <1>2, <1>5 DEF SeriesOK, SentWhole
  <1>7. Followed(s, ch, c + 1, w, M \cup {c + 1})
    <2>1. w # <<>> => w[Len(w)].t \in Nat
      BY <1>1
    <2> QED BY <1>5, <2>1 DEF SeriesOK, Followed
  <1> QED BY <1>3, <1>4, <1>6, <1>7 DEF SeriesOK

LEMMA TailIs ==
  ASSUME NEW ch \in Seq(Message), ch # <<>>
  PROVE  /\ Head(ch) \in Message /\ Head(ch) = ch[1] /\ 1 \in 1..Len(ch)
         /\ Tail(ch) \in Seq(Message) /\ Len(Tail(ch)) = Len(ch) - 1 /\ Len(ch) \in Nat
         /\ \A i \in 1..(Len(ch) - 1) : Tail(ch)[i] = ch[i + 1] /\ i + 1 \in 1..Len(ch)
         /\ \A i \in 1..Len(ch) : i # 1 => i - 1 \in 1..(Len(ch) - 1)
  OBVIOUS

(* The oldest message is taken; whoever it was for, the rest is in order.  *)
LEMMA TailKeeps ==
  ASSUME NEW s, NEW ch \in Seq(Message), ch # <<>>, NEW c \in Nat,
         SentInOrder(s, ch), SentClosed(s, ch, c)
  PROVE  SentInOrder(s, Tail(ch)) /\ SentClosed(s, Tail(ch), c)
  <1> PICK l \in Nat : l = Len(ch) - 1
    BY TailIs
  <1> PICK rest : rest = Tail(ch)
    OBVIOUS
  <1>1. Len(rest) = l /\ \A i \in 1..l : rest[i] = ch[i + 1] /\ i + 1 \in 1..Len(ch)
    BY TailIs
  <1>2. SentInOrder(s, rest)
    <2> SUFFICES ASSUME NEW i \in 1..l, NEW j \in 1..l, i < j,
                        rest[i].series = s, rest[j].series = s
                 PROVE  rest[i].bar.t <= rest[j].bar.t
      BY <1>1 DEF SentInOrder
    <2>1. PICK k \in 1..Len(ch), n \in 1..Len(ch) : k = i + 1 /\ n = j + 1 /\ k < n
      BY <1>1
    <2>2. rest[i] = ch[k] /\ rest[j] = ch[n]
      BY <1>1, <2>1
    <2> QED BY <2>1, <2>2 DEF SentInOrder
  <1>3. SentClosed(s, rest, c)
    BY <1>1 DEF SentClosed
  <1> QED BY <1>2, <1>3

LEMMA ComesLater ==
  ASSUME NEW s, NEW ch \in Seq(Message), ch # <<>>, NEW t, Comes(s, ch, t)
  PROVE  Comes(s, Tail(ch), t) \/ (Head(ch).series = s /\ Head(ch).bar.t = t)
  <1>1. PICK i \in 1..Len(ch) : ch[i].series = s /\ ch[i].bar.t = t
    BY DEF Comes
  <1>2. CASE i = 1
    BY <1>1, <1>2, TailIs
  <1>3. CASE i # 1
    <2>1. PICK k \in 1..Len(Tail(ch)) : k = i - 1
      BY <1>3, TailIs
    <2>2. Tail(ch)[k] = ch[k + 1] /\ k + 1 = i
      BY <2>1, TailIs
    <2> QED BY <1>1, <2>2 DEF Comes
  <1> QED BY <1>2, <1>3

(* A message is taken and not stored.                                      *)
LEMMA SkipKeeps ==
  ASSUME NEW s, NEW ch \in Seq(Message), ch # <<>>, NEW c \in Nat, NEW w \in Seq(AnyBar),
         NEW M, SeriesOK(s, ch, c, w, M), NEW N, M \subseteq N,
         Head(ch).series = s => Head(ch).bar.t \in N
  PROVE  SeriesOK(s, Tail(ch), c, w, N)
  <1>1. SentInOrder(s, Tail(ch)) /\ SentClosed(s, Tail(ch), c)
    BY TailKeeps DEF SeriesOK
  <1>2. WindowWhole(w, N, c)
    BY DEF SeriesOK, WindowWhole, Step
  <1>3. \A a : After(s, ch, c, M, a) => After(s, Tail(ch), c, N, a)
    BY ComesLater DEF After
  <1>4. \A i \in 1..Len(Tail(ch)) : Tail(ch)[i] = ch[i + 1] /\ i + 1 \in 1..Len(ch)
    BY TailIs
  <1>5. SentWhole(s, Tail(ch), c, N)
    BY <1>3, <1>4 DEF SeriesOK, SentWhole
  <1>6. Followed(s, Tail(ch), c, w, N)
    <2>1. w # <<>> => \A i \in 1..Len(Tail(ch)) :
                        Tail(ch)[i].series = s => w[Len(w)].t <= Tail(ch)[i].bar.t
      BY <1>4 DEF SeriesOK, Followed
    <2>2. w # <<>> => After(s, Tail(ch), c, N, w[Len(w)].t)
      BY <1>3 DEF SeriesOK, Followed
    <2> QED BY <2>1, <2>2 DEF Followed
  <1> QED BY <1>1, <1>2, <1>5, <1>6 DEF SeriesOK

(* The new window: its last bar is the new one, and each other has the     *)
(* successor it had, but that the new one follows the last, or the one     *)
(* before the last when it amends that.                                    *)
Succeeds(v, w, bar, k) ==
  \/ k + 1 # Len(v) /\ \E j \in 1..(Len(w) - 1) : v[k] = w[j] /\ v[k + 1] = w[j + 1]
  \/ /\ k + 1 = Len(v) /\ w # <<>> /\ w[Len(w)].t # bar.t
     /\ v[k] = w[Len(w)]
  \/ /\ k + 1 = Len(v) /\ w[Len(w)].t = bar.t
     /\ Len(w) - 1 \in 1..(Len(w) - 1) /\ v[k] = w[Len(w) - 1]

LEMMA NewWindowIs ==
  ASSUME NEW w \in Seq(AnyBar), NEW bar \in AnyBar, NEW v, v = NewWindow(w, bar)
  PROVE  /\ v \in Seq(AnyBar) /\ Len(v) \in Nat \ {0} /\ v[Len(v)] = bar
         /\ \A k \in 1..(Len(v) - 1) : Succeeds(v, w, bar, k)
  <1> PICK n \in Nat : n = Len(w)
    OBVIOUS
  <1>1. CASE w = <<>>
    <2>1. v = <<bar>>
      BY <1>1 DEF NewWindow
    <2>2. v \in Seq(AnyBar) /\ Len(v) = 1 /\ v[1] = bar
      BY <2>1
    <2> QED BY <2>2 DEF Succeeds
  <1>2. CASE w # <<>> /\ w[n].t = bar.t
    <2>1. v = [w EXCEPT ![n] = bar]
      BY <1>2 DEF NewWindow
    <2>2. /\ v \in Seq(AnyBar) /\ Len(v) = n /\ n # 0
          /\ \A k \in 1..n : v[k] = IF k = n THEN bar ELSE w[k]
      BY <1>2, <2>1
    <2>3. \A k \in 1..(n - 1) : v[k] = w[k] /\ (k + 1 # n => v[k + 1] = w[k + 1])
      BY <2>2
    <2> QED BY <1>2, <2>2, <2>3 DEF Succeeds
  <1>3. CASE w # <<>> /\ w[n].t # bar.t /\ n < MaxKlineBars
    <2>1. v = Append(w, bar)
      BY <1>3 DEF NewWindow
    <2>2. /\ v \in Seq(AnyBar) /\ Len(v) = n + 1 /\ v[n + 1] = bar
          /\ \A k \in 1..n : v[k] = w[k]
      BY <2>1
    <2> QED BY <1>3, <2>2 DEF Succeeds
  <1>4. CASE w # <<>> /\ w[n].t # bar.t /\ ~(n < MaxKlineBars)
    <2>1. PICK a : a = Append(w, bar)
      OBVIOUS
    <2>2. v = Tail(a)
      BY <1>4, <2>1 DEF NewWindow
    <2>3. /\ a \in Seq(AnyBar) /\ Len(a) = n + 1 /\ a[n + 1] = bar
          /\ \A k \in 1..n : a[k] = w[k]
      BY <2>1
    <2>4. n \in Nat \ {0} /\ v \in Seq(AnyBar) /\ Len(v) = n /\ \A k \in 1..n : v[k] = a[k + 1]
      BY <1>4, <2>2, <2>3
    <2>5. v[n] = bar /\ \A k \in 1..(n - 1) : v[k] = w[k + 1] /\ k + 1 \in 1..n
      BY <2>3, <2>4
    <2>6. ASSUME NEW k \in 1..(n - 1), k + 1 # n
          PROVE  \E j \in 1..(n - 1) : v[k] = w[j] /\ v[k + 1] = w[j + 1]
      <3>1. PICK j \in 1..(n - 1) : j = k + 1
        BY <2>6
      <3> QED BY <2>5, <3>1
    <2> QED BY <1>4, <2>4, <2>5, <2>6 DEF Succeeds
  <1> QED BY <1>1, <1>2, <1>3, <1>4

(* A message is taken and its bar stored.                                  *)
LEMMA StoreKeeps ==
  ASSUME NEW s, NEW ch \in Seq(Message), ch # <<>>, NEW c \in Nat, NEW w \in Seq(AnyBar),
         NEW M, SeriesOK(s, ch, c, w, M), Head(ch).series = s
  PROVE  SeriesOK(s, Tail(ch), c, NewWindow(w, Head(ch).bar), M)
  <1> PICK bar \in AnyBar : bar = Head(ch).bar
    BY TailIs, MessageFields
  <1> PICK v : v = NewWindow(w, bar)
    OBVIOUS
  <1> PICK rest : rest = Tail(ch)
    OBVIOUS
  <1>1. SentInOrder(s, rest) /\ SentClosed(s, rest, c)
    BY TailKeeps DEF SeriesOK
  <1>2. /\ ch[1].series = s /\ ch[1].bar = bar /\ 1 \in 1..Len(ch)
        /\ \A i \in 1..Len(rest) : rest[i] = ch[i + 1] /\ i + 1 \in 1..Len(ch) /\ 1 < i + 1
    BY TailIs
  <1>3. bar.t \in Nat /\ bar.t <= c /\ After(s, ch, c, M, bar.t)
    BY <1>2, BarFields DEF SeriesOK, SentClosed, SentWhole
  <1>4. \A i \in 1..Len(ch) : ch[i].series = s => bar.t <= ch[i].bar.t
    <2> SUFFICES ASSUME NEW i \in 1..Len(ch), ch[i].series = s PROVE bar.t <= ch[i].bar.t
      OBVIOUS
    <2>1. CASE i = 1
      BY <1>2, <1>3, <2>1
    <2>2. CASE i # 1
      <3>1. 1 < i
        BY <2>2
      <3> QED BY <1>2, <3>1 DEF SeriesOK, SentInOrder
    <2> QED BY <2>1, <2>2
  <1>5. \A a \in Nat : bar.t <= a /\ After(s, ch, c, M, a) => After(s, rest, c, M, a)
    <2> SUFFICES ASSUME NEW a \in Nat, bar.t <= a, After(s, ch, c, M, a), NEW t \in (a + 1)..c
                 PROVE  t \in M \/ Comes(s, rest, t)
      BY DEF After
    <2>1. t \in M \/ Comes(s, ch, t)
      BY DEF After
    <2>2. t # bar.t
      BY <1>3
    <2> QED BY <2>1, <2>2, ComesLater
  <1>6. SentWhole(s, rest, c, M)
    <2> SUFFICES ASSUME NEW i \in 1..Len(rest), rest[i].series = s
                 PROVE  After(s, rest, c, M, rest[i].bar.t)
      BY DEF SentWhole
    <2>1. PICK k \in 1..Len(ch) : k = i + 1 /\ rest[i] = ch[k]
      BY <1>2
    <2>2. ch[k].bar.t \in Nat /\ bar.t <= ch[k].bar.t /\ After(s, ch, c, M, ch[k].bar.t)
      BY <1>4, <2>1, MessageFields DEF SeriesOK, SentWhole
    <2> QED BY <1>5, <2>1, <2>2
  <1>7. /\ v \in Seq(AnyBar) /\ Len(v) \in Nat \ {0} /\ v[Len(v)] = bar
        /\ \A k \in 1..(Len(v) - 1) : Succeeds(v, w, bar, k)
    BY NewWindowIs
  <1>8. Followed(s, rest, c, v, M)
    <2>1. \A i \in 1..Len(rest) : rest[i].series = s => bar.t <= rest[i].bar.t
      BY <1>2, <1>4
    <2>2. After(s, rest, c, M, bar.t)
      BY <1>3, <1>5
    <2> QED BY <1>7, <2>1, <2>2 DEF Followed
  <1>9. w # <<>> /\ w[Len(w)].t # bar.t => Step(w[Len(w)], bar, M)
    <2> SUFFICES ASSUME w # <<>>, w[Len(w)].t # bar.t PROVE Step(w[Len(w)], bar, M)
      OBVIOUS
    <2> PICK last \in Nat : last = w[Len(w)].t
      BY BarFields
    <2>1. last < bar.t /\ After(s, ch, c, M, last)
      BY <1>2, <1>3 DEF SeriesOK, Followed
    <2>2. ASSUME NEW t \in (last + 1)..(bar.t - 1) PROVE t \in M
      <3>1. t \in (last + 1)..c /\ t < bar.t
        BY <1>3
      <3>2. t \in M \/ Comes(s, ch, t)
        BY <2>1, <3>1 DEF After
      <3>3. ~Comes(s, ch, t)
        BY <1>3, <1>4, <3>1 DEF Comes
      <3> QED BY <3>2, <3>3
    <2> QED BY <2>1, <2>2 DEF Step
  <1>10. WindowWhole(v, M, c)
    <2>1. ASSUME NEW k \in 1..(Len(v) - 1) PROVE Step(v[k], v[k + 1], M) /\ v[k].t <= c
      <3>1. CASE k + 1 # Len(v)
        <4>1. PICK j \in 1..(Len(w) - 1) : v[k] = w[j] /\ v[k + 1] = w[j + 1]
          BY <1>7, <3>1 DEF Succeeds
        <4>2. j \in 1..Len(w)
          OBVIOUS
        <4> QED BY <4>1, <4>2 DEF SeriesOK, WindowWhole
      <3>2. CASE k + 1 = Len(v) /\ w # <<>> /\ w[Len(w)].t # bar.t /\ v[k] = w[Len(w)]
        <4>1. w[Len(w)].t <= c
          BY <3>2 DEF SeriesOK, WindowWhole
        <4> QED BY <1>7, <1>9, <3>2, <4>1
      <3>3. CASE /\ k + 1 = Len(v) /\ w[Len(w)].t = bar.t
                 /\ Len(w) - 1 \in 1..(Len(w) - 1) /\ v[k] = w[Len(w) - 1]
        <4>1. PICK j \in 1..(Len(w) - 1) : j = Len(w) - 1 /\ j + 1 = Len(w)
          BY <3>3
        <4>2. Step(w[j], w[j + 1], M) /\ w[j].t <= c
          BY <4>1 DEF SeriesOK, WindowWhole
        <4> QED BY <1>7, <3>3, <4>1, <4>2 DEF Step
      <3> QED BY <1>7, <3>1, <3>2, <3>3 DEF Succeeds
    <2>2. \A i \in 1..Len(v) : v[i].t <= c
      <3> SUFFICES ASSUME NEW i \in 1..Len(v) PROVE v[i].t <= c
        OBVIOUS
      <3>1. CASE i = Len(v)
        BY <1>3, <1>7, <3>1
      <3>2. CASE i # Len(v)
        <4>1. i \in 1..(Len(v) - 1)
          BY <3>2
        <4> QED BY <2>1, <4>1
      <3> QED BY <3>1, <3>2
    <2> QED BY <2>1, <2>2 DEF WindowWhole
  <1> QED BY <1>1, <1>6, <1>8, <1>10 DEF SeriesOK

-----------------------------------------------------------------------------
(* The steps of the market data.                                           *)

LEMMA EmptyWindow == RingOK(EmptyRing) /\ GetAll(EmptyRing) = <<>>
  <1>1. 0 \in Slots
    BY RingAssumption DEF Slots
  <1>2. [i \in Slots |-> NoBar] \in [Slots -> Bars \cup {NoBar}]
    OBVIOUS
  <1>3. EmptyRing \in Rings
    BY <1>1, <1>2, RingAssumption DEF EmptyRing, Rings
  <1>4. EmptyRing.size = 0 /\ EmptyRing.head = 0
    BY DEF EmptyRing
  <1>5. Len(GetAll(EmptyRing)) = 0 /\ GetAll(EmptyRing) \in Seq(AnyBar)
    BY <1>3, <1>4, WindowFields
  <1> QED BY <1>3, <1>4, <1>5 DEF RingOK

LEMMA MarketStarts == MarketInit => MarketInv
  <1> SUFFICES ASSUME MarketInit PROVE MarketInv
    OBVIOUS
  <1>1. RingOK(EmptyRing) /\ EmptyRing \in Rings /\ GetAll(EmptyRing) = <<>>
    BY EmptyWindow DEF RingOK
  <1>2. MarketTyped
    BY <1>1, FeedAssumption DEF MarketInit, MarketTyped
  <1>3. ASSUME NEW s PROVE SeriesOK(s, <<>>, 0, <<>>, {})
    BY DEF SeriesOK, SentInOrder, SentClosed, SentWhole, WindowWhole, Followed
  <1> QED BY <1>1, <1>2, <1>3 DEF MarketInit, MarketInv

LEMMA PublishKeepsMarket ==
  ASSUME MarketInv, NEW z \in Series, NEW m \in Message, m.series = z,
         NEW n \in 0..MaxClosed, n \in {closed[z], closed[z] + 1}, m.bar.t = n,
         channel' = Append(channel, m), closed' = [closed EXCEPT ![z] = n],
         troubles' \in 0..MaxTroubles, UNCHANGED <<subscribed, managed, rings, missing>>
  PROVE  MarketInv'
  <1>1. /\ channel \in Seq(Message) /\ closed \in [Series -> 0..MaxClosed]
        /\ \A s \in Series : closed[s] \in Nat /\ GetAll(rings[s]) \in Seq(AnyBar)
        /\ n \in Nat
    BY FeedAssumption, WindowFields DEF MarketInv, MarketTyped
  <1>2. MarketTyped'
    BY <1>1 DEF MarketInv, MarketTyped
  <1>3. ASSUME NEW s \in Series
        PROVE  SeriesOK(s, channel', closed'[s], GetAll(rings[s]), missing[s])
    <2>1. PICK c \in Nat, k \in Nat : c = closed[s] /\ k = closed'[s]
      BY <1>1, <1>2, FeedAssumption DEF MarketTyped
    <2>2. SeriesOK(s, channel, c, GetAll(rings[s]), missing[s])
      BY <2>1 DEF MarketInv
    <2>3. m.series = s => m.bar.t = k /\ k \in {c, c + 1}
      BY <1>1, <2>1
    <2>4. m.series # s => k = c
      BY <1>1, <2>1
    <2>5. SeriesOK(s, Append(channel, m), k, GetAll(rings[s]), missing[s])
      BY <1>1, <2>2, <2>3, <2>4, PublishKeeps
    <2> QED BY <2>1, <2>5
  <1> QED BY <1>2, <1>3 DEF MarketInv

LEMMA ExchangeKeepsMarket == MarketInv /\ Exchange => MarketInv'
  <1> SUFFICES ASSUME MarketInv, NEW z \in Series,
                      BarCloses(z) \/ BarForms(z) \/ BarLost(z) \/ BarAgain(z)
               PROVE  MarketInv'
    BY DEF Exchange
  <1>1. /\ closed \in [Series -> 0..MaxClosed] /\ closed[z] \in 0..MaxClosed /\ MaxClosed \in Nat
        /\ troubles \in 0..MaxTroubles /\ MaxTroubles \in Nat
    BY FeedAssumption DEF MarketInv, MarketTyped
  <1>2. \A t, v : OnMessage(z, t, v, TRUE) =>
          channel' = Append(channel, [series |-> z, bar |-> [t |-> t, v |-> v]])
    BY DEF OnMessage, KlineCallback, ParseKline, Publish
  <1>3. \A t \in 1..MaxClosed, v \in 0..MaxTroubles :
          /\ [series |-> z, bar |-> [t |-> t, v |-> v]] \in Message
          /\ [series |-> z, bar |-> [t |-> t, v |-> v]].series = z
          /\ [series |-> z, bar |-> [t |-> t, v |-> v]].bar.t = t
    BY DEF Message, Bars
  <1>4. CASE BarCloses(z)
    <2>1. PICK n \in 0..MaxClosed : n = closed[z] + 1 /\ n \in 1..MaxClosed
      BY <1>1, <1>4 DEF BarCloses, Close
    <2>2. PICK m : m = [series |-> z, bar |-> [t |-> n, v |-> 0]]
      OBVIOUS
    <2>3. m \in Message /\ m.series = z /\ m.bar.t = n
      BY <1>1, <1>3, <2>1, <2>2
    <2>4. /\ channel' = Append(channel, m) /\ closed' = [closed EXCEPT ![z] = n]
          /\ troubles' \in 0..MaxTroubles /\ UNCHANGED <<subscribed, managed, rings, missing>>
      BY <1>1, <1>2, <1>4, <2>1, <2>2 DEF BarCloses, Close, store
    <2> QED BY <2>1, <2>3, <2>4, PublishKeepsMarket
  <1>5. CASE BarAgain(z)
    <2>1. PICK n \in 0..MaxClosed : n = closed[z] /\ n \in 1..MaxClosed
      BY <1>1, <1>5 DEF BarAgain
    <2>2. PICK v \in 0..MaxTroubles : v = troubles + 1 /\ troubles' = v
      BY <1>1, <1>5 DEF BarAgain, Trouble
    <2>3. PICK m : m = [series |-> z, bar |-> [t |-> n, v |-> v]]
      OBVIOUS
    <2>4. m \in Message /\ m.series = z /\ m.bar.t = n
      BY <1>3, <2>1, <2>3
    <2>5. closed' = [closed EXCEPT ![z] = n]
      BY <1>1, <1>5, <2>1 DEF BarAgain
    <2>6. /\ channel' = Append(channel, m)
          /\ troubles' \in 0..MaxTroubles /\ UNCHANGED <<subscribed, managed, rings, missing>>
      BY <1>2, <1>5, <2>1, <2>2, <2>3 DEF BarAgain, store
    <2> QED BY <2>1, <2>4, <2>5, <2>6, PublishKeepsMarket
  <1>6. CASE BarForms(z)
    <2>1. UNCHANGED <<closed, channel, subscribed, managed, rings, missing, troubles>>
      BY <1>6 DEF BarForms, OnMessage, KlineCallback, ParseKline, store
    <2> QED BY <2>1 DEF MarketInv, MarketTyped
  <1>7. CASE BarLost(z)
    <2>1. PICK n \in 1..MaxClosed : n = closed[z] + 1
      BY <1>1, <1>7 DEF BarLost, Close
    <2>2. /\ closed' = [closed EXCEPT ![z] = n]
          /\ missing' = [missing EXCEPT ![z] = missing[z] \cup {n}]
          /\ troubles' \in 0..MaxTroubles /\ UNCHANGED <<channel, subscribed, managed, rings>>
      BY <1>1, <1>7, <2>1 DEF BarLost, Close, Trouble, store
    <2>3. MarketTyped'
      <3>1. closed' \in [Series -> 0..MaxClosed]
        BY <1>1, <2>2
      <3>2. missing' \in [Series -> SUBSET (1..MaxClosed)]
        BY <2>2 DEF MarketInv, MarketTyped
      <3> QED BY <2>2, <3>1, <3>2 DEF MarketInv, MarketTyped
    <2>4. ASSUME NEW s \in Series
          PROVE  SeriesOK(s, channel, closed'[s], GetAll(rings[s]), missing'[s])
      <3>1. SeriesOK(s, channel, closed[s], GetAll(rings[s]), missing[s])
        BY DEF MarketInv
      <3>2. CASE s = z
        <4>1. PICK c \in Nat : c = closed[z] /\ n = c + 1
          BY <1>1, <2>1
        <4>2. channel \in Seq(Message) /\ GetAll(rings[s]) \in Seq(AnyBar)
          BY WindowFields DEF MarketInv, MarketTyped
        <4>3. SeriesOK(s, channel, c + 1, GetAll(rings[s]), missing[s] \cup {c + 1})
          BY <3>1, <3>2, <4>1, <4>2, LossKeeps
        <4>4. closed'[s] = c + 1 /\ missing'[s] = missing[s] \cup {c + 1}
          BY <1>1, <2>2, <3>2, <4>1 DEF MarketInv, MarketTyped
        <4> QED BY <4>3, <4>4
      <3>3. CASE s # z
        <4>1. closed'[s] = closed[s] /\ missing'[s] = missing[s]
          BY <1>1, <2>2, <3>3 DEF MarketInv, MarketTyped
        <4> QED BY <3>1, <4>1
      <3> QED BY <3>2, <3>3
    <2> QED BY <2>2, <2>3, <2>4 DEF MarketInv
  <1> QED BY <1>4, <1>5, <1>6, <1>7

LEMMA TakeKeepsMarket == MarketInv /\ HandleKline => MarketInv'
  <1> SUFFICES ASSUME MarketInv, HandleKline PROVE MarketInv'
    OBVIOUS
  <1>1. PICK m \in Message : m = Head(channel)
    BY TailIs DEF HandleKline, MarketInv, MarketTyped
  <1>2. /\ channel # <<>> /\ channel' = Tail(channel) /\ channel \in Seq(Message)
        /\ m.series \in Series /\ m.bar \in Bars /\ m.bar.t \in 1..MaxClosed
        /\ UNCHANGED <<closed, troubles, subscribed, managed>>
    BY <1>1, MessageFields DEF HandleKline, MarketInv, MarketTyped, feed
  <1>3. /\ closed \in [Series -> 0..MaxClosed] /\ rings \in [Series -> Rings]
        /\ missing \in [Series -> SUBSET (1..MaxClosed)]
        /\ \A s \in Series : /\ RingOK(rings[s]) /\ closed[s] \in Nat
                             /\ GetAll(rings[s]) \in Seq(AnyBar)
                             /\ SeriesOK(s, channel, closed[s], GetAll(rings[s]), missing[s])
    BY FeedAssumption, WindowFields DEF MarketInv, MarketTyped
  <1>4. Tail(channel) \in Seq(Message)
    BY <1>2, TailIs
  <1>5. CASE m.series \in subscribed
    <2>1. rings' = [rings EXCEPT ![m.series] = Update(rings[m.series], m.bar)] /\ missing' = missing
      BY <1>1, <1>5 DEF HandleKline, Store
    <2>2. \A s \in Series : rings'[s] = IF s = m.series THEN Update(rings[s], m.bar) ELSE rings[s]
      BY <1>2, <1>3, <2>1
    <2>3. ASSUME NEW s \in Series
          PROVE  /\ RingOK(rings'[s])
                 /\ SeriesOK(s, Tail(channel), closed[s], GetAll(rings'[s]), missing[s])
      <3>1. CASE s = m.series
        <4>1. RingOK(rings'[s]) /\ GetAll(rings'[s]) = NewWindow(GetAll(rings[s]), m.bar)
          BY <1>2, <1>3, <2>2, <3>1, UpdateWindow
        <4>2. SeriesOK(s, Tail(channel), closed[s], NewWindow(GetAll(rings[s]), m.bar), missing[s])
          BY <1>1, <1>2, <1>3, <3>1, StoreKeeps
        <4> QED BY <4>1, <4>2
      <3>2. CASE s # m.series
        <4>1. SeriesOK(s, Tail(channel), closed[s], GetAll(rings[s]), missing[s])
          BY <1>1, <1>2, <1>3, <3>2, SkipKeeps
        <4> QED BY <1>3, <2>2, <3>2, <4>1
      <3> QED BY <3>1, <3>2
    <2>4. rings' \in [Series -> Rings]
      BY <1>3, <2>1, <2>3 DEF RingOK
    <2>5. MarketTyped'
      BY <1>2, <1>4, <2>1, <2>3, <2>4 DEF MarketInv, MarketTyped
    <2> QED BY <1>2, <2>1, <2>3, <2>5 DEF MarketInv
  <1>6. CASE m.series \notin subscribed
    <2>1. missing' = [missing EXCEPT ![m.series] = missing[m.series] \cup {m.bar.t}] /\ rings' = rings
      BY <1>1, <1>6 DEF HandleKline
    <2>2. /\ missing' \in [Series -> SUBSET (1..MaxClosed)]
          /\ \A s \in Series : missing'[s] = IF s = m.series THEN missing[s] \cup {m.bar.t} ELSE missing[s]
      BY <1>2, <1>3, <2>1
    <2>3. ASSUME NEW s \in Series
          PROVE  SeriesOK(s, Tail(channel), closed[s], GetAll(rings[s]), missing'[s])
      <3>1. /\ missing[s] \subseteq missing'[s]
            /\ Head(channel).series = s => Head(channel).bar.t \in missing'[s]
        BY <1>1, <2>2
      <3> QED BY <1>2, <1>3, <3>1, SkipKeeps
    <2>4. MarketTyped'
      BY <1>2, <1>4, <2>1, <2>2 DEF MarketInv, MarketTyped
    <2> QED BY <1>2, <2>1, <2>3, <2>4 DEF MarketInv
  <1> QED BY <1>5, <1>6

LEMMA SubscriptionsKeepMarket ==
  ASSUME MarketInv, NEW s \in Series, SubscribeKline(s) \/ UnsubscribeKline(s)
  PROVE  MarketInv'
  <1>1. UNCHANGED <<closed, channel, rings, missing, troubles>>
    BY DEF SubscribeKline, UnsubscribeKline, feed, store
  <1>2. subscribed' \subseteq managed' /\ managed' \subseteq Series
    BY DEF SubscribeKline, UnsubscribeKline, store, MarketInv, MarketTyped
  <1> QED BY <1>1, <1>2 DEF MarketInv, MarketTyped

LEMMA MarketStands == MarketInv /\ UNCHANGED marketVars => MarketInv'
  BY DEF MarketInv, MarketTyped, marketVars, feed, store

LEMMA StepKeepsMarket == MarketInv /\ [Next]_vars => MarketInv'
  <1> SUFFICES ASSUME MarketInv, [Next]_vars PROVE MarketInv'
    OBVIOUS
  <1>1. CASE MarketMoves
    BY <1>1, ExchangeKeepsMarket DEF MarketMoves
  <1>2. CASE TakeMarketData
    BY <1>2, TakeKeepsMarket DEF TakeMarketData
  <1>3. ASSUME NEW s \in Series, CallMarket(s) PROVE MarketInv'
    BY <1>3, SubscriptionsKeepMarket DEF CallMarket
  <1>4. CASE UNCHANGED marketVars
    BY <1>4, MarketStands
  <1>5. \/ MarketMoves \/ TakeMarketData \/ \E s \in Series : CallMarket(s)
        \/ UNCHANGED marketVars
    BY DEF Next, vars, TimePasses, Loop, MarketDataTaken, Collect, Begin, RoundEnds, TickReturns,
       TaskReturns, LoopEnds, TaskFails, BaseCall, Poll, Schedule, ScheduleTask, UnscheduleTask,
       EnableTask
  <1> QED BY <1>1, <1>2, <1>3, <1>4, <1>5

LEMMA MarketAlways == Spec => []MarketInv
  <1>1. Init => MarketInv
    BY MarketStarts DEF Init
  <1> QED BY <1>1, StepKeepsMarket, PTL DEF Spec

LEMMA HolesAre == MarketInv => HolesExplained
  <1> SUFFICES ASSUME MarketInv, NEW s \in Series, NEW i \in 1..(Len(GetKlines(s)) - 1)
               PROVE  /\ GetKlines(s)[i].t < GetKlines(s)[i + 1].t
                      /\ (GetKlines(s)[i].t + 1)..(GetKlines(s)[i + 1].t - 1) \subseteq missing[s]
    BY DEF HolesExplained
  <1>1. s \in managed
    BY DEF GetKlines
  <1>2. GetKlines(s) = GetAll(rings[s])
    BY <1>1 DEF GetKlines
  <1>3. Step(GetAll(rings[s])[i], GetAll(rings[s])[i + 1], missing[s])
    BY <1>2 DEF MarketInv, SeriesOK, WindowWhole
  <1> QED BY <1>2, <1>3 DEF Step

LEMMA ClosedAre == MarketInv => OnlyClosedBars
  <1> SUFFICES ASSUME MarketInv, NEW s \in Series, NEW i \in DOMAIN GetKlines(s)
               PROVE  GetKlines(s)[i].t <= closed[s]
    BY DEF OnlyClosedBars
  <1>1. s \in managed /\ GetKlines(s) = GetAll(rings[s])
    BY DEF GetKlines
  <1>2. GetAll(rings[s]) \in Seq(AnyBar)
    BY WindowFields DEF MarketInv, MarketTyped
  <1>3. i \in 1..Len(GetAll(rings[s]))
    BY <1>1, <1>2
  <1> QED BY <1>1, <1>3 DEF MarketInv, SeriesOK, WindowWhole

LEMMA NothingIsSuffix == IsSuffix(<<>>, <<>>)
  <1>1. Len(<<>>) = 0
    OBVIOUS
  <1>2. Reverse(<<>>) = <<>>
    BY <1>1 DEF Reverse
  <1> QED BY <1>1, <1>2 DEF IsSuffix, IsPrefix

LEMMA GettersAre == MarketInv => GettersAgree
  <1> SUFFICES ASSUME MarketInv, NEW s \in Series
               PROVE  /\ \A n \in 1..(MaxKlineBars + 1) :
                           /\ IsSuffix(GetRecentKlines(s, n), GetKlines(s))
                           /\ Len(GetRecentKlines(s, n)) = Min({n, Len(GetKlines(s))})
                      /\ GetColumn(s) = [i \in DOMAIN GetKlines(s) |-> GetKlines(s)[i].t]
    BY DEF GettersAgree
  <1>1. \A n \in 1..(MaxKlineBars + 1) : n \in Nat
    BY RingAssumption
  <1>2. CASE s \in managed
    <2>1. rings[s] \in Rings
      BY DEF MarketInv, MarketTyped
    <2>2. GetKlines(s) = GetAll(rings[s]) /\ GetColumn(s) = GetTimestamps(rings[s])
          /\ \A n : GetRecentKlines(s, n) = GetRecent(rings[s], n)
      BY <1>2 DEF GetKlines, GetColumn, GetRecentKlines
    <2>3. \A n \in Nat : /\ IsSuffix(GetRecent(rings[s], n), GetAll(rings[s]))
                         /\ Len(GetRecent(rings[s], n)) = Min({n, Len(GetAll(rings[s]))})
      BY <2>1, RecentIs
    <2>4. GetTimestamps(rings[s]) = [i \in DOMAIN GetAll(rings[s]) |-> GetAll(rings[s])[i].t]
      BY <2>1, ColumnIs
    <2> QED BY <1>1, <2>2, <2>3, <2>4
  <1>3. CASE s \notin managed
    <2>1. GetKlines(s) = <<>> /\ GetColumn(s) = <<>> /\ \A n : GetRecentKlines(s, n) = <<>>
      BY <1>3 DEF GetKlines, GetColumn, GetRecentKlines
    <2>2. IsSuffix(<<>>, <<>>)
      BY NothingIsSuffix
    <2>3. \A n \in Nat : Min({n, 0}) = 0
      BY MinOfTwo
    <2>4. <<>> = [i \in DOMAIN <<>> |-> <<>>[i].t]
      OBVIOUS
    <2> QED BY <1>1, <2>1, <2>2, <2>3, <2>4
  <1> QED BY <1>2, <1>3

(* What a strategy reads of a series is what came of it: the bars ascend,  *)
(* a timestamp between two of them is absent only when the feed lost that  *)
(* bar or the strategy was not subscribed, none is of a bar that is still  *)
(* forming, and the getters of KlineBuffer agree, for every capacity and   *)
(* however often the ring has wrapped.                                     *)
THEOREM ReadsTrue == Spec => []ReadsExplained
  <1>1. MarketInv => ReadsExplained
    BY HolesAre, ClosedAre, GettersAre DEF ReadsExplained
  <1> QED BY <1>1, MarketAlways, PTL

(* A step of the window of the newest bars.                                *)
LEMMA WindowStep ==
  ASSUME NEW s \in Series, NEW bar \in Bars, RingOK(rings[s]),
         GetAll(rings'[s]) = NewWindow(GetAll(rings[s]), bar)
  PROVE  Window(s)!Next
  <1> PICK w : w = GetAll(rings[s])
    OBVIOUS
  <1>1. w \in Seq(AnyBar) /\ Len(w) <= MaxKlineBars /\ MaxKlineBars \in Nat \ {0}
    BY WindowFields, RingFields DEF RingOK
  <1>2. CASE w # <<>> /\ w[Len(w)].t = bar.t
    <2>1. Window(s)!Amend(bar)
      BY <1>2 DEF Window!Amend, NewWindow
    <2> QED BY <2>1 DEF Window!Next
  <1>3. CASE w # <<>> => w[Len(w)].t # bar.t
    <2>1. Len(Append(w, bar)) = Len(w) + 1 /\ Len(w) \in Nat
      BY <1>1
    <2>2. w = <<>> => Append(w, bar) = <<bar>> /\ Len(w) = 0
      OBVIOUS
    <2>3. PICK n \in Nat, N \in Nat \ {0} : n = Len(w) /\ N = MaxKlineBars
      BY <1>1, <2>1
    <2>4. NewWindow(w, bar) = IF n < N THEN Append(w, bar) ELSE Tail(Append(w, bar))
      <3>1. CASE n < N
        <4>1. Len(w) < MaxKlineBars
          BY <2>3, <3>1
        <4>2. NewWindow(w, bar) = Append(w, bar)
          BY <1>3, <2>2, <4>1 DEF NewWindow
        <4> QED BY <3>1, <4>2
      <3>2. CASE ~(n < N)
        <4>1. ~(Len(w) < MaxKlineBars) /\ w # <<>>
          BY <2>2, <2>3, <3>2
        <4> QED BY <1>3, <3>2, <4>1 DEF NewWindow
      <3> QED BY <3>1, <3>2
    <2>5. Window(s)!Newest(Append(w, bar)) = IF n + 1 > N THEN Tail(Append(w, bar)) ELSE Append(w, bar)
      BY <2>1, <2>3 DEF Window!Newest
    <2>6. n < N <=> ~(n + 1 > N)
      BY <2>3
    <2>7. NewWindow(w, bar) = Window(s)!Newest(Append(w, bar))
      BY <2>4, <2>5, <2>6
    <2>8. Window(s)!Add(bar)
      BY <1>3, <2>7 DEF Window!Add
    <2> QED BY <2>8 DEF Window!Next
  <1> QED BY <1>2, <1>3

LEMMA StepMovesWindows ==
  ASSUME MarketInv, [Next]_vars, NEW s \in Series
  PROVE  Window(s)!Next \/ GetAll(rings'[s]) = GetAll(rings[s])
  <1>1. CASE TakeMarketData
    <2>1. PICK m \in Message : m = Head(channel)
      BY <1>1, TailIs DEF TakeMarketData, HandleKline, MarketInv, MarketTyped
    <2>2. m.bar \in Bars /\ m.series \in Series
      BY MessageFields
    <2>3. rings \in [Series -> Rings] /\ RingOK(rings[s])
      BY DEF MarketInv, MarketTyped
    <2>4. CASE m.series = s /\ s \in subscribed
      <3>1. rings' = [rings EXCEPT ![s] = Update(rings[s], m.bar)]
        BY <1>1, <2>1, <2>4 DEF TakeMarketData, HandleKline, Store
      <3>2. rings'[s] = Update(rings[s], m.bar)
        BY <2>3, <3>1
      <3>3. GetAll(rings'[s]) = NewWindow(GetAll(rings[s]), m.bar)
        BY <2>2, <2>3, <3>2, UpdateWindow
      <3> QED BY <2>2, <2>3, <3>3, WindowStep
    <2>5. CASE ~(m.series = s /\ s \in subscribed)
      <3>1. rings'[s] = rings[s]
        BY <1>1, <2>1, <2>2, <2>3, <2>5 DEF TakeMarketData, HandleKline, Store
      <3> QED BY <3>1
    <2> QED BY <2>4, <2>5
  <1>2. CASE UNCHANGED rings
    BY <1>2
  <1>3. TakeMarketData \/ UNCHANGED rings
    BY DEF Next, vars, TimePasses, Loop, MarketDataTaken, Collect, Begin, RoundEnds, TickReturns,
       TaskReturns, LoopEnds, TaskFails, BaseCall, Poll, Schedule, ScheduleTask, UnscheduleTask,
       EnableTask, CallMarket, SubscribeKline, UnsubscribeKline, MarketMoves, Exchange, BarCloses,
       BarForms, BarLost, BarAgain, marketVars, store
  <1> QED BY <1>1, <1>2, <1>3

(* Every ring buffer (head, size and slots) implements the window of the   *)
(* newest bars (KlineWindow): it starts empty, and each step of the loop   *)
(* amends its last bar, adds one and drops the oldest of a full window, or *)
(* leaves it alone.                                                        *)
THEOREM RingsAreWindows == Spec => WindowKept
  <1>1. Init => \A s \in Series : Window(s)!Init
    BY EmptyWindow DEF Init, MarketInit, Window!Init
  <1>2. MarketInv /\ [Next]_vars =>
          [\A s \in Series : [Window(s)!Next]_(GetAll(rings[s]))]_marketVars
    <2> SUFFICES ASSUME MarketInv, [Next]_vars, NEW s \in Series
                 PROVE  [Window(s)!Next]_(GetAll(rings[s]))
      OBVIOUS
    <2> QED BY StepMovesWindows
  <1> QED BY <1>1, <1>2, MarketAlways, PTL DEF Spec, WindowKept
-----------------------------------------------------------------------------
(* The scheduled tasks.                                                    *)

(* An entry e of a method scheduled at s, at the time t: the interval      *)
(* before the next run comes on top of those before the runs there were,   *)
(* and once there was a run the next is no more than an interval away.     *)
Paced(e, s, t) ==
  /\ e.interval # 0 /\ s + e.count * e.interval <= e.next
  /\ e.count # 0 => e.next <= t + e.interval

TasksTyped ==
  /\ now \in Nat /\ tasks \in [Names -> Entries] /\ since \in [Methods -> Nat]

RateInv ==
  /\ TasksTyped
  /\ \A f \in Methods : since[f] <= now
  /\ \A f \in Methods : tasks[f].fn = f => Paced(tasks[f], since[f], now)

LEMMA IntervalsAre == Intervals \cup {0} \subseteq Nat /\ Intervals \subseteq Nat \ {0}
  <1>1. Intervals \subseteq Nat \ {0}
    BY TaskAssumption, Zenon
  <1> QED BY <1>1

LEMMA EntryFields ==
  ASSUME NEW e \in Entries
  PROVE  e.interval \in Nat /\ e.next \in Nat /\ e.count \in Nat /\ e.fn \in Names
  BY IntervalsAre DEF Entries

LEMMA NamesAre ==
  /\ Methods \subseteq Names /\ NoName \in Names /\ NoName \notin Methods
  /\ NoEntry \in Entries /\ DefaultEntry \in Entries
  /\ NoEntry.fn = NoName /\ DefaultEntry.fn = NoName
  <1>1. Methods \subseteq Names /\ NoName \in Names /\ NoName \notin Methods
    BY TaskAssumption DEF Names, Methods, NoName
  <1>2. NoEntry \in Entries /\ DefaultEntry \in Entries
    BY <1>1 DEF NoEntry, DefaultEntry, Entries
  <1> QED BY <1>1, <1>2 DEF NoEntry, DefaultEntry

LEMMA QuotientIs ==
  ASSUME NEW i \in Nat \ {0}, NEW n \in Nat, NEW k \in Nat, k * i <= n
  PROVE  k <= n \div i
  BY SMTT(20)

(* n runs lie n - 1 intervals apart.                                       *)
LEMMA PacedRuns ==
  ASSUME NEW e \in Entries, NEW s \in Nat, NEW t \in Nat, s <= t, Paced(e, s, t)
  PROVE  e.count <= 1 + (t - s) \div e.interval
  <1> PICK i \in Nat \ {0} : i = e.interval
    BY EntryFields DEF Paced
  <1> PICK k \in Nat, x \in Nat : k = e.count /\ x = e.next
    BY EntryFields
  <1> PICK n \in Nat : n = t - s
    OBVIOUS
  <1>1. n \div i \in Nat
    OBVIOUS
  <1>2. CASE k = 0
    BY <1>1, <1>2
  <1>3. CASE k # 0
    <2>1. PICK j \in Nat : j = k - 1 /\ k = j + 1
      BY <1>3
    <2>2. s + k * i <= t + i
      BY <1>3 DEF Paced
    <2>3. k * i = j * i + i
      BY <2>1
    <2>4. j * i \in Nat /\ k * i \in Nat
      OBVIOUS
    <2>5. j * i <= n
      BY <2>2, <2>3, <2>4
    <2>6. j <= n \div i
      BY <2>5, QuotientIs
    <2> QED BY <1>1, <2>1, <2>6
  <1> QED BY <1>2, <1>3

(* A collected task is marked: it was due, and is one interval from now.   *)
LEMMA MarkedPaced ==
  ASSUME NEW e \in Entries, NEW s \in Nat, NEW t \in Nat, s <= t, Paced(e, s, t), e.next <= t,
         NEW d \in Entries, d.interval = e.interval, d.next = t + e.interval,
         d.count = e.count + 1
  PROVE  Paced(d, s, t)
  <1> PICK i \in Nat \ {0}, k \in Nat, x \in Nat : i = e.interval /\ k = e.count /\ x = e.next
    BY EntryFields DEF Paced
  <1>1. s + k * i <= x /\ x <= t /\ k * i \in Nat
    BY DEF Paced
  <1>2. (k + 1) * i = k * i + i
    OBVIOUS
  <1>3. s + (k + 1) * i <= t + i
    BY <1>1, <1>2
  <1> QED BY <1>3 DEF Paced

LEMMA CollectKeepsRate == RateInv /\ Collect => RateInv'
  <1> SUFFICES ASSUME RateInv, Collect PROVE RateInv'
    OBVIOUS
  <1>1. UNCHANGED <<now, since>>
    BY DEF Collect
  <1>2. \A n \in Names : tasks[n] \in Entries
    BY DEF RateInv, TasksTyped
  <1>3. ASSUME NEW n \in Names
        PROVE  /\ Marked(n) \in Entries /\ Marked(n).fn = tasks[n].fn
               /\ Marked(n).interval = tasks[n].interval
               /\ Marked(n).next = now + tasks[n].interval
               /\ Marked(n).count = Counted(n)
    <2>1. PICK c \in Nat : c = Counted(n)
      BY <1>2, EntryFields DEF Counted
    <2>2. PICK y \in Nat : y = now + tasks[n].interval
      BY <1>2, EntryFields DEF RateInv, TasksTyped
    <2>3. Marked(n) = [tasks[n] EXCEPT !.next = y, !.count = c]
      BY <2>1, <2>2 DEF Marked
    <2> PICK e \in Entries : e = tasks[n]
      BY <1>2
    <2> PICK d : d = Marked(n)
      OBVIOUS
    <2>4. d = [e EXCEPT !.next = y, !.count = c]
      BY <2>3, Zenon
    <2>5. /\ d \in Entries /\ d.fn = e.fn /\ d.interval = e.interval
          /\ d.next = y /\ d.count = c
      BY <2>4 DEF Entries
    <2> QED BY <2>1, <2>2, <2>5
  <1>4. \A n \in Names : tasks'[n] = IF Due(n) THEN Marked(n) ELSE tasks[n]
    BY DEF Collect
  <1>5. tasks' \in [Names -> Entries]
    <2>1. tasks' = [n \in Names |-> IF Due(n) THEN Marked(n) ELSE tasks[n]]
      BY DEF Collect
    <2> QED BY <1>2, <1>3, <2>1
  <1>6. ASSUME NEW f \in Methods, tasks'[f].fn = f PROVE Paced(tasks'[f], since[f], now)
    <2>1. f \in Names /\ tasks[f] \in Entries /\ since[f] \in Nat /\ since[f] <= now /\ now \in Nat
      BY <1>2, NamesAre DEF RateInv, TasksTyped
    <2>2. tasks[f].fn = f
      BY <1>3, <1>4, <1>6, <2>1
    <2>3. Paced(tasks[f], since[f], now)
      BY <2>2 DEF RateInv
    <2>4. CASE Due(f)
      <3>1. tasks'[f] = Marked(f)
        BY <1>4, <2>1, <2>4
      <3>2. tasks[f].next <= now
        BY <2>1, <2>4, EntryFields DEF Due
      <3>3. Counted(f) = tasks[f].count + 1
        BY <2>2 DEF Counted
      <3> QED BY <1>3, <2>1, <2>3, <3>1, <3>2, <3>3, MarkedPaced
    <2>5. CASE ~Due(f)
      BY <1>4, <2>1, <2>3, <2>5
    <2> QED BY <2>4, <2>5
  <1>7. RateInv'
    BY <1>1, <1>5, <1>6 DEF RateInv, TasksTyped
  <1> QED BY <1>7

(* The calls of the strategy's code replace one entry.                     *)
LEMMA EntryKeepsRate ==
  ASSUME RateInv, NEW n \in Names, NEW e \in Entries, UNCHANGED now,
         tasks' = [tasks EXCEPT ![n] = e], since' \in [Methods -> Nat],
         \A f \in Methods : since'[f] <= now,
         \A f \in Methods : f # n => since'[f] = since[f],
         e.fn = n => Paced(e, since'[n], now)
  PROVE  RateInv'
  <1>1. tasks' \in [Names -> Entries]
    BY DEF RateInv, TasksTyped
  <1>2. \A m \in Names : tasks'[m] = IF m = n THEN e ELSE tasks[m]
    BY DEF RateInv, TasksTyped
  <1>3. ASSUME NEW f \in Methods, tasks'[f].fn = f PROVE Paced(tasks'[f], since'[f], now)
    <2>1. f \in Names
      BY NamesAre
    <2>2. CASE f = n
      BY <1>2, <1>3, <2>1, <2>2
    <2>3. CASE f # n
      BY <1>2, <1>3, <2>1, <2>3 DEF RateInv
    <2> QED BY <2>2, <2>3
  <1> QED BY <1>1, <1>3 DEF RateInv, TasksTyped

LEMMA BeginKeepsRate == RateInv /\ Begin => RateInv'
  <1> SUFFICES ASSUME RateInv, Begin PROVE RateInv'
    OBVIOUS
  <1> PICK n : n = Head(stack[1].left)
    OBVIOUS
  <1>1. UNCHANGED <<now, since>> /\ tasks' = LookedUp(n)
    BY DEF Begin
  <1>2. tasks \in [Names -> Entries]
    BY DEF RateInv, TasksTyped
  <1>3. CASE n \in Names /\ ~Scheduled(n)
    <2>1. tasks' = [tasks EXCEPT ![n] = DefaultEntry]
      BY <1>1, <1>3 DEF LookedUp
    <2>2. /\ since' \in [Methods -> Nat] /\ \A f \in Methods : since'[f] <= now
          /\ \A f \in Methods : f # n => since'[f] = since[f]
      BY <1>1 DEF RateInv, TasksTyped
    <2>3. DefaultEntry \in Entries /\ (n \in Methods => DefaultEntry.fn # n)
      BY NamesAre
    <2>4. \A m \in Names : tasks'[m] = IF m = n THEN DefaultEntry ELSE tasks[m]
      BY <1>2, <2>1
    <2>5. tasks' \in [Names -> Entries]
      BY <1>2, <2>1, <2>3
    <2>6. ASSUME NEW f \in Methods, tasks'[f].fn = f PROVE Paced(tasks'[f], since[f], now)
      <3>1. f \in Names /\ f # n
        BY <2>3, <2>4, <2>6, NamesAre
      <3> QED BY <2>4, <2>6, <3>1 DEF RateInv
    <2> QED BY <1>1, <2>2, <2>5, <2>6 DEF RateInv, TasksTyped
  <1>4. CASE n \notin Names \/ Scheduled(n)
    <2>1. tasks' = tasks
      BY <1>1, <1>2, <1>4 DEF LookedUp
    <2> QED BY <1>1, <2>1 DEF RateInv, TasksTyped
  <1> QED BY <1>3, <1>4

(* What was scheduled starts now or, at a time of day, later.              *)
LEMMA FirstRunIs ==
  ASSUME TasksTyped, NEW start \in Nat, NEW i \in Nat \ {0}
  PROVE  FirstRun(start, i) \in Nat /\ now <= FirstRun(start, i)
  <1> PICK t \in Nat : t = now
    BY DEF TasksTyped
  <1>1. CASE start > t
    BY <1>1 DEF FirstRun
  <1>2. CASE ~(start > t)
    <2>1. PICK n \in Nat : n = t - start /\ start + n = t
      BY <1>2
    <2>2. PICK q \in Nat : q = n \div i
      OBVIOUS
    <2>3. n < (q + 1) * i /\ (q + 1) * i \in Nat
      BY <2>2, SMTT(20)
    <2>4. FirstRun(start, i) = start + (q + 1) * i
      BY <1>2, <2>1, <2>2 DEF FirstRun
    <2> QED BY <2>1, <2>3, <2>4
  <1> QED BY <1>1, <1>2

LEMMA ScheduleKeepsRate == RateInv /\ Schedule => RateInv'
  <1> SUFFICES ASSUME RateInv, NEW f \in Methods, NEW i \in Intervals,
                      NEW first \in {now} \cup {FirstRun(start, i) : start \in 0..MaxTime},
                      ScheduleTask(f, i, first)
               PROVE  RateInv'
    BY DEF Schedule
  <1>1. i \in Nat \ {0} /\ MaxTime \in Nat /\ now \in Nat /\ f \in Names
    BY TaskAssumption, IntervalsAre, NamesAre DEF RateInv, TasksTyped
  <1>2. first \in Nat /\ now <= first
    <2>1. CASE first = now
      BY <1>1, <2>1
    <2>2. CASE first # now
      <3>1. PICK start \in 0..MaxTime : first = FirstRun(start, i)
        BY <2>2
      <3>2. start \in Nat
        BY <1>1
      <3> QED BY <1>1, <3>1, <3>2, FirstRunIs DEF RateInv
    <2> QED BY <2>1, <2>2
  <1> PICK e : e = [fn |-> f, interval |-> i, next |-> first, enabled |-> TRUE, count |-> 0]
    OBVIOUS
  <1>3. e \in Entries
    BY <1>1, <1>2 DEF Entries
  <1>4. since' = [since EXCEPT ![f] = now] /\ since \in [Methods -> Nat]
    BY DEF ScheduleTask, RateInv, TasksTyped
  <1>5. /\ since' \in [Methods -> Nat]
        /\ \A g \in Methods : since'[g] = IF g = f THEN now ELSE since[g]
    BY <1>1, <1>4
  <1>6. \A g \in Methods : since'[g] <= now
    BY <1>1, <1>5 DEF RateInv
  <1>7. Paced(e, since'[f], now)
    BY <1>1, <1>2, <1>5 DEF Paced
  <1>8. UNCHANGED now /\ tasks' = [tasks EXCEPT ![f] = e]
    BY DEF ScheduleTask
  <1> QED BY <1>1, <1>3, <1>5, <1>6, <1>7, <1>8, EntryKeepsRate

LEMMA UnscheduleKeepsRate ==
  ASSUME RateInv, NEW f \in Methods, UnscheduleTask(f)
  PROVE  RateInv'
  <1>1. /\ UNCHANGED <<now, since>> /\ tasks' = [tasks EXCEPT ![f] = NoEntry]
        /\ f \in Names /\ NoEntry \in Entries /\ NoEntry.fn # f
    BY NamesAre DEF UnscheduleTask
  <1>2. since' \in [Methods -> Nat] /\ \A g \in Methods : since'[g] <= now /\ since'[g] = since[g]
    BY <1>1 DEF RateInv, TasksTyped
  <1> QED BY <1>1, <1>2, EntryKeepsRate

LEMMA EnableKeepsRate ==
  ASSUME RateInv, NEW f \in Methods, NEW on \in BOOLEAN, EnableTask(f, on)
  PROVE  RateInv'
  <1>1. f \in Names /\ tasks \in [Names -> Entries] /\ tasks[f] \in Entries
    BY NamesAre DEF RateInv, TasksTyped
  <1>2. UNCHANGED <<now, since>> /\ tasks' = [tasks EXCEPT ![f].enabled = on]
    BY DEF EnableTask
  <1>3. PICK fn \in Names, i \in Intervals \cup {0}, x \in Nat, was \in BOOLEAN, k \in Nat :
          tasks[f] = [fn |-> fn, interval |-> i, next |-> x, enabled |-> was, count |-> k]
    BY <1>1 DEF Entries
  <1> PICK e : e = [fn |-> fn, interval |-> i, next |-> x, enabled |-> on, count |-> k]
    OBVIOUS
  <1>4. e \in Entries /\ tasks' = [tasks EXCEPT ![f] = e]
    <2>1. e \in Entries
      BY DEF Entries
    <2>2. [tasks[f] EXCEPT !.enabled = on] = e
      BY <1>3
    <2>3. tasks' = [tasks EXCEPT ![f] = [tasks[f] EXCEPT !.enabled = on]]
      BY <1>2
    <2> QED BY <2>1, <2>2, <2>3
  <1>5. since' \in [Methods -> Nat] /\ \A g \in Methods : since'[g] <= now /\ since'[g] = since[g]
    BY <1>2 DEF RateInv, TasksTyped
  <1>6. e.fn = f => Paced(e, since'[f], now)
    <2>1. tasks[f].fn = f => Paced(tasks[f], since[f], now)
      BY DEF RateInv
    <2> QED BY <1>2, <1>3, <2>1 DEF Paced
  <1> QED BY <1>1, <1>2, <1>4, <1>5, <1>6, EntryKeepsRate

LEMMA TimeKeepsRate == RateInv /\ TimePasses => RateInv'
  <1> SUFFICES ASSUME RateInv, TimePasses PROVE RateInv'
    OBVIOUS
  <1>1. now \in Nat /\ now' = now + 1 /\ UNCHANGED <<tasks, since>>
    BY DEF TimePasses, RateInv, TasksTyped
  <1>2. ASSUME NEW f \in Methods
        PROVE  since[f] <= now' /\ (tasks[f].fn = f => Paced(tasks[f], since[f], now'))
    <2>1. f \in Names /\ tasks[f] \in Entries /\ since[f] \in Nat /\ since[f] <= now
      BY NamesAre DEF RateInv, TasksTyped
    <2>2. PICK i \in Nat, x \in Nat : i = tasks[f].interval /\ x = tasks[f].next
      BY <2>1, EntryFields
    <2>3. x <= now + i => x <= now' + i
      BY <1>1
    <2>4. tasks[f].fn = f => Paced(tasks[f], since[f], now)
      BY DEF RateInv
    <2> QED BY <1>1, <2>1, <2>2, <2>3, <2>4 DEF Paced
  <1> QED BY <1>1, <1>2 DEF RateInv, TasksTyped

LEMMA StepKeepsRate == RateInv /\ [Next]_vars => RateInv'
  <1> SUFFICES ASSUME RateInv, [Next]_vars PROVE RateInv'
    OBVIOUS
  <1>1. CASE UNCHANGED <<now, tasks, since>>
    BY <1>1 DEF RateInv, TasksTyped
  <1>2. ASSUME NEW f \in Methods,
               UnscheduleTask(f) \/ EnableTask(f, TRUE) \/ EnableTask(f, FALSE)
        PROVE  RateInv'
    BY <1>2, UnscheduleKeepsRate, EnableKeepsRate
  <1>3. \/ TimePasses \/ Collect \/ Begin \/ Schedule
        \/ \E f \in Methods : UnscheduleTask(f) \/ EnableTask(f, TRUE) \/ EnableTask(f, FALSE)
        \/ UNCHANGED <<now, tasks, since>>
    BY DEF Next, vars, MarketMoves, Loop, TakeMarketData, MarketDataTaken, RoundEnds, TickReturns,
       TaskReturns, LoopEnds, TaskFails, BaseCall, Poll, CallMarket
  <1> QED BY <1>1, <1>2, <1>3, TimeKeepsRate, CollectKeepsRate, BeginKeepsRate, ScheduleKeepsRate

LEMMA RateStarts == Init => RateInv
  <1> SUFFICES ASSUME Init PROVE RateInv
    OBVIOUS
  <1>1. now = 0 /\ tasks = [n \in Names |-> NoEntry] /\ since = [f \in Methods |-> 0]
    BY DEF Init
  <1>2. TasksTyped
    BY <1>1, NamesAre DEF TasksTyped
  <1>3. \A f \in Methods : tasks[f].fn # f /\ since[f] <= now
    BY <1>1, NamesAre
  <1> QED BY <1>2, <1>3 DEF RateInv

(* A task runs no more often than its interval says, for every task table, *)
(* clock and nesting of polls: a run is counted and the next one put off   *)
(* under the same lock that finds the task due, so neither a slow task nor *)
(* a poll from inside one makes a second run of it.                        *)
THEOREM RatesKept == Spec => []RateKept
  <1>1. Init => RateInv
    BY RateStarts
  <1>2. RateInv => RateKept
    <2> SUFFICES ASSUME RateInv, NEW f \in Methods, tasks[f].fn = f
                 PROVE  tasks[f].count <= 1 + (now - since[f]) \div tasks[f].interval
      BY DEF RateKept
    <2>1. tasks[f] \in Entries /\ since[f] \in Nat /\ now \in Nat
      BY NamesAre DEF RateInv, TasksTyped
    <2> QED BY <2>1, PacedRuns DEF RateInv
  <1> QED BY <1>1, <1>2, StepKeepsRate, PTL DEF Spec

-----------------------------------------------------------------------------
(* What is collected. DueTasks is a recursive function; that there is one  *)
(* is shown for each length of the table in turn, by the least length for  *)
(* which there would be none.                                              *)

IsDue(g, n) ==
  g = [i \in 0..n |-> IF i = 0 THEN <<>>
                      ELSE IF Due(TableOrder[i]) THEN Append(g[i - 1], tasks[TableOrder[i]].fn)
                      ELSE g[i - 1]]

LEMMA LeastOf ==
  ASSUME NEW T, T \subseteq Nat, T # {}
  PROVE  \E n \in T : \A k \in T : n <= k
  <1>1. PICK n \in T : \A k \in T : ~(<<k, n>> \in OpToRel(<, Nat))
    BY NatLessThanWellFounded, WFMin
  <1>2. \A k \in T : ~(k < n)
    BY <1>1 DEF OpToRel
  <1> QED BY <1>2

LEMMA DueExists ==
  ASSUME NEW m \in Nat
  PROVE  \E g : IsDue(g, m)
  <1>1. \E g : IsDue(g, 0)
    <2> DEFINE g == [i \in 0..0 |-> <<>>]
    <2>1. IsDue(g, 0)
      BY DEF IsDue
    <2> QED BY <2>1
  <1>2. ASSUME NEW n \in Nat, NEW g, IsDue(g, n) PROVE \E h : IsDue(h, n + 1)
    <2> DEFINE F(f, i) == IF i = 0 THEN <<>>
                          ELSE IF Due(TableOrder[i]) THEN Append(f[i - 1], tasks[TableOrder[i]].fn)
                          ELSE f[i - 1]
               h == [i \in 0..(n + 1) |-> F(g, i)]
    <2>1. \A i \in 0..n : i \in 0..(n + 1)
      OBVIOUS
    <2>2. \A i \in 0..n : g[i] = F(g, i)
      BY <1>2 DEF IsDue
    <2>3. \A i \in 0..n : h[i] = g[i]
      BY <2>1, <2>2
    <2>4. \A i \in 0..(n + 1) : i # 0 => i - 1 \in 0..n
      OBVIOUS
    <2>5. \A i \in 0..(n + 1) : F(g, i) = F(h, i)
      <3> HIDE DEF h
      <3> QED BY <2>3, <2>4
    <2>6. h = [i \in 0..(n + 1) |-> F(h, i)]
      BY <2>5
    <2> QED BY <2>6 DEF IsDue
  <1> DEFINE Undefined == {n \in Nat : ~ \E g : IsDue(g, n)}
  <1>3. Undefined = {}
    <2> SUFFICES ASSUME Undefined # {} PROVE FALSE
      OBVIOUS
    <2>1. Undefined \subseteq Nat
      OBVIOUS
    <2> HIDE DEF Undefined
    <2>2. PICK n \in Undefined : \A k \in Undefined : n <= k
      BY <2>1, LeastOf
    <2>3. n \in Nat /\ n # 0
      BY <1>1, <2>1, <2>2 DEF Undefined
    <2>4. n - 1 \in Nat /\ n - 1 \notin Undefined /\ n = (n - 1) + 1
      BY <2>2, <2>3
    <2>5. \E g : IsDue(g, n - 1)
      BY <2>4 DEF Undefined
    <2>6. \E h : IsDue(h, n)
      BY <1>2, <2>4, <2>5
    <2> QED BY <2>2, <2>6 DEF Undefined
  <1> QED BY <1>3

LEMMA TableFields ==
  /\ TableOrder \in Seq(Names) /\ Len(TableOrder) \in Nat
  /\ \A f \in Methods : \E i \in 1..Len(TableOrder) : TableOrder[i] = f
  <1>1. TaskOrder \in Seq(Names)
    <2>1. TaskOrder \in Seq(STRING)
      BY TaskAssumption, Zenon
    <2>2. Len(TaskOrder) \in Nat /\ TaskOrder \in [1..Len(TaskOrder) -> STRING]
      BY <2>1
    <2>3. \A i \in 1..Len(TaskOrder) : TaskOrder[i] \in Names
      BY <2>2 DEF Names, Methods
    <2>4. TaskOrder \in [1..Len(TaskOrder) -> Names]
      BY <2>2, <2>3
    <2> QED BY <2>2, <2>4, FunctionIsSeq
  <1>2. <<NoName>> \in Seq(Names)
    BY NamesAre
  <1>3. TableOrder \in Seq(Names) /\ Len(TableOrder) = Len(TaskOrder) + 1
    BY <1>1, <1>2 DEF TableOrder
  <1>4. ASSUME NEW f \in Methods PROVE \E i \in 1..Len(TableOrder) : TableOrder[i] = f
    <2>1. PICK i \in 1..Len(TaskOrder) : TaskOrder[i] = f
      BY <1>1 DEF Methods
    <2>2. i + 1 \in 1..Len(TableOrder) /\ TableOrder[i + 1] = f
      BY <1>1, <1>2, <1>3, <2>1 DEF TableOrder
    <2> QED BY <2>2
  <1> QED BY <1>3, <1>4

(* Functions of tasks, and those of all that are due.                      *)
LEMMA DueTasksAre ==
  ASSUME tasks \in [Names -> Entries]
  PROVE  /\ DueTasks[Len(TableOrder)] \in Seq(Names)
         /\ \A f \in Methods : Due(f) => tasks[f].fn \in Range(DueTasks[Len(TableOrder)])
  <1> PICK n \in Nat : n = Len(TableOrder)
    BY TableFields
  <1>1. IsDue(DueTasks, n)
    <2>1. DueTasks = CHOOSE g : IsDue(g, Len(TableOrder))
      BY DEF DueTasks, IsDue
    <2> QED BY <2>1, DueExists
  <1> PICK g : g = DueTasks
    OBVIOUS
  <1>2. g[0] = <<>>
    BY <1>1 DEF IsDue
  <1>3. \A i \in 1..n : g[i] = IF Due(TableOrder[i]) THEN Append(g[i - 1], tasks[TableOrder[i]].fn)
                               ELSE g[i - 1]
    <2> SUFFICES ASSUME NEW i \in 1..n
                 PROVE  g[i] = IF Due(TableOrder[i]) THEN Append(g[i - 1], tasks[TableOrder[i]].fn)
                               ELSE g[i - 1]
      OBVIOUS
    <2>1. i \in 0..n /\ i # 0
      OBVIOUS
    <2>2. \A j \in 0..n :
            g[j] = IF j = 0 THEN <<>>
                   ELSE IF Due(TableOrder[j]) THEN Append(g[j - 1], tasks[TableOrder[j]].fn)
                   ELSE g[j - 1]
      BY <1>1, Zenon DEF IsDue
    <2>3. g[i] = IF i = 0 THEN <<>>
                 ELSE IF Due(TableOrder[i]) THEN Append(g[i - 1], tasks[TableOrder[i]].fn)
                 ELSE g[i - 1]
      BY <2>1, <2>2, Zenon
    <2> QED BY <2>1, <2>3, Zenon
  <1>4. \A i \in 1..n : TableOrder[i] \in Names /\ tasks[TableOrder[i]].fn \in Names
    BY TableFields, EntryFields
  <1> DEFINE Good(i) == /\ g[i] \in Seq(Names)
                        /\ \A j \in 1..i : Due(TableOrder[j]) =>
                             \E k \in 1..Len(g[i]) : g[i][k] = tasks[TableOrder[j]].fn
             Bad == {i \in 0..n : ~Good(i)}
  <1>5. Good(0)
    BY <1>2
  <1>6. ASSUME NEW i \in 1..n, Good(i - 1) PROVE Good(i)
    <2> PICK q \in Seq(Names) : q = g[i - 1]
      BY <1>6
    <2>1. \A j \in 1..(i - 1) : Due(TableOrder[j]) =>
            \E k \in 1..Len(q) : q[k] = tasks[TableOrder[j]].fn
      BY <1>6
    <2>2. \A j \in 1..i : j = i \/ j \in 1..(i - 1)
      OBVIOUS
    <2>3. CASE ~Due(TableOrder[i])
      <3>1. g[i] = q
        BY <1>3, <2>3
      <3> QED BY <2>1, <2>2, <2>3, <3>1
    <2>4. CASE Due(TableOrder[i])
      <3> PICK x \in Names : x = tasks[TableOrder[i]].fn
        BY <1>4
      <3>1. g[i] = Append(q, x)
        BY <1>3, <2>4
      <3>2. /\ Append(q, x) \in Seq(Names) /\ Len(Append(q, x)) = Len(q) + 1
            /\ Append(q, x)[Len(q) + 1] = x
            /\ \A k \in 1..Len(q) : Append(q, x)[k] = q[k]
        OBVIOUS
      <3>3. Len(q) + 1 \in 1..(Len(q) + 1) /\ \A k \in 1..Len(q) : k \in 1..(Len(q) + 1)
        OBVIOUS
      <3>4. ASSUME NEW j \in 1..i, Due(TableOrder[j])
            PROVE  \E k \in 1..Len(g[i]) : g[i][k] = tasks[TableOrder[j]].fn
        <4>1. CASE j = i
          BY <3>1, <3>2, <3>3, <4>1
        <4>2. CASE j # i
          <5>1. PICK k \in 1..Len(q) : q[k] = tasks[TableOrder[j]].fn
            BY <2>1, <2>2, <3>4, <4>2
          <5> QED BY <3>1, <3>2, <3>3, <5>1
        <4> QED BY <4>1, <4>2
      <3> QED BY <3>1, <3>2, <3>4
    <2> QED BY <2>3, <2>4
  <1> HIDE DEF Good
  <1>7. Bad = {}
    <2> SUFFICES ASSUME Bad # {} PROVE FALSE
      OBVIOUS
    <2>1. Bad \subseteq Nat
      OBVIOUS
    <2> HIDE DEF Bad
    <2>2. PICK i \in Bad : \A k \in Bad : i <= k
      BY <2>1, LeastOf
    <2>3. i \in 0..n /\ ~Good(i)
      BY <2>2 DEF Bad
    <2>4. i # 0
      BY <1>5, <2>3
    <2>5. i \in 1..n /\ i - 1 \in 0..n /\ i - 1 \notin Bad
      BY <2>2, <2>3, <2>4
    <2>6. Good(i - 1)
      BY <2>5 DEF Bad
    <2> QED BY <1>6, <2>3, <2>5, <2>6
  <1>8. Good(n)
    BY <1>7
  <1>9. ASSUME NEW f \in Methods, Due(f) PROVE tasks[f].fn \in Range(g[n])
    <2>1. PICK j \in 1..n : TableOrder[j] = f
      BY TableFields
    <2>2. PICK k \in 1..Len(g[n]) : g[n][k] = tasks[f].fn
      BY <1>8, <1>9, <2>1 DEF Good
    <2>3. g[n] \in Seq(Names)
      BY <1>8 DEF Good
    <2> QED BY <2>2, <2>3 DEF Range
  <1> QED BY <1>8, <1>9 DEF Good

-----------------------------------------------------------------------------
(* The rounds. One more than the calls of the base class can be on: each   *)
(* but run's own is entered by such a call.                                *)

RoundsInv ==
  /\ TasksTyped
  /\ now \in 0..MaxTime /\ calls \in 0..MaxCalls /\ since \in [Methods -> 0..MaxTime]
  /\ stack \in Seq(Round) /\ Len(stack) <= calls + 1
  /\ pc \in {"market", "tasks", "call", "user", "ended"}
  /\ pc \in {"market", "tasks", "call"} => stack # <<>>
  /\ pc \in {"market", "tasks"} => stack[1].left = <<>>

LEMMA BoundsAre == MaxTime \in Nat /\ MaxCalls \in Nat
  BY TaskAssumption, Zenon

LEMMA RoundFields ==
  /\ NewRound \in Round /\ NewRound.left = <<>>
  /\ \A r \in Round : r.left \in Seq(Names) /\ r.at \in Names
  BY NamesAre DEF NewRound, Round

(* The innermost round changes, the others wait.                           *)
LEMMA InnermostIs ==
  ASSUME NEW q \in Seq(Round), q # <<>>, NEW r \in Round
  PROVE  /\ [q EXCEPT ![1] = r] \in Seq(Round) /\ Len([q EXCEPT ![1] = r]) = Len(q)
         /\ \A i \in 1..Len(q) : [q EXCEPT ![1] = r][i] = IF i = 1 THEN r ELSE q[i]
         /\ 1 \in 1..Len(q) /\ q[1] \in Round
  OBVIOUS

(* What the steps do to the rounds.                                        *)
LEMMA CollectRounds ==
  ASSUME RoundsInv, Collect
  PROVE  \E r \in Round :
           /\ stack' = [stack EXCEPT ![1] = r] /\ stack # <<>>
           /\ \A f \in Methods : Due(f) => tasks[f].fn \in Range(r.left)
  <1> PICK d : d = DueTasks[Len(TableOrder)]
    OBVIOUS
  <1>1. d \in Seq(Names) /\ \A f \in Methods : Due(f) => tasks[f].fn \in Range(d)
    BY DueTasksAre DEF RoundsInv, TasksTyped
  <1>2. stack' = [stack EXCEPT ![1].left = d]
    BY DEF Collect
  <1>3. stack \in Seq(Round) /\ stack # <<>> /\ stack[1] \in Round
    BY InnermostIs DEF RoundsInv, Collect
  <1> PICK a : a = stack[1].at
    OBVIOUS
  <1> DEFINE r == [left |-> d, at |-> a]
  <1>4. r \in Round /\ r.left = d
    BY <1>1, <1>3, RoundFields DEF Round
  <1>5. stack' = [stack EXCEPT ![1] = r]
    <2> PICK x \in Round : x = stack[1]
      BY <1>3
    <2>1. stack' = [stack EXCEPT ![1] = [x EXCEPT !.left = d]]
      BY <1>2, Zenon
    <2>2. [x EXCEPT !.left = d] = r
      BY DEF Round
    <2> QED BY <2>1, <2>2
  <1> HIDE DEF r
  <1> QED BY <1>1, <1>3, <1>4, <1>5

LEMMA BeginRounds ==
  ASSUME RoundsInv, Begin
  PROVE  \E r \in Round :
           /\ stack # <<>> /\ stack[1].left \in Seq(Names) /\ stack[1].left # <<>>
           /\ stack' = [stack EXCEPT ![1] = r]
           /\ r.left = Tail(stack[1].left) /\ r.at = Head(stack[1].left)
  <1>1. stack \in Seq(Round) /\ stack # <<>> /\ stack[1] \in Round
    BY InnermostIs DEF RoundsInv, Begin, Calling
  <1>2. stack[1].left \in Seq(Names) /\ stack[1].left # <<>>
    BY <1>1, RoundFields DEF Begin, Calling
  <1> PICK l \in Seq(Names) : l = stack[1].left /\ l # <<>>
    BY <1>2
  <1> DEFINE r == [left |-> Tail(l), at |-> Head(l)]
  <1>3. r \in Round
    BY DEF Round
  <1>4. stack' = [stack EXCEPT ![1] = [left |-> Tail(@.left), at |-> Head(l)]]
    BY DEF Begin
  <1>5. stack' = [stack EXCEPT ![1] = r]
    BY <1>1, <1>4
  <1> QED BY <1>1, <1>2, <1>3, <1>5

LEMMA FailRounds ==
  ASSUME RoundsInv, TaskFails
  PROVE  \E r \in Round : /\ stack # <<>> /\ stack' = [stack EXCEPT ![1] = r]
                          /\ r.left = stack[1].left
  <1>1. stack \in Seq(Round) /\ stack # <<>> /\ stack[1] \in Round
    BY InnermostIs DEF RoundsInv, TaskFails
  <1> PICK l \in Seq(Names) : l = stack[1].left
    BY <1>1, RoundFields
  <1> DEFINE r == [left |-> l, at |-> NoName]
  <1>2. r \in Round
    BY NamesAre DEF Round
  <1>3. stack' = [stack EXCEPT ![1].at = NoName]
    BY DEF TaskFails
  <1>4. stack' = [stack EXCEPT ![1] = r]
    <2> PICK x \in Round : x = stack[1]
      BY <1>1
    <2>1. stack' = [stack EXCEPT ![1] = [x EXCEPT !.at = NoName]]
      BY <1>3, Zenon
    <2>2. [x EXCEPT !.at = NoName] = r
      BY DEF Round
    <2> QED BY <2>1, <2>2
  <1> QED BY <1>1, <1>2, <1>4

LEMMA StepKeepsRounds == RateInv /\ RoundsInv /\ [Next]_vars => RoundsInv'
  <1> SUFFICES ASSUME RateInv, RoundsInv, [Next]_vars PROVE RoundsInv'
    OBVIOUS
  <1>1. TasksTyped'
    BY StepKeepsRate DEF RateInv
  <1>2. CASE UNCHANGED <<now, stack, pc, calls, since>>
    BY <1>1, <1>2 DEF RoundsInv
  <1>3. CASE TimePasses
    BY <1>1, <1>3, BoundsAre DEF TimePasses, RoundsInv
  <1>4. CASE TakeMarketData \/ MarketMoves
    BY <1>2, <1>4 DEF TakeMarketData, MarketMoves
  <1>5. CASE MarketDataTaken
    BY <1>1, <1>5 DEF MarketDataTaken, RoundsInv
  <1>6. CASE Collect
    <2>1. PICK r \in Round : stack' = [stack EXCEPT ![1] = r] /\ stack # <<>>
      BY <1>6, CollectRounds
    <2>2. stack' \in Seq(Round) /\ Len(stack') = Len(stack) /\ stack' # <<>>
      BY <2>1, InnermostIs DEF RoundsInv
    <2> QED BY <1>1, <1>6, <2>2 DEF Collect, RoundsInv
  <1>7. CASE Begin
    <2>1. PICK r \in Round : stack' = [stack EXCEPT ![1] = r] /\ stack # <<>>
      BY <1>7, BeginRounds
    <2>2. stack' \in Seq(Round) /\ Len(stack') = Len(stack) /\ stack' # <<>>
      BY <2>1, InnermostIs DEF RoundsInv
    <2>3. UNCHANGED <<now, calls, since>> /\ pc' \in {"user", "call"}
      BY <1>7 DEF Begin
    <2> QED BY <1>1, <2>2, <2>3 DEF RoundsInv
  <1>8. CASE RoundEnds
    <2>1. stack \in Seq(Round) /\ stack # <<>>
      BY <1>8 DEF RoundEnds, RoundsInv
    <2>2. Tail(stack) \in Seq(Round) /\ Len(Tail(stack)) = Len(stack) - 1 /\ Len(stack) \in Nat
      BY <2>1
    <2> QED BY <1>1, <1>8, <2>2 DEF RoundEnds, RoundsInv
  <1>9. CASE TickReturns
    <2>1. /\ <<NewRound>> \in Seq(Round) /\ Len(<<NewRound>>) = 1 /\ <<NewRound>> # <<>>
          /\ <<NewRound>>[1].left = <<>>
      BY RoundFields
    <2> QED BY <1>1, <1>9, <2>1 DEF TickReturns, RoundsInv
  <1>10. CASE LoopEnds \/ TaskReturns
    BY <1>1, <1>10 DEF LoopEnds, TaskReturns, RoundsInv
  <1>11. CASE TaskFails
    <2>1. PICK r \in Round : stack' = [stack EXCEPT ![1] = r] /\ stack # <<>>
      BY <1>11, FailRounds
    <2>2. stack' \in Seq(Round) /\ Len(stack') = Len(stack) /\ stack' # <<>>
      BY <2>1, InnermostIs DEF RoundsInv
    <2> QED BY <1>1, <1>11, <2>2 DEF TaskFails, RoundsInv
  <1>12. CASE BaseCall
    <2>1. calls' = calls + 1 /\ calls' \in 0..MaxCalls /\ now' = now
      <3>1. calls < MaxCalls /\ calls' = calls + 1 /\ now' = now
        BY <1>12, Zenon
           DEF BaseCall, Poll, Schedule, ScheduleTask, UnscheduleTask, EnableTask, CallMarket, Call
      <3> QED BY <3>1, BoundsAre DEF RoundsInv
    <2>2. CASE Poll
      <3>1. stack \in Seq(Round) /\ <<NewRound>> \in Seq(Round) /\ Len(<<NewRound>>) = 1
        BY RoundFields DEF RoundsInv
      <3>2. /\ <<NewRound>> \o stack \in Seq(Round)
            /\ Len(<<NewRound>> \o stack) = Len(stack) + 1
            /\ (<<NewRound>> \o stack)[1] = NewRound
        BY <3>1
      <3>3. Len(stack) \in Nat /\ stack' # <<>>
        BY <2>2, <3>1, <3>2 DEF Poll
      <3>4. stack'[1].left = <<>> /\ pc' = "market" /\ UNCHANGED since
        BY <2>2, <3>2, RoundFields DEF Poll
      <3>5. stack' \in Seq(Round) /\ Len(stack') <= calls' + 1
        BY <2>1, <2>2, <3>2, <3>3 DEF Poll, RoundsInv
      <3> QED BY <1>1, <2>1, <3>3, <3>4, <3>5 DEF RoundsInv
    <2>3. CASE Schedule
      <3>1. UNCHANGED <<stack, pc>> /\ since' \in [Methods -> 0..MaxTime]
        BY <2>3 DEF Schedule, ScheduleTask, RoundsInv
      <3> QED BY <1>1, <2>1, <3>1 DEF RoundsInv
    <2>4. CASE UNCHANGED <<stack, pc, since>>
      BY <1>1, <2>1, <2>4 DEF RoundsInv
    <2> QED BY <1>12, <2>2, <2>3, <2>4
         DEF BaseCall, UnscheduleTask, EnableTask, CallMarket
  <1>13. \/ TimePasses \/ MarketMoves \/ TakeMarketData \/ MarketDataTaken \/ Collect \/ Begin
         \/ RoundEnds \/ TickReturns \/ TaskReturns \/ LoopEnds \/ TaskFails \/ BaseCall
         \/ UNCHANGED <<now, stack, pc, calls, since>>
    BY DEF Next, Loop, vars
  <1> QED BY <1>2, <1>3, <1>4, <1>5, <1>6, <1>7, <1>8, <1>9, <1>10, <1>11, <1>12, <1>13

LEMMA RoundsAlways == Spec => [](RateInv /\ RoundsInv)
  <1>1. Init => RateInv /\ RoundsInv
    <2> SUFFICES ASSUME Init PROVE RateInv /\ RoundsInv
      OBVIOUS
    <2>1. RateInv
      BY RateStarts
    <2>2. stack = <<>> /\ pc = "user" /\ calls = 0 /\ now = 0 /\ since = [f \in Methods |-> 0]
      BY DEF Init
    <2> QED BY <2>1, <2>2, BoundsAre DEF RoundsInv, RateInv
  <1> QED BY <1>1, StepKeepsRate, StepKeepsRounds, PTL DEF Spec

(* The main loop is well typed, and the rounds inside one another are no   *)
(* more than the calls of poll_messages and run's own.                     *)
THEOREM LoopCorrect == Spec => []TypeOK
  <1>1. MarketInv /\ RateInv /\ RoundsInv => TypeOK
    <2> SUFFICES ASSUME MarketInv, RateInv, RoundsInv PROVE TypeOK
      OBVIOUS
    <2>1. MarketTypeOK
      <3>1. \A i \in DOMAIN channel : channel[i] \in [series: Series, bar: Bars]
        <4> PICK ch \in Seq(Message) : ch = channel
          BY DEF MarketInv, MarketTyped
        <4>1. \A i \in DOMAIN ch : ch[i] \in Message
          OBVIOUS
        <4> QED BY <4>1, Zenon DEF Message
      <3> QED BY <3>1 DEF MarketInv, MarketTyped, MarketTypeOK
    <2>2. Len(stack) <= Depth /\ \A i \in DOMAIN stack : stack[i] \in Round
      BY BoundsAre DEF RoundsInv, Depth
    <2> QED BY <2>1, <2>2 DEF TypeOK, RoundsInv, TasksTyped
  <1> QED BY <1>1, MarketAlways, RoundsAlways, PTL

-----------------------------------------------------------------------------
(* What happens to a task that is due.                                     *)

LEMMA InnermostKeeps ==
  ASSUME RoundsInv, NEW f \in Methods, InRound(f), NEW r \in Round, stack # <<>>,
         stack' = [stack EXCEPT ![1] = r], f \in Range(stack[1].left) => f \in Range(r.left)
  PROVE  InRound(f)'
  <1>1. stack \in Seq(Round)
    BY DEF RoundsInv
  <1>2. PICK i \in 1..Len(stack) : f \in Range(stack[i].left)
    BY <1>1 DEF InRound
  <1>3. stack' \in Seq(Round) /\ Len(stack') = Len(stack) /\ i \in DOMAIN stack'
    BY <1>1, <1>2, InnermostIs
  <1>4. stack'[i] = IF i = 1 THEN r ELSE stack[i]
    BY <1>1, <1>2, InnermostIs
  <1>5. f \in Range(stack'[i].left)
    BY <1>2, <1>4
  <1> QED BY <1>3, <1>5 DEF InRound

LEMMA HeadOrTail ==
  ASSUME NEW S, NEW q \in Seq(S), q # <<>>, NEW x \in Range(q)
  PROVE  x = Head(q) \/ x \in Range(Tail(q))
  <1>1. PICK i \in 1..Len(q) : x = q[i]
    BY DEF Range
  <1>2. CASE i = 1
    BY <1>1, <1>2
  <1>3. CASE i # 1
    <2>1. Tail(q) \in Seq(S) /\ i - 1 \in 1..Len(Tail(q)) /\ Tail(q)[i - 1] = q[i]
      BY <1>3
    <2>2. i - 1 \in DOMAIN Tail(q)
      BY <2>1
    <2> QED BY <1>1, <2>1, <2>2 DEF Range
  <1> QED BY <1>2, <1>3

LEMMA StepKeepsCollected ==
  ASSUME RoundsInv, [Next]_vars, NEW f \in Methods, InRound(f), ~InRound(f)'
  PROVE  Running(f)'
  <1>1. stack \in Seq(Round)
    BY DEF RoundsInv
  <1>2. PICK i \in 1..Len(stack) : f \in Range(stack[i].left)
    BY <1>1 DEF InRound
  <1>3. CASE UNCHANGED stack
    BY <1>3 DEF InRound
  <1>4. CASE Collect
    <2>1. PICK r \in Round : stack' = [stack EXCEPT ![1] = r] /\ stack # <<>>
      BY <1>4, CollectRounds
    <2>2. f \notin Range(stack[1].left)
      BY <1>4 DEF Collect, RoundsInv, Range
    <2> QED BY <2>1, <2>2, InnermostKeeps
  <1>5. CASE Begin
    <2>1. PICK r \in Round :
            /\ stack # <<>> /\ stack[1].left \in Seq(Names) /\ stack[1].left # <<>>
            /\ stack' = [stack EXCEPT ![1] = r]
            /\ r.left = Tail(stack[1].left) /\ r.at = Head(stack[1].left)
      BY <1>5, BeginRounds
    <2>2. f = Head(stack[1].left)
      BY <2>1, HeadOrTail, InnermostKeeps
    <2>3. pc' = "user"
      BY <1>5, <2>2 DEF Begin
    <2>4. stack' # <<>> /\ stack'[1] = r
      BY <1>1, <2>1, InnermostIs
    <2> QED BY <2>1, <2>2, <2>3, <2>4 DEF Running, User
  <1>6. CASE RoundEnds
    <2>1. stack' = Tail(stack) /\ stack # <<>> /\ stack[1].left = <<>>
      BY <1>6 DEF RoundEnds, RoundsInv
    <2>2. i # 1
      BY <1>2, <2>1 DEF Range
    <2>3. i - 1 \in 1..Len(stack') /\ stack'[i - 1] = stack[i] /\ stack' \in Seq(Round)
      BY <1>1, <2>1, <2>2
    <2>4. InRound(f)'
      BY <1>2, <2>3 DEF InRound
    <2> QED BY <2>4
  <1>7. CASE TickReturns
    BY <1>2, <1>7 DEF TickReturns, InTick
  <1>8. CASE TaskFails
    <2>1. PICK r \in Round : /\ stack # <<>> /\ stack' = [stack EXCEPT ![1] = r]
                             /\ r.left = stack[1].left
      BY <1>8, FailRounds
    <2> QED BY <2>1, InnermostKeeps
  <1>9. CASE Poll
    <2>1. stack' = <<NewRound>> \o stack /\ <<NewRound>> \in Seq(Round) /\ Len(<<NewRound>>) = 1
      BY <1>9, RoundFields DEF Poll
    <2>2. i + 1 \in 1..Len(stack') /\ stack'[i + 1] = stack[i] /\ stack' \in Seq(Round)
      BY <1>1, <2>1
    <2>3. InRound(f)'
      BY <1>2, <2>2 DEF InRound
    <2> QED BY <2>3
  <1>10. \/ Collect \/ Begin \/ RoundEnds \/ TickReturns \/ TaskFails \/ Poll
         \/ UNCHANGED stack
    BY DEF Next, vars, TimePasses, MarketMoves, Loop, TakeMarketData, MarketDataTaken, TaskReturns,
       LoopEnds, BaseCall, Schedule, ScheduleTask, UnscheduleTask, EnableTask, CallMarket
  <1> QED BY <1>3, <1>4, <1>5, <1>6, <1>7, <1>8, <1>9, <1>10

LEMMA StepKeepsOverdue ==
  ASSUME RateInv, RoundsInv, [Next]_vars, NEW f \in Methods, Overdue(f), ~Overdue(f)'
  PROVE  InRound(f)' \/ calls' = calls + 1
  <1>1. f \in Names /\ tasks[f].fn = f /\ tasks[f] # NoEntry
    BY NamesAre DEF Overdue
  <1>2. CASE UNCHANGED <<now, tasks>>
    BY <1>2 DEF Overdue
  <1>3. CASE TimePasses
    <2>1. tasks[f].next \in Nat /\ now \in Nat
      BY <1>1, EntryFields DEF RateInv, TasksTyped
    <2>2. tasks' = tasks /\ now' = now + 1
      BY <1>3 DEF TimePasses
    <2>3. now' >= tasks[f].next
      BY <2>1, <2>2 DEF Overdue
    <2>4. Overdue(f)'
      BY <2>2, <2>3 DEF Overdue
    <2> QED BY <2>4
  <1>4. CASE Collect
    <2>1. Due(f)
      BY <1>1 DEF Overdue, Due, Scheduled
    <2>2. PICK r \in Round : /\ stack' = [stack EXCEPT ![1] = r] /\ stack # <<>>
                             /\ f \in Range(r.left)
      BY <1>1, <1>4, <2>1, CollectRounds
    <2>3. stack' \in Seq(Round) /\ stack' # <<>> /\ stack'[1] = r
      BY <2>2, InnermostIs DEF RoundsInv
    <2>4. 1 \in DOMAIN stack'
      BY <2>3
    <2> QED BY <2>2, <2>3, <2>4 DEF InRound
  <1>5. CASE Begin
    <2> PICK n : n = Head(stack[1].left)
      OBVIOUS
    <2>1. tasks' = LookedUp(n) /\ now' = now
      BY <1>5 DEF Begin
    <2>2. tasks'[f] = tasks[f]
      BY <1>1, <2>1 DEF LookedUp, Scheduled, RateInv, TasksTyped
    <2> QED BY <2>1, <2>2 DEF Overdue
  <1>6. CASE BaseCall
    BY <1>6, Zenon
       DEF BaseCall, Poll, Schedule, ScheduleTask, UnscheduleTask, EnableTask, CallMarket, Call
  <1>7. TimePasses \/ Collect \/ Begin \/ BaseCall \/ UNCHANGED <<now, tasks>>
    BY DEF Next, vars, MarketMoves, Loop, TakeMarketData, MarketDataTaken, RoundEnds, TickReturns,
       TaskReturns, LoopEnds, TaskFails
  <1> QED BY <1>2, <1>3, <1>4, <1>5, <1>6, <1>7

(* A task that was collected leaves its round only to be called, whatever  *)
(* the tasks before it do: the rounds inside one another each have their   *)
(* own list, and neither an exception nor a poll takes anything from it.   *)
THEOREM CollectedNotDropped == Spec => CollectedKept
  <1>1. RoundsInv /\ [Next]_vars =>
          [\A f \in Methods : InRound(f) /\ ~InRound(f)' => Running(f)']_vars
    BY StepKeepsCollected
  <1> QED BY <1>1, RoundsAlways, PTL DEF Spec, CollectedKept

(* A task that is due stays due until a round collects it or the           *)
(* strategy's own code unschedules, pauses or reschedules it.              *)
THEOREM OverdueNotForgotten == Spec => OverdueKept
  <1>1. RateInv /\ RoundsInv /\ [Next]_vars =>
          [\A f \in Methods : Overdue(f) /\ ~Overdue(f)' => InRound(f)' \/ calls' = calls + 1]_vars
    BY StepKeepsOverdue
  <1> QED BY <1>1, RoundsAlways, PTL DEF Spec, OverdueKept
=============================================================================
